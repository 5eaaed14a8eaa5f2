---------------------------- MODULE ParserLemmas ----------------------------
(***************************************************************************)
(* Facts about PacketParser, for every value of its constants: sequences,     *)
(* induction and recursion over numbers, the arithmetic of bytes and of       *)
(* running checksums, what a configuration takes for a packet, the packets of *)
(* a stream (FramesFrom) and what of them stays when the stream grows, and     *)
(* what each iteration of the parser finds.  ProtocolProof puts them together. *)
(***************************************************************************)
EXTENDS PacketParser, FiniteSetTheorems, SequenceTheorems, TLAPS

-----------------------------------------------------------------------------
(* Pieces of sequences, least numbers, induction.                          *)

\* Sequences of one length that agree everywhere are one.
LEMMA SameSeq ==
  ASSUME NEW S, NEW s \in Seq(S), NEW t \in Seq(S), Len(s) = Len(t),
         \A i \in 1 .. Len(s) : s[i] = t[i]
  PROVE  s = t
BY SeqEqual

\* Type, length and elements of a piece of a sequence.
LEMMA Sub ==
  ASSUME NEW S, NEW s \in Seq(S), NEW a \in Nat \ {0}, NEW b \in Int, b <= Len(s)
  PROVE  /\ SubSeq(s, a, b) \in Seq(S)
         /\ Len(SubSeq(s, a, b)) = IF a <= b THEN b - a + 1 ELSE 0
         /\ \A i \in 1 .. (b - a + 1) : SubSeq(s, a, b)[i] = s[a + i - 1]
<1>1. \A i \in a .. b : i \in 1 .. Len(s)
  BY LenProperties
<1>2. \A i \in a .. b : s[i] \in S
  BY <1>1, ElementOfSeq
<1> QED
  BY <1>2, SubSeqProperties

\* Type, length and elements of what is left of a sequence.
LEMMA Dropped ==
  ASSUME NEW S, NEW s \in Seq(S), NEW n \in 0 .. Len(s)
  PROVE  /\ Drop(s, n) \in Seq(S) /\ Len(Drop(s, n)) = Len(s) - n
         /\ \A i \in 1 .. (Len(s) - n) : Drop(s, n)[i] = s[n + i]
<1>1. Len(s) \in Nat /\ n \in Nat
  BY LenProperties
<1>2. \A i \in 1 .. (Len(s) - n) : n + 1 + i - 1 = n + i
  BY <1>1
<1> QED
  BY <1>1, <1>2, Sub DEF Drop

\* A set of numbers has a least one.
LEMMA LeastExists ==
  ASSUME NEW S, S \subseteq Nat, S # {}
  PROVE  \E m \in S : \A v \in S : m <= v
<1> DEFINE T == {0..m : m \in S}
           R == StrictSubsetOrdering(Nat)
           F == FiniteSubsetsOf(Nat)
<1>1. \A X \in T : X \in F
  <2> SUFFICES ASSUME NEW m \in S PROVE 0..m \in F
    OBVIOUS
  <2> HIDE DEF T, R
  <2>1. m \in Nat
    OBVIOUS
  <2>2. \A k \in 0..m : k \in Nat
    BY <2>1
  <2>3. IsFiniteSet(0..m)
    BY <2>1, FS_Interval
  <2>4. QED
    BY <2>2, <2>3 DEF FiniteSubsetsOf
<1>2. T \subseteq F /\ T # {}
  BY <1>1
<1>3. IsWellFoundedOn(R, F)
  BY FS_StrictSubsetOrderingWellFounded
<1>4. PICK X \in T : \A Y \in T : ~ (<<Y, X>> \in R)
  <2> HIDE DEF T, R, F
  <2> QED
    BY <1>2, <1>3, WFMin
<1>5. PICK m \in S : X = 0..m
  OBVIOUS
<1>6. \A v \in S : ~(v < m)
  <2> SUFFICES ASSUME NEW v \in S, v < m PROVE FALSE
    OBVIOUS
  <2>1. m \in Nat /\ v \in Nat /\ 0..v \in T
    OBVIOUS
  <2> HIDE DEF T
  <2>2. \A k \in 0..v : k \in 0..m /\ k \in Nat
    BY <2>1
  <2>3. m \in 0..m /\ m \notin 0..v /\ \A k \in 0..m : k \in Nat
    BY <2>1
  <2>4. <<0..v, 0..m>> \in (SUBSET Nat) \X (SUBSET Nat) /\ 0..v \subseteq 0..m /\ 0..v # 0..m
    BY <2>2, <2>3
  <2>5. <<0..v, 0..m>> \in R
    BY <2>4 DEF StrictSubsetOrdering
  <2> HIDE DEF R
  <2>6. <<0..v, X>> \in R
    BY <1>5, <2>5
  <2>7. QED
    BY <1>4, <2>1, <2>6
<1> HIDE DEF T, R, F
<1>7. ASSUME NEW v \in S PROVE m <= v
  <2>1. m \in Nat /\ v \in Nat /\ ~(v < m)
    BY <1>6, <1>7
  <2>2. QED
    BY <2>1
<1>8. QED
  BY <1>7

\* A set of numbers that is not empty has its Min in it.
LEMMA MinIs ==
  ASSUME NEW T \in SUBSET Nat, T # {}
  PROVE  Min(T) \in T /\ Min(T) \in Nat /\ \A x \in T : Min(T) <= x
BY LeastExists DEF Min

\* Induction, for a set.
LEMMA NatIsInduced ==
  ASSUME NEW S, 0 \in S, \A n \in Nat : n \in S => n + 1 \in S
  PROVE  \A n \in Nat : n \in S
<1> SUFFICES ASSUME NEW n \in Nat, n \notin S PROVE FALSE
  OBVIOUS
<1> DEFINE T == Nat \ S
<1>1. T \in SUBSET Nat /\ T # {}
  OBVIOUS
<1>2. PICK x \in T : \A y \in T : x <= y
  BY <1>1, LeastExists
<1>3. x # 0 /\ x \in Nat
  BY <1>2
<1>4. x - 1 \in Nat /\ x - 1 + 1 = x /\ ~ (x <= x - 1)
  BY <1>3, SMT
<1>5. x - 1 \notin T
  BY <1>2, <1>4
<1> QED
  BY <1>2, <1>4, <1>5

-----------------------------------------------------------------------------
(* Recursion.  On a domain with a measure, a function is defined by its    *)
(* value at a smaller element.                                             *)

Unfolds(f, D, stop, base, op, onward) ==
  \A x \in D : f[x] = IF x \in stop THEN base[x] ELSE op[<<x, f[onward[x]]>>]

\* onward goes to elements of a smaller measure.
Decreases(m, D, stop, onward) ==
  /\ m \in [D -> Nat] /\ onward \in [D -> D]
  /\ \A x \in D : x \notin stop => m[onward[x]] < m[x]

\* A recursion whose measure falls has a solution.
LEMMA Recursion ==
  ASSUME NEW D, NEW V, NEW m, NEW stop, NEW onward, Decreases(m, D, stop, onward),
         NEW base \in [D -> V], NEW op \in [D \X V -> V]
  PROVE  \E f \in [D -> V] : Unfolds(f, D, stop, base, op, onward)
<1> DEFINE Eq(f, x) == f[x] = IF x \in stop THEN base[x] ELSE op[<<x, f[onward[x]]>>]
           Upto(f, n) == \A x \in D : m[x] < n => Eq(f, x)
           Has == {n \in Nat : \E f \in [D -> V] : Upto(f, n)}
           One == {n \in Nat : \A f, h \in [D -> V] : Upto(f, n) /\ Upto(h, n) =>
                                   \A x \in D : m[x] < n => f[x] = h[x]}
<1>0. /\ m \in [D -> Nat] /\ onward \in [D -> D]
      /\ \A x \in D : x \notin stop => m[onward[x]] < m[x]
  BY DEF Decreases
<1>1. \A n \in Nat : n \in Has
  <2>1. 0 \in Has
    <3>1. Upto(base, 0)
      BY <1>0
    <3> QED
      BY <3>1
  <2>2. ASSUME NEW n \in Nat, n \in Has PROVE n + 1 \in Has
    <3>1. PICK f \in [D -> V] : Upto(f, n)
      BY <2>2
    <3> DEFINE g == [x \in D |-> IF x \in stop THEN base[x] ELSE op[<<x, f[onward[x]]>>]]
    <3>2. g \in [D -> V]
      BY <1>0
    <3>3. ASSUME NEW x \in D, m[x] < n + 1 PROVE Eq(g, x)
      <4>1. CASE x \in stop
        BY <4>1
      <4>2. CASE x \notin stop
        <5>1. onward[x] \in D /\ m[onward[x]] < n
          BY <1>0, <3>3, <4>2
        <5>2. f[onward[x]] = g[onward[x]]
          BY <3>1, <5>1
        <5> QED
          BY <4>2, <5>2
      <4> QED
        BY <4>1, <4>2
    <3>4. Upto(g, n + 1)
      BY <3>3
    <3> HIDE DEF g, Upto
    <3> QED
      BY <3>2, <3>4
  <2> HIDE DEF Has
  <2> QED
    BY <2>1, <2>2, NatIsInduced
<1>2. \A n \in Nat : n \in One
  <2>1. 0 \in One
    BY <1>0
  <2>2. ASSUME NEW n \in Nat, n \in One PROVE n + 1 \in One
    <3> SUFFICES ASSUME NEW f \in [D -> V], NEW h \in [D -> V], Upto(f, n + 1), Upto(h, n + 1),
                        NEW x \in D, m[x] < n + 1
                 PROVE  f[x] = h[x]
      OBVIOUS
    <3>1. Upto(f, n) /\ Upto(h, n)
      BY <1>0
    <3>2. Eq(f, x) /\ Eq(h, x)
      OBVIOUS
    <3>3. CASE x \in stop
      BY <3>2, <3>3
    <3>4. CASE x \notin stop
      <4>1. onward[x] \in D /\ m[onward[x]] < n
        BY <1>0, <3>4
      <4>2. f[onward[x]] = h[onward[x]]
        BY <2>2, <3>1, <4>1
      <4> QED
        BY <3>2, <3>4, <4>2
    <3> QED
      BY <3>3, <3>4
  <2> HIDE DEF One
  <2> QED
    BY <2>1, <2>2, NatIsInduced
<1> DEFINE Some(n) == CHOOSE f \in [D -> V] : Upto(f, n)
           F == [x \in D |-> Some(m[x] + 1)[x]]
<1>3. \A n \in Nat : Some(n) \in [D -> V] /\ Upto(Some(n), n)
  BY <1>1
<1> HIDE DEF Some
<1>4. F \in [D -> V]
  BY <1>0, <1>3
<1>5. ASSUME NEW x \in D PROVE Eq(F, x)
  <2> DEFINE f == Some(m[x] + 1)
  <2>1. f \in [D -> V] /\ Upto(f, m[x] + 1) /\ m[x] + 1 \in Nat
    BY <1>0, <1>3
  <2>2. Eq(f, x) /\ F[x] = f[x]
    BY <1>0, <2>1
  <2>3. CASE x \in stop
    BY <2>2, <2>3
  <2>4. CASE x \notin stop
    <3> DEFINE y == onward[x]
               h == Some(m[y] + 1)
    <3>1. y \in D /\ m[y] + 1 \in Nat /\ m[y] < m[x] /\ F[y] = h[y]
      BY <1>0, <2>4
    <3>2. h \in [D -> V] /\ Upto(h, m[y] + 1)
      BY <1>3, <3>1
    <3>3. Upto(f, m[y] + 1)
      BY <1>0, <2>1, <3>1
    <3>4. f[y] = h[y]
      <4> HIDE DEF f, h, Upto
      <4>0. m[y] < m[y] + 1
        BY <1>0, <3>1
      <4>1. \A g, k \in [D -> V] : Upto(g, m[y] + 1) /\ Upto(k, m[y] + 1) => g[y] = k[y]
        <5>1. m[y] + 1 \in One
          BY <1>2, <3>1
        <5> QED
          BY <3>1, <4>0, <5>1 DEF One
      <4> QED
        BY <4>1, <2>1, <3>1, <3>2, <3>3
    <3> QED
      BY <2>2, <2>4, <3>1, <3>4
  <2> QED
    BY <2>3, <2>4
<1> QED
  BY <1>4, <1>5 DEF Unfolds

\* What such a function gives.
Inherits(f, D, V, stop, onward) ==
  \A x \in D : /\ x \in stop => f[x] \in V
               /\ x \notin stop /\ f[onward[x]] \in V => f[x] \in V

\* ... and what the base has and each step hands on, every value has.
LEMMA Recursively ==
  ASSUME NEW D, NEW V, NEW m, NEW stop, NEW onward, Decreases(m, D, stop, onward),
         NEW f, Inherits(f, D, V, stop, onward)
  PROVE  \A x \in D : f[x] \in V
<1>0. /\ m \in [D -> Nat] /\ onward \in [D -> D]
      /\ \A x \in D : x \notin stop => m[onward[x]] < m[x]
  BY DEF Decreases
<1>a. \A x \in D : /\ x \in stop => f[x] \in V
                   /\ x \notin stop /\ f[onward[x]] \in V => f[x] \in V
  BY DEF Inherits
<1> DEFINE Has == {n \in Nat : \A x \in D : m[x] < n => f[x] \in V}
<1>1. 0 \in Has
  BY <1>0
<1>2. ASSUME NEW n \in Nat, n \in Has PROVE n + 1 \in Has
  <2> SUFFICES ASSUME NEW x \in D, m[x] < n + 1 PROVE f[x] \in V
    OBVIOUS
  <2>1. x \notin stop => onward[x] \in D /\ m[onward[x]] < n
    BY <1>0
  <2>2. x \notin stop => f[onward[x]] \in V
    BY <1>2, <2>1
  <2> QED
    BY <1>a, <2>2
<1> HIDE DEF Has
<1>3. \A n \in Nat : n \in Has
  BY <1>1, <1>2, NatIsInduced
<1> SUFFICES ASSUME NEW x \in D PROVE f[x] \in V
  OBVIOUS
<1>4. m[x] + 1 \in Has /\ m[x] < m[x] + 1
  BY <1>0, <1>3
<1> QED
  BY <1>4 DEF Has

-----------------------------------------------------------------------------
(* Arithmetic of bytes.                                                     *)

\* The remainder is the one of a division with remainder.
LEMMA Quotients ==
  ASSUME NEW M \in Nat \ {0}, NEW q \in Int, NEW r \in 0 .. (M - 1)
  PROVE  (M * q + r) % M = r
OBVIOUS

\* Every whole number is a multiple and a remainder.
LEMMA Remainder ==
  ASSUME NEW M \in Nat \ {0}, NEW a \in Int
  PROVE  a % M \in 0 .. (M - 1) /\ a \div M \in Int /\ a = M * (a \div M) + (a % M)
OBVIOUS

\* A sum may be reduced to a byte before or after.
LEMMA WrapSum ==
  ASSUME NEW a \in Int, NEW b \in Int
  PROVE  Wrap(Wrap(a) + b) = Wrap(a + b) /\ Wrap(a) \in Nat
<1> DEFINE M == ByteSize
           q == a \div M
           c == (a % M) + b
           p == c \div M
           r == c % M
<1>1. M \in Nat \ {0}
  BY ByteAssumption
<1> HIDE DEF M
<1>2. q \in Int /\ a % M \in 0 .. (M - 1) /\ a = M * q + (a % M)
  BY <1>1, Remainder
<1>3. c \in Int
  BY <1>2
<1>4. p \in Int /\ r \in 0 .. (M - 1) /\ c = M * p + r
  BY <1>1, <1>3, Remainder
<1> HIDE DEF q, c, p, r
<1>5. a + b = M * (q + p) + r
  <2>1. a + b = M * q + c
    BY <1>1, <1>2 DEF c
  <2>2. M * (q + p) = M * q + M * p
    BY <1>1, <1>2, <1>4
  <2> QED
    BY <1>1, <1>2, <1>4, <2>1, <2>2
<1>6. (a + b) % M = r
  <2>1. q + p \in Int
    BY <1>2, <1>4
  <2>2. (M * (q + p) + r) % M = r
    BY <1>1, <1>4, <2>1, Quotients
  <2> QED
    BY <1>5, <2>2
<1> QED
  BY <1>2, <1>6 DEF Wrap, M, c, r

\* The half and the lowest bit of a number given by them.
LEMMA Halves ==
  ASSUME NEW u \in Nat, NEW v \in {0, 1}
  PROVE  (2 * u + v) \div 2 = u /\ (2 * u + v) % 2 = v
OBVIOUS

\* Every number is given by its half and its lowest bit.
LEMMA Halved ==
  ASSUME NEW n \in Nat
  PROVE  n \div 2 \in Nat /\ n % 2 \in {0, 1} /\ n = 2 * (n \div 2) + (n % 2) /\ n \div 2 <= n
         /\ n # 0 => n \div 2 < n
OBVIOUS

\* The recursive function inside Xor has a value, which follows its rule.
LEMMA XorUnfolds ==
  /\ \A a, b \in Nat : Xor(a, b) \in Nat
  /\ \A a, b \in Nat : Xor(a, b) = IF a = 0 /\ b = 0 THEN 0
                                   ELSE 2 * Xor(a \div 2, b \div 2) + ((a + b) % 2)
<1> DEFINE D == Nat \X Nat
           Rule(f, p) == IF p = <<0, 0>> THEN 0
                         ELSE 2 * f[<<p[1] \div 2, p[2] \div 2>>] + ((p[1] + p[2]) % 2)
           X == CHOOSE f : f = [p \in D |-> Rule(f, p)]
           m == [p \in D |-> p[1] + p[2]]
           stop == {<<0, 0>>}
           onward == [p \in D |-> <<p[1] \div 2, p[2] \div 2>>]
           base == [p \in D |-> 0]
           op == [q \in D \X Nat |-> 2 * q[2] + ((q[1][1] + q[1][2]) % 2)]
<1>1. m \in [D -> Nat] /\ onward \in [D -> D] /\ base \in [D -> Nat] /\ op \in [D \X Nat -> Nat]
  <2>1. m \in [D -> Nat] /\ base \in [D -> Nat]
    OBVIOUS
  <2>2. onward \in [D -> D]
    BY Halved
  <2>3. \A q \in D \X Nat : 2 * q[2] + ((q[1][1] + q[1][2]) % 2) \in Nat
    <3> SUFFICES ASSUME NEW a \in Nat, NEW b \in Nat, NEW c \in Nat
                 PROVE  2 * c + ((a + b) % 2) \in Nat
      OBVIOUS
    <3>1. (a + b) % 2 \in {0, 1}
      BY Halved
    <3> QED
      BY <3>1
  <2> QED
    BY <2>1, <2>2, <2>3
<1>2. Decreases(m, D, stop, onward)
  <2> SUFFICES ASSUME NEW a \in Nat, NEW b \in Nat, <<a, b>> # <<0, 0>>
               PROVE  (a \div 2) + (b \div 2) < a + b
    BY <1>1, Halved DEF Decreases
  <2>1. a # 0 \/ b # 0
    OBVIOUS
  <2> QED
    BY <2>1, Halved
<1>3. \A p \in D : /\ onward[p] = <<p[1] \div 2, p[2] \div 2>> /\ onward[p] \in D
                   /\ \A v \in Nat : op[<<p, v>>] = 2 * v + ((p[1] + p[2]) % 2)
  BY <1>1
<1>4. PICK f \in [D -> Nat] : Unfolds(f, D, stop, base, op, onward)
  <2> HIDE DEF D, m, stop, onward, base, op
  <2> QED
    BY <1>1, <1>2, Recursion
<1>5. f = [p \in D |-> Rule(f, p)]
  <2>1. \A p \in D : f[p] = Rule(f, p)
    BY <1>3, <1>4 DEF Unfolds
  <2> QED
    BY <2>1
<1>6. X = [p \in D |-> Rule(X, p)]
  <2> HIDE DEF Rule, D
  <2> QED
    BY <1>5
<1>7. \A p \in D : X[p] = Rule(X, p)
  <2> HIDE DEF Rule, D, X
  <2> QED
    BY <1>6
<1>8. \A a, b \in Nat : Xor(a, b) = X[<<a, b>>]
  BY DEF Xor
<1> HIDE DEF X
<1>9. \A a, b \in Nat : X[<<a, b>>] = IF a = 0 /\ b = 0 THEN 0
                                       ELSE 2 * X[<<a \div 2, b \div 2>>] + ((a + b) % 2)
  <2> SUFFICES ASSUME NEW a \in Nat, NEW b \in Nat
               PROVE  X[<<a, b>>] = IF a = 0 /\ b = 0 THEN 0
                                    ELSE 2 * X[<<a \div 2, b \div 2>>] + ((a + b) % 2)
    OBVIOUS
  <2>1. X[<<a, b>>] = Rule(X, <<a, b>>)
    BY <1>7
  <2>2. <<a, b>>[1] = a /\ <<a, b>>[2] = b /\ (<<a, b>> = <<0, 0>> <=> a = 0 /\ b = 0)
    OBVIOUS
  <2> QED
    BY <2>1, <2>2, Zenon
<1>10. \A p \in D : X[p] \in Nat
  <2>1. \A p \in D : p \in stop => X[p] \in Nat
    BY <1>7
  <2>2. \A p \in D : p \notin stop /\ X[onward[p]] \in Nat => X[p] \in Nat
    <3> SUFFICES ASSUME NEW a \in Nat, NEW b \in Nat, <<a, b>> # <<0, 0>>,
                        X[<<a \div 2, b \div 2>>] \in Nat
                 PROVE  X[<<a, b>>] \in Nat
      BY <1>3
    <3>1. (a + b) % 2 \in {0, 1}
      BY Halved
    <3>2. X[<<a, b>>] = 2 * X[<<a \div 2, b \div 2>>] + ((a + b) % 2)
      BY <1>9
    <3> QED
      BY <3>1, <3>2
  <2>3. Inherits(X, D, Nat, stop, onward)
    BY <2>1, <2>2 DEF Inherits
  <2> HIDE DEF D, m, stop, onward
  <2> QED
    BY <1>2, <2>3, Recursively
<1>11. \A a, b \in Nat : <<a, b>> \in D /\ a \div 2 \in Nat /\ b \div 2 \in Nat
  BY Halved
<1> HIDE DEF D
<1>12. \A a, b \in Nat : Xor(a, b) \in Nat
  BY <1>8, <1>10, <1>11
<1> SUFFICES ASSUME NEW a \in Nat, NEW b \in Nat
             PROVE  Xor(a, b) = IF a = 0 /\ b = 0 THEN 0
                                ELSE 2 * Xor(a \div 2, b \div 2) + ((a + b) % 2)
  BY <1>12
<1>13. a \div 2 \in Nat /\ b \div 2 \in Nat
  BY Halved
<1>14. Xor(a, b) = X[<<a, b>>] /\ Xor(a \div 2, b \div 2) = X[<<a \div 2, b \div 2>>]
  BY <1>8, <1>13
<1> QED
  BY <1>9, <1>14

\* One bit of an exclusive or.
LEMMA XorStep ==
  ASSUME NEW a \in Nat, NEW b \in Nat
  PROVE  /\ Xor(a, b) \in Nat
         /\ Xor(a, b) = 2 * Xor(a \div 2, b \div 2) + ((a + b) % 2)
         /\ Xor(a, b) \div 2 = Xor(a \div 2, b \div 2)
         /\ Xor(a, b) % 2 = (a + b) % 2
         /\ a = 0 /\ b = 0 => Xor(a, b) = 0
<1>1. a \div 2 \in Nat /\ b \div 2 \in Nat /\ (a + b) % 2 \in {0, 1}
  BY Halved
<1>2. Xor(a \div 2, b \div 2) \in Nat /\ Xor(a, b) \in Nat
  BY <1>1, XorUnfolds
<1>3. Xor(a, b) = IF a = 0 /\ b = 0 THEN 0
                  ELSE 2 * Xor(a \div 2, b \div 2) + ((a + b) % 2)
  BY XorUnfolds
<1>4. a = 0 /\ b = 0 => a \div 2 = 0 /\ b \div 2 = 0 /\ (a + b) % 2 = 0
  OBVIOUS
<1>5. Xor(a, b) = 2 * Xor(a \div 2, b \div 2) + ((a + b) % 2)
  BY <1>2, <1>3, <1>4
<1> QED
  BY <1>1, <1>2, <1>3, <1>5, Halves

\* The order of the bytes does not matter.
LEMMA XorSwap ==
  \A a, b, c \in Nat : Xor(Xor(a, b), c) = Xor(Xor(a, c), b)
<1> DEFINE Has == {n \in Nat : \A a, b, c \in Nat : a + b + c < n =>
                                   Xor(Xor(a, b), c) = Xor(Xor(a, c), b)}
<1>1. 0 \in Has
  OBVIOUS
<1>2. ASSUME NEW n \in Nat, n \in Has PROVE n + 1 \in Has
  <2> SUFFICES ASSUME NEW a \in Nat, NEW b \in Nat, NEW c \in Nat, a + b + c < n + 1
               PROVE  Xor(Xor(a, b), c) = Xor(Xor(a, c), b)
    OBVIOUS
  <2> DEFINE x == a \div 2
             y == b \div 2
             z == c \div 2
  <2>1. x \in Nat /\ y \in Nat /\ z \in Nat
    BY Halved
  <2>2. CASE a = 0 /\ b = 0 /\ c = 0
    BY <2>2
  <2>3. CASE ~ (a = 0 /\ b = 0 /\ c = 0)
    <3>1. x + y + z < n
      BY <2>3, Halved
    <3> HIDE DEF x, y, z
    <3>2. Xor(Xor(x, y), z) = Xor(Xor(x, z), y)
      BY <1>2, <2>1, <3>1
    <3>3. /\ Xor(a, b) \in Nat /\ Xor(a, b) \div 2 = Xor(x, y) /\ Xor(a, b) % 2 = (a + b) % 2
          /\ Xor(a, c) \in Nat /\ Xor(a, c) \div 2 = Xor(x, z) /\ Xor(a, c) % 2 = (a + c) % 2
      BY XorStep DEF x, y, z
    <3>4. /\ Xor(Xor(a, b), c) = 2 * Xor(Xor(x, y), z) + ((Xor(a, b) + c) % 2)
          /\ Xor(Xor(a, c), b) = 2 * Xor(Xor(x, z), y) + ((Xor(a, c) + b) % 2)
      <4>1. /\ Xor(Xor(a, b), c) = 2 * Xor(Xor(a, b) \div 2, c \div 2) + ((Xor(a, b) + c) % 2)
            /\ Xor(Xor(a, c), b) = 2 * Xor(Xor(a, c) \div 2, b \div 2) + ((Xor(a, c) + b) % 2)
        BY <3>3, XorStep
      <4> QED
        BY <3>3, <4>1 DEF y, z
    <3>5. (Xor(a, b) + c) % 2 = (Xor(a, c) + b) % 2
      <4> DEFINE u == Xor(a, b)
                 w == Xor(a, c)
      <4>1. u \in Nat /\ w \in Nat /\ u % 2 = (a + b) % 2 /\ w % 2 = (a + c) % 2
        BY <3>3
      <4> HIDE DEF u, w
      <4>2. (u + c) % 2 = (w + b) % 2
        BY <4>1
      <4> QED
        BY <4>2 DEF u, w
    <3> QED
      BY <3>2, <3>4, <3>5
  <2> QED
    BY <2>2, <2>3
<1> HIDE DEF Has
<1>3. \A n \in Nat : n \in Has
  BY <1>1, <1>2, NatIsInduced
<1> SUFFICES ASSUME NEW a \in Nat, NEW b \in Nat, NEW c \in Nat
             PROVE  Xor(Xor(a, b), c) = Xor(Xor(a, c), b)
  OBVIOUS
<1>4. a + b + c + 1 \in Has /\ a + b + c < a + b + c + 1
  BY <1>3
<1> QED
  BY <1>4 DEF Has

\* A byte that enters twice is gone.
LEMMA XorCancels ==
  \A a, b \in Nat : Xor(Xor(a, b), b) = a
<1> DEFINE Has == {n \in Nat : \A a, b \in Nat : a + b < n => Xor(Xor(a, b), b) = a}
<1>1. 0 \in Has
  OBVIOUS
<1>2. ASSUME NEW n \in Nat, n \in Has PROVE n + 1 \in Has
  <2> SUFFICES ASSUME NEW a \in Nat, NEW b \in Nat, a + b < n + 1
               PROVE  Xor(Xor(a, b), b) = a
    OBVIOUS
  <2> DEFINE x == a \div 2
             y == b \div 2
             u == Xor(a, b)
  <2>1. x \in Nat /\ y \in Nat
    BY Halved
  <2>2. CASE a = 0 /\ b = 0
    <3>1. Xor(a, b) = 0
      BY <2>2, XorStep
    <3> QED
      BY <2>2, <3>1
  <2>3. CASE ~ (a = 0 /\ b = 0)
    <3>1. x + y < n
      BY <2>3, Halved
    <3>2. u \in Nat /\ u \div 2 = Xor(x, y) /\ u % 2 = (a + b) % 2
      BY XorStep
    <3>3. Xor(u, b) = 2 * Xor(u \div 2, y) + ((u + b) % 2)
      BY <3>2, XorStep
    <3>4. a = 2 * x + (a % 2)
      BY Halved
    <3> HIDE DEF x, y, u
    <3>5. Xor(Xor(x, y), y) = x
      BY <1>2, <2>1, <3>1
    <3>6. (u + b) % 2 = a % 2
      BY <3>2
    <3>7. Xor(u, b) = a
      BY <3>2, <3>3, <3>4, <3>5, <3>6
    <3> QED
      BY <3>7 DEF u
  <2> QED
    BY <2>2, <2>3
<1> HIDE DEF Has
<1>3. \A n \in Nat : n \in Has
  BY <1>1, <1>2, NatIsInduced
<1> SUFFICES ASSUME NEW a \in Nat, NEW b \in Nat PROVE Xor(Xor(a, b), b) = a
  OBVIOUS
<1>4. a + b + 1 \in Has /\ a + b < a + b + 1
  BY <1>3
<1> QED
  BY <1>4 DEF Has

\* The type of a byte made of a number.
LEMMA WrapType == \A a \in Int : Wrap(a) \in Nat /\ Wrap(a) \in Int
BY WrapSum

-----------------------------------------------------------------------------
(* Running checksums.                                                       *)

\* Bytes are numbers.
LEMMA Bytes == Byte \subseteq Nat /\ Byte \subseteq Int
BY ByteAssumption DEF Byte

\* The type of a running checksum.
LEMMA UpdateType ==
  ASSUME NEW type, NEW sum \in Nat, NEW more \in Byte
  PROVE  Update(type, sum, more) \in Nat
<1>1. more \in Nat /\ Xor(sum, more) \in Nat /\ Xor(more, sum) \in Nat
  BY Bytes, XorStep
<1>2. Wrap(sum + more) \in Nat /\ Wrap(Xor(more, sum) + 1) \in Nat
  <2>1. sum + more \in Int /\ Xor(more, sum) + 1 \in Int
    BY <1>1
  <2> QED
    BY <2>1, WrapType
<1> QED
  BY <1>1, <1>2 DEF Update

\* The type of its start.
LEMMA SeedType == ASSUME NEW type PROVE Seed(type) \in Nat
<1>1. SamsungSeed \in Nat
  BY ByteAssumption
<1>2. Wrap(3) \in Nat
  BY WrapSum
<1> QED
  BY <1>1, <1>2 DEF Seed

\* f is the running checksum of the bytes one after the other.
Sums(f, type, data) ==
  /\ f[0] = Seed(type)
  /\ \A n \in 1 .. Len(data) : f[n] = Update(type, f[n - 1], data[n])

\* There is one way to sum the data up, ...
LEMMA SumsAgree ==
  ASSUME NEW type, NEW data \in Seq(Byte), NEW f, NEW g, Sums(f, type, data), Sums(g, type, data)
  PROVE  \A n \in 0 .. Len(data) : f[n] = g[n]
<1> DEFINE Has == {n \in Nat : n <= Len(data) => f[n] = g[n]}
<1>1. 0 \in Has
  BY DEF Sums
<1>2. ASSUME NEW n \in Nat, n \in Has PROVE n + 1 \in Has
  <2> SUFFICES ASSUME n + 1 <= Len(data) PROVE f[n + 1] = g[n + 1]
    OBVIOUS
  <2>1. n + 1 \in 1 .. Len(data) /\ (n + 1) - 1 = n /\ n <= Len(data)
    BY LenProperties
  <2>2. f[n] = g[n]
    BY <1>2, <2>1
  <2>3. /\ f[n + 1] = Update(type, f[(n + 1) - 1], data[n + 1])
        /\ g[n + 1] = Update(type, g[(n + 1) - 1], data[n + 1])
    BY <2>1 DEF Sums
  <2> QED
    BY <2>1, <2>2, <2>3
<1> HIDE DEF Has
<1>3. \A n \in Nat : n \in Has
  BY <1>1, <1>2, NatIsInduced
<1> QED
  BY <1>3, LenProperties DEF Has

\* ... there is one, ...
LEMMA SumsExist ==
  ASSUME NEW type, NEW data \in Seq(Byte)
  PROVE  \E f \in [0 .. Len(data) -> Nat] : Sums(f, type, data)
<1> DEFINE D == 0 .. Len(data)
           m == [n \in D |-> n]
           stop == {0}
           onward == [n \in D |-> IF n = 0 THEN 0 ELSE n - 1]
           base == [n \in D |-> Seed(type)]
           op == [q \in D \X Nat |-> IF q[1] = 0 THEN 0 ELSE Update(type, q[2], data[q[1]])]
<1>0. Len(data) \in Nat /\ D \subseteq Nat
  BY LenProperties
<1>1. Decreases(m, D, stop, onward)
  BY <1>0 DEF Decreases
<1>2. base \in [D -> Nat]
  BY SeedType
<1>3. op \in [D \X Nat -> Nat]
  <2> SUFFICES ASSUME NEW n \in D, NEW v \in Nat, n # 0 PROVE Update(type, v, data[n]) \in Nat
    OBVIOUS
  <2>1. n \in 1 .. Len(data)
    BY <1>0
  <2>2. data[n] \in Byte
    BY <2>1, ElementOfSeq
  <2> QED
    BY <2>2, UpdateType
<1>4. PICK f \in [D -> Nat] : Unfolds(f, D, stop, base, op, onward)
  <2> HIDE DEF D, m, stop, onward, base, op
  <2> QED
    BY <1>1, <1>2, <1>3, Recursion
<1>5. f[0] = Seed(type)
  <2>1. 0 \in D /\ 0 \in stop /\ base[0] = Seed(type)
    BY <1>0
  <2> HIDE DEF D, stop, base, op, onward
  <2> QED
    BY <1>4, <2>1 DEF Unfolds
<1>6. ASSUME NEW n \in 1 .. Len(data) PROVE f[n] = Update(type, f[n - 1], data[n])
  <2>1. n \in D /\ n # 0 /\ n - 1 \in D /\ n \notin stop /\ onward[n] = n - 1
    BY <1>0
  <2>2. f[n] = op[<<n, f[onward[n]]>>]
    BY <1>4, <2>1 DEF Unfolds
  <2>3. f[n - 1] \in Nat
    BY <1>4, <2>1
  <2>4. op[<<n, f[n - 1]>>] = Update(type, f[n - 1], data[n])
    BY <2>1, <2>3
  <2> QED
    BY <2>1, <2>2, <2>4
<1> QED
  BY <1>4, <1>5, <1>6 DEF Sums

\* ... and Running is its last value.
LEMMA RunningIs ==
  ASSUME NEW type, NEW data \in Seq(Byte), NEW f, Sums(f, type, data)
  PROVE  Running(type, data) = f[Len(data)] /\ Running(type, data) \in Nat
<1> DEFINE D == 0 .. Len(data)
           Rule(g, n) == IF n = 0 THEN Seed(type) ELSE Update(type, g[n - 1], data[n])
           X == CHOOSE g : g = [n \in D |-> Rule(g, n)]
<1>0. Len(data) \in Nat
  BY LenProperties
<1>1. PICK h \in [D -> Nat] : Sums(h, type, data)
  BY SumsExist
<1>2. h = [n \in D |-> Rule(h, n)]
  <2>1. \A n \in D : h[n] = Rule(h, n)
    BY <1>0, <1>1 DEF Sums
  <2> QED
    BY <2>1
<1>3. X = [n \in D |-> Rule(X, n)]
  <2> HIDE DEF Rule, D
  <2> QED
    BY <1>2
<1>4. Running(type, data) = X[Len(data)]
  BY DEF Running
<1> HIDE DEF X
<1>5. Sums(X, type, data)
  <2>1. \A n \in D : X[n] = Rule(X, n)
    <3> HIDE DEF Rule, D
    <3> QED
      BY <1>3
  <2> QED
    BY <1>0, <2>1 DEF Sums
<1>6. Len(data) \in D
  BY <1>0
<1>7. X[Len(data)] = f[Len(data)] /\ X[Len(data)] = h[Len(data)]
  BY <1>1, <1>5, <1>6, SumsAgree
<1> QED
  BY <1>1, <1>4, <1>6, <1>7

\* The type of the checksum of some data.
LEMMA RunningType ==
  ASSUME NEW type, NEW data \in Seq(Byte)
  PROVE  Running(type, data) \in Nat
BY SumsExist, RunningIs

\* What the sums of bytes do with a byte.
LEMMA Adds ==
  ASSUME NEW type, type \in AddsBytes
  PROVE  \A v, b : Update(type, v, b) = Wrap(v + b)
BY DEF Update, AddsBytes

\* But for bestin_sum, the order of two bytes does not matter.
LEMMA UpdateSwaps ==
  ASSUME NEW type, type # "bestin_sum", NEW v \in Nat, NEW a \in Byte, NEW b \in Byte
  PROVE  Update(type, Update(type, v, a), b) = Update(type, Update(type, v, b), a)
<1>1. a \in Nat /\ b \in Nat
  BY Bytes
<1>2. CASE type \in AddsBytes
  <2>1. \A s, x : Update(type, s, x) = Wrap(s + x)
    BY <1>2 DEF Update
  <2>2. v + a \in Int /\ v + b \in Int /\ a \in Int /\ b \in Int /\ (v + a) + b = (v + b) + a
    BY <1>1
  <2>3. Wrap(Wrap(v + a) + b) = Wrap((v + a) + b)
    BY <2>2, WrapSum
  <2>4. Wrap(Wrap(v + b) + a) = Wrap((v + b) + a)
    BY <2>2, WrapSum
  <2> QED
    BY <2>1, <2>2, <2>3, <2>4
<1>3. CASE type \notin AddsBytes
  <2>1. \A s, x : Update(type, s, x) = Xor(s, x)
    BY <1>3 DEF Update
  <2> QED
    BY <1>1, <2>1, XorSwap
<1> QED
  BY <1>2, <1>3

\* A sum that has wrapped stays.
Wrapped(type, v) == v \in Nat /\ (type \in AddsBytes => Wrap(v) = v)

\* Slide takes the leaving byte back out of the checksum.
LEMMA SlideUndoes ==
  ASSUME NEW type, type # "bestin_sum", NEW v \in Nat, NEW w, Wrapped(type, w),
         NEW l \in Byte, NEW e \in Byte, Update(type, v, e) = Update(type, w, l)
  PROVE  Slide(type, v, l, e) = w
<1>1. l \in Nat /\ e \in Nat /\ w \in Nat
  BY Bytes DEF Wrapped
<1>2. CASE type \in AddsBytes
  <2>1. Wrap(v + e) = Wrap(w + l)
    BY <1>2 DEF Update
  <2>2. v + e \in Int /\ w + l \in Int /\ -l \in Int /\ v - l + e = (v + e) + (-l) /\ (w + l) + (-l) = w
    BY <1>1
  <2>3. Wrap(Wrap(v + e) + (-l)) = Wrap((v + e) + (-l))
    BY <2>2, WrapSum
  <2>4. Wrap(Wrap(w + l) + (-l)) = Wrap((w + l) + (-l))
    BY <2>2, WrapSum
  <2>5. Slide(type, v, l, e) = Wrap(v - l + e)
    BY <1>2 DEF Slide
  <2> QED
    BY <1>2, <2>1, <2>2, <2>3, <2>4, <2>5 DEF Wrapped
<1>3. CASE type \notin AddsBytes
  <2>1. Xor(v, e) = Xor(w, l)
    BY <1>3 DEF Update
  <2>2. Slide(type, v, l, e) = Xor(Xor(v, l), e)
    BY <1>3 DEF Slide
  <2>3. Xor(Xor(v, l), e) = Xor(Xor(v, e), l)
    BY <1>1, XorSwap
  <2>4. Xor(Xor(w, l), l) = w
    BY <1>1, XorCancels
  <2> QED
    BY <2>1, <2>2, <2>3, <2>4
<1> QED
  BY <1>2, <1>3

\* Sums of bytes are bytes.
LEMMA RunningWraps ==
  ASSUME NEW type, NEW data \in Seq(Byte)
  PROVE  Wrapped(type, Running(type, data))
<1> SUFFICES ASSUME type \in AddsBytes PROVE Wrap(Running(type, data)) = Running(type, data)
  BY RunningType DEF Wrapped
<1>1. PICK f \in [0 .. Len(data) -> Nat] : Sums(f, type, data)
  BY SumsExist
<1>2. Running(type, data) = f[Len(data)] /\ Len(data) \in Nat
  BY <1>1, RunningIs, LenProperties
<1>3. CASE Len(data) = 0
  <2>1. f[0] = 0
    BY <1>1 DEF Sums, Seed, AddsBytes
  <2>2. Wrap(0) = 0
    BY ByteAssumption DEF Wrap
  <2> QED
    BY <1>2, <1>3, <2>1, <2>2
<1>4. CASE Len(data) # 0
  <2> DEFINE n == Len(data)
  <2>1. n \in 1 .. Len(data) /\ n - 1 \in 0 .. Len(data)
    BY <1>2, <1>4
  <2>2. f[n] = Update(type, f[n - 1], data[n])
    BY <1>1, <2>1 DEF Sums
  <2>3. f[n - 1] \in Nat /\ data[n] \in Nat
    BY <1>1, <2>1, ElementOfSeq, Bytes
  <2> HIDE DEF n
  <2> DEFINE x == f[n - 1] + data[n]
  <2>4. x \in Int /\ f[n] = Wrap(x)
    <3>1. Update(type, f[n - 1], data[n]) = Wrap(f[n - 1] + data[n])
      BY Adds
    <3>2. f[n - 1] + data[n] \in Int
      BY <2>3
    <3> QED
      BY <2>2, <3>1, <3>2
  <2> HIDE DEF x
  <2>5. Wrap(x) + 0 = Wrap(x) /\ x + 0 = x
    BY <2>4, WrapType
  <2>6. Wrap(Wrap(x) + 0) = Wrap(x + 0)
    BY <2>4, WrapSum
  <2> QED
    BY <1>2, <2>4, <2>5, <2>6 DEF n
<1> QED
  BY <1>3, <1>4

\* A sequence one byte longer than the window: the sum of its beginning slides to
\* the sum of its end.
LEMMA Slides ==
  ASSUME NEW type, type # "bestin_sum", NEW t \in Seq(Byte), Len(t) > 0
  PROVE  Slide(type, Running(type, SubSeq(t, 1, Len(t) - 1)), t[1], t[Len(t)])
           = Running(type, SubSeq(t, 2, Len(t)))
<1> DEFINE w == Len(t) - 1
           head == SubSeq(t, 1, w)
           tail == SubSeq(t, 2, Len(t))
<1>0. Len(t) \in Nat /\ w \in Nat /\ Len(t) = w + 1
  BY LenProperties
<1>1. /\ head \in Seq(Byte) /\ Len(head) = w /\ \A n \in 1 .. w : head[n] = t[n]
      /\ tail \in Seq(Byte) /\ Len(tail) = w /\ \A n \in 1 .. w : tail[n] = t[n + 1]
  <2>1. /\ head \in Seq(Byte) /\ Len(head) = (IF 1 <= w THEN w - 1 + 1 ELSE 0)
        /\ \A n \in 1 .. (w - 1 + 1) : head[n] = t[1 + n - 1]
    <3>1. w \in Int /\ w <= Len(t) /\ 1 \in Nat \ {0}
      BY <1>0
    <3> HIDE DEF w
    <3> QED
      BY <3>1, Sub
  <2>2. /\ tail \in Seq(Byte) /\ Len(tail) = (IF 2 <= Len(t) THEN Len(t) - 2 + 1 ELSE 0)
        /\ \A n \in 1 .. (Len(t) - 2 + 1) : tail[n] = t[2 + n - 1]
    <3>1. Len(t) \in Int /\ Len(t) <= Len(t) /\ 2 \in Nat \ {0}
      BY <1>0
    <3> QED
      BY <3>1, Sub
  <2> HIDE DEF head, tail, w
  <2> QED
    BY <1>0, <2>1, <2>2
<1>2. \A n \in 1 .. (w + 1) : t[n] \in Byte
  BY <1>0, ElementOfSeq
<1>3. PICK f \in [0 .. Len(t) -> Nat] : Sums(f, type, t)
  BY SumsExist
<1>4. PICK g \in [0 .. Len(tail) -> Nat] : Sums(g, type, tail)
  <2> HIDE DEF tail
  <2> QED
    BY <1>1, SumsExist
<1> HIDE DEF w, head, tail
<1>5. Running(type, head) = f[w]
  <2>1. Sums(f, type, head)
    BY <1>0, <1>1, <1>3 DEF Sums
  <2> QED
    BY <1>1, <2>1, RunningIs
<1>6. Running(type, tail) = g[w]
  BY <1>1, <1>4, RunningIs
<1>7. /\ f[0] = Seed(type) /\ \A n \in 1 .. (w + 1) : f[n] = Update(type, f[n - 1], t[n])
      /\ g[0] = Seed(type) /\ \A n \in 1 .. w : g[n] = Update(type, g[n - 1], t[n + 1])
  BY <1>0, <1>1, <1>3, <1>4 DEF Sums
<1>8. g \in [0 .. w -> Nat] /\ f \in [0 .. (w + 1) -> Nat]
  BY <1>0, <1>1, <1>3, <1>4
<1> DEFINE Has == {n \in Nat : n <= w => f[n + 1] = Update(type, g[n], t[1])}
<1>9. \A n \in Nat : n \in Has
  <2>1. 0 \in Has
    <3>1. 1 \in 1 .. (w + 1) /\ 1 - 1 = 0
      BY <1>0
    <3>2. f[1] = Update(type, g[0], t[1])
      BY <1>7, <3>1
    <3> QED
      BY <3>2
  <2>2. ASSUME NEW n \in Nat, n \in Has PROVE n + 1 \in Has
    <3> SUFFICES ASSUME n + 1 <= w PROVE f[(n + 1) + 1] = Update(type, g[n + 1], t[1])
      OBVIOUS
    <3>1. /\ n + 2 \in 1 .. (w + 1) /\ n + 1 \in 1 .. w /\ 1 \in 1 .. (w + 1) /\ n \in 0 .. w
          /\ (n + 2) - 1 = n + 1 /\ (n + 1) - 1 = n /\ (n + 1) + 1 = n + 2 /\ n <= w
      BY <1>0
    <3>2. f[n + 2] = Update(type, f[n + 1], t[n + 2]) /\ g[n + 1] = Update(type, g[n], t[n + 2])
      <4>1. f[n + 2] = Update(type, f[(n + 2) - 1], t[n + 2])
        BY <1>7, <3>1
      <4>2. g[n + 1] = Update(type, g[(n + 1) - 1], t[(n + 1) + 1])
        BY <1>7, <3>1
      <4> QED
        BY <3>1, <4>1, <4>2
    <3>3. f[n + 1] = Update(type, g[n], t[1])
      BY <2>2, <3>1
    <3>4. t[1] \in Byte /\ t[n + 2] \in Byte /\ g[n] \in Nat
      BY <1>2, <1>8, <3>1
    <3>5. Update(type, Update(type, g[n], t[1]), t[n + 2])
            = Update(type, Update(type, g[n], t[n + 2]), t[1])
      BY <3>4, UpdateSwaps
    <3> QED
      BY <3>1, <3>2, <3>3, <3>5
  <2> HIDE DEF Has
  <2> QED
    BY <2>1, <2>2, NatIsInduced
<1>10. Update(type, f[w], t[w + 1]) = Update(type, g[w], t[1])
  <2>1. w \in Has /\ w + 1 \in 1 .. (w + 1) /\ (w + 1) - 1 = w
    BY <1>0, <1>9
  <2>2. f[w + 1] = Update(type, g[w], t[1])
    BY <1>0, <2>1
  <2>3. f[w + 1] = Update(type, f[(w + 1) - 1], t[w + 1])
    BY <1>7, <2>1
  <2> QED
    BY <2>1, <2>2, <2>3
<1>11. Wrapped(type, g[w])
  BY <1>1, <1>6, RunningWraps
<1>12. Slide(type, f[w], t[1], t[w + 1]) = g[w]
  <2>1. f[w] \in Nat /\ t[1] \in Byte /\ t[w + 1] \in Byte
    BY <1>0, <1>2, <1>8
  <2> QED
    BY <1>10, <1>11, <2>1, SlideUndoes
<1> QED
  BY <1>0, <1>5, <1>6, <1>12 DEF w, head, tail

\* A piece of a piece.
LEMMA SubSub ==
  ASSUME NEW S, NEW s \in Seq(S), NEW a \in Nat \ {0}, NEW b \in Int, a <= b + 1, b <= Len(s),
         NEW c \in Nat \ {0}, NEW d \in Int, d <= b - a + 1
  PROVE  SubSeq(SubSeq(s, a, b), c, d) = SubSeq(s, a + c - 1, a + d - 1)
<1> DEFINE t == SubSeq(s, a, b)
           u == SubSeq(t, c, d)
           v == SubSeq(s, a + c - 1, a + d - 1)
<1>1. /\ t \in Seq(S) /\ Len(t) = b - a + 1
      /\ \A i \in 1 .. (b - a + 1) : t[i] = s[a + i - 1]
  <2>1. Len(t) = IF a <= b THEN b - a + 1 ELSE 0
    BY Sub
  <2>2. Len(t) = b - a + 1
    BY <2>1
  <2> QED
    BY <2>2, Sub
<1>2. /\ u \in Seq(S) /\ Len(u) = (IF c <= d THEN d - c + 1 ELSE 0)
      /\ \A i \in 1 .. (d - c + 1) : u[i] = t[c + i - 1]
  <2>1. t \in Seq(S) /\ d <= Len(t)
    BY <1>1
  <2>2. c \in Nat \ {0} /\ d \in Int
    OBVIOUS
  <2> HIDE DEF t
  <2> QED
    BY ONLY <2>1, <2>2, Sub
<1>3. /\ v \in Seq(S)
      /\ Len(v) = (IF a + c - 1 <= a + d - 1 THEN (a + d - 1) - (a + c - 1) + 1 ELSE 0)
      /\ \A i \in 1 .. ((a + d - 1) - (a + c - 1) + 1) : v[i] = s[(a + c - 1) + i - 1]
  <2>1. a + c - 1 \in Nat \ {0} /\ a + d - 1 \in Int /\ a + d - 1 <= Len(s)
    BY LenProperties
  <2> QED
    BY <2>1, Sub
<1> HIDE DEF t, u, v
<1>4. Len(u) = Len(v)
  BY <1>2, <1>3
<1>5. ASSUME NEW i \in 1 .. Len(u) PROVE u[i] = v[i]
  <2>1. i \in 1 .. (d - c + 1) /\ c + i - 1 \in 1 .. (b - a + 1)
    BY <1>2
  <2>2. u[i] = s[a + (c + i - 1) - 1]
    BY <1>1, <1>2, <2>1
  <2>3. v[i] = s[(a + c - 1) + i - 1] /\ (a + c - 1) + i - 1 = a + (c + i - 1) - 1
    <3>1. i \in 1 .. ((a + d - 1) - (a + c - 1) + 1)
      BY <2>1
    <3>2. (a + c - 1) + i - 1 = a + (c + i - 1) - 1
      BY <2>1
    <3> QED
      BY <1>3, <3>1, <3>2
  <2> QED
    BY <2>2, <2>3
<1> QED
  BY <1>2, <1>3, <1>4, <1>5, SameSeq DEF t, u, v

\* From one offset to the next.
StepsTo(type, s, a, b, o) ==
  Slide(type, Running(type, SubSeq(s, (o - 1) + a + 1, (o - 1) + b)), s[o + a], s[o + b])
    = Running(type, SubSeq(s, o + a + 1, o + b))

\* The window one byte further on has the checksum of its own bytes.
LEMMA SlideStep ==
  ASSUME NEW type, type # "bestin_sum", NEW s \in Seq(Byte), NEW a \in Nat, NEW b \in Nat, a <= b,
         NEW o \in Nat \ {0}, o + b <= Len(s)
  PROVE  StepsTo(type, s, a, b, o)
<1>0. Len(s) \in Nat
  BY LenProperties
<1> DEFINE t == SubSeq(s, o + a, o + b)
           k == b - a + 1
<1>a. /\ o + a \in Nat \ {0} /\ o + b \in Int /\ o + a <= o + b + 1 /\ o + b <= Len(s)
      /\ (o + b) - (o + a) + 1 = k /\ o + a <= o + b /\ k \in Nat /\ k > 0
  BY <1>0
<1>1. t \in Seq(Byte) /\ Len(t) = k /\ \A i \in 1 .. k : t[i] = s[o + a + i - 1]
  BY <1>a, Sub
<1>2. t[1] = s[o + a] /\ t[k] = s[o + b]
  <2>1. 1 \in 1 .. k /\ k \in 1 .. k /\ o + a + 1 - 1 = o + a /\ o + a + k - 1 = o + b
    BY <1>a
  <2> HIDE DEF t, k
  <2>2. t[1] = s[o + a + 1 - 1] /\ t[k] = s[o + a + k - 1]
    BY <1>1, <2>1
  <2> QED
    BY <2>1, <2>2
<1>3. SubSeq(t, 1, k - 1) = SubSeq(s, (o - 1) + a + 1, (o - 1) + b)
  <2>1. SubSeq(t, 1, k - 1) = SubSeq(s, (o + a) + 1 - 1, (o + a) + (k - 1) - 1)
    <3>1. 1 \in Nat \ {0} /\ k - 1 \in Int /\ k - 1 <= (o + b) - (o + a) + 1
      BY <1>a
    <3> HIDE DEF k
    <3> QED
      BY <1>a, <3>1, SubSub
  <2>2. (o + a) + 1 - 1 = (o - 1) + a + 1 /\ (o + a) + (k - 1) - 1 = (o - 1) + b
    BY <1>a
  <2> QED
    BY <2>1, <2>2
<1>4. SubSeq(t, 2, k) = SubSeq(s, o + a + 1, o + b)
  <2>1. SubSeq(t, 2, k) = SubSeq(s, (o + a) + 2 - 1, (o + a) + k - 1)
    <3>1. 2 \in Nat \ {0} /\ k \in Int /\ k <= (o + b) - (o + a) + 1
      BY <1>a
    <3> HIDE DEF k
    <3> QED
      BY <1>a, <3>1, SubSub
  <2>2. (o + a) + 2 - 1 = o + a + 1 /\ (o + a) + k - 1 = o + b
    BY <1>a
  <2> QED
    BY <2>1, <2>2
<1> HIDE DEF t, k
<1>5. Slide(type, Running(type, SubSeq(t, 1, k - 1)), t[1], t[k]) = Running(type, SubSeq(t, 2, k))
  <2>1. Len(t) > 0
    BY <1>a, <1>1
  <2>2. Slide(type, Running(type, SubSeq(t, 1, Len(t) - 1)), t[1], t[Len(t)])
          = Running(type, SubSeq(t, 2, Len(t)))
    BY <1>1, <2>1, Slides
  <2> QED
    BY <1>1, <2>2
<1> QED
  BY <1>2, <1>3, <1>4, <1>5 DEF StepsTo

Along(run, type, s, a, b, M) ==
  \A o \in 0 .. M : run[o] = IF o = 0 THEN Running(type, SubSeq(s, a + 1, b))
                             ELSE Slide(type, run[o - 1], s[o + a], s[o + b])

\* The value that slides over s is that of the bytes under the window, here of
\* those from a + 1 to b after each offset.
LEMMA SlidesAlong ==
  ASSUME NEW type, type # "bestin_sum", NEW s \in Seq(Byte), NEW a \in Nat, NEW b \in Nat, a <= b,
         NEW M \in Int, M + b <= Len(s), NEW run,
         Along(run, type, s, a, b, M)
  PROVE  \A o \in 0 .. M : run[o] = Running(type, SubSeq(s, o + a + 1, o + b))
<1> DEFINE R(o) == Running(type, SubSeq(s, o + a + 1, o + b))
<1>0. Len(s) \in Nat
  BY LenProperties
<1>1. ASSUME NEW o \in 1 .. M PROVE Slide(type, R(o - 1), s[o + a], s[o + b]) = R(o)
  <2>1. o \in Nat \ {0} /\ o + b <= Len(s)
    BY <1>0, <1>1
  <2>2. StepsTo(type, s, a, b, o)
    BY <2>1, SlideStep
  <2> QED
    BY <2>2 DEF StepsTo
<1> DEFINE Has == {n \in Nat : n <= M => run[n] = R(n)}
<1>2. 0 \in Has
  <2> SUFFICES ASSUME 0 <= M PROVE run[0] = R(0)
    OBVIOUS
  <2>1. 0 \in 0 .. M /\ 0 + a + 1 = a + 1 /\ 0 + b = b
    OBVIOUS
  <2>2. run[0] = Running(type, SubSeq(s, a + 1, b))
    BY <2>1 DEF Along
  <2> QED
    BY <2>1, <2>2
<1>3. ASSUME NEW n \in Nat, n \in Has PROVE n + 1 \in Has
  <2> SUFFICES ASSUME n + 1 <= M PROVE run[n + 1] = R(n + 1)
    OBVIOUS
  <2> HIDE DEF R
  <2>1. n + 1 \in 0 .. M /\ n + 1 \in 1 .. M /\ n + 1 # 0 /\ (n + 1) - 1 = n /\ n <= M
    OBVIOUS
  <2>2. run[n + 1] = Slide(type, run[(n + 1) - 1], s[(n + 1) + a], s[(n + 1) + b])
    BY <2>1 DEF Along
  <2>3. run[n] = R(n)
    BY <1>3, <2>1
  <2>4. Slide(type, R((n + 1) - 1), s[(n + 1) + a], s[(n + 1) + b]) = R(n + 1)
    BY <1>1, <2>1
  <2> QED
    BY <2>1, <2>2, <2>3, <2>4
<1> HIDE DEF Has
<1>4. \A n \in Nat : n \in Has
  BY <1>2, <1>3, NatIsInduced
<1> SUFFICES ASSUME NEW o \in 0 .. M PROVE run[o] = R(o)
  OBVIOUS
<1>5. o \in Nat /\ o <= M /\ o \in Has
  BY <1>4
<1> HIDE DEF R
<1> QED
  BY <1>5 DEF Has

-----------------------------------------------------------------------------
(* The configuration.                                                       *)

\* Types of the parts of a configuration.
LEMMA ConfigFacts ==
  ASSUME config \in ConfigType
  PROVE  /\ config.header \in Seq(Byte) /\ config.footer \in Seq(Byte)
         /\ config.length \in Nat /\ config.minLength \in Nat /\ config.maxLength \in Nat
         /\ config.lengthAt \in Nat
         /\ headerLength \in Nat /\ footerLength \in Nat /\ getChecksumLength \in {0, 1, 2}
         /\ config.checksum = "xor_add" <=> getChecksumLength = 2
         /\ config.checksum = "none" <=> getChecksumLength = 0
         /\ footerLength = 0 <=> config.footer = <<>>
<1>1. /\ config.header \in Seq(Byte) /\ config.footer \in Seq(Byte)
      /\ config.length \in Nat /\ config.minLength \in Nat /\ config.maxLength \in Nat
      /\ config.lengthAt \in Nat
  BY DEF ConfigType
<1>2. headerLength \in Nat /\ footerLength \in Nat
  BY <1>1, LenProperties DEF headerLength, footerLength
<1>3. /\ config.checksum = "xor_add" => getChecksumLength = 2
      /\ config.checksum = "none" => getChecksumLength = 0
      /\ config.checksum # "xor_add" /\ config.checksum # "none" => getChecksumLength = 1
  BY DEF getChecksumLength
<1>4. footerLength = 0 <=> config.footer = <<>>
  BY <1>1, EmptySeq DEF footerLength
<1> QED
  BY <1>1, <1>2, <1>3, <1>4

\* The sliding window is the checksum of each window.
LEMMA WindowIs ==
  ASSUME config \in ConfigType, WindowStart <= WindowEnd, WindowEnd <= config.length,
         NEW type, type # "bestin_sum", NEW s \in Seq(Byte)
  PROVE  \A o \in 0 .. (Len(s) - config.length) :
           Window(type, s)[o] = Running(type, SubSeq(s, o + WindowStart + 1, o + WindowEnd))
<1> DEFINE D == 0 .. (Len(s) - config.length)
           R == [o \in D |-> Running(type, SubSeq(s, o + WindowStart + 1, o + WindowEnd))]
           Rule(f, o) == IF o = 0 THEN Running(type, SubSeq(s, WindowStart + 1, WindowEnd))
                         ELSE Slide(type, f[o - 1], s[o + WindowStart], s[o + WindowEnd])
           X == CHOOSE f : f = [o \in D |-> Rule(f, o)]
<1>0. /\ WindowStart \in Nat /\ WindowEnd \in Nat /\ config.length \in Nat /\ Len(s) \in Nat
  BY ConfigFacts, LenProperties DEF WindowStart, WindowEnd
<1>1. R = [o \in D |-> Rule(R, o)]
  <2>1. ASSUME NEW o \in D PROVE R[o] = Rule(R, o)
    <3>1. CASE o = 0
      <4>1. 0 + WindowStart + 1 = WindowStart + 1 /\ 0 + WindowEnd = WindowEnd
        BY <1>0
      <4> QED
        BY <2>1, <3>1, <4>1
    <3>2. CASE o # 0
      <4>1. o \in 1 .. (Len(s) - config.length) /\ o - 1 \in D
        BY <1>0, <2>1, <3>2
      <4>2. Slide(type, Running(type, SubSeq(s, (o - 1) + WindowStart + 1, (o - 1) + WindowEnd)),
                  s[o + WindowStart], s[o + WindowEnd])
              = Running(type, SubSeq(s, o + WindowStart + 1, o + WindowEnd))
        <5>1. o \in Nat \ {0} /\ o + WindowEnd <= Len(s)
          BY <1>0, <4>1
        <5>2. StepsTo(type, s, WindowStart, WindowEnd, o)
          BY <1>0, <5>1, SlideStep
        <5> QED
          BY <5>2 DEF StepsTo
      <4> QED
        BY <2>1, <3>2, <4>1, <4>2
    <3> QED
      BY <3>1, <3>2
  <2> HIDE DEF Rule
  <2> QED
    BY <2>1
<1>2. X = [o \in D |-> Rule(X, o)]
  <2> HIDE DEF Rule, D, R
  <2> QED
    BY <1>1
<1>3. Window(type, s) = X
  BY DEF Window
<1> HIDE DEF X
<1>4. \A o \in 0 .. (Len(s) - config.length) :
        X[o] = Running(type, SubSeq(s, o + WindowStart + 1, o + WindowEnd))
  <2> DEFINE M == Len(s) - config.length
             a == WindowStart
             b == WindowEnd
  <2>1. M \in Int /\ M + b <= Len(s) /\ a \in Nat /\ b \in Nat /\ a <= b
    BY <1>0
  <2>2. Along(X, type, s, a, b, M)
    <3>1. \A o \in D : X[o] = Rule(X, o)
      <4> HIDE DEF D, Rule
      <4> QED
        BY <1>2
    <3> QED
      BY <3>1 DEF Along
  <2> HIDE DEF M, a, b
  <2>3. \A o \in 0 .. M : X[o] = Running(type, SubSeq(s, o + a + 1, o + b))
    BY <2>1, <2>2, SlidesAlong
  <2> QED
    BY <2>3 DEF M, a, b
<1> QED
  BY <1>3, <1>4

\* Only samsung_rx looks at the data in the end.
LEMMA FinishIgnores ==
  ASSUME NEW type, type # "samsung_rx", NEW sum, NEW d, NEW e
  PROVE  Finish(type, sum, d) = Finish(type, sum, e)
BY DEF Finish

\* A piece of s at offset o, its first e elements, and these without the first h.
IsPiece(S, s, o, n, piece) ==
  /\ piece \in Seq(S) /\ Len(piece) = n /\ \A i \in 1 .. n : piece[i] = s[o + i]
  /\ \A e \in 0 .. n, h \in 0 .. n : h <= e =>
       SubSeq(piece, h + 1, e) = SubSeq(s, o + h + 1, o + e)

\* A piece of a sequence by its offset and its length.
LEMMA Pieces ==
  ASSUME NEW S, NEW s \in Seq(S), NEW o \in Nat, NEW n \in Nat, o + n <= Len(s)
  PROVE  IsPiece(S, s, o, n, SubSeq(s, o + 1, o + n))
<1> DEFINE piece == SubSeq(s, o + 1, o + n)
<1>0. o + 1 \in Nat \ {0} /\ o + n \in Int /\ (o + n) - (o + 1) + 1 = n /\ o + 1 <= (o + n) + 1
  OBVIOUS
<1>1. /\ piece \in Seq(S) /\ Len(piece) = (IF o + 1 <= o + n THEN (o + n) - (o + 1) + 1 ELSE 0)
      /\ \A i \in 1 .. ((o + n) - (o + 1) + 1) : piece[i] = s[(o + 1) + i - 1]
  BY <1>0, Sub
<1>2. Len(piece) = n
  BY <1>1
<1>3. ASSUME NEW i \in 1 .. n PROVE piece[i] = s[o + i]
  <2>1. (o + 1) + i - 1 = o + i
    OBVIOUS
  <2> HIDE DEF piece
  <2> QED
    BY <1>0, <1>1, <2>1
<1>4. ASSUME NEW e \in 0 .. n, NEW h \in 0 .. n, h <= e
      PROVE  SubSeq(piece, h + 1, e) = SubSeq(s, o + h + 1, o + e)
  <2>1. SubSeq(piece, h + 1, e) = SubSeq(s, (o + 1) + (h + 1) - 1, (o + 1) + e - 1)
    <3>1. h + 1 \in Nat \ {0} /\ e \in Int /\ e <= (o + n) - (o + 1) + 1
      BY <1>0
    <3> QED
      BY <1>0, <3>1, SubSub
  <2>2. (o + 1) + (h + 1) - 1 = o + h + 1 /\ (o + 1) + e - 1 = o + e
    OBVIOUS
  <2> QED
    BY <2>1, <2>2
<1> HIDE DEF piece
<1> QED
  BY <1>1, <1>2, <1>3, <1>4 DEF IsPiece, piece

\* Under the window lie the bytes that the checksum of a packet covers.
LEMMA WindowVerifies ==
  ASSUME config \in ConfigType, config.length > 0, UsesWindow, WindowCovers,
         NEW s \in Seq(Byte), NEW o \in 0 .. (Len(s) - config.length),
         NEW packet, packet = SubSeq(s, o + 1, o + config.length)
  PROVE  ChecksumFits(packet, footerLength) <=>
           CASE config.checksum = "xor_add" ->
                  LET temp == Window("xor", s)[o]
                  IN /\ temp = s[o + WindowEnd + 1]
                     /\ Wrap(Window("add", s)[o] + temp) = s[o + WindowEnd + 2]
             [] OTHER ->
                  Finish(config.checksum, Window(config.checksum, s)[o],
                         SubSeq(s, o + headerLength + 1, o + WindowEnd))
                    = s[o + WindowEnd + 1]
<1> DEFINE e == WindowEnd
           hl == headerLength
           n == config.length
           d == SubSeq(packet, 1, e)
<1>1. /\ config.checksum \in Standard1Byte \cup {"xor_add"} /\ config.checksum # "bestin_sum"
      /\ config.checksum # "none" /\ hl <= e /\ (config.checksum = "samsung_xor" => hl = 0)
  BY DEF UsesWindow, WindowCovers, ConfigType
<1>2. /\ hl \in Nat /\ n \in Nat /\ footerLength \in Nat /\ Len(s) \in Nat /\ e \in Nat
      /\ e = n - getChecksumLength - footerLength
      /\ config.checksum = "xor_add" => getChecksumLength = 2 /\ e + 2 <= n
      /\ config.checksum # "xor_add" => getChecksumLength = 1
      /\ e + 1 <= n
  <2>1. hl \in Nat /\ n \in Nat /\ footerLength \in Nat /\ Len(s) \in Nat /\ getChecksumLength \in {0, 1, 2}
    BY ConfigFacts, LenProperties
  <2>2. e = n - getChecksumLength - footerLength
    BY DEF WindowEnd
  <2>3. /\ config.checksum = "xor_add" => getChecksumLength = 2
        /\ config.checksum # "xor_add" => getChecksumLength = 1
    BY <1>1 DEF getChecksumLength
  <2> HIDE DEF e, hl, n
  <2> QED
    BY <1>1, <2>1, <2>2, <2>3
<1>3. WindowStart <= WindowEnd /\ WindowEnd <= config.length
  <2>1. WindowStart \in {0, hl}
    BY DEF WindowStart
  <2> QED
    BY <1>1, <1>2, <2>1
<1>4. o \in Nat /\ o + n <= Len(s)
  <2>1. \A l, m \in Nat : \A p \in 0 .. (l - m) : p \in Nat /\ p + m <= l
    OBVIOUS
  <2> QED
    BY <1>2, <2>1
<1>b. o \in Nat /\ n \in Nat /\ e \in Nat /\ hl \in Nat /\ Len(s) \in Nat /\ o + n <= Len(s) /\ e + 1 <= n
        /\ hl <= e /\ s \in Seq(Byte)
  BY <1>1, <1>2, <1>4
<1>5. packet \in Seq(Byte) /\ Len(packet) = n /\ \A i \in 1 .. n : packet[i] = s[o + i]
  <2> HIDE DEF n
  <2> QED
    <3>1. packet = SubSeq(s, o + 1, o + n)
      BY DEF n
    <3>2. IsPiece(Byte, s, o, n, SubSeq(s, o + 1, o + n))
      BY ONLY <1>b, Pieces
    <3> QED
      BY <3>1, <3>2 DEF IsPiece
<1>6. d = SubSeq(s, o + 1, o + e) /\ d \in Seq(Byte) /\ Len(d) = e
  <2>1. /\ n \in Nat /\ e \in 0 .. n /\ 0 \in 0 .. n /\ o + 0 + 1 = o + 1 /\ 0 + 1 = 1 /\ 0 <= e
        /\ o + e <= Len(s)
    <3> HIDE DEF n, e
    <3> QED
      BY ONLY <1>b
  <2>2. SubSeq(packet, 0 + 1, e) = SubSeq(s, o + 0 + 1, o + e)
    <3>1. packet = SubSeq(s, o + 1, o + n)
      BY DEF n
    <3> HIDE DEF n, e
    <3>2. IsPiece(Byte, s, o, n, SubSeq(s, o + 1, o + n))
      BY ONLY <1>b, Pieces
    <3> QED
      BY <2>1, <3>1, <3>2 DEF IsPiece
  <2>3. SubSeq(s, o + 1, o + e) \in Seq(Byte) /\ Len(SubSeq(s, o + 1, o + e)) = e
    <3> HIDE DEF e
    <3>1. IsPiece(Byte, s, o, e, SubSeq(s, o + 1, o + e))
      BY ONLY <1>b, <2>1, Pieces
    <3> QED
      BY <3>1 DEF IsPiece
  <2> QED
    BY <2>1, <2>2, <2>3
<1>7. packet[e + 1] = s[o + e + 1] /\ (config.checksum = "xor_add" => packet[e + 2] = s[o + e + 2])
  <2> HIDE DEF e, n
  <2>1. e + 1 \in 1 .. n /\ (config.checksum = "xor_add" => e + 2 \in 1 .. n)
    BY <1>2
  <2>2. o + (e + 1) = o + e + 1 /\ o + (e + 2) = o + e + 2
    BY ONLY <1>b
  <2>3. packet[e + 1] = s[o + (e + 1)]
    BY ONLY <1>5, <2>1
  <2>4. config.checksum = "xor_add" => packet[e + 2] = s[o + (e + 2)]
    BY ONLY <1>5, <2>1
  <2> QED
    BY ONLY <2>2, <2>3, <2>4
<1>8. Len(packet) - footerLength - getChecksumLength = e
  <2>1. getChecksumLength \in {0, 1, 2}
    BY ConfigFacts
  <2> HIDE DEF e, n
  <2> QED
    BY ONLY <2>1, <1>2, <1>5
<1>9. \A type : type # "bestin_sum" =>
        Window(type, s)[o] = Running(type, SubSeq(s, o + WindowStart + 1, o + e))
  BY <1>3, WindowIs
<1>10. CASE config.checksum = "xor_add"
  <2>1. WindowStart = 0 /\ o + WindowStart + 1 = o + 1
    BY <1>4, <1>10 DEF WindowStart, SkipsHeader
  <2>2. Window("xor", s)[o] = Running("xor", d) /\ Window("add", s)[o] = Running("add", d)
    BY <1>6, <1>9, <2>1
  <2>3. ChecksumFits(packet, footerLength) <=> XorAdd(d) = <<packet[e + 1], packet[e + 2]>>
    BY <1>8, <1>10 DEF ChecksumFits
  <2>4. XorAdd(d) = <<packet[e + 1], packet[e + 2]>> <=>
          /\ Running("xor", d) = packet[e + 1]
          /\ Wrap(Running("add", d) + Running("xor", d)) = packet[e + 2]
    BY DEF XorAdd
  <2> QED
    BY <1>7, <1>10, <2>2, <2>3, <2>4
<1>11. CASE config.checksum # "xor_add"
  <2> DEFINE type == config.checksum
             data == IF type \in SkipsHeader THEN SubSeq(d, hl + 1, Len(d)) ELSE d
             covered == SubSeq(s, o + hl + 1, o + e)
  <2>1. ChecksumFits(packet, footerLength) <=> Finish(type, Running(type, data), data) = packet[e + 1]
    BY <1>1, <1>8, <1>11 DEF ChecksumFits, CalculateChecksum
  <2>2. SubSeq(d, hl + 1, Len(d)) = covered
    <3> HIDE DEF e, hl
    <3>1. o + e <= Len(s) /\ e \in 0 .. e /\ hl \in 0 .. e
      BY ONLY <1>b
    <3>2. SubSeq(SubSeq(s, o + 1, o + e), hl + 1, e) = SubSeq(s, o + hl + 1, o + e)
      <4>1. IsPiece(Byte, s, o, e, SubSeq(s, o + 1, o + e))
        BY ONLY <1>b, <3>1, Pieces
      <4> QED
        BY <1>b, <3>1, <4>1 DEF IsPiece
    <3> QED
      BY <1>6, <3>2 DEF covered
  <2>3. SubSeq(s, o + WindowStart + 1, o + e) = data
    <3>1. CASE type \in SkipsHeader
      <4>1. WindowStart = hl
        BY <3>1 DEF WindowStart
      <4> QED
        BY <2>2, <3>1, <4>1
    <3>2. CASE type \notin SkipsHeader
      <4>1. WindowStart = 0 /\ o + WindowStart + 1 = o + 1
        BY <1>1, <1>4, <3>2 DEF WindowStart
      <4> QED
        BY <1>6, <3>2, <4>1
    <3> QED
      BY <3>1, <3>2
  <2>4. Window(type, s)[o] = Running(type, data)
    BY <1>1, <1>9, <2>3
  <2>5. Finish(type, Running(type, data), data) = Finish(type, Running(type, data), covered)
    <3>1. CASE type = "samsung_rx"
      BY <2>2, <3>1 DEF SkipsHeader
    <3>2. CASE type # "samsung_rx"
      <4> HIDE DEF type, data, covered
      <4> QED
        BY <3>2, FinishIgnores
    <3> QED
      BY <3>1, <3>2
  <2> QED
    BY <1>7, <1>11, <2>1, <2>4, <2>5
<1> QED
  BY <1>10, <1>11

\* The scan finds the packets that verify on their own.
LEMMA FixedMatchesAre ==
  ASSUME config \in ConfigType, config.length > 0, WindowCovers, isLengthAllowed(config.length),
         NEW s \in Seq(Byte)
  PROVE  FixedMatches(s) = FixedStarts(s, 0)
<1> SUFFICES ASSUME NEW o \in 0 .. (Len(s) - config.length), ValidStart(s[o + 1])
             PROVE  o \in FixedMatches(s) <=> verifyChecksum(SubSeq(s, o + 1, o + config.length))
  BY DEF FixedMatches, FixedStarts
<1> DEFINE packet == SubSeq(s, o + 1, o + config.length)
<1>a. o \in FixedMatches(s) <=>
        CASE ~UsesWindow -> verifyChecksum(packet)
          [] UsesWindow /\ config.checksum = "xor_add" ->
                  LET temp == Window("xor", s)[o]
                  IN /\ temp = s[o + WindowEnd + 1]
                     /\ Wrap(Window("add", s)[o] + temp) = s[o + WindowEnd + 2]
          [] OTHER ->
                  Finish(config.checksum, Window(config.checksum, s)[o],
                         SubSeq(s, o + headerLength + 1, o + WindowEnd))
                    = s[o + WindowEnd + 1]
  BY DEF FixedMatches
<1>1. CASE ~UsesWindow
  <2>1. o \in FixedMatches(s) <=> verifyChecksum(packet)
    <3> HIDE DEF packet
    <3> QED
      BY <1>1, <1>a
  <2> QED
    BY <2>1
<1>2. CASE UsesWindow
  <2>1. o \in FixedMatches(s) <=>
           CASE config.checksum = "xor_add" ->
                  LET temp == Window("xor", s)[o]
                  IN /\ temp = s[o + WindowEnd + 1]
                     /\ Wrap(Window("add", s)[o] + temp) = s[o + WindowEnd + 2]
             [] OTHER ->
                  Finish(config.checksum, Window(config.checksum, s)[o],
                         SubSeq(s, o + headerLength + 1, o + WindowEnd))
                    = s[o + WindowEnd + 1]
    BY <1>2 DEF FixedMatches
  <2>2. ChecksumFits(packet, footerLength) <=> o \in FixedMatches(s)
    <3> HIDE DEF packet
    <3>1. packet = SubSeq(s, o + 1, o + config.length)
      BY DEF packet
    <3> QED
      BY <1>2, <2>1, <3>1, WindowVerifies
  <2>3. Len(packet) = config.length
    <3>1. config.length \in Nat /\ Len(s) \in Nat
      BY ConfigFacts, LenProperties
    <3>2. Len(packet) = IF o + 1 <= o + config.length
                        THEN (o + config.length) - (o + 1) + 1 ELSE 0
      <4>1. o + 1 \in Nat \ {0} /\ o + config.length \in Int /\ o + config.length <= Len(s)
        BY <3>1
      <4> QED
        BY <4>1, Sub
    <3> QED
      BY <3>1, <3>2
  <2>4. config.checksum = "xor_add" => Len(packet) - 2 - footerLength >= headerLength
    <3>1. config.checksum = "xor_add" => getChecksumLength = 2
      BY DEF getChecksumLength
    <3>2. headerLength \in Nat /\ footerLength \in Nat /\ config.length \in Nat
      BY ConfigFacts
    <3>3. headerLength <= config.length - getChecksumLength - footerLength
      BY <1>2 DEF WindowCovers, WindowEnd
    <3> HIDE DEF packet
    <3> QED
      BY <2>3, <3>1, <3>2, <3>3
  <2> QED
    BY <2>2, <2>3, <2>4 DEF verifyChecksum
<1> QED
  BY <1>1, <1>2

-----------------------------------------------------------------------------
(* The packets of a stream.                                                 *)

\* The least of one number.
LEMMA MinOfOne == ASSUME NEW n \in Nat PROVE Min({n}) = n
<1>1. {n} \in SUBSET Nat /\ {n} # {}
  OBVIOUS
<1> QED
  BY <1>1, MinIs

\* A packet is not empty.
LEMMA CandidatesLie ==
  ASSUME config \in ConfigType, NEW s \in Seq(Byte)
  PROVE  Candidates(s) \subseteq 1 .. Len(s)
<1> DEFINE m == headerLength + 1 + getChecksumLength + footerLength
<1>0. /\ Len(s) \in Nat /\ headerLength \in Nat /\ footerLength \in Nat /\ getChecksumLength \in {0, 1, 2}
  BY ConfigFacts, LenProperties
<1>1. m \in Nat /\ m > 0 /\ headerLength + getChecksumLength \in Nat
      /\ (getChecksumLength > 0 => headerLength + getChecksumLength > 0)
  BY <1>0
<1> HIDE DEF m
<1>2. CASE config.footer # <<>>
  <2>1. \A k \in Candidates(s) : k \in m .. Len(s)
    BY <1>2 DEF Candidates, FooterEnds, m
  <2> QED
    BY <1>0, <1>1, <2>1
<1>3. CASE config.footer = <<>>
  <2>1. \A k \in Candidates(s) : k \in (headerLength + getChecksumLength) .. Len(s)
                                 /\ getChecksumLength > 0
    BY <1>3 DEF Candidates
  <2> QED
    BY <1>0, <1>1, <2>1
<1> QED
  BY <1>2, <1>3

\* A piece begins at or after p, is not empty and lies in the stream.
LEMMA PieceLies ==
  ASSUME config \in ConfigType, NEW stream \in Seq(Byte), NEW p \in 0 .. Len(stream),
         NextPiece(stream, p) # Nowhere
  PROVE  /\ NextPiece(stream, p).at \in p .. Len(stream)
         /\ NextPiece(stream, p).end \in (p + 1) .. Len(stream)
         /\ NextPiece(stream, p).at < NextPiece(stream, p).end
<1> DEFINE piece == NextPiece(stream, p)
           found == IF config.length > 0 THEN FixedStarts(stream, p)
                    ELSE {o \in StreamStarts(stream) : o >= p}
           first == Min(found)
           ends == IF config.length > 0 THEN {config.length} ELSE Candidates(Drop(stream, first))
<1>0. /\ Len(stream) \in Nat /\ p \in Nat /\ config.length \in Nat /\ headerLength \in Nat
      /\ footerLength \in Nat /\ getChecksumLength \in {0, 1, 2}
  BY ConfigFacts, LenProperties
<1>1. found # {} /\ ends # {} /\ piece = [at |-> first, end |-> first + Min(ends)]
  BY DEF NextPiece
<1>2. found \in SUBSET Nat /\ \A o \in found : o >= p /\ o <= Len(stream) - config.length
                                             /\ (config.length = 0 => o < Len(stream))
  <2>1. CASE config.length > 0
    <3>1. \A o \in FixedStarts(stream, p) : o \in p .. (Len(stream) - config.length)
      BY DEF FixedStarts
    <3> QED
      BY <1>0, <2>1, <3>1
  <2>2. CASE config.length = 0
    <3>1. \A o \in StreamStarts(stream) : o \in 0 .. (Len(stream) - headerLength) /\ o < Len(stream)
      BY DEF StreamStarts, HeaderPlaces
    <3> QED
      BY <1>0, <2>2, <3>1
  <2> QED
    BY <1>0, <2>1, <2>2
<1>3. first \in Nat /\ first >= p /\ first <= Len(stream) - config.length
      /\ (config.length = 0 => first < Len(stream))
  <2> HIDE DEF found
  <2> QED
    BY <1>1, <1>2, MinIs
<1> HIDE DEF found, first
<1>4. ends \in SUBSET (Nat \ {0}) /\ \A k \in ends : first + k <= Len(stream)
  <2>1. CASE config.length > 0
    BY <1>0, <1>3, <2>1
  <2>2. CASE config.length = 0
    <3> DEFINE s == Drop(stream, first)
    <3>1. s \in Seq(Byte) /\ Len(s) = Len(stream) - first
      <4>1. first \in 0 .. Len(stream)
        BY <1>0, <1>3
      <4> QED
        BY <4>1, Dropped
    <3> HIDE DEF s
    <3>3. \A k \in Candidates(s) : k \in 1 .. Len(s)
      BY <3>1, CandidatesLie
    <3>4. ends = Candidates(s)
      BY <2>2 DEF s
    <3> HIDE DEF ends
    <3> QED
      BY <1>0, <1>3, <3>1, <3>3, <3>4
  <2> QED
    BY <1>0, <2>1, <2>2
<1> HIDE DEF ends
<1>5. Min(ends) \in Nat \ {0} /\ first + Min(ends) <= Len(stream)
  <2>1. ends \in SUBSET Nat
    BY <1>4
  <2>2. Min(ends) \in ends
    BY <1>1, <2>1, MinIs
  <2> QED
    BY <1>4, <2>2
<1> HIDE DEF piece
<1>6. piece.at = first /\ piece.end = first + Min(ends)
  BY <1>1
<1>7. /\ first \in p .. Len(stream) /\ first + Min(ends) \in (p + 1) .. Len(stream)
      /\ first < first + Min(ends)
  BY <1>0, <1>3, <1>5
<1> QED
  BY <1>6, <1>7 DEF piece

FrameSet == [at : Nat, packet : Seq(Byte)]

\* What follows from a piece on.
Follows(stream, piece, rest) ==
  IF isLengthAllowed(piece.end - piece.at) THEN <<Frame(stream, piece)>> \o rest ELSE rest

FrameRule ==
  config \in ConfigType =>
    \A stream \in Seq(Byte) : \A p \in 0 .. Len(stream) :
      /\ FramesFrom(stream, p) \in Seq(FrameSet)
      /\ FramesFrom(stream, p) =
           IF NextPiece(stream, p) = Nowhere THEN <<>>
           ELSE Follows(stream, NextPiece(stream, p), FramesFrom(stream, NextPiece(stream, p).end))

\* FramesFrom follows its recursive rule, ...
LEMMA FramesUnfold == FrameRule
<1> SUFFICES ASSUME config \in ConfigType, NEW stream \in Seq(Byte)
             PROVE  \A p \in 0 .. Len(stream) :
      /\ FramesFrom(stream, p) \in Seq(FrameSet)
      /\ FramesFrom(stream, p) =
           IF NextPiece(stream, p) = Nowhere THEN <<>>
           ELSE Follows(stream, NextPiece(stream, p), FramesFrom(stream, NextPiece(stream, p).end))
  BY DEF FrameRule
<1> DEFINE L == Len(stream)
           D == 0 .. L
           V == Seq(FrameSet)
           P(p) == NextPiece(stream, p)
           Rule(f, p) == IF P(p) = Nowhere THEN <<>> ELSE Follows(stream, P(p), f[P(p).end])
           X == CHOOSE f : f = [p \in D |-> Rule(f, p)]
           m == [p \in D |-> L - p]
           stop == {p \in D : P(p) = Nowhere}
           onward == [p \in D |-> IF P(p) = Nowhere THEN p ELSE P(p).end]
           base == [p \in D |-> <<>>]
           op == [q \in D \X V |-> IF P(q[1]) = Nowhere THEN <<>> ELSE Follows(stream, P(q[1]), q[2])]
<1>0. L \in Nat /\ D \subseteq Nat
  BY LenProperties
<1>1. \A p \in D : P(p) # Nowhere => /\ P(p).at \in p .. L /\ P(p).end \in (p + 1) .. L
                                    /\ P(p).at < P(p).end
  BY PieceLies
<1>2. \A p \in D : P(p) # Nowhere => P(p).end \in D /\ P(p).end \in Nat /\ P(p).at \in Nat
  <2> HIDE DEF P, L
  <2> QED
    BY <1>0, <1>1
<1>3. ASSUME NEW p \in D, NEW v \in V, P(p) # Nowhere PROVE Follows(stream, P(p), v) \in V
  <2>1. Frame(stream, P(p)) \in FrameSet
    <3>1. SubSeq(stream, P(p).at + 1, P(p).end) \in Seq(Byte)
      <4>1. P(p).at + 1 \in Nat \ {0} /\ P(p).end \in Int /\ P(p).end <= Len(stream)
        <5> HIDE DEF P
        <5> QED
          BY <1>0, <1>1, <1>2, <1>3
      <4> HIDE DEF P
      <4> QED
        BY <4>1, Sub
    <3> HIDE DEF P
    <3> QED
      BY <1>2, <1>3, <3>1 DEF Frame, FrameSet
  <2> DEFINE x == Frame(stream, P(p))
  <2> HIDE DEF x
  <2>2. x \in FrameSet
    BY <2>1 DEF x
  <2>3. <<x>> \o v \in Seq(FrameSet)
    BY <2>2
  <2> QED
    BY <2>3 DEF Follows, x
<1> HIDE DEF P
<1>4. Decreases(m, D, stop, onward)
  <2>1. m \in [D -> Nat] /\ onward \in [D -> D]
    BY <1>0, <1>2
  <2>2. \A p \in D : p \notin stop => m[onward[p]] < m[p]
    <3> SUFFICES ASSUME NEW p \in D, P(p) # Nowhere PROVE L - P(p).end < L - p
      BY <1>2
    <3>1. P(p).end \in (p + 1) .. L /\ p \in Nat
      BY <1>0, <1>1
    <3> HIDE DEF L
    <3> QED
      BY <1>0, <3>1
  <2> HIDE DEF m, D, stop, onward
  <2> QED
    BY <2>1, <2>2 DEF Decreases
<1>5. base \in [D -> V] /\ op \in [D \X V -> V]
  <2>1. <<>> \in V
    BY EmptySeq
  <2> HIDE DEF V
  <2> QED
    BY <1>3, <2>1
<1>6. PICK h \in [D -> V] : Unfolds(h, D, stop, base, op, onward)
  <2> HIDE DEF D, V, m, stop, onward, base, op
  <2> QED
    BY <1>4, <1>5, Recursion
<1>7. \A p \in D : h[p] = Rule(h, p)
  <2> SUFFICES ASSUME NEW p \in D PROVE h[p] = Rule(h, p)
    OBVIOUS
  <2>1. h[p] = IF p \in stop THEN base[p] ELSE op[<<p, h[onward[p]]>>]
    <3> HIDE DEF D, stop, base, op, onward
    <3> QED
      BY <1>6 DEF Unfolds
  <2>2. CASE P(p) = Nowhere
    BY <2>1, <2>2
  <2>3. CASE P(p) # Nowhere
    <3>1. onward[p] = P(p).end /\ p \notin stop /\ P(p).end \in D
      BY <1>2, <2>3
    <3>2. h[P(p).end] \in V
      BY <3>1
    <3> HIDE DEF V, D, onward, stop
    <3>3. op[<<p, h[P(p).end]>>] = Follows(stream, P(p), h[P(p).end])
      BY <2>3, <3>2
    <3> HIDE DEF op
    <3> QED
      BY <2>1, <2>3, <3>1, <3>3
  <2> QED
    BY <2>2, <2>3
<1>8. h = [p \in D |-> Rule(h, p)]
  <2> HIDE DEF Rule, D
  <2> QED
    BY <1>7
<1>9. X = [p \in D |-> Rule(X, p)]
  <2> HIDE DEF Rule, D
  <2> QED
    BY <1>8
<1>10. \A p : FramesFrom(stream, p) = X[p]
  BY DEF FramesFrom, Follows, P
<1> HIDE DEF X
<1>11. \A p \in D : X[p] = Rule(X, p)
  <2> HIDE DEF Rule, D
  <2> QED
    BY <1>9
<1>12. \A p \in D : X[p] \in V
  <2>1. \A p \in D : p \in stop => X[p] \in V
    BY <1>11, EmptySeq
  <2>2. \A p \in D : p \notin stop /\ X[onward[p]] \in V => X[p] \in V
    BY <1>3, <1>11
  <2>3. Inherits(X, D, V, stop, onward)
    <3> HIDE DEF D, V, stop, onward
    <3> QED
      BY <2>1, <2>2 DEF Inherits
  <2> HIDE DEF D, V, m, stop, onward
  <2> QED
    BY <1>4, <2>3, Recursively
<1> HIDE DEF V
<1> QED
  BY <1>10, <1>11, <1>12 DEF V, P

\* ... also after a step.
LEMMA FramesUnfoldNext == FrameRule'
BY FramesUnfold, PTL

\* A step keeps the configuration, and with it what is asked of a packet.
LEMMA SameVerdict ==
  ASSUME UNCHANGED config
  PROVE  /\ headerLength' = headerLength /\ footerLength' = footerLength
         /\ getChecksumLength' = getChecksumLength
         /\ \A n : isLengthAllowed(n)' <=> isLengthAllowed(n)
         /\ \A b : ValidStart(b)' <=> ValidStart(b)
         /\ \A packet : verifyChecksum(packet)' <=> verifyChecksum(packet)
<1>1. headerLength' = headerLength /\ footerLength' = footerLength
      /\ getChecksumLength' = getChecksumLength
  BY DEF headerLength, footerLength, getChecksumLength
<1>2. \A n : isLengthAllowed(n)' <=> isLengthAllowed(n)
  BY DEF isLengthAllowed
<1>3. \A b : ValidStart(b)' <=> ValidStart(b)
  BY DEF ValidStart
<1>4. \A packet, n : ChecksumFits(packet, n)' <=> ChecksumFits(packet, n)
  BY <1>1, Zenon DEF ChecksumFits
<1>5. \A packet : verifyChecksum(packet)' <=> verifyChecksum(packet)
  <2> SUFFICES ASSUME NEW packet PROVE verifyChecksum(packet)' <=> verifyChecksum(packet)
    OBVIOUS
  <2>1. /\ config.checksum' = config.checksum /\ config.footer' = config.footer
        /\ ChecksumFits(packet, Len(config.footer))' <=> ChecksumFits(packet, Len(config.footer))
    BY <1>1, Zenon DEF ChecksumFits
  <2> QED
    BY <1>1, <1>2, <2>1 DEF verifyChecksum, footerLength
<1> QED
  BY <1>1, <1>2, <1>3, <1>5
\* Under one configuration the places of a stream do not change, ...
LEMMA SamePlaces ==
  ASSUME UNCHANGED config
  PROVE  /\ \A s : HeaderPlaces(s)' = HeaderPlaces(s)
         /\ \A s : StreamStarts(s)' = StreamStarts(s)
         /\ \A s, n : FooterEnds(s, n)' = FooterEnds(s, n)
         /\ \A s : Candidates(s)' = Candidates(s)
         /\ \A s, p : FixedStarts(s, p)' = FixedStarts(s, p)
<1> USE SameVerdict
<1>0. config'.header = config.header /\ config'.footer = config.footer /\ config'.length = config.length
  OBVIOUS
<1>1. \A s : HeaderPlaces(s)' = HeaderPlaces(s)
  BY <1>0 DEF HeaderPlaces
<1>2. \A s : StreamStarts(s)' = StreamStarts(s)
  BY <1>1 DEF StreamStarts
<1>3. \A s, n : FooterEnds(s, n)' = FooterEnds(s, n)
  BY <1>0 DEF FooterEnds
<1>4. \A s : Candidates(s)' = Candidates(s)
  <2> SUFFICES ASSUME NEW s PROVE Candidates(s)' = Candidates(s)
    OBVIOUS
  <2> DEFINE m == headerLength + 1 + getChecksumLength + footerLength
  <2>1. FooterEnds(s, m)' = FooterEnds(s, m)
    BY <1>0 DEF FooterEnds
  <2> QED
    BY <1>0, <2>1 DEF Candidates
<1>5. \A s, p : FixedStarts(s, p)' = FixedStarts(s, p)
  BY <1>0 DEF FixedStarts
<1> QED
  BY <1>1, <1>2, <1>3, <1>4, <1>5

\* ... nor does the next piece of it, ...
LEMMA SamePiece ==
  ASSUME UNCHANGED config, NEW stream, NEW p
  PROVE  NextPiece(stream, p)' = NextPiece(stream, p)
<1> DEFINE found == IF config.length > 0 THEN FixedStarts(stream, p)
                    ELSE {o \in StreamStarts(stream) : o >= p}
           first == Min(found)
           ends == IF config.length > 0 THEN {config.length} ELSE Candidates(Drop(stream, first))
<1>1. found' = found
  BY SamePlaces
<1>2. first' = first
  <2> HIDE DEF found
  <2> QED
    BY <1>1
<1>3. ends' = ends
  <2> DEFINE s == Drop(stream, first)
  <2>1. s' = s
    <3> HIDE DEF first
    <3> QED
      BY <1>2 DEF s
  <2> HIDE DEF s
  <2>2. Candidates(s)' = Candidates(s)
    BY <2>1, SamePlaces
  <2> QED
    BY <2>2 DEF s
<1> HIDE DEF found, first, ends
<1> QED
  BY <1>1, <1>2, <1>3 DEF NextPiece, found, first, ends

\* Induction from the end of a stream.
LEMMA Backwards ==
  ASSUME NEW L \in Nat, NEW S,
         \A p \in 0 .. L : (\A q \in (p + 1) .. L : q \in S) => p \in S
  PROVE  \A p \in 0 .. L : p \in S
<1> DEFINE Has == {n \in Nat : \A p \in 0 .. L : L - p < n => p \in S}
<1>1. 0 \in Has
  OBVIOUS
<1>2. ASSUME NEW n \in Nat, n \in Has PROVE n + 1 \in Has
  <2> SUFFICES ASSUME NEW p \in 0 .. L, L - p < n + 1 PROVE p \in S
    OBVIOUS
  <2>1. \A q \in (p + 1) .. L : q \in 0 .. L /\ L - q < n
    OBVIOUS
  <2> QED
    BY <1>2, <2>1
<1> HIDE DEF Has
<1>3. \A n \in Nat : n \in Has
  BY <1>1, <1>2, NatIsInduced
<1>4. L + 1 \in Has /\ \A p \in 0 .. L : L - p < L + 1
  BY <1>3
<1> QED
  BY <1>4 DEF Has

\* ... nor do its packets.
LEMMA SameFrames ==
  ASSUME config \in ConfigType, UNCHANGED config, NEW stream \in Seq(Byte)
  PROVE  \A p \in 0 .. Len(stream) : FramesFrom(stream, p)' = FramesFrom(stream, p)
<1> DEFINE L == Len(stream)
           S == {p \in 0 .. L : FramesFrom(stream, p)' = FramesFrom(stream, p)}
<1>0. L \in Nat
  BY LenProperties
<1>1. ASSUME NEW p \in 0 .. L, \A q \in (p + 1) .. L : q \in S PROVE p \in S
  <2> DEFINE piece == NextPiece(stream, p)
  <2>1. piece' = piece
    BY SamePiece
  <2>2. FramesFrom(stream, p) = IF piece = Nowhere THEN <<>>
                                ELSE Follows(stream, piece, FramesFrom(stream, piece.end))
    BY FramesUnfold DEF FrameRule
  <2>3. FramesFrom(stream, p)' = IF piece' = Nowhere THEN <<>>
                                 ELSE Follows(stream, piece, FramesFrom(stream, piece.end))'
    BY FramesUnfoldNext DEF FrameRule
  <2>4. piece # Nowhere => piece.end \in (p + 1) .. L
    BY PieceLies
  <2> HIDE DEF piece
  <2>5. CASE piece = Nowhere
    BY <2>1, <2>2, <2>3, <2>5
  <2>6. CASE piece # Nowhere
    <3>1. FramesFrom(stream, piece.end)' = FramesFrom(stream, piece.end)
      <4> DEFINE q == piece.end
      <4>1. q' = q /\ q \in S
        BY <1>1, <2>1, <2>4, <2>6
      <4> HIDE DEF q
      <4>2. FramesFrom(stream, q)' = FramesFrom(stream, q)
        BY <4>1
      <4> QED
        BY <4>2 DEF q
    <3>2. Follows(stream, piece, FramesFrom(stream, piece.end))'
            = Follows(stream, piece, FramesFrom(stream, piece.end))
      BY <2>1, <3>1, SameVerdict DEF Follows, Frame
    <3> QED
      BY <2>1, <2>2, <2>3, <2>6, <3>2
  <2> QED
    BY <2>5, <2>6
<1> HIDE DEF S
<1>2. \A p \in 0 .. L : p \in S
  BY <1>0, <1>1, Backwards
<1> QED
  BY <1>2 DEF S

\* Type, length and elements of two sequences put together.
LEMMA Concat ==
  ASSUME NEW S, NEW s \in Seq(S), NEW t \in Seq(S)
  PROVE  /\ s \o t \in Seq(S) /\ Len(s \o t) = Len(s) + Len(t)
         /\ \A i \in 1 .. Len(s) : (s \o t)[i] = s[i]
         /\ \A i \in 1 .. Len(t) : (s \o t)[Len(s) + i] = t[i]
OBVIOUS

\* Putting together is associative, ...
LEMMA ConcatThree ==
  ASSUME NEW S, NEW s \in Seq(S), NEW t \in Seq(S), NEW u \in Seq(S)
  PROVE  (s \o t) \o u = s \o (t \o u)
OBVIOUS

\* ... and the empty sequence changes nothing.
LEMMA ConcatNone ==
  ASSUME NEW S, NEW s \in Seq(S)
  PROVE  s \o <<>> = s /\ <<>> \o s = s /\ <<>> \in Seq(S)
OBVIOUS

\* Dropping twice.
LEMMA DropDrop ==
  ASSUME NEW S, NEW s \in Seq(S), NEW m \in 0 .. Len(s), NEW n \in 0 .. (Len(s) - m)
  PROVE  Drop(Drop(s, m), n) = Drop(s, m + n)
<1>0. Len(s) \in Nat /\ m \in Nat /\ n \in Nat /\ m + n \in 0 .. Len(s)
  BY LenProperties
<1>1. Drop(s, m) \in Seq(S) /\ Len(Drop(s, m)) = Len(s) - m /\ n \in 0 .. Len(Drop(s, m))
  BY Dropped
<1>2. Drop(Drop(s, m), n) = SubSeq(SubSeq(s, m + 1, Len(s)), n + 1, Len(s) - m)
  BY <1>1 DEF Drop
<1>3. SubSeq(SubSeq(s, m + 1, Len(s)), n + 1, Len(s) - m)
        = SubSeq(s, (m + 1) + (n + 1) - 1, (m + 1) + (Len(s) - m) - 1)
  <2>1. /\ m + 1 \in Nat \ {0} /\ Len(s) \in Int /\ m + 1 <= Len(s) + 1 /\ Len(s) <= Len(s)
        /\ n + 1 \in Nat \ {0} /\ Len(s) - m \in Int /\ Len(s) - m <= Len(s) - (m + 1) + 1
    BY <1>0
  <2> QED
    BY <2>1, SubSub
<1>4. (m + 1) + (n + 1) - 1 = (m + n) + 1 /\ (m + 1) + (Len(s) - m) - 1 = Len(s)
  BY <1>0
<1> QED
  BY <1>2, <1>3, <1>4 DEF Drop

\* Dropping nothing.
LEMMA DropNone ==
  ASSUME NEW S, NEW s \in Seq(S)
  PROVE  Drop(s, 0) = s
<1>1. 0 \in 0 .. Len(s) /\ Len(s) \in Nat
  BY LenProperties
<1>2. Drop(s, 0) \in Seq(S) /\ Len(Drop(s, 0)) = Len(s) - 0 /\ \A i \in 1 .. (Len(s) - 0) : Drop(s, 0)[i] = s[0 + i]
  BY <1>1, Dropped
<1>3. Len(s) - 0 = Len(s) /\ \A i \in 1 .. Len(s) : 0 + i = i
  BY <1>1
<1>4. Len(Drop(s, 0)) = Len(s) /\ \A i \in 1 .. Len(Drop(s, 0)) : Drop(s, 0)[i] = s[i]
  BY <1>2, <1>3
<1> QED
  BY <1>2, <1>4, SameSeq

-----------------------------------------------------------------------------
(* Streams that grow: what was read is read again.                          *)

\* What is read of the bytes that have arrived does not change when more arrive.
LEMMA PieceOfBoth ==
  ASSUME NEW S, NEW s \in Seq(S), NEW c \in Seq(S), NEW a \in Nat \ {0}, NEW b \in Int, b <= Len(s)
  PROVE  SubSeq(s \o c, a, b) = SubSeq(s, a, b)
<1>0. s \o c \in Seq(S) /\ Len(s \o c) = Len(s) + Len(c) /\ Len(s) \in Nat /\ Len(c) \in Nat
      /\ \A i \in 1 .. Len(s) : (s \o c)[i] = s[i]
  BY Concat, LenProperties
<1>1. b <= Len(s \o c)
  BY <1>0
<1> DEFINE t == s \o c
           u == SubSeq(t, a, b)
           v == SubSeq(s, a, b)
<1>2. u \in Seq(S) /\ Len(u) = (IF a <= b THEN b - a + 1 ELSE 0) /\ \A i \in 1 .. (b - a + 1) : u[i] = t[a + i - 1]
  <2> HIDE DEF t
  <2>1. t \in Seq(S) /\ b <= Len(t)
    BY <1>0, <1>1 DEF t
  <2> QED
    BY <2>1, Sub
<1>3. v \in Seq(S) /\ Len(v) = (IF a <= b THEN b - a + 1 ELSE 0) /\ \A i \in 1 .. (b - a + 1) : v[i] = s[a + i - 1]
  BY Sub
<1>4. ASSUME NEW i \in 1 .. Len(u) PROVE u[i] = v[i]
  <2> HIDE DEF u, v
  <2>1. i \in 1 .. (b - a + 1) /\ a + i - 1 \in 1 .. Len(s)
    BY <1>0, <1>2
  <2> HIDE DEF t
  <2>2. u[i] = t[a + i - 1] /\ v[i] = s[a + i - 1]
    BY <1>2, <1>3, <2>1
  <2>3. t[a + i - 1] = s[a + i - 1]
    BY <1>0, <2>1 DEF t
  <2> QED
    BY <2>2, <2>3
<1> HIDE DEF u, v
<1>5. Len(u) = Len(v)
  BY <1>2, <1>3
<1>6. u = v
  BY <1>2, <1>3, <1>4, <1>5, SameSeq
<1> QED
  BY <1>6 DEF u, v, t

\* Dropping from the first of two sequences put together.
LEMMA DropBoth ==
  ASSUME NEW S, NEW s \in Seq(S), NEW c \in Seq(S), NEW p \in 0 .. Len(s)
  PROVE  Drop(s \o c, p) = Drop(s, p) \o c
<1> DEFINE t == s \o c
           d == Drop(s, p)
           u == Drop(t, p)
           v == d \o c
<1>0. Len(s) \in Nat /\ Len(c) \in Nat /\ p \in Nat /\ p <= Len(s)
  BY LenProperties
<1>1. t \in Seq(S) /\ Len(t) = Len(s) + Len(c) /\ (\A i \in 1 .. Len(s) : t[i] = s[i])
      /\ (\A i \in 1 .. Len(c) : t[Len(s) + i] = c[i])
  BY Concat
<1>2. d \in Seq(S) /\ Len(d) = Len(s) - p /\ \A i \in 1 .. (Len(s) - p) : d[i] = s[p + i]
  BY Dropped
<1>3. u \in Seq(S) /\ Len(u) = Len(t) - p /\ \A i \in 1 .. (Len(t) - p) : u[i] = t[p + i]
  <2>1. p \in 0 .. Len(t)
    BY <1>0, <1>1
  <2> HIDE DEF t
  <2> QED
    BY <1>1, <2>1, Dropped
<1>4. v \in Seq(S) /\ Len(v) = Len(d) + Len(c) /\ (\A i \in 1 .. Len(d) : v[i] = d[i])
      /\ (\A i \in 1 .. Len(c) : v[Len(d) + i] = c[i])
  <2>1. d \in Seq(S) /\ c \in Seq(S)
    BY <1>2
  <2> HIDE DEF d
  <2> QED
    BY <2>1, Concat
<1> HIDE DEF t, d, u, v
<1>5. Len(u) = Len(v)
  BY <1>0, <1>1, <1>2, <1>3, <1>4
<1>6. ASSUME NEW i \in 1 .. Len(u) PROVE u[i] = v[i]
  <2>1. CASE i <= Len(d)
    <3>1. i \in 1 .. Len(d) /\ i \in 1 .. (Len(s) - p) /\ i \in 1 .. (Len(t) - p) /\ p + i \in 1 .. Len(s)
      BY <1>0, <1>1, <1>2, <1>3, <2>1
    <3> QED
      BY <1>1, <1>2, <1>3, <1>4, <3>1
  <2>2. CASE i > Len(d)
    <3> DEFINE j == i - Len(d)
    <3>1. j \in 1 .. Len(c) /\ i \in 1 .. (Len(t) - p) /\ p + i = Len(s) + j /\ i = Len(d) + j
      BY <1>0, <1>1, <1>2, <1>3, <2>2
    <3> HIDE DEF j
    <3>2. u[i] = t[Len(s) + j]
      BY <1>3, <3>1
    <3>3. v[i] = c[j]
      BY <1>4, <3>1
    <3> QED
      BY <1>1, <3>1, <3>2, <3>3
  <2>3. i \in Nat /\ Len(d) \in Nat
    BY <1>0, <1>2
  <2> QED
    BY <2>1, <2>2, <2>3
<1>7. u = v
  BY <1>3, <1>4, <1>5, <1>6, SameSeq
<1> QED
  BY <1>7 DEF u, v, t, d

\* The Min of a set is the member that no other is below.
LEMMA LeastIs ==
  ASSUME NEW A \in SUBSET Nat, NEW m \in A, \A x \in A : m <= x
  PROVE  Min(A) = m
<1>1. Min(A) \in A /\ Min(A) <= m /\ Min(A) \in Nat /\ m \in Nat /\ m <= Min(A)
  BY MinIs
<1> QED
  BY <1>1

\* Packets start inside the stream.
LEMMA StartsLie ==
  ASSUME config \in ConfigType, NEW st \in Seq(Byte)
  PROVE  \A o \in StreamStarts(st) : o \in Nat /\ o < Len(st) /\ o <= Len(st) - headerLength
<1>1. Len(st) \in Nat /\ headerLength \in Nat
  BY ConfigFacts, LenProperties
<1>2. \A o \in StreamStarts(st) : o \in 0 .. (Len(st) - headerLength) /\ o < Len(st)
  BY DEF StreamStarts, HeaderPlaces
<1> QED
  BY <1>1, <1>2

\* A piece, by where packets may start.
PieceOf(st, found, fixed) ==
  LET ends == IF fixed > 0 THEN {fixed} ELSE Candidates(Drop(st, Min(found)))
  IN IF found = {} THEN Nowhere
     ELSE IF ends = {} THEN Nowhere
     ELSE [at |-> Min(found), end |-> Min(found) + Min(ends)]

\* The next piece of a stream, in all three strategies.
LEMMA PieceIs ==
  ASSUME config \in ConfigType
  PROVE  \A st, p : NextPiece(st, p) =
           IF config.length > 0 THEN PieceOf(st, FixedStarts(st, p), config.length)
           ELSE PieceOf(st, {o \in StreamStarts(st) : o >= p}, config.length)
BY DEF NextPiece, PieceOf

\* Where no packet starts, nothing is read.
LEMMA SkipTo ==
  ASSUME config \in ConfigType, NEW st \in Seq(Byte), NEW p \in 0 .. Len(st), NEW q \in p .. Len(st),
         config.length = 0 => \A o \in p .. (q - 1) : o \notin StreamStarts(st),
         config.length > 0 => \A o \in p .. (q - 1) : o \notin FixedStarts(st, p)
  PROVE  FramesFrom(st, p) = FramesFrom(st, q)
<1>0. Len(st) \in Nat /\ p \in Nat /\ q \in Nat /\ q \in 0 .. Len(st) /\ config.length \in Nat
  BY ConfigFacts, LenProperties
<1>1. NextPiece(st, p) = NextPiece(st, q)
  <2>1. CASE config.length = 0
    <3>1. \A o \in StreamStarts(st) : o \in Nat
      BY StartsLie
    <3>2. \A o \in Nat : o >= p <=> o >= q \/ o \in p .. (q - 1)
      BY <1>0
    <3>3. {o \in StreamStarts(st) : o >= p} = {o \in StreamStarts(st) : o >= q}
      BY <2>1, <3>1, <3>2
    <3>4. ~(config.length > 0)
      BY <1>0, <2>1
    <3> QED
      BY <3>3, <3>4, PieceIs
  <2>2. CASE config.length > 0
    <3>1. \A o : o \in p .. (Len(st) - config.length) /\ o \notin p .. (q - 1)
                   <=> o \in q .. (Len(st) - config.length)
      BY <1>0
    <3>2. FixedStarts(st, p) = FixedStarts(st, q)
      BY <2>2, <3>1 DEF FixedStarts
    <3> QED
      BY <2>2, <3>2 DEF NextPiece
  <2> QED
    BY <1>0, <2>1, <2>2
<1>2. /\ FramesFrom(st, p) = IF NextPiece(st, p) = Nowhere THEN <<>>
                             ELSE Follows(st, NextPiece(st, p), FramesFrom(st, NextPiece(st, p).end))
      /\ FramesFrom(st, q) = IF NextPiece(st, q) = Nowhere THEN <<>>
                             ELSE Follows(st, NextPiece(st, q), FramesFrom(st, NextPiece(st, q).end))
  BY <1>0, FramesUnfold DEF FrameRule
<1> QED
  BY <1>1, <1>2

Starts(st, p) == {o \in StreamStarts(st) : o >= p}

\* A stream without a next piece gives no packets.
LEMMA NoPiece ==
  ASSUME config \in ConfigType, NEW st \in Seq(Byte), NEW p \in 0 .. Len(st),
         config.length = 0 =>
           \A o \in Starts(st, p) :
             (\A x \in Starts(st, p) : o <= x) => Candidates(Drop(st, o)) = {},
         config.length > 0 => FixedStarts(st, p) = {}
  PROVE  FramesFrom(st, p) = <<>>
<1>1. NextPiece(st, p) = Nowhere
  <2>1. CASE config.length = 0
    <3> DEFINE found == {o \in StreamStarts(st) : o >= p}
    <3>1. found \in SUBSET Nat
      BY StartsLie
    <3>2. CASE found = {}
      BY <2>1, <3>2 DEF NextPiece
    <3>3. CASE found # {}
      <4>1. Min(found) \in found /\ \A x \in found : Min(found) <= x
        <5> HIDE DEF found
        <5> QED
          BY <3>1, <3>3, MinIs
      <4>2. found = Starts(st, p)
        BY DEF Starts
      <4>3. Candidates(Drop(st, Min(found))) = {}
        <5> HIDE DEF found
        <5> QED
          BY <2>1, <4>1, <4>2
      <4> QED
        BY <2>1, <3>3, <4>3 DEF NextPiece
    <3> QED
      BY <3>2, <3>3
  <2>2. CASE config.length > 0
    BY <2>2 DEF NextPiece
  <2> QED
    BY <2>1, <2>2, ConfigFacts
<1> QED
  BY <1>1, FramesUnfold DEF FrameRule

\* The piece of k bytes at o is what is read next from p on.
IsNext(st, p, o, k) ==
  /\ config.length = 0 => /\ o = p /\ p \in StreamStarts(st)
                          /\ k \in Candidates(Drop(st, p)) /\ \A x \in Candidates(Drop(st, p)) : k <= x
  /\ config.length > 0 => /\ o \in FixedStarts(st, p) /\ \A x \in FixedStarts(st, p) : o <= x
                          /\ k = config.length

\* What is read at the first start.
LEMMA PieceHere ==
  ASSUME config \in ConfigType, NEW st \in Seq(Byte), NEW p \in 0 .. Len(st), NEW o, NEW k,
         IsNext(st, p, o, k)
  PROVE  /\ o \in p .. Len(st) /\ k \in Nat \ {0} /\ o + k \in 0 .. Len(st)
         /\ FramesFrom(st, p) =
              IF isLengthAllowed(k)
              THEN <<[at |-> o, packet |-> SubSeq(st, o + 1, o + k)]>> \o FramesFrom(st, o + k)
              ELSE FramesFrom(st, o + k)
<1>0. Len(st) \in Nat /\ p \in Nat /\ config.length \in Nat
  BY ConfigFacts, LenProperties
<1> USE DEF IsNext
<1>1. o \in Nat /\ k \in Nat \ {0} /\ NextPiece(st, p) = [at |-> o, end |-> o + k]
  <2>1. CASE config.length = 0
    <3> DEFINE found == {x \in StreamStarts(st) : x >= p}
               ends == Candidates(Drop(st, p))
    <3>1. found \in SUBSET Nat /\ p \in found /\ \A x \in found : p <= x
      <4>1. p >= p /\ p \in StreamStarts(st)
        BY <1>0, <2>1
      <4> QED
        BY <1>0, <4>1, StartsLie
    <3>2. Min(found) = p
      <4> HIDE DEF found
      <4> QED
        BY <3>1, LeastIs
    <3>3. ends \subseteq 1 .. Len(Drop(st, p)) /\ Len(Drop(st, p)) \in Nat
      <4>1. Drop(st, p) \in Seq(Byte)
        BY Dropped
      <4> QED
        BY <4>1, CandidatesLie, LenProperties
    <3>4. ends \in SUBSET Nat /\ k \in Nat \ {0}
      BY <2>1, <3>3
    <3>5. Min(ends) = k /\ ends # {}
      <4>1. k \in ends /\ \A x \in ends : k <= x
        BY <2>1
      <4> HIDE DEF ends
      <4> QED
        BY <3>4, <4>1, LeastIs
    <3>6. NextPiece(st, p) = [at |-> p, end |-> p + k]
      <4>1. found # {}
        BY <3>1
      <4> QED
        BY <2>1, <3>2, <3>5, <4>1 DEF NextPiece
    <3> QED
      BY <1>0, <2>1, <3>4, <3>6
  <2>2. CASE config.length > 0
    <3> DEFINE found == FixedStarts(st, p)
    <3>1. found \in SUBSET Nat /\ o \in found /\ \A x \in found : o <= x
      BY <1>0, <2>2 DEF FixedStarts
    <3>2. Min(found) = o
      <4> HIDE DEF found
      <4> QED
        BY <3>1, LeastIs
    <3>3. Min({config.length}) = config.length
      BY <1>0, MinOfOne
    <3>4. found # {} /\ {config.length} # {}
      BY <3>1
    <3>5. NextPiece(st, p) = PieceOf(st, found, config.length)
      BY <2>2, PieceIs
    <3>6. PieceOf(st, found, config.length) = [at |-> o, end |-> o + config.length]
      <4> HIDE DEF found
      <4> QED
        BY <2>2, <3>2, <3>3, <3>4 DEF PieceOf
    <3>7. o \in Nat /\ k = config.length /\ k \in Nat \ {0}
      BY <1>0, <2>2, <3>1
    <3> QED
      BY <3>5, <3>6, <3>7
  <2> QED
    BY <1>0, <2>1, <2>2
<1>2. NextPiece(st, p) # Nowhere
  <2>1. o + k # 0
    BY <1>1
  <2> QED
    BY <1>1, <2>1 DEF Nowhere
<1>3. NextPiece(st, p).at = o /\ NextPiece(st, p).end = o + k
  BY <1>1
<1>4. o \in p .. Len(st) /\ o + k \in (p + 1) .. Len(st)
  BY <1>2, <1>3, PieceLies
<1>5. FramesFrom(st, p) = Follows(st, NextPiece(st, p), FramesFrom(st, o + k))
  BY <1>2, <1>3, FramesUnfold DEF FrameRule
<1>6. (o + k) - o = k
  BY <1>1
<1> QED
  BY <1>0, <1>1, <1>3, <1>4, <1>5, <1>6 DEF Follows, Frame

\* The lesser of two numbers.
LEMMA MinOfTwo ==
  ASSUME NEW a \in Nat, NEW b \in Nat
  PROVE  Min({a, b}) \in {a, b} /\ Min({a, b}) <= a /\ Min({a, b}) <= b
<1>1. {a, b} \in SUBSET Nat /\ {a, b} # {} /\ a \in {a, b} /\ b \in {a, b}
  OBVIOUS
<1> DEFINE T == {a, b}
<1> HIDE DEF T
<1>2. Min(T) \in T /\ \A x \in T : Min(T) <= x
  BY <1>1, MinIs DEF T
<1> QED
  BY <1>1, <1>2 DEF T

\* The greatest of three numbers.
LEMMA MaxOfThree ==
  ASSUME NEW a \in Nat, NEW b \in Nat, NEW c \in Nat
  PROVE  /\ Max({a, b, c}) \in {a, b, c}
         /\ Max({a, b, c}) >= a /\ Max({a, b, c}) >= b /\ Max({a, b, c}) >= c
<1>1. \E x \in {a, b, c} : \A y \in {a, b, c} : x >= y
  <2>1. CASE a >= b /\ a >= c
    BY <2>1
  <2>2. CASE b >= a /\ b >= c
    BY <2>2
  <2>3. CASE c >= a /\ c >= b
    BY <2>3
  <2> QED
    BY <2>1, <2>2, <2>3
<1> DEFINE T == {a, b, c}
<1>2. a \in T /\ b \in T /\ c \in T
  OBVIOUS
<1> HIDE DEF T
<1>3. Max(T) \in T /\ \A y \in T : Max(T) >= y
  BY <1>1 DEF Max, T
<1> QED
  BY <1>2, <1>3 DEF T

\* Type, length and elements of the beginning of a sequence.
LEMMA Taken ==
  ASSUME NEW S, NEW s \in Seq(S), NEW k \in 0 .. Len(s)
  PROVE  Take(s, k) \in Seq(S) /\ Len(Take(s, k)) = k /\ \A i \in 1 .. k : Take(s, k)[i] = s[i]
<1>1. k \in Nat /\ Len(s) \in Nat /\ 1 \in Nat \ {0} /\ k \in Int /\ k <= Len(s)
  BY LenProperties
<1>2. /\ Take(s, k) \in Seq(S) /\ Len(Take(s, k)) = (IF 1 <= k THEN k - 1 + 1 ELSE 0)
      /\ \A i \in 1 .. (k - 1 + 1) : Take(s, k)[i] = s[1 + i - 1]
  BY <1>1, Sub DEF Take
<1>3. \A i \in 1 .. k : i \in 1 .. (k - 1 + 1) /\ 1 + i - 1 = i
  BY <1>1
<1> QED
  BY <1>1, <1>2, <1>3

\* A piece long enough for header, checksum and footer verifies if its length is
\* allowed and its checksum fits.
LEMMA Verifies ==
  ASSUME config \in ConfigType, NEW s \in Seq(Byte), NEW k \in 0 .. Len(s),
         k >= headerLength + getChecksumLength + footerLength
  PROVE  verifyChecksum(Take(s, k)) <=> isLengthAllowed(k) /\ ChecksumFits(Take(s, k), footerLength)
<1>1. /\ headerLength \in Nat /\ footerLength \in Nat /\ getChecksumLength \in {0, 1, 2} /\ k \in Nat
      /\ config.checksum = "xor_add" <=> getChecksumLength = 2
  BY ConfigFacts, LenProperties
<1>2. Len(Take(s, k)) = k
  BY Taken
<1>3. config.checksum = "xor_add" => k - 2 - footerLength >= headerLength
  BY <1>1
<1> QED
  BY <1>2, <1>3 DEF verifyChecksum

minFooterLength == headerLength + 1 + getChecksumLength + footerLength

\* The footers that decide in the code are the lengths the stream offers.
LEMMA DecisiveAre ==
  ASSUME config \in ConfigType, config.footer # <<>>, NEW s \in Seq(Byte)
  PROVE  Decisive(s, minFooterLength) = Candidates(s)
<1>1. /\ headerLength \in Nat /\ footerLength \in Nat /\ getChecksumLength \in {0, 1, 2}
      /\ minFooterLength \in Nat /\ Len(s) \in Nat
  BY ConfigFacts, LenProperties DEF minFooterLength
<1>2. ASSUME NEW k \in FooterEnds(s, minFooterLength)
      PROVE  (isLengthAllowed(k) => ChecksumFits(Take(s, k), footerLength))
               <=> (isLengthAllowed(k) => verifyChecksum(Take(s, k)))
  <2>1. k \in minFooterLength .. Len(s)
    BY DEF FooterEnds
  <2>2. k \in 0 .. Len(s) /\ k >= headerLength + getChecksumLength + footerLength
    BY <1>1, <2>1 DEF minFooterLength
  <2> QED
    BY <2>2, Verifies
<1> QED
  BY <1>2 DEF Decisive, Candidates, minFooterLength

\* Lengths known not to verify.
Tried(s, n) ==
  /\ n \in 0 .. Len(s)
  /\ config.length = 0 /\ config.footer = <<>> /\ getChecksumLength > 0 =>
       \A k \in (headerLength + getChecksumLength) .. n : ~verifyChecksum(Take(s, k))

\* What the sweep still tries is what the stream offers: lengths tried before do not fit.
LEMMA SweepFitsAre ==
  ASSUME config \in ConfigType, config.length = 0, config.footer = <<>>, getChecksumLength > 0,
         NEW s \in Seq(Byte), NEW n, Tried(s, n),
         NEW startLength, startLength = Max({headerLength + getChecksumLength, n + 1, config.minLength}),
         NEW scanLimit,
         scanLimit = IF config.maxLength > 0 THEN Min({Len(s), config.maxLength}) ELSE Len(s)
  PROVE  SweepFits(s, startLength, scanLimit) = Candidates(s)
<1> DEFINE m == headerLength + getChecksumLength
<1>1. /\ headerLength \in Nat /\ footerLength = 0 /\ getChecksumLength \in {0, 1, 2} /\ m \in Nat
      /\ config.minLength \in Nat /\ config.maxLength \in Nat /\ Len(s) \in Nat /\ n \in Nat
      /\ m >= headerLength + getChecksumLength + footerLength
  BY ConfigFacts, LenProperties DEF Tried
<1>2. Candidates(s) = {k \in m .. Len(s) : verifyChecksum(Take(s, k))}
  BY DEF Candidates
<1> HIDE DEF m
<1>3. /\ startLength \in {m, n + 1, config.minLength}
      /\ startLength >= m /\ startLength >= n + 1 /\ startLength >= config.minLength
  BY <1>1, MaxOfThree DEF m
<1>4. /\ scanLimit \in Nat /\ scanLimit <= Len(s) /\ (config.maxLength > 0 => scanLimit <= config.maxLength)
      /\ \A k \in Nat : k <= Len(s) /\ (config.maxLength > 0 => k <= config.maxLength) => k <= scanLimit
  BY <1>1, MinOfTwo
<1>5. \A k \in m .. Len(s) : verifyChecksum(Take(s, k)) <=>
                               isLengthAllowed(k) /\ ChecksumFits(Take(s, k), 0)
  <2> SUFFICES ASSUME NEW k \in m .. Len(s)
               PROVE  verifyChecksum(Take(s, k)) <=> isLengthAllowed(k) /\ ChecksumFits(Take(s, k), footerLength)
    BY <1>1
  <2>1. k \in 0 .. Len(s) /\ k >= headerLength + getChecksumLength + footerLength
    BY <1>1
  <2> QED
    BY <2>1, Verifies
<1>6. ASSUME NEW k \in m .. Len(s), verifyChecksum(Take(s, k))
      PROVE  k \in startLength .. scanLimit
  <2>1. k \in Nat /\ k >= config.minLength /\ (config.maxLength > 0 => k <= config.maxLength)
    BY <1>1, <1>5, <1>6 DEF isLengthAllowed
  <2>2. \A j \in m .. n : ~verifyChecksum(Take(s, j))
    BY DEF Tried, m
  <2>3. n \in Nat /\ m \in Nat /\ k \in Nat /\ k >= m
    BY <1>1, <1>6, <2>1
  <2>4. k \in m .. n \/ k > n
    BY ONLY <2>3
  <2>6. k \notin m .. n
    <3>1. verifyChecksum(Take(s, k))
      BY <1>6
    <3> QED
      BY ONLY <2>2, <3>1, Zenon
  <2>5. k > n
    BY <2>4, <2>6, Zenon
  <2>7. n \in Nat /\ k \in Nat /\ k >= n + 1 /\ k <= Len(s) /\ Len(s) \in Nat
    BY <1>1, <2>3, <2>5
  <2>8. startLength \in Nat /\ k >= startLength
    BY <1>1, <1>3, <2>1, <2>3, <2>7
  <2>9. k <= scanLimit
    BY <1>4, <2>1, <2>7
  <2> QED
    BY <1>4, <2>7, <2>8, <2>9
<1>7. ASSUME NEW k \in startLength .. scanLimit
      PROVE  k \in m .. Len(s) /\ isLengthAllowed(k)
  <2>1. k \in Nat /\ k >= startLength /\ k <= scanLimit
    BY <1>1, <1>3, <1>4
  <2>2. k >= m /\ k <= Len(s) /\ k >= config.minLength /\ (config.maxLength > 0 => k <= config.maxLength)
    BY <1>1, <1>3, <1>4, <2>1
  <2> QED
    BY <1>1, <2>1, <2>2 DEF isLengthAllowed
<1> QED
  BY <1>2, <1>5, <1>6, <1>7 DEF SweepFits

\* More bytes behind do not change which of the lengths at hand are candidates.
LEMMA CandidatesGrow ==
  ASSUME config \in ConfigType, NEW s \in Seq(Byte), NEW c \in Seq(Byte)
  PROVE  \A k \in 0 .. Len(s) : k \in Candidates(s \o c) <=> k \in Candidates(s)
<1>1. /\ headerLength \in Nat /\ footerLength \in Nat /\ getChecksumLength \in {0, 1, 2}
      /\ Len(s) \in Nat /\ Len(c) \in Nat /\ Len(s \o c) = Len(s) + Len(c)
  BY ConfigFacts, LenProperties, Concat
<1> SUFFICES ASSUME NEW k \in 0 .. Len(s)
             PROVE  k \in Candidates(s \o c) <=> k \in Candidates(s)
  OBVIOUS
<1>2. k \in Int /\ k <= Len(s) /\ k <= Len(s \o c)
  BY <1>1
<1>3. Take(s \o c, k) = Take(s, k)
  BY <1>2, PieceOfBoth DEF Take
<1>4. CASE config.footer # <<>>
  <2> DEFINE m == headerLength + 1 + getChecksumLength + footerLength
  <2>1. m \in Nat /\ (k >= m => k - footerLength + 1 \in Nat \ {0})
    BY <1>1, <1>2
  <2>2. k >= m => SubSeq(s \o c, k - footerLength + 1, k) = SubSeq(s, k - footerLength + 1, k)
    BY <1>2, <2>1, PieceOfBoth
  <2>3. k \in m .. Len(s) <=> k \in m .. Len(s \o c)
    BY <1>1, <1>2, <2>1
  <2>4. k \in m .. Len(s) => k >= m
    BY <1>1, <2>1
  <2> HIDE DEF m
  <2>5. k \in FooterEnds(s \o c, m) <=> k \in FooterEnds(s, m)
    BY <2>2, <2>3, <2>4 DEF FooterEnds
  <2> QED
    BY <1>3, <1>4, <2>5 DEF Candidates, m
<1>5. CASE config.footer = <<>>
  <2> DEFINE m == headerLength + getChecksumLength
  <2>1. k \in m .. Len(s) <=> k \in m .. Len(s \o c)
    BY <1>1, <1>2
  <2> QED
    BY <1>3, <1>5, <2>1 DEF Candidates
<1> QED
  BY <1>4, <1>5

\* What an iteration does with s when there is no fixed length: it waits, as nothing
\* fits; gives up a byte no packet starts with; takes the shortest piece that decides;
\* or goes by the dynamic length.
Waits(s) ==
  /\ Stop(s, Len(s)) \/ (config.maxLength > 0 /\ Len(s) > config.maxLength /\ Skip(s, 1))
  /\ Candidates(s) = {}
  /\ ValidStart(s[1]) \/ \A o \in 0 .. Len(s) : Candidates(Drop(s, o)) = {}

GivesUp(s) == ~ValidStart(s[1]) /\ Skip(s, 1)

TakesFirst(s) ==
  \E k \in Candidates(s) :
    /\ \A x \in Candidates(s) : k <= x
    /\ ValidStart(s[1])
    /\ IF isLengthAllowed(k) THEN Emit(s, 0, k) ELSE Skip(s, k)

GoesBy(s) ==
  /\ config.lengthAt > 0
  /\ \E k \in 1 .. Len(s) : Skip(s, k) \/ (verifyChecksum(Take(s, k)) /\ Emit(s, 0, k))

Delimited(s) == Waits(s) \/ GivesUp(s) \/ TakesFirst(s) \/ GoesBy(s)

\* The type of what is left.
LEMMA ShorterStays ==
  ASSUME NEW s \in Seq(Byte), NEW o \in 0 .. Len(s)
  PROVE  Drop(s, o) \in Seq(Byte) /\ Len(Drop(s, o)) \in Nat /\ Len(Drop(s, o)) <= Len(s)
<1>1. Drop(s, o) \in Seq(Byte) /\ Len(Drop(s, o)) = Len(s) - o /\ Len(s) \in Nat
  BY Dropped, LenProperties
<1> QED
  BY <1>1

\* Too short, or without a checksum to look for.
LEMMA NothingFits ==
  ASSUME config \in ConfigType, NEW s \in Seq(Byte),
         \/ config.footer # <<>> /\ Len(s) < minFooterLength
         \/ config.footer = <<>> /\ (getChecksumLength = 0 \/ Len(s) < headerLength + getChecksumLength)
  PROVE  Candidates(s) = {} /\ \A o \in 0 .. Len(s) : Candidates(Drop(s, o)) = {}
<1>1. headerLength \in Nat /\ footerLength \in Nat /\ getChecksumLength \in {0, 1, 2} /\ Len(s) \in Nat
  BY ConfigFacts, LenProperties
<1>2. ASSUME NEW t \in Seq(Byte), Len(t) \in Nat, Len(t) <= Len(s)
      PROVE  Candidates(t) = {}
  <2>1. CASE config.footer # <<>>
    <3>1. Len(t) < minFooterLength /\ minFooterLength \in Nat
      BY <1>1, <1>2, <2>1 DEF minFooterLength
    <3>2. FooterEnds(t, minFooterLength) = {}
      BY <1>2, <3>1 DEF FooterEnds
    <3> QED
      BY <2>1, <3>2 DEF Candidates, minFooterLength
  <2>2. CASE config.footer = <<>>
    <3>1. getChecksumLength = 0 \/ (headerLength + getChecksumLength) .. Len(t) = {}
      BY <1>1, <1>2, <2>2
    <3> QED
      BY <1>1, <2>2, <3>1 DEF Candidates
  <2> QED
    BY <2>1, <2>2
<1>3. Candidates(s) = {}
  BY <1>1, <1>2
<1>4. \A o \in 0 .. Len(s) : Candidates(Drop(s, o)) = {}
  BY <1>2, ShorterStays
<1> QED
  BY <1>3, <1>4

\* WaitOrShift leaves what may still become a packet.
LEMMA ShiftWaits ==
  ASSUME NEW s, WaitOrShift(s), Candidates(s) = {},
         ValidStart(s[1]) \/ \A o \in 0 .. Len(s) : Candidates(Drop(s, o)) = {}
  PROVE  Waits(s)
BY DEF WaitOrShift, Waits

\* An iteration of strategy B takes the first piece or waits.
LEMMA FooterOutcome ==
  ASSUME config \in ConfigType, NEW s \in Seq(Byte), FooterDelimited(s)
  PROVE  config.length = 0 /\ Delimited(s)
<1> DEFINE decisive == Decisive(s, minFooterLength)
<1>1. config.length = 0 /\ config.footer # <<>>
  BY DEF FooterDelimited
<1> SUFFICES Delimited(s)
  BY <1>1
<1>2. decisive = Candidates(s) /\ Candidates(s) \in SUBSET Nat
  BY <1>1, DecisiveAre, CandidatesLie
<1>6. Len(s) \in Nat /\ minFooterLength \in Nat
  BY ConfigFacts, LenProperties DEF minFooterLength
<1>3. CASE Len(s) < minFooterLength
  <2>1. WaitOrShift(s)
    BY <1>3, <1>6 DEF FooterDelimited, minFooterLength
  <2> QED
    BY <1>1, <1>3, <2>1, NothingFits, ShiftWaits DEF Delimited
<1>4. CASE Len(s) >= minFooterLength /\ ~ValidStart(s[1])
  <2>1. Skip(s, 1)
    BY <1>4 DEF FooterDelimited, minFooterLength
  <2> QED
    BY <1>4, <2>1 DEF Delimited, GivesUp
<1>5. CASE Len(s) >= minFooterLength /\ ValidStart(s[1])
  <2>1. IF decisive = {} THEN WaitOrShift(s)
        ELSE IF isLengthAllowed(Min(decisive)) THEN Emit(s, 0, Min(decisive)) ELSE Skip(s, Min(decisive))
    BY <1>5, <1>6 DEF FooterDelimited, minFooterLength
  <2> HIDE DEF decisive
  <2>2. CASE decisive = {}
    BY <1>2, <1>5, <2>1, <2>2, ShiftWaits DEF Delimited
  <2>3. CASE decisive # {}
    <3>1. Min(decisive) \in decisive /\ \A x \in decisive : Min(decisive) <= x
      BY <1>2, <2>3, MinIs
    <3>2. TakesFirst(s)
      BY <1>2, <1>5, <2>1, <2>3, <3>1 DEF TakesFirst
    <3> QED
      BY <3>2 DEF Delimited
  <2> QED
    BY <2>2, <2>3
<1> QED
  BY <1>1, <1>3, <1>4, <1>5, <1>6

\* An iteration of strategy C takes the first piece or waits.
LEMMA SweepOutcome ==
  ASSUME config \in ConfigType, NEW s \in Seq(Byte), NEW n, Tried(s, n), ChecksumSweep(s, n)
  PROVE  config.length = 0 /\ Delimited(s)
<1> DEFINE minLength == headerLength + getChecksumLength
           dynamic == DynamicLength(s)
           startLength == Max({minLength, n + 1, config.minLength})
           scanLimit == IF config.maxLength > 0 THEN Min({Len(s), config.maxLength}) ELSE Len(s)
           fits == SweepFits(s, startLength, scanLimit)
<1>1. config.length = 0 /\ config.footer = <<>>
  BY DEF ChecksumSweep
<1> SUFFICES Delimited(s)
  BY <1>1
<1>2. Len(s) \in Nat /\ minLength \in Nat /\ getChecksumLength \in {0, 1, 2} /\ Candidates(s) \in SUBSET Nat
  BY ConfigFacts, LenProperties, CandidatesLie
<1>3. CASE getChecksumLength = 0 \/ Len(s) < minLength
  <2>1. WaitOrShift(s)
    BY <1>2, <1>3 DEF ChecksumSweep
  <2> QED
    BY <1>1, <1>3, <2>1, NothingFits, ShiftWaits DEF Delimited
<1>4. CASE getChecksumLength > 0 /\ Len(s) >= minLength /\ ~ValidStart(s[1])
  <2>1. Skip(s, 1)
    BY <1>4, <1>2 DEF ChecksumSweep
  <2> QED
    BY <1>4, <2>1 DEF Delimited, GivesUp
<1>5. CASE getChecksumLength > 0 /\ Len(s) >= minLength /\ ValidStart(s[1])
  <2>0. (CASE dynamic \in 1 .. Len(s) /\ ~isLengthAllowed(dynamic) -> Skip(s, dynamic)
           [] dynamic \in 1 .. Len(s) /\ verifyChecksum(Take(s, dynamic)) -> Emit(s, 0, dynamic)
           [] OTHER -> CASE startLength > scanLimit -> Stop(s, Len(s))
                         [] fits # {} -> Emit(s, 0, Min(fits))
                         [] OTHER -> WaitOrShift(s))
    <3>1. ~(getChecksumLength = 0 \/ Len(s) < minLength) /\ ValidStart(s[1])
      BY <1>2, <1>5
    <3> QED
      BY ONLY <3>1, ChecksumSweep(s, n), Zenon DEF ChecksumSweep
  <2>1. CASE dynamic \in 1 .. Len(s) /\ ~isLengthAllowed(dynamic)
    <3>1. Skip(s, dynamic)
      <4>1. ~verifyChecksum(Take(s, dynamic))
        BY <1>2, <2>1, Taken DEF verifyChecksum
      <4> HIDE DEF startLength, scanLimit, fits, dynamic
      <4> QED
        BY <2>0, <2>1, <4>1
    <3>2. config.lengthAt > 0
      BY <2>1, ConfigFacts, <1>2 DEF DynamicLength
    <3> QED
      BY <2>1, <3>1, <3>2 DEF Delimited, GoesBy
  <2>2. CASE /\ ~(dynamic \in 1 .. Len(s) /\ ~isLengthAllowed(dynamic))
             /\ dynamic \in 1 .. Len(s) /\ verifyChecksum(Take(s, dynamic))
    <3>1. Emit(s, 0, dynamic)
      BY <1>2, <1>5, <2>2 DEF ChecksumSweep
    <3>2. config.lengthAt > 0
      BY <2>2, ConfigFacts, <1>2 DEF DynamicLength
    <3> QED
      BY <2>2, <3>1, <3>2 DEF Delimited, GoesBy
  <2>3. CASE /\ ~(dynamic \in 1 .. Len(s) /\ ~isLengthAllowed(dynamic))
             /\ ~(dynamic \in 1 .. Len(s) /\ verifyChecksum(Take(s, dynamic)))
    <3>2. fits = Candidates(s)
      BY <1>1, <1>5, SweepFitsAre
    <3>3. startLength > scanLimit => fits = {}
      <4>1. startLength \in Nat /\ scanLimit \in Nat
        <5>1. n + 1 \in Nat /\ config.minLength \in Nat /\ config.maxLength \in Nat
          BY ConfigFacts, <1>2 DEF Tried
        <5>2. startLength \in {minLength, n + 1, config.minLength}
          BY <1>2, <5>1, MaxOfThree
        <5>3. scanLimit \in Nat
          BY <1>2, <5>1, MinOfTwo
        <5> QED
          BY <1>2, <5>1, <5>2, <5>3
      <4> HIDE DEF startLength, scanLimit
      <4> QED
        BY <4>1 DEF SweepFits
    <3>1. /\ startLength > scanLimit => Stop(s, Len(s))
          /\ ~(startLength > scanLimit) /\ fits # {} => Emit(s, 0, Min(fits))
          /\ ~(startLength > scanLimit) /\ fits = {} => WaitOrShift(s)
      <4> HIDE DEF startLength, scanLimit, fits, dynamic
      <4> QED
        BY <2>0, <2>3, <3>3
    <3> HIDE DEF startLength, scanLimit, fits, dynamic
    <3>4. CASE fits = {}
      <4>1. Stop(s, Len(s)) \/ WaitOrShift(s)
        BY <3>1, <3>4
      <4>2. Waits(s)
        BY <1>5, <3>2, <3>4, <4>1, ShiftWaits DEF Waits
      <4> QED
        BY <4>2 DEF Delimited
    <3>5. CASE fits # {}
      <4>1. Emit(s, 0, Min(fits))
        BY <3>1, <3>3, <3>5
      <4>2. Min(fits) \in fits /\ \A x \in fits : Min(fits) <= x
        BY <1>2, <3>2, <3>5, MinIs
      <4>3. isLengthAllowed(Min(fits))
        <5>1. Min(fits) \in 1 .. Len(s) /\ verifyChecksum(Take(s, Min(fits)))
          BY <1>1, <3>2, <4>2, CandidatesLie DEF Candidates
        <5>2. Len(Take(s, Min(fits))) = Min(fits)
          BY <1>2, <5>1, Taken
        <5> QED
          BY <5>1, <5>2 DEF verifyChecksum
      <4>4. TakesFirst(s)
        BY <1>5, <3>2, <4>1, <4>2, <4>3 DEF TakesFirst
      <4> QED
        BY <4>4 DEF Delimited
    <3> QED
      BY <3>4, <3>5
  <2> QED
    BY <2>1, <2>2, <2>3
<1> QED
  BY <1>1, <1>2, <1>3, <1>4, <1>5

\* Starts among the bytes at hand do not depend on what is behind them.
LEMMA StartsGrow ==
  ASSUME config \in ConfigType, NEW t \in Seq(Byte), NEW c \in Seq(Byte)
  PROVE  /\ \A o \in 0 .. Len(t) : o + headerLength <= Len(t) =>
              (o \in HeaderPlaces(t \o c) <=> o \in HeaderPlaces(t))
         /\ \A o \in 0 .. Len(t) : o < Len(t) /\ o + headerLength <= Len(t) =>
              (o \in StreamStarts(t \o c) <=> o \in StreamStarts(t))
         /\ config.length > 0 => \A o \in 0 .. (Len(t) - config.length) :
              o \in FixedStarts(t \o c, 0) <=> o \in FixedStarts(t, 0)
<1>1. /\ headerLength \in Nat /\ config.length \in Nat
      /\ Len(t) \in Nat /\ Len(c) \in Nat /\ Len(t \o c) = Len(t) + Len(c)
      /\ \A i \in 1 .. Len(t) : (t \o c)[i] = t[i]
  BY ConfigFacts, LenProperties, Concat
<1>2. ASSUME NEW o \in 0 .. Len(t), o + headerLength <= Len(t)
      PROVE  o \in HeaderPlaces(t \o c) <=> o \in HeaderPlaces(t)
  <2>1. o + 1 \in Nat \ {0} /\ o + headerLength \in Int
    BY <1>1
  <2>2. SubSeq(t \o c, o + 1, o + headerLength) = SubSeq(t, o + 1, o + headerLength)
    BY <1>2, <2>1, PieceOfBoth
  <2>3. o \in 0 .. (Len(t) - headerLength) /\ o \in 0 .. (Len(t \o c) - headerLength)
    BY <1>1, <1>2
  <2> QED
    BY <2>2, <2>3 DEF HeaderPlaces
<1>3. ASSUME NEW o \in 0 .. Len(t), o < Len(t), o + headerLength <= Len(t)
      PROVE  o \in StreamStarts(t \o c) <=> o \in StreamStarts(t)
  <2>1. o \in HeaderPlaces(t \o c) <=> o \in HeaderPlaces(t)
    BY <1>2, <1>3
  <2>2. o < Len(t \o c) /\ (t \o c)[o + 1] = t[o + 1]
    BY <1>1, <1>3
  <2> QED
    BY <1>3, <2>1, <2>2 DEF StreamStarts
<1>4. ASSUME config.length > 0, NEW o \in 0 .. (Len(t) - config.length)
      PROVE  o \in FixedStarts(t \o c, 0) <=> o \in FixedStarts(t, 0)
  <2>1. o + 1 \in Nat \ {0} /\ o + config.length \in Int /\ o + config.length <= Len(t)
        /\ o + 1 \in 1 .. Len(t) /\ o \in 0 .. (Len(t \o c) - config.length)
    BY <1>1, <1>4
  <2>2. SubSeq(t \o c, o + 1, o + config.length) = SubSeq(t, o + 1, o + config.length)
    BY <2>1, PieceOfBoth
  <2> QED
    BY <1>1, <2>1, <2>2 DEF FixedStarts
<1> QED
  BY <1>2, <1>3, <1>4

\* Starts from offset p on are those of the bytes b from p on.
Aligned(st, p, b) ==
  /\ b \in Seq(Byte) /\ Len(b) = Len(st) - p
  /\ \A o \in Nat : p + o \in StreamStarts(st) <=> o \in StreamStarts(b)
  /\ config.length > 0 => \A o \in Nat : p + o \in FixedStarts(st, p) <=> o \in FixedStarts(b, 0)
  /\ \A o \in 0 .. Len(b) : Drop(st, p + o) = Drop(b, o)
  /\ \A o \in Nat : \A n \in Nat : o + n <= Len(b) =>
       SubSeq(st, p + o + 1, p + o + n) = SubSeq(b, o + 1, o + n)

\* The places of a stream, seen from the buffer that is its end.
LEMMA StartsShift ==
  ASSUME config \in ConfigType, NEW st \in Seq(Byte), NEW p \in 0 .. Len(st), NEW b, b = Drop(st, p)
  PROVE  Aligned(st, p, b)
<1>0. /\ headerLength \in Nat /\ config.length \in Nat /\ Len(st) \in Nat
      /\ b \in Seq(Byte) /\ Len(b) = Len(st) - p
      /\ \A i \in 1 .. (Len(st) - p) : b[i] = st[p + i]
  BY ConfigFacts, LenProperties, Dropped
<1>1. /\ headerLength \in Nat /\ config.length \in Nat /\ Len(st) \in Nat /\ p \in Nat
      /\ b \in Seq(Byte) /\ Len(b) = Len(st) - p /\ Len(b) \in Nat
      /\ \A i \in 1 .. Len(b) : b[i] = st[p + i]
  <2>1. p \in Nat /\ Len(st) - p \in Nat
    BY <1>0
  <2> QED
    BY ONLY <1>0, <2>1
<1>2. ASSUME NEW o \in Nat, NEW n \in Nat, o + n <= Len(b)
      PROVE  SubSeq(st, p + o + 1, p + o + n) = SubSeq(b, o + 1, o + n)
  <2>1. /\ p + 1 \in Nat \ {0} /\ Len(st) \in Int /\ p + 1 <= Len(st) + 1 /\ o + 1 \in Nat \ {0}
        /\ o + n \in Int /\ o + n <= Len(st) - (p + 1) + 1
        /\ (p + 1) + (o + 1) - 1 = p + o + 1 /\ (p + 1) + (o + n) - 1 = p + o + n
    <3>1. p \in Nat /\ Len(st) \in Nat /\ p <= Len(st) /\ Len(b) = Len(st) - p /\ o + n <= Len(b)
      BY <1>1, <1>2
    <3> QED
      BY ONLY <3>1, o \in Nat, n \in Nat
  <2> QED
    BY <2>1, SubSub DEF Drop
<1>3. ASSUME NEW o \in Nat
      PROVE  p + o \in StreamStarts(st) <=> o \in StreamStarts(b)
  <2>1. CASE o + headerLength <= Len(b) /\ o < Len(b)
    <3>1. /\ p + o \in 0 .. (Len(st) - headerLength) /\ o \in 0 .. (Len(b) - headerLength)
          /\ p + o < Len(st) /\ o + 1 \in 1 .. Len(b) /\ p + (o + 1) = (p + o) + 1
      BY <1>1, <2>1
    <3>2. SubSeq(st, (p + o) + 1, (p + o) + headerLength) = SubSeq(b, o + 1, o + headerLength)
      BY <1>1, <1>2, <2>1
    <3>3. b[o + 1] = st[(p + o) + 1]
      BY <1>1, <3>1
    <3> QED
      BY <2>1, <3>1, <3>2, <3>3 DEF StreamStarts, HeaderPlaces
  <2>2. CASE ~(o + headerLength <= Len(b) /\ o < Len(b))
    <3>1. o \notin 0 .. (Len(b) - headerLength) \/ ~(o < Len(b))
      BY <1>1, <2>2
    <3>2. p + o \notin 0 .. (Len(st) - headerLength) \/ ~(p + o < Len(st))
      BY <1>1, <2>2
    <3> QED
      BY <3>1, <3>2 DEF StreamStarts, HeaderPlaces
  <2> QED
    BY <2>1, <2>2
<1>4. ASSUME config.length > 0, NEW o \in Nat
      PROVE  p + o \in FixedStarts(st, p) <=> o \in FixedStarts(b, 0)
  <2>1. CASE o + config.length <= Len(b)
    <3>1. /\ p + o \in p .. (Len(st) - config.length) /\ o \in 0 .. (Len(b) - config.length)
          /\ o + 1 \in 1 .. Len(b) /\ p + (o + 1) = (p + o) + 1
      BY <1>1, <1>4, <2>1
    <3>2. SubSeq(st, (p + o) + 1, (p + o) + config.length) = SubSeq(b, o + 1, o + config.length)
      BY <1>1, <1>2, <2>1
    <3>3. b[o + 1] = st[(p + o) + 1]
      BY <1>1, <3>1
    <3> QED
      BY <3>1, <3>2, <3>3 DEF FixedStarts
  <2>2. CASE ~(o + config.length <= Len(b))
    <3>1. o \notin 0 .. (Len(b) - config.length) /\ p + o \notin p .. (Len(st) - config.length)
      BY <1>1, <2>2
    <3> QED
      BY <3>1 DEF FixedStarts
  <2> QED
    BY <2>1, <2>2
<1>5. \A o \in 0 .. Len(b) : Drop(st, p + o) = Drop(b, o)
  BY <1>1, DropDrop
<1> QED
  BY <1>1, <1>2, <1>3, <1>4, <1>5 DEF Aligned

\* The three lemmas on what comes next, told of the bytes b from offset p on.
LEMMA PassOver ==
  ASSUME config \in ConfigType, NEW st \in Seq(Byte), NEW p \in 0 .. Len(st), NEW b, b = Drop(st, p),
         NEW d \in 0 .. Len(b),
         \A o \in 0 .. (d - 1) : (config.length = 0 => o \notin StreamStarts(b))
                                 /\ (config.length > 0 => o \notin FixedStarts(b, 0))
  PROVE  FramesFrom(st, p) = FramesFrom(st, p + d)
<1>0. Aligned(st, p, b) /\ Len(st) \in Nat /\ config.length \in Nat
  BY StartsShift, LenProperties, ConfigFacts
<1>1. Len(st) \in Nat /\ p \in Nat /\ Len(b) = Len(st) - p /\ d \in Nat /\ p + d \in p .. Len(st)
  BY <1>0 DEF Aligned
<1>2. ASSUME NEW o \in p .. (p + d - 1)
      PROVE  o - p \in 0 .. (d - 1) /\ o - p \in Nat /\ p + (o - p) = o
  BY <1>1
<1>3. ASSUME config.length = 0, NEW o \in p .. (p + d - 1) PROVE o \notin StreamStarts(st)
  <2>1. o - p \in 0 .. (d - 1) /\ o - p \in Nat /\ p + (o - p) = o
    BY <1>2
  <2>2. o - p \notin StreamStarts(b)
    BY <1>3, <2>1
  <2>3. p + (o - p) \in StreamStarts(st) <=> o - p \in StreamStarts(b)
    BY <1>0, <1>3, <2>1 DEF Aligned
  <2> QED
    BY <2>1, <2>2, <2>3
<1>4. ASSUME config.length > 0, NEW o \in p .. (p + d - 1) PROVE o \notin FixedStarts(st, p)
  <2>1. o - p \in 0 .. (d - 1) /\ o - p \in Nat /\ p + (o - p) = o
    BY <1>2
  <2>2. o - p \notin FixedStarts(b, 0)
    BY <1>4, <2>1
  <2>3. p + (o - p) \in FixedStarts(st, p) <=> o - p \in FixedStarts(b, 0)
    BY <1>0, <1>4, <2>1 DEF Aligned
  <2> QED
    BY <2>1, <2>2, <2>3
<1> QED
  BY <1>1, <1>3, <1>4, SkipTo

\* Nothing in the buffer: nothing more in the stream.
LEMMA NothingLeft ==
  ASSUME config \in ConfigType, NEW st \in Seq(Byte), NEW p \in 0 .. Len(st), NEW b, b = Drop(st, p),
         config.length = 0 =>
           \A o \in StreamStarts(b) :
             (\A x \in StreamStarts(b) : o <= x) => Candidates(Drop(b, o)) = {},
         config.length > 0 => FixedStarts(b, 0) = {}
  PROVE  FramesFrom(st, p) = <<>>
<1>0. Aligned(st, p, b) /\ Len(st) \in Nat /\ config.length \in Nat
  BY StartsShift, LenProperties, ConfigFacts
<1>1. Len(st) \in Nat /\ p \in Nat /\ b \in Seq(Byte) /\ Len(b) = Len(st) - p /\ Len(b) \in Nat
      /\ config.length \in Nat
  BY <1>0, LenProperties DEF Aligned
<1>2. ASSUME config.length = 0, NEW o \in Starts(st, p), \A x \in Starts(st, p) : o <= x
      PROVE  Candidates(Drop(st, o)) = {}
  <2>1. o \in Nat /\ o >= p /\ o < Len(st) /\ o \in StreamStarts(st)
    BY <1>2, StartsLie DEF Starts
  <2>2. o - p \in Nat /\ p + (o - p) = o /\ o - p \in 0 .. Len(b)
    BY <1>1, <2>1
  <2>3. o - p \in StreamStarts(b)
    BY <2>1, <2>2, <1>0 DEF Aligned
  <2>4. ASSUME NEW x \in StreamStarts(b) PROVE o - p <= x
    <3>1. x \in Nat
      BY <1>1, StartsLie
    <3>2. p + x \in StreamStarts(st) /\ p + x >= p
      BY <1>1, <3>1, <1>0 DEF Aligned
    <3>3. o <= p + x
      BY <1>2, <3>2 DEF Starts
    <3> QED
      BY <1>1, <2>1, <3>1, <3>3
  <2>5. Drop(st, o) = Drop(b, o - p)
    BY <2>2, <1>0 DEF Aligned
  <2> QED
    BY <1>2, <2>3, <2>4, <2>5
<1>3. config.length > 0 => FixedStarts(st, p) = {}
  <2> SUFFICES ASSUME config.length > 0, NEW o \in FixedStarts(st, p) PROVE FALSE
    OBVIOUS
  <2>1. o \in p .. (Len(st) - config.length)
    BY DEF FixedStarts
  <2>2. o - p \in Nat /\ p + (o - p) = o
    BY <1>1, <2>1
  <2> QED
    BY <2>2, <1>0 DEF Aligned
<1> QED
  BY <1>2, <1>3, NoPiece

\* The piece of k bytes at o is the first of b.
Leads(b, o, k) ==
  /\ config.length = 0 => /\ o = 0 /\ 0 \in StreamStarts(b)
                          /\ k \in Candidates(b) /\ \A x \in Candidates(b) : k <= x
  /\ config.length > 0 => /\ o \in FixedStarts(b, 0) /\ \A x \in FixedStarts(b, 0) : o <= x
                          /\ k = config.length

\* The packets from p on are that piece, if its length is allowed, and those behind it.
BeginsWith(st, p, b, o, k) ==
  FramesFrom(st, p) =
    IF isLengthAllowed(k)
    THEN <<[at |-> p + o, packet |-> SubSeq(b, o + 1, o + k)]>> \o FramesFrom(st, p + o + k)
    ELSE FramesFrom(st, p + o + k)

\* The first piece of the buffer is the next of the stream.
LEMMA PieceFirst ==
  ASSUME config \in ConfigType, NEW st \in Seq(Byte), NEW p \in 0 .. Len(st), NEW b, b = Drop(st, p),
         NEW o \in Nat, NEW k \in Nat, o + k <= Len(b), Leads(b, o, k)
  PROVE  BeginsWith(st, p, b, o, k)
<1>0. Aligned(st, p, b) /\ Len(st) \in Nat /\ config.length \in Nat
  BY StartsShift, LenProperties, ConfigFacts
<1>1. Len(st) \in Nat /\ p \in Nat /\ b \in Seq(Byte) /\ Len(b) = Len(st) - p /\ Len(b) \in Nat
      /\ config.length \in Nat /\ p + 0 = p
  BY <1>0, LenProperties DEF Aligned
<1> USE DEF Leads
<1>2. config.length = 0 => /\ p + o = p /\ p \in StreamStarts(st)
                           /\ k \in Candidates(Drop(st, p)) /\ \A x \in Candidates(Drop(st, p)) : k <= x
  BY <1>1, <1>0 DEF Aligned
<1>3. ASSUME config.length > 0
      PROVE  /\ p + o \in FixedStarts(st, p) /\ \A x \in FixedStarts(st, p) : p + o <= x
             /\ k = config.length
  <2>1. p + o \in FixedStarts(st, p)
    BY <1>3, <1>0 DEF Aligned
  <2>2. ASSUME NEW x \in FixedStarts(st, p) PROVE p + o <= x
    <3>1. x \in p .. (Len(st) - config.length)
      BY DEF FixedStarts
    <3>2. x - p \in Nat /\ p + (x - p) = x /\ x \in Nat
      BY <1>1, <3>1
    <3>3. o <= x - p
      BY <1>3, <3>2, <1>0 DEF Aligned
    <3> QED
      BY <1>1, <3>2, <3>3
  <2> QED
    BY <1>3, <2>1, <2>2
<1>4. SubSeq(st, p + o + 1, p + o + k) = SubSeq(b, o + 1, o + k)
  BY <1>0 DEF Aligned
<1>5. p + o \in Nat /\ config.length \in Nat
  BY <1>1
<1> DEFINE q == p + o
<1>7. config.length = 0 => /\ q = p /\ p \in StreamStarts(st)
                           /\ k \in Candidates(Drop(st, p)) /\ \A x \in Candidates(Drop(st, p)) : k <= x
  BY <1>2
<1>8. config.length > 0 => /\ q \in FixedStarts(st, p) /\ \A x \in FixedStarts(st, p) : q <= x
                           /\ k = config.length
  BY <1>3
<1> HIDE DEF q
<1>6. FramesFrom(st, p) = IF isLengthAllowed(k)
                          THEN <<[at |-> q, packet |-> SubSeq(st, q + 1, q + k)]>> \o FramesFrom(st, q + k)
                          ELSE FramesFrom(st, q + k)
  <2>1. IsNext(st, p, q, k)
    BY <1>7, <1>8 DEF IsNext
  <2> QED
    BY ONLY <2>1, PieceHere, config \in ConfigType, SMTT(30)
<1> QED
  BY <1>4, <1>6 DEF q, BeginsWith

-----------------------------------------------------------------------------
(* The steps of the parser.                                                *)

Consumed == Len(received) - Len(buffer)

ParserType ==
  /\ config \in Configs /\ config \in ConfigType
  /\ buffer \in Seq(Byte) /\ received \in Seq(Byte) /\ emitted \in Seq(FrameSet)
  /\ scanned \in 0 .. Len(buffer)
  /\ pc \in {"idle", "loop"} /\ overflowed \in BOOLEAN
  /\ Len(buffer) <= Len(received)
  /\ buffer = Drop(received, Consumed)

\* The lengths the sweep remembers do not verify.
Remembered ==
  headerLength <= Len(buffer) /\ 0 \in HeaderPlaces(buffer) => Tried(buffer, scanned)

\* d bytes go.
Passes(d) ==
  /\ buffer' = Drop(buffer, d)
  /\ UNCHANGED <<config, received, emitted, overflowed>>

\* A packet of n bytes is taken after o bytes.
Emits(o, n) ==
  /\ buffer' = Drop(buffer, o + n)
  /\ emitted' = Append(emitted, [at |-> Consumed + o, packet |-> SubSeq(buffer, o + 1, o + n)])
  /\ pc' = pc /\ scanned' = 0
  /\ UNCHANGED <<config, received, overflowed>>

\* The steps of the loop on s, told of the buffer, of which s lacks d bytes.
Moves(d, s) ==
  /\ \A n : Stop(s, n) => Passes(d) /\ pc' = "idle" /\ buffer' = s /\ scanned' = n
  /\ \A n \in 0 .. Len(s) : Skip(s, n) => Passes(d + n) /\ pc' = pc /\ scanned' = 0
  /\ \A n \in 0 .. Len(s) : Stop(Drop(s, n), 0) => Passes(d + n) /\ pc' = "idle" /\ scanned' = 0
  /\ \A o \in Nat : \A n \in Nat : o + n <= Len(s) /\ Emit(s, o, n) =>
       Emits(d + o, n) /\ SubSeq(buffer, d + o + 1, d + o + n) = SubSeq(s, o + 1, o + n)

\* What Stop, Skip and Emit do to the buffer and to what was consumed.
LEMMA StepsMove ==
  ASSUME buffer \in Seq(Byte), received \in Seq(Byte), NEW d \in 0 .. Len(buffer),
         NEW s, s = Drop(buffer, d)
  PROVE  Moves(d, s)
<1> DEFINE B == buffer
           R == received
<1>1. s \in Seq(Byte) /\ Len(s) = Len(B) - d /\ Len(B) \in Nat /\ Len(R) \in Nat /\ d \in Nat
  BY Dropped, LenProperties
<1>2. ASSUME NEW n \in 0 .. Len(s)
      PROVE  Drop(s, n) = Drop(B, d + n)
  BY <1>1, DropDrop
<1>3. ASSUME NEW n, Stop(s, n)
      PROVE  Passes(d) /\ pc' = "idle" /\ buffer' = s /\ scanned' = n
  BY <1>3 DEF Stop, Passes
<1>4. ASSUME NEW n \in 0 .. Len(s), Skip(s, n)
      PROVE  Passes(d + n) /\ pc' = pc /\ scanned' = 0
  BY <1>2, <1>4 DEF Skip, Passes
<1>5. ASSUME NEW n \in 0 .. Len(s), Stop(Drop(s, n), 0)
      PROVE  Passes(d + n) /\ pc' = "idle" /\ scanned' = 0
  BY <1>2, <1>5 DEF Stop, Passes
<1>6. ASSUME NEW o \in Nat, NEW n \in Nat, o + n <= Len(s), Emit(s, o, n)
      PROVE  Emits(d + o, n) /\ SubSeq(buffer, d + o + 1, d + o + n) = SubSeq(s, o + 1, o + n)
  <2>1. o + n \in 0 .. Len(s) /\ d + (o + n) = (d + o) + n /\ Len(R) - Len(s) + o = (Len(R) - Len(B)) + (d + o)
    BY <1>1, <1>6
  <2>2. Drop(s, o + n) = Drop(B, (d + o) + n)
    BY <1>2, <2>1
  <2>3. SubSeq(s, o + 1, o + n) = SubSeq(B, (d + o) + 1, (d + o) + n)
    <3>1. /\ d + 1 \in Nat \ {0} /\ Len(B) \in Int /\ d + 1 <= Len(B) + 1 /\ o + 1 \in Nat \ {0}
          /\ o + n \in Int /\ o + n <= Len(B) - (d + 1) + 1
          /\ (d + 1) + (o + 1) - 1 = (d + o) + 1 /\ (d + 1) + (o + n) - 1 = (d + o) + n
      BY ONLY <1>1, o \in Nat, n \in Nat, d \in 0 .. Len(buffer), o + n <= Len(s), <1>6
    <3> QED
      BY <3>1, SubSub DEF Drop
  <2> QED
    BY <1>6, <2>1, <2>2, <2>3 DEF Emit, Emits, Consumed
<1> QED
  BY <1>3, <1>4, <1>5, <1>6 DEF Moves

\* The cases of an iteration of strategy A.
LEMMA FixedOutcome ==
  ASSUME NEW s, NEW n, FixedLength(s, n)
  PROVE  /\ config.length > 0
         /\ \/ Len(s) < config.length /\ Stop(s, n)
            \/ Len(s) >= config.length /\ ~isLengthAllowed(config.length) /\ Skip(s, 1)
            \/ /\ Len(s) >= config.length /\ isLengthAllowed(config.length)
               /\ FixedMatches(s) # {} /\ Emit(s, Min(FixedMatches(s)), config.length)
            \/ /\ Len(s) >= config.length /\ isLengthAllowed(config.length)
               /\ FixedMatches(s) = {} /\ Stop(Drop(s, Len(s) - config.length + 1), 0)
BY DEF FixedLength

\* Headers lie inside the stream.
LEMMA PlacesLie ==
  ASSUME config \in ConfigType, NEW t \in Seq(Byte)
  PROVE  HeaderPlaces(t) \in SUBSET Nat /\ \A o \in HeaderPlaces(t) : o + headerLength <= Len(t) /\ o <= Len(t)
<1>1. headerLength \in Nat /\ Len(t) \in Nat
  BY ConfigFacts, LenProperties
<1> QED
  BY <1>1 DEF HeaderPlaces

\* What lies before the first header goes.
LEMMA FromFirst ==
  ASSUME config \in ConfigType, NEW t \in Seq(Byte), NEW first, first \in HeaderPlaces(t)
  PROVE  /\ first \in 0 .. Len(t) /\ Drop(t, first) \in Seq(Byte) /\ Len(Drop(t, first)) = Len(t) - first
         /\ headerLength <= Len(Drop(t, first)) /\ 0 \in HeaderPlaces(Drop(t, first))
         /\ \A k \in Nat : headerLength <= k /\ k <= Len(Drop(t, first)) =>
              SubSeq(Take(Drop(t, first), k), 1, headerLength) = config.header
<1>1. headerLength \in Nat /\ Len(t) \in Nat
  BY ConfigFacts, LenProperties
<1>2. first \in Nat /\ first + headerLength <= Len(t) /\ first \in 0 .. Len(t)
      /\ SubSeq(t, first + 1, first + headerLength) = config.header
  BY <1>1, PlacesLie DEF HeaderPlaces
<1> DEFINE s == Drop(t, first)
<1>3. s \in Seq(Byte) /\ Len(s) = Len(t) - first
  BY <1>2, Dropped
<1>4. headerLength <= Len(s) /\ Len(s) \in Nat
  BY <1>1, <1>2, <1>3
<1>5. SubSeq(s, 1, headerLength) = config.header
  <2>1. /\ first + 1 \in Nat \ {0} /\ Len(t) \in Int /\ first + 1 <= Len(t) + 1 /\ 1 \in Nat \ {0}
        /\ headerLength \in Int /\ headerLength <= Len(t) - (first + 1) + 1
        /\ (first + 1) + 1 - 1 = first + 1 /\ (first + 1) + headerLength - 1 = first + headerLength
    BY <1>1, <1>2
  <2> QED
    BY <1>2, <2>1, SubSub DEF Drop
<1> HIDE DEF s
<1>6. 0 \in HeaderPlaces(s)
  <2>1. 0 \in 0 .. (Len(s) - headerLength) /\ 0 + 1 = 1 /\ 0 + headerLength = headerLength
    BY <1>1, <1>4
  <2> QED
    BY <1>5, <2>1 DEF HeaderPlaces
<1>7. ASSUME NEW k \in Nat, headerLength <= k, k <= Len(s)
      PROVE  SubSeq(Take(s, k), 1, headerLength) = config.header
  <2>1. 1 \in Nat \ {0} /\ k \in Int /\ 1 <= k + 1 /\ headerLength \in Int /\ headerLength <= k - 1 + 1
        /\ 1 + 1 - 1 = 1 /\ 1 + headerLength - 1 = headerLength
    BY <1>1, <1>7
  <2>2. SubSeq(SubSeq(s, 1, k), 1, headerLength) = SubSeq(s, 1 + 1 - 1, 1 + headerLength - 1)
    BY <1>3, <1>7, <2>1, SubSub
  <2> QED
    BY <1>5, <2>1, <2>2 DEF Take
<1> QED
  BY <1>2, <1>3, <1>4, <1>6, <1>7 DEF s

\* An iteration ends the call as the buffer cannot hold a header, or goes on from the
\* first header.
GoesOn(first, s, n) ==
  /\ first \in HeaderPlaces(buffer) /\ (\A x \in HeaderPlaces(buffer) : first <= x)
  /\ s = Drop(buffer, first) /\ Len(s) > 0
  /\ Tried(s, n)
  /\ FixedLength(s, n) \/ (config.length = 0 /\ Delimited(s))

\* The cases of an iteration.
LEMMA IterateCases ==
  ASSUME ParserType, Remembered, Iterate
  PROVE  /\ pc = "loop"
         /\ \/ (Len(buffer) = 0 \/ Len(buffer) < headerLength) /\ Stop(buffer, scanned)
            \/ /\ Len(buffer) >= headerLength /\ headerLength > 0 /\ HeaderPlaces(buffer) = {}
               /\ Stop(Drop(buffer, Len(buffer) - (headerLength - 1)), 0)
            \/ \E first, s, n : GoesOn(first, s, n)
<1>1. /\ config \in ConfigType /\ buffer \in Seq(Byte) /\ Len(buffer) \in Nat /\ headerLength \in Nat
      /\ getChecksumLength \in {0, 1, 2} /\ scanned \in 0 .. Len(buffer)
  BY ConfigFacts, LenProperties DEF ParserType
<1>2. CASE Len(buffer) > 0 /\ HeaderPlaces(buffer) # {}
  <2> DEFINE first == Min(HeaderPlaces(buffer))
             s == Drop(buffer, first)
             n == IF first = 0 THEN scanned ELSE 0
  <2>1. first \in HeaderPlaces(buffer) /\ \A x \in HeaderPlaces(buffer) : first <= x
    BY <1>1, <1>2, PlacesLie, MinIs
  <2>2. /\ first \in 0 .. Len(buffer) /\ s \in Seq(Byte) /\ Len(s) = Len(buffer) - first
        /\ headerLength <= Len(s)
    BY <1>1, <2>1, FromFirst
  <2>3. Len(s) \in Nat /\ Len(s) > 0
    <3>1. CASE headerLength = 0
      <4>1. 0 \in HeaderPlaces(buffer)
        <5>1. config.header = <<>>
          BY <1>1, <3>1, ConfigFacts, EmptySeq DEF headerLength
        <5>2. SubSeq(buffer, 0 + 1, 0 + headerLength) = <<>>
          BY <1>1, <3>1
        <5> QED
          BY <1>1, <3>1, <5>1, <5>2 DEF HeaderPlaces
      <4>2. first = 0
        BY <2>1, <2>2, <4>1
      <4> QED
        BY <1>1, <1>2, <2>2, <4>2
    <3>2. CASE headerLength # 0
      BY <1>1, <2>2, <3>2
    <3> QED
      BY <3>1, <3>2
  <2>4. Tried(s, n)
    <3>1. CASE first = 0
      <4>1. s = buffer /\ 0 \in HeaderPlaces(buffer) /\ headerLength <= Len(buffer)
        BY <1>1, <2>1, <2>2, <3>1, DropNone
      <4> QED
        BY <3>1, <4>1 DEF Remembered
    <3>2. CASE first # 0
      <4>1. 0 \in 0 .. Len(s) /\ (getChecksumLength > 0 => (headerLength + getChecksumLength) .. 0 = {})
        BY <1>1, <2>3
      <4> HIDE DEF first, s
      <4> QED
        BY <3>2, <4>1 DEF Tried
    <3> QED
      BY <3>1, <3>2
  <2>5. pc = "loop"
    BY DEF Iterate
  <2>6. FixedLength(s, n) \/ FooterDelimited(s) \/ ChecksumSweep(s, n)
           \/ Len(buffer) < headerLength
    BY <1>1, <1>2 DEF Iterate
  <2>7. FixedLength(s, n) \/ (config.length = 0 /\ Delimited(s))
    <3>1. ~(Len(buffer) < headerLength)
      BY <1>1, <2>2
    <3> HIDE DEF first, s, n
    <3> QED
      BY <1>1, <2>2, <2>4, <2>6, <3>1, FooterOutcome, SweepOutcome
  <2> HIDE DEF first, s, n
  <2>8. s = Drop(buffer, first)
    BY DEF s
  <2>9. GoesOn(first, s, n)
    BY <2>1, <2>3, <2>4, <2>7, <2>8 DEF GoesOn
  <2> QED
    BY <2>5, <2>9
<1>3. CASE ~(Len(buffer) > 0 /\ HeaderPlaces(buffer) # {})
  <2>1. /\ pc = "loop"
        /\ \/ (Len(buffer) = 0 \/ Len(buffer) < headerLength) /\ Stop(buffer, scanned)
           \/ /\ Len(buffer) >= headerLength /\ headerLength > 0 /\ HeaderPlaces(buffer) = {}
              /\ Stop(Drop(buffer, Len(buffer) - (headerLength - 1)), 0)
    BY <1>3 DEF Iterate
  <2> QED
    BY <2>1
<1> QED
  BY <1>2, <1>3

\* What a packet has of its own.
GoodPacket(packet) ==
  /\ WindowCovers => verifyChecksum(packet)
  /\ config.length = 0 /\ (config.lengthAt > 0 => Len(packet) >= headerLength)
       => SubSeq(packet, 1, headerLength) = config.header

\* What strategies B and C emit is a packet; they remember only lengths tried in vain.
LEMMA DelimitedMoves ==
  ASSUME ParserType, NEW first, NEW s, NEW n, GoesOn(first, s, n), config.length = 0, Delimited(s)
  PROVE  /\ \/ \E d \in 0 .. Len(buffer) : Passes(d) /\ (pc' = "idle" \/ (pc' = pc /\ d > 0))
            \/ \E o \in Nat : \E k \in Nat \ {0} :
                 o + k <= Len(buffer) /\ Emits(o, k) /\ GoodPacket(SubSeq(buffer, o + 1, o + k))
         /\ scanned' = 0 \/ (buffer' = s /\ Tried(s, scanned'))
<1>1. /\ config \in ConfigType /\ buffer \in Seq(Byte) /\ received \in Seq(Byte)
      /\ Len(buffer) \in Nat /\ headerLength \in Nat /\ getChecksumLength \in {0, 1, 2}
  BY ConfigFacts, LenProperties DEF ParserType
<1>2. /\ first \in 0 .. Len(buffer) /\ s = Drop(buffer, first) /\ s \in Seq(Byte)
      /\ Len(s) = Len(buffer) - first /\ Len(s) \in Nat /\ Len(s) > 0 /\ headerLength <= Len(s)
      /\ \A k \in Nat : headerLength <= k /\ k <= Len(s) =>
            SubSeq(Take(s, k), 1, headerLength) = config.header
  BY <1>1, FromFirst, LenProperties DEF GoesOn
<1>3. Moves(first, s)
  BY <1>1, <1>2, StepsMove
<1>4. ASSUME NEW x \in 1 .. Len(s), Skip(s, x)
      PROVE  (\E d \in 0 .. Len(buffer) : Passes(d) /\ (pc' = "idle" \/ (pc' = pc /\ d > 0))) /\ scanned' = 0
  <2>1. x \in 0 .. Len(s) /\ first + x \in 0 .. Len(buffer) /\ first + x > 0
    BY <1>1, <1>2
  <2>2. Passes(first + x) /\ pc' = pc /\ scanned' = 0
    BY <1>3, <1>4, <2>1 DEF Moves
  <2> QED
    BY <2>1, <2>2
<1>5. ASSUME NEW x \in 1 .. Len(s), Emit(s, 0, x), verifyChecksum(Take(s, x)),
             config.lengthAt > 0 \/ headerLength <= x
      PROVE  /\ \E o \in Nat : \E k \in Nat \ {0} :
                   o + k <= Len(buffer) /\ Emits(o, k) /\ GoodPacket(SubSeq(buffer, o + 1, o + k))
             /\ scanned' = 0
  <2>1. /\ x \in Nat \ {0} /\ x \in Nat /\ 0 \in Nat /\ 0 + x <= Len(s) /\ first + x <= Len(buffer)
        /\ first \in Nat /\ first + 0 = first /\ 0 + x = x /\ 0 + 1 = 1 /\ x \in 0 .. Len(s)
    BY <1>1, <1>2
  <2>2. Emits(first, x) /\ SubSeq(buffer, first + 1, first + x) = Take(s, x)
    <3>1. Emits(first + 0, x) /\ SubSeq(buffer, first + 0 + 1, first + 0 + x) = SubSeq(s, 0 + 1, 0 + x)
      BY <1>3, <1>5, <2>1 DEF Moves
    <3> QED
      BY <2>1, <3>1 DEF Take
  <2>3. Len(Take(s, x)) = x
    <3>1. s \in Seq(Byte) /\ x \in 0 .. Len(s)
      BY <1>2, <2>1
    <3> QED
      BY ONLY <3>1, Taken
  <2>4. GoodPacket(Take(s, x))
    <3>1. CASE headerLength <= x
      BY <1>2, <1>5, <2>1, <2>3, <3>1 DEF GoodPacket
    <3>2. CASE ~(headerLength <= x)
      <4>1. config.lengthAt > 0 /\ ~(Len(Take(s, x)) >= headerLength)
        BY <1>1, <1>5, <2>1, <2>3, <3>2
      <4> QED
        BY <1>5, <4>1 DEF GoodPacket
    <3> QED
      BY <3>1, <3>2
  <2>5. scanned' = 0
    BY <2>2 DEF Emits
  <2> QED
    BY <2>1, <2>2, <2>4, <2>5
<1>6. CASE Waits(s)
  <2>1. CASE Stop(s, Len(s))
    <3>1. Tried(s, Len(s))
      <4>1. config.footer = <<>> /\ getChecksumLength > 0 =>
              \A k \in (headerLength + getChecksumLength) .. Len(s) : ~verifyChecksum(Take(s, k))
        BY <1>6 DEF Waits, Candidates
      <4> QED
        BY <1>2, <4>1 DEF Tried
    <3>2. Passes(first) /\ pc' = "idle" /\ buffer' = s /\ scanned' = Len(s)
      BY <1>3, <2>1 DEF Moves
    <3> QED
      BY <1>2, <3>1, <3>2
  <2>2. CASE Skip(s, 1)
    BY <1>2, <1>4, <2>2
  <2> QED
    BY <1>6, <2>1, <2>2 DEF Waits
<1>7. CASE GivesUp(s)
  BY <1>2, <1>4, <1>7 DEF GivesUp
<1>8. CASE TakesFirst(s)
  <2>1. PICK k \in Candidates(s) : IF isLengthAllowed(k) THEN Emit(s, 0, k) ELSE Skip(s, k)
    BY <1>8 DEF TakesFirst
  <2>2. k \in 1 .. Len(s)
    BY <1>1, <1>2, CandidatesLie
  <2>3. CASE isLengthAllowed(k)
    <3>1. verifyChecksum(Take(s, k)) /\ headerLength <= k
      <4>1. CASE config.footer # <<>>
        <5>1. k \in (headerLength + 1 + getChecksumLength + footerLength) .. Len(s) /\ verifyChecksum(Take(s, k))
          BY <2>3, <4>1 DEF Candidates, FooterEnds
        <5>2. footerLength \in Nat
          BY <1>1, ConfigFacts
        <5> QED
          BY <1>1, <1>2, <5>1, <5>2
      <4>2. CASE config.footer = <<>>
        <5>1. k \in (headerLength + getChecksumLength) .. Len(s) /\ verifyChecksum(Take(s, k))
          BY <4>2 DEF Candidates
        <5> QED
          BY <1>1, <1>2, <5>1
      <4> QED
        BY <4>1, <4>2
    <3> QED
      BY <1>5, <2>1, <2>2, <2>3, <3>1
  <2>4. CASE ~isLengthAllowed(k)
    BY <1>4, <2>1, <2>2, <2>4
  <2> QED
    BY <2>3, <2>4
<1>9. CASE GoesBy(s)
  <2>1. PICK k \in 1 .. Len(s) : Skip(s, k) \/ (verifyChecksum(Take(s, k)) /\ Emit(s, 0, k))
    BY <1>9 DEF GoesBy
  <2> QED
    BY <1>4, <1>5, <1>9, <2>1 DEF GoesBy
<1> QED
  BY <1>6, <1>7, <1>8, <1>9 DEF Delimited

\* What strategy A emits is a packet.
LEMMA FixedMoves ==
  ASSUME ParserType, NEW first, NEW s, NEW n, GoesOn(first, s, n), FixedLength(s, n)
  PROVE  /\ \/ \E d \in 0 .. Len(buffer) : Passes(d) /\ (pc' = "idle" \/ (pc' = pc /\ d > 0))
            \/ \E o \in Nat : \E k \in Nat \ {0} :
                 o + k <= Len(buffer) /\ Emits(o, k) /\ GoodPacket(SubSeq(buffer, o + 1, o + k))
         /\ scanned' = 0 \/ (buffer' = s /\ Tried(s, scanned'))
<1>1. /\ config \in ConfigType /\ buffer \in Seq(Byte) /\ received \in Seq(Byte)
      /\ Len(buffer) \in Nat /\ headerLength \in Nat /\ config.length \in Nat
  BY ConfigFacts, LenProperties DEF ParserType
<1>2. /\ first \in 0 .. Len(buffer) /\ s = Drop(buffer, first) /\ s \in Seq(Byte)
      /\ Len(s) = Len(buffer) - first /\ Len(s) \in Nat /\ Len(s) > 0
  BY <1>1, FromFirst, LenProperties DEF GoesOn
<1>3. Moves(first, s)
  BY <1>1, <1>2, StepsMove
<1>4. config.length > 0
  BY FixedOutcome
<1>5. CASE Stop(s, n)
  <2>1. Passes(first) /\ pc' = "idle" /\ buffer' = s /\ scanned' = n
    BY <1>3, <1>5 DEF Moves
  <2> QED
    BY <1>2, <2>1 DEF GoesOn
<1>6. CASE Skip(s, 1)
  <2>1. 1 \in 0 .. Len(s) /\ first + 1 \in 0 .. Len(buffer) /\ first + 1 > 0
    BY <1>1, <1>2
  <2>2. Passes(first + 1) /\ pc' = pc /\ scanned' = 0
    BY <1>3, <1>6, <2>1 DEF Moves
  <2> QED
    BY <2>1, <2>2
<1>7. CASE /\ Len(s) >= config.length /\ isLengthAllowed(config.length)
           /\ FixedMatches(s) # {} /\ Emit(s, Min(FixedMatches(s)), config.length)
  <2> DEFINE o == Min(FixedMatches(s))
             k == config.length
  <2>1. FixedMatches(s) \subseteq 0 .. (Len(s) - k)
    BY DEF FixedMatches
  <2>2. o \in FixedMatches(s)
    <3>1. FixedMatches(s) \in SUBSET Nat
      BY <2>1
    <3> QED
      BY <1>7, <3>1, MinIs
  <2>3. o \in Nat /\ k \in Nat \ {0} /\ k \in Nat /\ o + k <= Len(s) /\ first + o \in Nat
        /\ first + o + k <= Len(buffer)
    <3>1. o \in 0 .. (Len(s) - k) /\ k \in Nat /\ k > 0
      BY <1>1, <1>4, <2>1, <2>2
    <3> HIDE DEF o, k
    <3> QED
      BY <1>1, <1>2, <3>1
  <2>4. GoodPacket(SubSeq(s, o + 1, o + k))
    <3>1. ASSUME WindowCovers PROVE verifyChecksum(SubSeq(s, o + 1, o + k))
      <4>1. o \in FixedStarts(s, 0)
        BY <1>1, <1>2, <1>4, <1>7, <2>2, <3>1, FixedMatchesAre
      <4> QED
        BY <4>1 DEF FixedStarts
    <3> QED
      BY <1>1, <1>4, <3>1 DEF GoodPacket
  <2>5. Emit(s, o, k)
    BY <1>7
  <2> HIDE DEF o, k
  <2>6. Emits(first + o, k) /\ SubSeq(buffer, first + o + 1, first + o + k) = SubSeq(s, o + 1, o + k)
    BY <1>3, <2>3, <2>5 DEF Moves
  <2>7. GoodPacket(SubSeq(buffer, first + o + 1, first + o + k))
    BY <2>4, <2>6
  <2>8. scanned' = 0
    BY <2>6 DEF Emits
  <2> QED
    BY <2>3, <2>6, <2>7, <2>8
<1>8. CASE Len(s) >= config.length /\ Stop(Drop(s, Len(s) - config.length + 1), 0)
  <2> DEFINE m == Len(s) - config.length + 1
  <2>1. m \in 0 .. Len(s) /\ first + m \in 0 .. Len(buffer)
    BY <1>1, <1>2, <1>4, <1>8
  <2>2. Stop(Drop(s, m), 0)
    BY <1>8
  <2> HIDE DEF m
  <2>3. Passes(first + m) /\ pc' = "idle" /\ scanned' = 0
    BY <1>3, <2>1, <2>2 DEF Moves
  <2> QED
    BY <2>1, <2>3
<1> QED
  BY <1>5, <1>6, <1>7, <1>8, FixedOutcome

\* What an iteration does to the buffer.
LEMMA IterateMoves ==
  ASSUME ParserType, Remembered, Iterate
  PROVE  /\ pc = "loop"
         /\ \/ \E d \in 0 .. Len(buffer) : Passes(d) /\ (pc' = "idle" \/ (pc' = pc /\ d > 0))
            \/ \E o \in Nat : \E k \in Nat \ {0} :
                 o + k <= Len(buffer) /\ Emits(o, k) /\ GoodPacket(SubSeq(buffer, o + 1, o + k))
         /\ scanned' = 0 \/ (buffer' = buffer /\ scanned' = scanned) \/ Tried(buffer', scanned')
<1>1. /\ config \in ConfigType /\ buffer \in Seq(Byte) /\ received \in Seq(Byte)
      /\ Len(buffer) \in Nat /\ headerLength \in Nat
  BY ConfigFacts, LenProperties DEF ParserType
<1>2. pc = "loop"
  BY IterateCases
<1>3. CASE Stop(buffer, scanned)
  <2>1. buffer = Drop(buffer, 0) /\ 0 \in 0 .. Len(buffer)
    BY <1>1, DropNone
  <2>2. Passes(0) /\ pc' = "idle" /\ buffer' = buffer /\ scanned' = scanned
    BY <1>3, <2>1 DEF Stop, Passes
  <2> QED
    BY <1>2, <2>1, <2>2
<1>4. CASE Len(buffer) >= headerLength /\ headerLength > 0
           /\ Stop(Drop(buffer, Len(buffer) - (headerLength - 1)), 0)
  <2>1. Len(buffer) - (headerLength - 1) \in 0 .. Len(buffer)
    BY <1>1, <1>4
  <2>2. Passes(Len(buffer) - (headerLength - 1)) /\ pc' = "idle" /\ scanned' = 0
    BY <1>4 DEF Stop, Passes
  <2> QED
    BY <1>2, <2>1, <2>2
<1>5. CASE \E first, s, n : GoesOn(first, s, n)
  <2>1. PICK first, s, n : GoesOn(first, s, n)
    BY <1>5
  <2>2. CASE FixedLength(s, n)
    BY <1>2, <2>1, <2>2, FixedMoves
  <2>3. CASE config.length = 0 /\ Delimited(s)
    BY <1>2, <2>1, <2>3, DelimitedMoves
  <2> QED
    BY <2>1, <2>2, <2>3 DEF GoesOn
<1> QED
  BY <1>3, <1>4, <1>5, IterateCases

EndOf(e) == e.at + Len(e.packet)

\* The packets are of bytes that were consumed.
Within == \A i \in 1 .. Len(emitted) : EndOf(emitted[i]) <= Consumed

ParserSafe == ParserType /\ Remembered /\ PacketsAreGenuine /\ Within

\* Tried and GoodPacket are about the configuration, which no step changes.
LEMMA SameAsBefore ==
  ASSUME UNCHANGED config
  PROVE  /\ \A b, n : Tried(b, n)' <=> Tried(b, n)
         /\ \A packet : GoodPacket(packet)' <=> GoodPacket(packet)
<1>1. /\ headerLength' = headerLength /\ getChecksumLength' = getChecksumLength
      /\ \A packet : verifyChecksum(packet)' <=> verifyChecksum(packet)
      /\ WindowCovers' <=> WindowCovers
  <2>1. footerLength' = footerLength
    BY SameVerdict
  <2> QED
    BY <2>1, SameVerdict DEF WindowCovers, UsesWindow, WindowEnd
<1>2. \A b, n : Tried(b, n)' <=> Tried(b, n)
  BY <1>1 DEF Tried
<1>3. \A packet : GoodPacket(packet)' <=> GoodPacket(packet)
  BY <1>1 DEF GoodPacket
<1> QED
  BY <1>2, <1>3

\* d bytes off the front of the buffer.
LEMMA Shortened ==
  ASSUME ParserType, NEW d \in 0 .. Len(buffer), buffer' = Drop(buffer, d), received' = received
  PROVE  /\ buffer' \in Seq(Byte) /\ Len(buffer') = Len(buffer) - d /\ Len(buffer') \in Nat
         /\ Len(buffer') <= Len(received') /\ Consumed \in Nat /\ Consumed' = Consumed + d
         /\ buffer' = Drop(received', Consumed')
<1>1. /\ buffer \in Seq(Byte) /\ received \in Seq(Byte) /\ Len(buffer) \in Nat /\ Len(received) \in Nat
      /\ Len(buffer) <= Len(received) /\ buffer = Drop(received, Consumed)
  BY LenProperties DEF ParserType
<1>2. Drop(buffer, d) \in Seq(Byte) /\ Len(Drop(buffer, d)) = Len(buffer) - d
  BY <1>1, Dropped
<1>3. /\ Consumed \in 0 .. Len(received) /\ d \in 0 .. (Len(received) - Consumed)
      /\ Len(received) - (Len(buffer) - d) = Consumed + d /\ Len(buffer) - d \in Nat
      /\ Len(buffer) - d <= Len(received) /\ Consumed \in Nat
  BY <1>1 DEF Consumed
<1>4. Drop(Drop(received, Consumed), d) = Drop(received, Consumed + d)
  BY <1>1, <1>3, DropDrop
<1>5. Consumed' = Consumed + d
  BY <1>2, <1>3 DEF Consumed
<1> QED
  BY <1>1, <1>2, <1>3, <1>4, <1>5

\* The parts of PacketsAreGenuine.
Ordered(list, rest) ==
  \A i \in 1 .. Len(list) : EndOf(list[i]) <= (IF i = Len(list) THEN rest ELSE list[i + 1].at)
Placed(e, stream) == e.packet = SubSeq(stream, e.at + 1, EndOf(e))

\* PacketsAreGenuine in the form in which the steps keep it, ...
LEMMA GenuineIs ==
  ASSUME emitted \in Seq(FrameSet), buffer = Drop(received, Consumed)
  PROVE  PacketsAreGenuine <=>
           /\ \A i \in 1 .. Len(emitted) : GoodPacket(emitted[i].packet) /\ Placed(emitted[i], received)
           /\ Ordered(emitted, Consumed)
<1>1. DOMAIN emitted = 1 .. Len(emitted)
  BY LenProperties
<1> QED
  BY <1>1 DEF PacketsAreGenuine, GoodPacket, Placed, Ordered, EndOf, Consumed

GenuineForm ==
  /\ \A i \in 1 .. Len(emitted) : GoodPacket(emitted[i].packet) /\ Placed(emitted[i], received)
  /\ Ordered(emitted, Consumed)

\* ... also after a step.
LEMMA GenuineNext ==
  (emitted \in Seq(FrameSet) /\ buffer = Drop(received, Consumed) => (PacketsAreGenuine <=> GenuineForm))'
<1>1. emitted \in Seq(FrameSet) /\ buffer = Drop(received, Consumed) => (PacketsAreGenuine <=> GenuineForm)
  BY GenuineIs DEF GenuineForm
<1> QED
  BY <1>1, PTL

\* Types of an emitted packet.
LEMMA FrameFacts ==
  ASSUME NEW e \in FrameSet
  PROVE  /\ e.at \in Nat /\ e.packet \in Seq(Byte) /\ Len(e.packet) \in Nat /\ EndOf(e) \in Nat
         /\ EndOf(e) >= e.at
<1>1. e.at \in Nat /\ e.packet \in Seq(Byte)
  BY DEF FrameSet
<1>2. Len(e.packet) \in Nat
  BY <1>1, LenProperties
<1> QED
  BY <1>1, <1>2 DEF EndOf

\* Packets that end before a place end before a later one.
LEMMA OrderGoesOn ==
  ASSUME NEW list \in Seq(FrameSet), NEW a \in Nat, NEW b \in Nat, a <= b, Ordered(list, a)
  PROVE  Ordered(list, b)
<1> SUFFICES ASSUME NEW i \in 1 .. Len(list)
             PROVE  EndOf(list[i]) <= (IF i = Len(list) THEN b ELSE list[i + 1].at)
  BY DEF Ordered
<1>1. list[i] \in FrameSet
  OBVIOUS
<1>2. EndOf(list[i]) \in Nat
  BY <1>1, FrameFacts
<1>3. EndOf(list[i]) <= (IF i = Len(list) THEN a ELSE list[i + 1].at)
  BY DEF Ordered
<1> QED
  BY <1>2, <1>3

\* A packet that starts behind the others may follow them.
LEMMA OrderAppended ==
  ASSUME NEW list \in Seq(FrameSet), NEW a \in Nat, Ordered(list, a), NEW e \in FrameSet, a <= e.at,
         NEW b, b = EndOf(e)
  PROVE  Ordered(Append(list, e), b)
<1> DEFINE more == Append(list, e)
<1>1. /\ Len(more) = Len(list) + 1 /\ Len(list) \in Nat /\ more[Len(list) + 1] = e
      /\ \A i \in 1 .. Len(list) : more[i] = list[i]
  BY AppendProperties, LenProperties
<1> HIDE DEF more
<1> SUFFICES ASSUME NEW i \in 1 .. Len(more)
             PROVE  EndOf(more[i]) <= (IF i = Len(more) THEN b ELSE more[i + 1].at)
  BY DEF Ordered, more
<1>2. CASE i = Len(more)
  BY <1>1, <1>2, FrameFacts
<1>3. CASE i # Len(more)
  <2>1. i \in 1 .. Len(list) /\ more[i] = list[i]
    BY <1>1, <1>3
  <2>2. EndOf(list[i]) <= (IF i = Len(list) THEN a ELSE list[i + 1].at)
    BY <2>1 DEF Ordered
  <2>3. list[i] \in FrameSet /\ EndOf(list[i]) \in Nat /\ e.at \in Nat
    BY <2>1, FrameFacts
  <2>4. CASE i = Len(list)
    <3>1. EndOf(list[i]) <= e.at
      BY <2>2, <2>3, <2>4
    <3> QED
      BY <1>1, <1>3, <2>1, <2>4, <3>1
  <2>5. CASE i # Len(list)
    <3>1. i + 1 \in 1 .. Len(list)
      BY <1>1, <2>1, <2>5
    <3> QED
      BY <1>1, <1>3, <2>1, <2>2, <2>5, <3>1
  <2> QED
    BY <2>4, <2>5
<1> QED
  BY <1>2, <1>3

\* An iteration keeps the types, ...
LEMMA IterateKeepsType ==
  ASSUME ParserType, Remembered, Iterate
  PROVE  ParserType'
<1>1. /\ config \in ConfigType /\ buffer \in Seq(Byte) /\ received \in Seq(Byte) /\ Len(buffer) \in Nat
      /\ emitted \in Seq(FrameSet) /\ scanned \in 0 .. Len(buffer)
  BY LenProperties DEF ParserType
<1>2. ASSUME NEW d \in 0 .. Len(buffer), Passes(d), pc' \in {"idle", pc},
             scanned' = 0 \/ (buffer' = buffer /\ scanned' = scanned) \/ Tried(buffer', scanned')
      PROVE  ParserType'
  <2>1. /\ buffer' \in Seq(Byte) /\ Len(buffer') \in Nat /\ Len(buffer') <= Len(received')
        /\ buffer' = Drop(received', Consumed')
    BY <1>2, Shortened DEF Passes
  <2>2. scanned' \in 0 .. Len(buffer')
    BY <1>1, <1>2, <2>1 DEF Tried
  <2> QED
    BY <1>2, <2>1, <2>2 DEF ParserType, Passes, ConfigType
<1>3. ASSUME NEW o \in Nat, NEW k \in Nat \ {0}, o + k <= Len(buffer), Emits(o, k)
      PROVE  ParserType'
  <2>1. o + k \in 0 .. Len(buffer) /\ o + 1 \in Nat \ {0} /\ o + k \in Int
    BY <1>1, <1>3
  <2>2. /\ buffer' \in Seq(Byte) /\ Len(buffer') \in Nat /\ Len(buffer') <= Len(received')
        /\ buffer' = Drop(received', Consumed') /\ Consumed \in Nat
    BY <1>3, <2>1, Shortened DEF Emits
  <2>3. SubSeq(buffer, o + 1, o + k) \in Seq(Byte)
    BY <1>1, <1>3, <2>1, Sub
  <2>4. [at |-> Consumed + o, packet |-> SubSeq(buffer, o + 1, o + k)] \in FrameSet
    BY <2>2, <2>3 DEF FrameSet
  <2>5. emitted' \in Seq(FrameSet)
    BY <1>1, <1>3, <2>4 DEF Emits
  <2>6. scanned' \in 0 .. Len(buffer')
    BY <1>3, <2>2 DEF Emits
  <2> QED
    BY <1>3, <2>2, <2>5, <2>6 DEF ParserType, Emits, ConfigType
<1> QED
  BY <1>2, <1>3, IterateMoves

\* ... the lengths tried in vain, ...
LEMMA IterateRemembers ==
  ASSUME ParserType, Remembered, Iterate
  PROVE  Remembered'
<1>1. UNCHANGED config
  BY IterateMoves DEF Passes, Emits
<1>2. /\ \A b, n : Tried(b, n)' <=> Tried(b, n)
      /\ headerLength' = headerLength /\ (\A s : HeaderPlaces(s)' = HeaderPlaces(s))
  BY <1>1, SameAsBefore, SameVerdict, SamePlaces
<1>3. ParserType'
  BY IterateKeepsType
<1>4. headerLength \in Nat /\ getChecksumLength \in {0, 1, 2}
  BY ConfigFacts DEF ParserType
<1>5. CASE scanned' = 0
  <2>1. 0 \in 0 .. Len(buffer')
    BY <1>3, <1>5 DEF ParserType
  <2>2. getChecksumLength > 0 => (headerLength + getChecksumLength) .. 0 = {}
    BY <1>4
  <2>3. Tried(buffer', 0)
    BY <2>1, <2>2 DEF Tried
  <2> QED
    BY <1>2, <1>5, <2>3 DEF Remembered
<1>6. CASE buffer' = buffer /\ scanned' = scanned
  BY <1>2, <1>6 DEF Remembered
<1>7. CASE Tried(buffer', scanned')
  BY <1>2, <1>7 DEF Remembered
<1> QED
  BY <1>5, <1>6, <1>7, IterateMoves

\* ... what every emitted packet is, ...
LEMMA IterateKeepsGenuine ==
  ASSUME ParserSafe, Iterate
  PROVE  PacketsAreGenuine'
<1>1. /\ config \in ConfigType /\ buffer \in Seq(Byte) /\ received \in Seq(Byte) /\ Len(buffer) \in Nat
      /\ emitted \in Seq(FrameSet) /\ Len(emitted) \in Nat
      /\ ParserType /\ Remembered /\ ParserType'
      /\ Len(buffer) <= Len(received) /\ Len(received) \in Nat /\ buffer = Drop(received, Consumed)
  BY LenProperties, IterateKeepsType DEF ParserSafe, ParserType
<1>2. GenuineForm
  BY <1>1, GenuineIs DEF ParserSafe, GenuineForm
<1>3. UNCHANGED <<config, received>>
  BY <1>1, IterateMoves DEF Passes, Emits
<1>4. \A packet : GoodPacket(packet)' <=> GoodPacket(packet)
  BY <1>3, SameAsBefore
<1>5. SUFFICES GenuineForm'
  BY <1>1, GenuineNext DEF ParserType
<1>6. ASSUME NEW d \in 0 .. Len(buffer), Passes(d)
      PROVE  GenuineForm'
  <2>1. Consumed \in Nat /\ Consumed' = Consumed + d /\ d \in Nat
    BY <1>1, <1>6, Shortened DEF Passes
  <2>2. Ordered(emitted, Consumed')
    <3> DEFINE a == Consumed
               b == Consumed'
    <3>1. a \in Nat /\ b \in Nat /\ a <= b /\ Ordered(emitted, a)
      BY <1>2, <2>1 DEF GenuineForm
    <3> HIDE DEF a, b
    <3>2. Ordered(emitted, b)
      BY <1>1, <3>1, OrderGoesOn
    <3> QED
      BY <3>2 DEF b
  <2>3. emitted' = emitted /\ received' = received
    BY <1>6 DEF Passes
  <2> QED
    BY <1>2, <1>4, <2>2, <2>3 DEF GenuineForm
<1>7. ASSUME NEW o \in Nat, NEW k \in Nat \ {0}, o + k <= Len(buffer), Emits(o, k),
             GoodPacket(SubSeq(buffer, o + 1, o + k))
      PROVE  GenuineForm'
  <2> DEFINE packet == SubSeq(buffer, o + 1, o + k)
             e == [at |-> Consumed + o, packet |-> packet]
  <2>1. o + k \in 0 .. Len(buffer) /\ o + 1 \in Nat \ {0} /\ o + k \in Int /\ k \in Nat
    BY <1>1, <1>7
  <2>2. Consumed \in Nat /\ Consumed' = Consumed + (o + k) /\ Consumed \in 0 .. Len(received)
        /\ Len(buffer) = Len(received) - Consumed
    <3>1. Consumed \in Nat /\ Consumed' = Consumed + (o + k)
      BY <1>1, <1>7, <2>1, Shortened DEF Emits
    <3> QED
      BY <1>1, <3>1 DEF Consumed
  <2>3. packet \in Seq(Byte) /\ Len(packet) = k
    <3>1. o + 1 <= o + k /\ (o + k) - (o + 1) + 1 = k
      BY <2>1
    <3> QED
      BY <1>1, <1>7, <2>1, <3>1, Sub
  <2>4. packet = SubSeq(received, (Consumed + o) + 1, (Consumed + o) + k)
    <3>1. Aligned(received, Consumed, buffer)
      BY <1>1, <2>2, StartsShift
    <3> QED
      BY <1>7, <2>1, <3>1 DEF Aligned
  <2>5. /\ e \in FrameSet /\ e.at = Consumed + o /\ e.packet = packet /\ EndOf(e) = (Consumed + o) + k
        /\ Consumed <= e.at /\ (Consumed + o) + k = Consumed'
    <3>1. Consumed + o \in Nat /\ Consumed <= Consumed + o /\ (Consumed + o) + k = Consumed + (o + k)
      BY <2>1, <2>2
    <3>2. e \in FrameSet /\ e.at = Consumed + o /\ e.packet = packet
      BY <2>3, <3>1 DEF FrameSet
    <3>3. EndOf(e) = (Consumed + o) + k
      BY <2>3, <3>2 DEF EndOf
    <3> QED
      BY <2>2, <3>1, <3>2, <3>3
  <2>6. emitted' = Append(emitted, e)
    BY <1>7 DEF Emits
  <2>7. GoodPacket(e.packet) /\ Placed(e, received)
    BY <1>7, <2>4, <2>5 DEF Placed
  <2> HIDE DEF e, packet
  <2>8. Ordered(Append(emitted, e), Consumed')
    <3> DEFINE a == Consumed
               b == Consumed'
    <3>1. a \in Nat /\ b = EndOf(e) /\ a <= e.at /\ Ordered(emitted, a)
      BY <1>2, <2>2, <2>5 DEF GenuineForm
    <3> HIDE DEF a, b
    <3>2. Ordered(Append(emitted, e), b)
      BY <1>1, <2>5, <3>1, OrderAppended
    <3> QED
      BY <3>2 DEF b
  <2>9. \A i \in 1 .. Len(Append(emitted, e)) :
          GoodPacket(Append(emitted, e)[i].packet) /\ Placed(Append(emitted, e)[i], received)
    <3>1. /\ Len(Append(emitted, e)) = Len(emitted) + 1 /\ Append(emitted, e)[Len(emitted) + 1] = e
          /\ \A i \in 1 .. Len(emitted) : Append(emitted, e)[i] = emitted[i]
      BY <1>1, <2>5, AppendProperties
    <3>2. \A i \in 1 .. (Len(emitted) + 1) : i \in 1 .. Len(emitted) \/ i = Len(emitted) + 1
      BY <1>1
    <3> QED
      BY <1>2, <2>7, <3>1, <3>2 DEF GenuineForm
  <2> QED
    BY <1>3, <1>4, <2>6, <2>8, <2>9 DEF GenuineForm
<1> QED
  BY <1>1, <1>6, <1>7, IterateMoves

\* ... the limit of the buffer, ...
LEMMA IterateWithin ==
  ASSUME ParserSafe, Iterate
  PROVE  Within'
<1>1. /\ buffer \in Seq(Byte) /\ Len(buffer) \in Nat /\ emitted \in Seq(FrameSet) /\ Len(emitted) \in Nat
      /\ ParserType /\ Remembered /\ Within
  BY LenProperties DEF ParserSafe, ParserType
<1>2. ASSUME NEW d \in 0 .. Len(buffer), buffer' = Drop(buffer, d), received' = received
      PROVE  /\ Consumed \in Nat /\ Consumed' = Consumed + d /\ Consumed' \in Nat
             /\ \A i \in 1 .. Len(emitted) : EndOf(emitted[i]) <= Consumed'
  <2>1. Consumed \in Nat /\ Consumed' = Consumed + d /\ d \in Nat
    BY <1>1, <1>2, Shortened
  <2>2. ASSUME NEW i \in 1 .. Len(emitted) PROVE EndOf(emitted[i]) <= Consumed'
    <3>1. emitted[i] \in FrameSet /\ EndOf(emitted[i]) <= Consumed
      BY <1>1 DEF Within
    <3> QED
      BY <2>1, <3>1, FrameFacts
  <2> QED
    BY <2>1, <2>2
<1>3. ASSUME NEW d \in 0 .. Len(buffer), Passes(d)
      PROVE  Within'
  BY <1>2, <1>3 DEF Within, Passes
<1>4. ASSUME NEW o \in Nat, NEW k \in Nat \ {0}, o + k <= Len(buffer), Emits(o, k)
      PROVE  Within'
  <2> DEFINE e == [at |-> Consumed + o, packet |-> SubSeq(buffer, o + 1, o + k)]
  <2>1. o + k \in 0 .. Len(buffer) /\ o + 1 \in Nat \ {0} /\ o + k \in Int /\ o + 1 <= o + k
        /\ (o + k) - (o + 1) + 1 = k
    BY <1>1, <1>4
  <2>2. /\ Consumed \in Nat /\ Consumed' = Consumed + (o + k) /\ Consumed' \in Nat
        /\ \A i \in 1 .. Len(emitted) : EndOf(emitted[i]) <= Consumed'
    BY <1>2, <1>4, <2>1 DEF Emits
  <2>3. SubSeq(buffer, o + 1, o + k) \in Seq(Byte) /\ Len(SubSeq(buffer, o + 1, o + k)) = k
    BY <1>1, <1>4, <2>1, Sub
  <2>4. EndOf(e) = (Consumed + o) + k
    BY <2>3 DEF EndOf
  <2>5. EndOf(e) <= Consumed' /\ e \in FrameSet
    <3>1. (Consumed + o) + k = Consumed + (o + k) /\ Consumed + o \in Nat
      BY <2>2
    <3> QED
      BY <2>2, <2>3, <2>4, <3>1 DEF FrameSet
  <2>6. emitted' = Append(emitted, e)
    BY <1>4 DEF Emits
  <2> HIDE DEF e
  <2>7. /\ Len(Append(emitted, e)) = Len(emitted) + 1 /\ Append(emitted, e)[Len(emitted) + 1] = e
        /\ \A i \in 1 .. Len(emitted) : Append(emitted, e)[i] = emitted[i]
    BY <1>1, <2>5, AppendProperties
  <2>8. \A i \in 1 .. (Len(emitted) + 1) : i \in 1 .. Len(emitted) \/ i = Len(emitted) + 1
    BY <1>1
  <2> QED
    BY <2>2, <2>5, <2>6, <2>7, <2>8 DEF Within
<1> QED
  BY <1>1, <1>3, <1>4, IterateMoves

\* ... and with them all of ParserSafe.
LEMMA IterateSafe ==
  ASSUME ParserSafe, Iterate
  PROVE  ParserSafe'
BY IterateKeepsType, IterateRemembers, IterateKeepsGenuine, IterateWithin DEF ParserSafe

\* What the buffer keeps when a chunk comes: the bytes from some offset on, all of them
\* if they fit.
Keeps(kept, R, P, chunk, x) ==
  /\ AppendChunk(kept, chunk) = Drop(R \o chunk, P + x)
  /\ Len(kept) + Len(chunk) <= MaxBuffer => x = 0

\* With a chunk appended, the buffer is still the end of the stream.
LEMMA ChunkAppended ==
  ASSUME NEW R \in Seq(Byte), NEW P \in 0 .. Len(R), NEW kept, kept = Drop(R, P), NEW chunk \in Seq(Byte)
  PROVE  \E x \in 0 .. (Len(R) - P + Len(chunk)) : Keeps(kept, R, P, chunk, x)
<1>1. /\ MaxBuffer \in Nat /\ Len(R) \in Nat /\ Len(chunk) \in Nat /\ P \in Nat
      /\ kept \in Seq(Byte) /\ Len(kept) = Len(R) - P /\ Len(kept) \in Nat
  <2>1. kept \in Seq(Byte) /\ Len(kept) = Len(R) - P
    BY Dropped
  <2>2. MaxBuffer \in Nat
    BY ParserAssumption
  <2> QED
    BY <2>1, <2>2, LenProperties
<1> DEFINE all == kept \o chunk
           over == Len(all) - MaxBuffer
           x == Max({0, over})
<1>2. all \in Seq(Byte) /\ Len(all) = Len(kept) + Len(chunk) /\ Len(R \o chunk) = Len(R) + Len(chunk)
      /\ R \o chunk \in Seq(Byte)
  BY <1>1, Concat
<1>3. over \in Int /\ over <= Len(all)
  BY <1>1, <1>2
<1>4. x = IF over > 0 THEN over ELSE 0
  <2> HIDE DEF over
  <2>1. \E m \in {0, over} : \A y \in {0, over} : m >= y
    <3>1. CASE over > 0
      BY <1>3, <3>1
    <3>2. CASE ~(over > 0)
      BY <1>3, <3>2
    <3> QED
      BY <3>1, <3>2
  <2>2. x \in {0, over} /\ \A y \in {0, over} : x >= y
    <3> DEFINE T == {0, over}
    <3>1. \E m \in T : \A y \in T : m >= y
      BY <2>1
    <3> HIDE DEF T
    <3>2. Max(T) \in T /\ \A y \in T : Max(T) >= y
      BY <3>1 DEF Max
    <3> QED
      BY <3>2 DEF T
  <2> HIDE DEF x
  <2> QED
    BY <1>3, <2>2
<1>5. x \in 0 .. (Len(R) - P + Len(chunk)) /\ (Len(kept) + Len(chunk) <= MaxBuffer => x = 0)
  <2> HIDE DEF x
  <2> QED
    BY <1>1, <1>2, <1>3, <1>4
<1>6. all = Drop(R \o chunk, P)
  BY DropBoth
<1>7. Drop(all, x) = Drop(R \o chunk, P + x)
  <2>1. P \in 0 .. Len(R \o chunk) /\ x \in 0 .. (Len(R \o chunk) - P)
    <3> HIDE DEF x
    <3> QED
      BY <1>1, <1>2, <1>5
  <2> HIDE DEF x, all
  <2>2. Drop(Drop(R \o chunk, P), x) = Drop(R \o chunk, P + x)
    BY <1>2, <2>1, DropDrop
  <2> QED
    BY <1>6, <2>2
<1>8. AppendChunk(kept, chunk) = Drop(all, x)
  BY DEF AppendChunk
<1> HIDE DEF x, all
<1> QED
  BY <1>5, <1>7, <1>8 DEF Keeps

\* What is received, kept and found when a chunk comes.
Before(silent) == IF silent THEN <<>> ELSE received
Found(silent)  == IF silent THEN <<>> ELSE emitted
Start(silent)  == IF silent THEN 0 ELSE Consumed

\* What a call of parseChunk does before its loop.
LEMMA ChunkMoves ==
  ASSUME ParserType, NEW chunk \in Seq(Byte), NEW silent \in BOOLEAN, ParseChunk(chunk, silent)
  PROVE  /\ Before(silent) \in Seq(Byte) /\ Found(silent) \in Seq(FrameSet)
         /\ Start(silent) \in 0 .. Len(Before(silent))
         /\ received' = Before(silent) \o chunk /\ emitted' = Found(silent)
         /\ \E x \in 0 .. (Len(Before(silent)) - Start(silent) + Len(chunk)) :
              /\ buffer' = Drop(received', Start(silent) + x) /\ Len(buffer') = Len(received') - (Start(silent) + x)
              /\ buffer' \in Seq(Byte) /\ Len(received') \in Nat /\ Len(buffer') \in Nat
              /\ Consumed' = Start(silent) + x
              /\ ~overflowed' => x = 0 /\ (silent \/ ~overflowed)
         /\ scanned' = 0 \/ (~silent /\ buffer' = buffer \o chunk /\ scanned' = scanned)
         /\ pc' = "loop" /\ overflowed' \in BOOLEAN /\ UNCHANGED config
<1>1. /\ config \in ConfigType /\ buffer \in Seq(Byte) /\ received \in Seq(Byte) /\ emitted \in Seq(FrameSet)
      /\ Len(buffer) \in Nat /\ Len(received) \in Nat /\ Len(buffer) <= Len(received)
      /\ buffer = Drop(received, Consumed) /\ overflowed \in BOOLEAN /\ Len(chunk) \in Nat
  BY LenProperties DEF ParserType
<1> DEFINE R == Before(silent)
           P == Start(silent)
           kept == IF silent THEN <<>> ELSE buffer
<1>2. R \in Seq(Byte) /\ Found(silent) \in Seq(FrameSet) /\ Len(R) \in Nat /\ P \in 0 .. Len(R) /\ P \in Nat
      /\ kept = Drop(R, P) /\ Len(kept) = Len(R) - P
  <2>1. CASE silent
    <3>1. <<>> \in Seq(Byte) /\ <<>> \in Seq(FrameSet) /\ Len(<<>>) = 0 /\ Drop(<<>>, 0) = <<>>
      BY EmptySeq DEF Drop
    <3> QED
      BY <2>1, <3>1 DEF Before, Start, Found
  <2>2. CASE ~silent
    <3>1. Consumed \in 0 .. Len(received) /\ Consumed \in Nat /\ Len(buffer) = Len(received) - Consumed
      BY <1>1 DEF Consumed
    <3> QED
      BY <1>1, <2>2, <3>1 DEF Before, Start, Found
  <2> QED
    BY <2>1, <2>2
<1>3. /\ buffer' = AppendChunk(kept, chunk) /\ received' = R \o chunk /\ emitted' = Found(silent)
      /\ scanned' = (IF silent \/ ~(Len(kept) + Len(chunk) <= MaxBuffer) THEN 0 ELSE scanned)
      /\ overflowed' = ((~silent /\ overflowed) \/ ~(Len(kept) + Len(chunk) <= MaxBuffer))
      /\ pc' = "loop" /\ UNCHANGED config
  BY DEF ParseChunk, Before, Found
<1> HIDE DEF R, P, kept
<1>4. PICK x \in 0 .. (Len(R) - P + Len(chunk)) : Keeps(kept, R, P, chunk, x)
  BY <1>2, ChunkAppended
<1>12. /\ AppendChunk(kept, chunk) = Drop(R \o chunk, P + x)
       /\ Len(kept) + Len(chunk) <= MaxBuffer => x = 0
  BY <1>4 DEF Keeps
<1>5. R \o chunk \in Seq(Byte) /\ Len(R \o chunk) = Len(R) + Len(chunk)
  BY <1>2, Concat
<1>6. P + x \in 0 .. Len(R \o chunk) /\ P + x \in Nat
  BY <1>1, <1>2, <1>4, <1>5
<1>7. /\ buffer' = Drop(received', P + x) /\ Len(buffer') = Len(received') - (P + x)
      /\ buffer' \in Seq(Byte) /\ Len(received') \in Nat
  <2> DEFINE T == R \o chunk
             y == P + x
  <2>1. T \in Seq(Byte) /\ y \in 0 .. Len(T) /\ Len(T) \in Nat
    BY <1>5, <1>6, LenProperties
  <2> HIDE DEF T, y
  <2>2. Drop(T, y) \in Seq(Byte) /\ Len(Drop(T, y)) = Len(T) - y
    BY <2>1, Dropped
  <2> QED
    BY <1>3, <1>12, <2>1, <2>2 DEF T, y
<1>8. Len(buffer') \in Nat /\ Consumed' = P + x
  <2> DEFINE L == Len(received')
             y == P + x
  <2>1. L \in Nat /\ y \in 0 .. L /\ Len(buffer') = L - y
    BY <1>3, <1>6, <1>7
  <2> HIDE DEF L, y
  <2>2. Len(buffer') \in Nat /\ L - Len(buffer') = y
    BY <2>1
  <2> QED
    BY <2>2 DEF Consumed, L, y
<1>9. ~overflowed' => x = 0 /\ (silent \/ ~overflowed)
  BY <1>3, <1>12
<1>10. scanned' = 0 \/ (~silent /\ buffer' = buffer \o chunk /\ scanned' = scanned)
  <2>1. CASE silent \/ ~(Len(kept) + Len(chunk) <= MaxBuffer)
    BY <1>3, <2>1
  <2>2. CASE ~silent /\ Len(kept) + Len(chunk) <= MaxBuffer
    <3>1. buffer' = Drop(R \o chunk, P)
      <4>1. x = 0 /\ P + x = P
        BY <1>2, <1>12, <2>2
      <4> QED
        BY <1>3, <1>12, <4>1
    <3>2. Drop(R \o chunk, P) = kept \o chunk
      BY <1>2, DropBoth
    <3> QED
      BY <1>3, <2>2, <3>1, <3>2 DEF kept
  <2> QED
    BY <2>1, <2>2
<1>11. overflowed' \in BOOLEAN
  BY <1>3
<1> QED
  BY <1>2, <1>3, <1>4, <1>7, <1>8, <1>9, <1>10, <1>11 DEF R, P

\* A call keeps the types, ...
LEMMA ParseKeepsType ==
  ASSUME ParserType, NEW chunk \in Seq(Byte), NEW silent \in BOOLEAN, ParseChunk(chunk, silent)
  PROVE  ParserType'
<1>1. /\ config \in ConfigType /\ buffer \in Seq(Byte) /\ Len(buffer) \in Nat
      /\ Len(chunk) \in Nat /\ scanned \in 0 .. Len(buffer) /\ config \in Configs
  BY LenProperties DEF ParserType
<1>2. /\ received' \in Seq(Byte) /\ emitted' \in Seq(FrameSet)
      /\ buffer' \in Seq(Byte) /\ Len(received') \in Nat /\ Len(buffer') \in Nat
      /\ buffer' = Drop(received', Consumed')
      /\ scanned' = 0 \/ (~silent /\ buffer' = buffer \o chunk /\ scanned' = scanned)
      /\ pc' = "loop" /\ overflowed' \in BOOLEAN /\ UNCHANGED config
      /\ Len(buffer') <= Len(received')
  <2>1. Before(silent) \in Seq(Byte) /\ Before(silent) \o chunk \in Seq(Byte)
    BY ChunkMoves, Concat
  <2>2. PICK x \in 0 .. (Len(Before(silent)) - Start(silent) + Len(chunk)) :
          /\ buffer' = Drop(received', Start(silent) + x) /\ Len(buffer') = Len(received') - (Start(silent) + x)
          /\ buffer' \in Seq(Byte) /\ Len(received') \in Nat /\ Len(buffer') \in Nat
          /\ Consumed' = Start(silent) + x
    BY ChunkMoves
  <2>3. Start(silent) \in Nat /\ x \in Nat
    BY ChunkMoves, <2>1, LenProperties
  <2>4. Len(buffer') <= Len(received')
    BY <2>2, <2>3
  <2> QED
    BY <2>1, <2>2, <2>4, ChunkMoves
<1>3. scanned' \in 0 .. Len(buffer')
  <2>1. CASE scanned' = 0
    BY <1>2, <2>1
  <2>2. CASE buffer' = buffer \o chunk /\ scanned' = scanned
    BY <1>1, <2>2, Concat
  <2> QED
    BY <1>2, <2>1, <2>2
<1> QED
  BY <1>1, <1>2, <1>3 DEF ParserType

\* ... the lengths tried in vain, ...
LEMMA ParseRemembers ==
  ASSUME ParserType, Remembered, NEW chunk \in Seq(Byte), NEW silent \in BOOLEAN,
         ParseChunk(chunk, silent)
  PROVE  Remembered'
<1>1. /\ config \in ConfigType /\ buffer \in Seq(Byte) /\ Len(buffer) \in Nat
      /\ Len(chunk) \in Nat /\ scanned \in 0 .. Len(buffer) /\ scanned \in Nat
      /\ headerLength \in Nat /\ getChecksumLength \in {0, 1, 2}
  BY LenProperties, ConfigFacts DEF ParserType
<1>2. UNCHANGED config
  BY ChunkMoves
<1>3. /\ \A b, n : Tried(b, n)' <=> Tried(b, n)
      /\ headerLength' = headerLength /\ (\A s : HeaderPlaces(s)' = HeaderPlaces(s))
  BY <1>2, SameAsBefore, SameVerdict, SamePlaces
<1>4. CASE scanned' = 0
  <2>1. 0 \in 0 .. Len(buffer')
    BY <1>4, ParseKeepsType DEF ParserType
  <2>2. getChecksumLength > 0 => (headerLength + getChecksumLength) .. 0 = {}
    BY <1>1
  <2>3. Tried(buffer', 0)
    BY <2>1, <2>2 DEF Tried
  <2> QED
    BY <1>3, <1>4, <2>3 DEF Remembered
<1>5. CASE buffer' = buffer \o chunk /\ scanned' = scanned
  <2> DEFINE more == buffer \o chunk
  <2>1. more \in Seq(Byte) /\ Len(more) = Len(buffer) + Len(chunk) /\ scanned \in 0 .. Len(more)
    BY <1>1, Concat
  <2>2. ASSUME 0 \in HeaderPlaces(more)
        PROVE  Tried(more, scanned)
    <3>1. CASE headerLength <= Len(buffer)
      <4>1. 0 \in HeaderPlaces(buffer)
        BY <1>1, <2>2, <3>1, StartsGrow
      <4>2. Tried(buffer, scanned)
        BY <3>1, <4>1 DEF Remembered
      <4>3. ASSUME NEW k \in (headerLength + getChecksumLength) .. scanned
            PROVE  Take(more, k) = Take(buffer, k)
        <5>1. k \in Int /\ k <= Len(buffer) /\ 1 \in Nat \ {0}
          BY <1>1
        <5> QED
          BY <1>1, <5>1, PieceOfBoth DEF Take
      <4> HIDE DEF more
      <4> QED
        BY <2>1, <4>2, <4>3 DEF Tried
    <3>2. CASE ~(headerLength <= Len(buffer))
      <4>1. (headerLength + getChecksumLength) .. scanned = {}
        BY <1>1, <3>2
      <4> HIDE DEF more
      <4> QED
        BY <2>1, <4>1 DEF Tried
    <3> QED
      BY <3>1, <3>2
  <2> QED
    BY <1>3, <1>5, <2>2 DEF Remembered
<1> QED
  BY <1>4, <1>5, ChunkMoves

\* ... and what every emitted packet is.
LEMMA ParseKeepsGenuine ==
  ASSUME ParserSafe, NEW chunk \in Seq(Byte), NEW silent \in BOOLEAN, ParseChunk(chunk, silent)
  PROVE  PacketsAreGenuine' /\ Within'
<1>1. /\ config \in ConfigType /\ emitted \in Seq(FrameSet) /\ received \in Seq(Byte)
      /\ ParserType /\ ParserType' /\ Len(chunk) \in Nat /\ Len(emitted) \in Nat
  BY ParseKeepsType, LenProperties DEF ParserSafe, ParserType
<1>2. GenuineForm
  BY <1>1, GenuineIs DEF ParserSafe, GenuineForm, ParserType
<1>3. /\ received' = Before(silent) \o chunk /\ emitted' = Found(silent) /\ UNCHANGED config
      /\ Start(silent) \in 0 .. Len(Before(silent)) /\ Before(silent) \in Seq(Byte)
  BY <1>1, ChunkMoves
<1>4. \A packet : GoodPacket(packet)' <=> GoodPacket(packet)
  BY <1>3, SameAsBefore
<1>5. SUFFICES GenuineForm' /\ Within'
  BY <1>1, GenuineNext DEF ParserType
<1>6. CASE silent
  <2>1. emitted' = <<>> /\ Len(<<>>) = 0
    BY <1>3, <1>6 DEF Found
  <2> QED
    BY <2>1 DEF GenuineForm, Within, Ordered
<1>7. CASE ~silent
  <2>1. emitted' = emitted /\ received' = received \o chunk /\ Start(silent) = Consumed
    BY <1>3, <1>7 DEF Found, Before, Start
  <2>2. Consumed \in Nat /\ Consumed' \in Nat /\ Consumed <= Consumed' /\ Consumed <= Len(received)
    <3>1. Consumed \in 0 .. Len(received) /\ Len(received) \in Nat
      BY <1>1, <1>3, <1>7, <2>1, LenProperties DEF Before
    <3>2. PICK x \in 0 .. (Len(Before(silent)) - Start(silent) + Len(chunk)) : Consumed' = Consumed + x
      BY <1>1, <2>1, ChunkMoves
    <3>3. x \in Nat
      BY <1>1, <1>3, LenProperties
    <3> QED
      BY <3>1, <3>2, <3>3
  <2>3. ASSUME NEW i \in 1 .. Len(emitted)
        PROVE  /\ GoodPacket(emitted[i].packet) /\ Placed(emitted[i], received \o chunk)
               /\ EndOf(emitted[i]) <= Consumed'
    <3>1. /\ emitted[i] \in FrameSet /\ EndOf(emitted[i]) <= Consumed
          /\ GoodPacket(emitted[i].packet) /\ Placed(emitted[i], received)
      BY <1>1, <1>2 DEF ParserSafe, Within, GenuineForm
    <3>2. EndOf(emitted[i]) \in Nat /\ emitted[i].at \in Nat
      BY <3>1, FrameFacts
    <3>3. /\ emitted[i].at + 1 \in Nat \ {0} /\ EndOf(emitted[i]) \in Int /\ EndOf(emitted[i]) <= Len(received)
          /\ EndOf(emitted[i]) <= Consumed'
      <4>1. Len(received) \in Nat
        BY <1>1, LenProperties
      <4> QED
        BY <2>2, <3>1, <3>2, <4>1
    <3>4. SubSeq(received \o chunk, emitted[i].at + 1, EndOf(emitted[i]))
            = SubSeq(received, emitted[i].at + 1, EndOf(emitted[i]))
      BY <1>1, <3>3, PieceOfBoth
    <3> QED
      BY <3>1, <3>3, <3>4 DEF Placed
  <2>4. Ordered(emitted, Consumed')
    <3> DEFINE a == Consumed
               b == Consumed'
    <3>1. a \in Nat /\ b \in Nat /\ a <= b /\ Ordered(emitted, a)
      BY <1>2, <2>2 DEF GenuineForm
    <3> HIDE DEF a, b
    <3>2. Ordered(emitted, b)
      BY <1>1, <3>1, OrderGoesOn
    <3> QED
      BY <3>2 DEF b
  <2> QED
    BY <1>4, <2>1, <2>3, <2>4 DEF GenuineForm, Within
<1> QED
  BY <1>6, <1>7

\* Chunks are sequences of bytes.
LEMMA ChunksAreBytes == BoundedSeq(Byte, MaxChunk) \subseteq Seq(Byte)
BY DEF BoundedSeq, SeqOf

\* ParserSafe holds at first, ...
LEMMA ParserSafeInit == Init => ParserSafe
<1> SUFFICES ASSUME Init PROVE ParserSafe
  OBVIOUS
<1>1. /\ config \in Configs /\ config \in ConfigType /\ buffer = <<>> /\ received = <<>> /\ emitted = <<>>
      /\ scanned = 0 /\ pc = "idle" /\ overflowed = FALSE
      /\ <<>> \in Seq(Byte) /\ <<>> \in Seq(FrameSet) /\ Len(<<>>) = 0 /\ Drop(<<>>, 0) = <<>>
  BY ParserAssumption DEF Init, Drop
<1>2. Consumed = 0 /\ ParserType
  <2>1. Consumed = 0
    BY <1>1 DEF Consumed
  <2>2. buffer = Drop(received, Consumed) /\ Len(buffer) <= Len(received) /\ scanned \in 0 .. Len(buffer)
    BY <1>1, <2>1
  <2> QED
    BY <1>1, <2>1, <2>2 DEF ParserType
<1>3. Remembered
  <2>1. headerLength \in Nat /\ getChecksumLength \in {0, 1, 2}
    BY <1>1, ConfigFacts
  <2>2. getChecksumLength > 0 => (headerLength + getChecksumLength) .. 0 = {}
    BY <2>1
  <2> QED
    BY <1>1, <2>2 DEF Remembered, Tried
<1>4. PacketsAreGenuine /\ Within
  BY <1>1, <1>2 DEF PacketsAreGenuine, Within
<1> QED
  BY <1>2, <1>3, <1>4 DEF ParserSafe

\* ... after every step of the parser, ...
LEMMA ParserSafeStep ==
  ASSUME ParserSafe, Next
  PROVE  ParserSafe'
<1>1. ASSUME NEW chunk \in BoundedSeq(Byte, MaxChunk), NEW silent \in BOOLEAN, ParseChunk(chunk, silent)
      PROVE  ParserSafe'
  <2>1. chunk \in Seq(Byte)
    BY ChunksAreBytes
  <2> QED
    BY <1>1, <2>1, ParseKeepsType, ParseRemembers, ParseKeepsGenuine DEF ParserSafe
<1>2. CASE Iterate
  BY <1>2, IterateSafe
<1> QED
  BY <1>1, <1>2 DEF Next

\* ... and while others move.
LEMMA ParserSafeStays ==
  ASSUME ParserSafe, UNCHANGED vars
  PROVE  ParserSafe'
<1>1. UNCHANGED config /\ UNCHANGED <<buffer, scanned, pc, received, emitted, overflowed>>
  BY DEF vars
<1>2. Consumed' = Consumed /\ ParserType /\ ParserType'
  BY <1>1 DEF ParserSafe, ParserType, Consumed
<1>3. Remembered'
  <2>1. /\ \A b, n : Tried(b, n)' <=> Tried(b, n)
        /\ headerLength' = headerLength /\ (\A s : HeaderPlaces(s)' = HeaderPlaces(s))
    BY <1>1, SameAsBefore, SameVerdict, SamePlaces
  <2> QED
    BY <1>1, <2>1 DEF ParserSafe, Remembered
<1>4. GenuineForm'
  <2>1. GenuineForm
    BY <1>2, GenuineIs DEF ParserSafe, GenuineForm, ParserType
  <2>2. \A packet : GoodPacket(packet)' <=> GoodPacket(packet)
    BY <1>1, SameAsBefore
  <2> QED
    BY <1>1, <1>2, <2>1, <2>2 DEF GenuineForm
<1>5. PacketsAreGenuine'
  BY <1>2, <1>4, GenuineNext DEF ParserType
<1>6. Within'
  BY <1>1, <1>2 DEF ParserSafe, Within
<1> QED
  BY <1>2, <1>3, <1>5, <1>6 DEF ParserSafe

\* The memory of the sweep, as the property tells it.
LEMMA RemembersInVain ==
  ASSUME ParserSafe
  PROVE  ScannedInVain
<1>1. /\ config \in ConfigType /\ buffer \in Seq(Byte) /\ Len(buffer) \in Nat /\ scanned \in 0 .. Len(buffer)
      /\ headerLength \in Nat /\ getChecksumLength \in {0, 1, 2} /\ scanned \in Nat
  BY LenProperties, ConfigFacts DEF ParserSafe, ParserType
<1> SUFFICES ASSUME config.length = 0, config.footer = <<>>, getChecksumLength > 0,
                    NEW k \in (headerLength + getChecksumLength) .. Min({scanned, Len(buffer)}),
                    HeaderPlaces(buffer) # {}, Min(HeaderPlaces(buffer)) = 0
             PROVE  ~verifyChecksum(Take(buffer, k))
  BY DEF ScannedInVain
<1>2. 0 \in HeaderPlaces(buffer) /\ headerLength <= Len(buffer)
  <2>1. HeaderPlaces(buffer) \in SUBSET Nat
    BY <1>1, PlacesLie
  <2>2. 0 \in HeaderPlaces(buffer)
    BY <2>1, MinIs
  <2> QED
    BY <1>1, <2>2, PlacesLie
<1>3. Tried(buffer, scanned)
  BY <1>2 DEF ParserSafe, Remembered
<1>4. k \in (headerLength + getChecksumLength) .. scanned
  <2>1. Min({scanned, Len(buffer)}) <= scanned /\ Min({scanned, Len(buffer)}) \in Nat
    BY <1>1, MinOfTwo
  <2> HIDE DEF Min
  <2> QED
    BY <1>1, <2>1
<1> QED
  BY <1>3, <1>4 DEF Tried

\* An iteration ends the call or takes bytes.
LEMMA IterationConsumes ==
  ASSUME ParserSafe, [Next]_vars
  PROVE  [pc = "loop" => pc' = "idle" \/ Len(buffer') < Len(buffer)]_vars
<1>1. buffer \in Seq(Byte) /\ Len(buffer) \in Nat /\ ParserType /\ Remembered
  BY LenProperties DEF ParserSafe, ParserType
<1>2. CASE Iterate
  <2>1. ASSUME NEW d \in 0 .. Len(buffer), Passes(d), d > 0
        PROVE  Len(buffer') < Len(buffer)
    <3>1. Len(buffer') = Len(buffer) - d
      BY <1>1, <2>1, Shortened DEF Passes
    <3> QED
      BY <1>1, <2>1, <3>1
  <2>2. ASSUME NEW o \in Nat, NEW k \in Nat \ {0}, o + k <= Len(buffer), Emits(o, k)
        PROVE  Len(buffer') < Len(buffer)
    <3>1. o + k \in 0 .. Len(buffer) /\ o + k > 0
      BY <1>1, <2>2
    <3>2. Len(buffer') = Len(buffer) - (o + k)
      BY <1>1, <2>2, <3>1, Shortened DEF Emits
    <3> QED
      BY <1>1, <3>1, <3>2
  <2> QED
    BY <1>1, <1>2, <2>1, <2>2, IterateMoves
<1>3. CASE \E chunk \in BoundedSeq(Byte, MaxChunk) \ {<<>>}, silent \in BOOLEAN : ParseChunk(chunk, silent)
  BY <1>3 DEF ParseChunk
<1> QED
  BY <1>2, <1>3 DEF Next

-----------------------------------------------------------------------------
(* What an iteration finds is what comes next in the stream.               *)

\* From offset a of the buffer on, a stream reads as from offset b on, whatever
\* comes behind.
ReadsAs(a, b) ==
  \A c \in Seq(Byte) : FramesFrom(received \o c, Consumed + a) = FramesFrom(received \o c, Consumed + b)

\* From offset a on, it has the packet e and goes on at offset b.
ReadsFirst(a, e, b) ==
  \A c \in Seq(Byte) :
    FramesFrom(received \o c, Consumed + a) = <<e>> \o FramesFrom(received \o c, Consumed + b)

\* Nothing starts at the first d bytes of s.
NoStarts(s, d) ==
  \A c \in Seq(Byte) : \A o \in 0 .. (d - 1) :
    /\ config.length = 0 => o \notin StreamStarts(s \o c)
    /\ config.length > 0 => o \notin FixedStarts(s \o c, 0)

\* The piece of k bytes at o is the first of s.
IsFirst(s, o, k) == \A c \in Seq(Byte) : Leads(s \o c, o, k)

\* s is what the buffer has from offset a on.
Rests(a, s) ==
  /\ s \in Seq(Byte) /\ Len(s) = Len(buffer) - a /\ Len(buffer) \in Nat /\ Consumed \in Nat
  /\ Consumed + a \in 0 .. Len(received) /\ Drop(received, Consumed + a) = s
  /\ \A c \in Seq(Byte) :
       /\ received \o c \in Seq(Byte) /\ s \o c \in Seq(Byte) /\ Len(s \o c) = Len(s) + Len(c)
       /\ Len(c) \in Nat
       /\ Consumed + a \in 0 .. Len(received \o c) /\ Drop(received \o c, Consumed + a) = s \o c

\* What is left of the buffer is an end of the stream.
LEMMA Rest ==
  ASSUME ParserType, NEW a \in 0 .. Len(buffer), NEW s, s = Drop(buffer, a)
  PROVE  Rests(a, s)
<1>1. /\ buffer \in Seq(Byte) /\ received \in Seq(Byte) /\ Len(buffer) \in Nat /\ Len(received) \in Nat
      /\ Len(buffer) <= Len(received) /\ buffer = Drop(received, Consumed)
  BY LenProperties DEF ParserType
<1>2. s \in Seq(Byte) /\ Len(s) = Len(buffer) - a
  BY <1>1, Dropped
<1>3. /\ Consumed \in Nat /\ Consumed \in 0 .. Len(received) /\ a \in 0 .. (Len(received) - Consumed)
      /\ Consumed + a \in 0 .. Len(received)
  BY <1>1 DEF Consumed
<1>4. Drop(received, Consumed + a) = s
  BY <1>1, <1>3, DropDrop
<1>5. ASSUME NEW c \in Seq(Byte)
      PROVE  /\ received \o c \in Seq(Byte) /\ s \o c \in Seq(Byte) /\ Len(s \o c) = Len(s) + Len(c)
             /\ Len(c) \in Nat
             /\ Consumed + a \in 0 .. Len(received \o c) /\ Drop(received \o c, Consumed + a) = s \o c
  <2>1. /\ received \o c \in Seq(Byte) /\ s \o c \in Seq(Byte) /\ Len(s \o c) = Len(s) + Len(c)
        /\ Len(received \o c) = Len(received) + Len(c) /\ Len(c) \in Nat
    BY <1>1, <1>2, Concat, LenProperties
  <2>2. Consumed + a \in 0 .. Len(received \o c)
    BY <1>1, <1>3, <2>1
  <2>3. Drop(received \o c, Consumed + a) = Drop(received, Consumed + a) \o c
    <3> DEFINE p == Consumed + a
    <3>1. p \in 0 .. Len(received)
      BY <1>3
    <3> HIDE DEF p
    <3>2. Drop(received \o c, p) = Drop(received, p) \o c
      BY <1>1, <3>1, DropBoth
    <3> QED
      BY <3>2 DEF p
  <2> QED
    BY <1>4, <2>1, <2>2, <2>3
<1> QED
  BY <1>1, <1>2, <1>3, <1>4, <1>5 DEF Rests

\* Without starts in between, reading goes on further behind.
LEMMA ReadsOver ==
  ASSUME ParserType, NEW a \in 0 .. Len(buffer), NEW s, s = Drop(buffer, a),
         NEW d \in 0 .. Len(s), NoStarts(s, d)
  PROVE  ReadsAs(a, a + d)
<1> SUFFICES ASSUME NEW c \in Seq(Byte)
             PROVE  FramesFrom(received \o c, Consumed + a) = FramesFrom(received \o c, Consumed + (a + d))
  BY DEF ReadsAs
<1> DEFINE st == received \o c
           b == s \o c
           p == Consumed + a
<1>1. /\ config \in ConfigType /\ st \in Seq(Byte) /\ p \in 0 .. Len(st) /\ b = Drop(st, p)
      /\ Len(b) = Len(s) + Len(c) /\ Len(s) \in Nat /\ Len(c) \in Nat /\ Consumed \in Nat
  <2>1. Rests(a, s) /\ config \in ConfigType
    BY Rest DEF ParserType
  <2>2. Len(s) \in Nat
    BY <2>1, LenProperties DEF Rests
  <2> QED
    BY ONLY <2>1, <2>2, c \in Seq(Byte) DEF Rests
<1>2. \A o \in 0 .. (d - 1) : (config.length = 0 => o \notin StreamStarts(b))
                              /\ (config.length > 0 => o \notin FixedStarts(b, 0))
  BY DEF NoStarts
<1>3. Consumed + (a + d) = p + d
  BY <1>1
<1> HIDE DEF st, b, p
<1>4. d \in 0 .. Len(b)
  BY <1>1
<1>5. FramesFrom(st, p) = FramesFrom(st, p + d)
  BY <1>1, <1>2, <1>4, PassOver
<1> QED
  BY <1>3, <1>5 DEF st, p

\* The first piece of the rest of the buffer is what reading gives next.
LEMMA ReadsPiece ==
  ASSUME ParserType, NEW a \in 0 .. Len(buffer), NEW s, s = Drop(buffer, a),
         NEW o \in Nat, NEW k \in Nat, o + k <= Len(s), IsFirst(s, o, k)
  PROVE  /\ isLengthAllowed(k) =>
              ReadsFirst(a, [at |-> Consumed + (a + o), packet |-> SubSeq(s, o + 1, o + k)], a + o + k)
         /\ ~isLengthAllowed(k) => ReadsAs(a, a + o + k)
<1>1. ASSUME NEW c \in Seq(Byte)
      PROVE  FramesFrom(received \o c, Consumed + a) =
               IF isLengthAllowed(k)
               THEN <<[at |-> Consumed + (a + o), packet |-> SubSeq(s, o + 1, o + k)]>>
                      \o FramesFrom(received \o c, Consumed + (a + o + k))
               ELSE FramesFrom(received \o c, Consumed + (a + o + k))
  <2> DEFINE st == received \o c
             b == s \o c
             p == Consumed + a
  <2>1. /\ config \in ConfigType /\ st \in Seq(Byte) /\ p \in 0 .. Len(st) /\ b = Drop(st, p)
        /\ Len(b) = Len(s) + Len(c) /\ Len(s) \in Nat /\ Len(c) \in Nat /\ Consumed \in Nat
        /\ s \in Seq(Byte)
    <3>1. Rests(a, s) /\ config \in ConfigType
      BY Rest DEF ParserType
    <3>2. Len(s) \in Nat
      BY <3>1, LenProperties DEF Rests
    <3> QED
      BY ONLY <3>1, <3>2, c \in Seq(Byte) DEF Rests
  <2>2. Leads(b, o, k)
    BY DEF IsFirst
  <2>3. Consumed + (a + o) = p + o /\ Consumed + (a + o + k) = p + o + k
    BY <2>1
  <2>4. SubSeq(b, o + 1, o + k) = SubSeq(s, o + 1, o + k)
    <3>1. o + 1 \in Nat \ {0} /\ o + k \in Int
      OBVIOUS
    <3> QED
      BY <2>1, <3>1, PieceOfBoth
  <2> HIDE DEF st, b, p
  <2>5. o + k <= Len(b)
    BY <2>1
  <2>6. FramesFrom(st, p) =
           IF isLengthAllowed(k)
           THEN <<[at |-> p + o, packet |-> SubSeq(b, o + 1, o + k)]>> \o FramesFrom(st, p + o + k)
           ELSE FramesFrom(st, p + o + k)
    <3>1. BeginsWith(st, p, b, o, k)
      BY <2>1, <2>2, <2>5, PieceFirst
    <3> QED
      BY <3>1 DEF BeginsWith
  <2> QED
    BY <2>3, <2>4, <2>6 DEF st, p
<1> QED
  BY <1>1 DEF ReadsFirst, ReadsAs

\* With nothing in the rest of the buffer, reading has come to its end.
LEMMA ReadsNothing ==
  ASSUME ParserType, NEW a \in 0 .. Len(buffer), NEW s, s = Drop(buffer, a),
         config.length = 0 =>
           \A o \in StreamStarts(s) :
             (\A x \in StreamStarts(s) : o <= x) => Candidates(Drop(s, o)) = {},
         config.length > 0 => FixedStarts(s, 0) = {}
  PROVE  FramesFrom(received, Consumed + a) = <<>>
<1> DEFINE p == Consumed + a
<1>1. config \in ConfigType /\ received \in Seq(Byte) /\ p \in 0 .. Len(received) /\ s = Drop(received, p)
  BY Rest DEF ParserType, Rests
<1> HIDE DEF p
<1>2. FramesFrom(received, p) = <<>>
  BY <1>1, NothingLeft
<1> QED
  BY <1>2 DEF p

\* What an iteration finds is what comes next in the stream.
ReadsOn ==
  \/ \E d \in 0 .. Len(buffer) :
       Passes(d) /\ ReadsAs(0, d) /\ (pc' = "idle" => FramesFrom(received, Consumed + d) = <<>>)
  \/ \E o \in Nat : \E k \in Nat :
       /\ o + k <= Len(buffer) /\ Emits(o, k)
       /\ ReadsFirst(0, [at |-> Consumed + o, packet |-> SubSeq(buffer, o + 1, o + k)], o + k)

\* Reading on after reading on.
LEMMA ReadsThrough ==
  ASSUME NEW a, NEW b, NEW e, NEW d, ReadsAs(a, b)
  PROVE  (ReadsAs(b, d) => ReadsAs(a, d)) /\ (ReadsFirst(b, e, d) => ReadsFirst(a, e, d))
BY DEF ReadsAs, ReadsFirst

\* The first header begins what comes next.
LEMMA ReadsFromFirst ==
  ASSUME ParserType, ~DependsOnChunks, NEW first, first \in HeaderPlaces(buffer),
         \A x \in HeaderPlaces(buffer) : first <= x
  PROVE  first \in 0 .. Len(buffer) /\ ReadsAs(0, first)
<1>1. /\ config \in ConfigType /\ buffer \in Seq(Byte) /\ Len(buffer) \in Nat /\ headerLength \in Nat
      /\ config.length \in Nat
  BY LenProperties, ConfigFacts DEF ParserType
<1>2. first \in 0 .. Len(buffer) /\ first + headerLength <= Len(buffer) /\ first \in Nat
  BY <1>1, PlacesLie
<1>3. NoStarts(buffer, first)
  <2> SUFFICES ASSUME NEW c \in Seq(Byte), NEW o \in 0 .. (first - 1)
               PROVE  /\ config.length = 0 => o \notin StreamStarts(buffer \o c)
                      /\ config.length > 0 => o \notin FixedStarts(buffer \o c, 0)
    BY DEF NoStarts
  <2>1. o \in 0 .. Len(buffer) /\ o + headerLength <= Len(buffer) /\ o < first
    BY <1>1, <1>2
  <2>2. o \notin HeaderPlaces(buffer)
    BY <1>2, <2>1
  <2>3. config.length = 0 => o \notin StreamStarts(buffer \o c)
    BY <1>1, <2>1, <2>2, StartsGrow DEF StreamStarts
  <2>4. config.length > 0 => FALSE
    <3> SUFFICES ASSUME config.length > 0 PROVE FALSE
      OBVIOUS
    <3>1. headerLength = 0
      BY <1>1 DEF DependsOnChunks
    <3>2. config.header = <<>> /\ SubSeq(buffer, 0 + 1, 0 + 0) = <<>>
      BY <1>1, <3>1, ConfigFacts DEF headerLength
    <3>3. 0 \in HeaderPlaces(buffer)
      BY <1>1, <3>1, <3>2 DEF HeaderPlaces
    <3> QED
      BY <1>2, <2>1, <3>3
  <2> QED
    BY <2>3, <2>4
<1>4. ReadsAs(0, 0 + first)
  <2>1. 0 \in 0 .. Len(buffer) /\ buffer = Drop(buffer, 0)
    BY <1>1, DropNone
  <2> QED
    BY <1>2, <1>3, <2>1, ReadsOver
<1> QED
  BY <1>2, <1>4

Whole == ~overflowed /\ ~DependsOnChunks /\ WindowCovers

\* No start among bytes too short for a header.
LEMMA TooShort ==
  ASSUME config \in ConfigType, NEW s \in Seq(Byte), Len(s) = 0 \/ Len(s) < headerLength
  PROVE  StreamStarts(s) = {}
<1>1. headerLength \in Nat /\ Len(s) \in Nat
  BY ConfigFacts, LenProperties
<1>2. \A o \in StreamStarts(s) : FALSE
  BY <1>1, StartsLie
<1> QED
  BY <1>2

\* Too few bytes for a packet of fixed length.
LEMMA NoFixed ==
  ASSUME config \in ConfigType, config.length > 0, NEW s \in Seq(Byte), Len(s) < config.length
  PROVE  FixedStarts(s, 0) = {}
<1>1. config.length \in Nat /\ Len(s) \in Nat
  BY ConfigFacts, LenProperties
<1>2. 0 .. (Len(s) - config.length) = {}
  BY <1>1
<1> QED
  BY <1>2 DEF FixedStarts

\* The iteration ends as there is no header.
LEMMA ReadsNoHeader ==
  ASSUME ParserType, ~DependsOnChunks,
         \/ (Len(buffer) = 0 \/ Len(buffer) < headerLength) /\ Stop(buffer, scanned)
         \/ /\ Len(buffer) >= headerLength /\ headerLength > 0 /\ HeaderPlaces(buffer) = {}
            /\ Stop(Drop(buffer, Len(buffer) - (headerLength - 1)), 0)
  PROVE  ReadsOn
<1>1. /\ config \in ConfigType /\ buffer \in Seq(Byte) /\ Len(buffer) \in Nat /\ headerLength \in Nat
      /\ config.length \in Nat /\ (config.length > 0 => headerLength = 0)
      /\ Drop(buffer, 0) = buffer
  BY LenProperties, ConfigFacts, DropNone DEF ParserType, DependsOnChunks
<1>2. CASE (Len(buffer) = 0 \/ Len(buffer) < headerLength) /\ Stop(buffer, scanned)
  <2>1. StreamStarts(buffer) = {}
    BY <1>1, <1>2, TooShort
  <2>2. config.length > 0 => FixedStarts(buffer, 0) = {}
    BY <1>1, <1>2, NoFixed
  <2>3. 0 \in 0 .. Len(buffer)
    BY <1>1
  <2>4. FramesFrom(received, Consumed + 0) = <<>>
    BY <1>1, <2>1, <2>2, <2>3, ReadsNothing
  <2>5. Passes(0)
    BY <1>1, <1>2 DEF Passes, Stop
  <2>6. ReadsAs(0, 0)
    BY DEF ReadsAs
  <2> QED
    BY <2>3, <2>4, <2>5, <2>6 DEF ReadsOn
<1>3. CASE /\ Len(buffer) >= headerLength /\ headerLength > 0 /\ HeaderPlaces(buffer) = {}
           /\ Stop(Drop(buffer, Len(buffer) - (headerLength - 1)), 0)
  <2> DEFINE d == Len(buffer) - (headerLength - 1)
             s == Drop(buffer, d)
  <2>1. d \in 0 .. Len(buffer) /\ d \in Nat /\ config.length = 0 /\ d + headerLength = Len(buffer) + 1
    BY <1>1, <1>3
  <2>2. Passes(d)
    BY <1>3 DEF Passes, Stop
  <2> HIDE DEF d
  <2>3. s \in Seq(Byte) /\ Len(s) = Len(buffer) - d
    BY <1>1, <2>1, Dropped
  <2>4. NoStarts(buffer, d)
    <3> SUFFICES ASSUME NEW c \in Seq(Byte), NEW o \in 0 .. (d - 1)
                 PROVE  o \notin StreamStarts(buffer \o c)
      BY <2>1 DEF NoStarts
    <3>1. o \in 0 .. Len(buffer) /\ o + headerLength <= Len(buffer)
      BY <1>1, <2>1
    <3> QED
      BY <1>1, <1>3, <3>1, StartsGrow DEF StreamStarts
  <2>5. ReadsAs(0, 0 + d)
    <3>1. 0 \in 0 .. Len(buffer)
      BY <1>1
    <3> QED
      BY <1>1, <2>1, <2>4, <3>1, ReadsOver
  <2>6. StreamStarts(s) = {}
    <3>1. Len(s) < headerLength
      BY <1>1, <2>1, <2>3
    <3> QED
      BY <1>1, <2>3, <3>1, TooShort
  <2>7. FramesFrom(received, Consumed + d) = <<>>
    BY <2>1, <2>6, ReadsNothing
  <2>8. 0 + d = d
    BY <2>1
  <2> QED
    BY <2>1, <2>2, <2>5, <2>7, <2>8 DEF ReadsOn
<1> QED
  BY <1>2, <1>3

\* Bytes of s pass, s being what the buffer has from its first header on.
LEMMA ReadsPast ==
  ASSUME ParserType, NEW first \in 0 .. Len(buffer), NEW s, s = Drop(buffer, first), ReadsAs(0, first),
         NEW d \in 0 .. Len(s), NoStarts(s, d), Passes(first + d),
         pc' = "idle" => /\ config.length = 0 =>
                              \A o \in StreamStarts(Drop(s, d)) :
                                (\A x \in StreamStarts(Drop(s, d)) : o <= x)
                                   => Candidates(Drop(Drop(s, d), o)) = {}
                         /\ config.length > 0 => FixedStarts(Drop(s, d), 0) = {}
  PROVE  ReadsOn
<1>1. buffer \in Seq(Byte) /\ Len(buffer) \in Nat /\ s \in Seq(Byte) /\ Len(s) = Len(buffer) - first
  BY Dropped, LenProperties DEF ParserType
<1>2. first + d \in 0 .. Len(buffer)
  BY <1>1
<1>3. ReadsAs(0, first + d)
  BY ReadsOver, ReadsThrough
<1>4. Drop(buffer, first + d) = Drop(s, d)
  BY <1>1, DropDrop
<1>5. pc' = "idle" => FramesFrom(received, Consumed + (first + d)) = <<>>
  <2> DEFINE a == first + d
             t == Drop(s, d)
  <2>1. a \in 0 .. Len(buffer) /\ t = Drop(buffer, a)
    BY <1>2, <1>4
  <2> HIDE DEF a, t
  <2>2. pc' = "idle" => /\ config.length = 0 =>
                             \A o \in StreamStarts(t) :
                               (\A x \in StreamStarts(t) : o <= x) => Candidates(Drop(t, o)) = {}
                        /\ config.length > 0 => FixedStarts(t, 0) = {}
    BY DEF t
  <2>3. pc' = "idle" => FramesFrom(received, Consumed + a) = <<>>
    BY <2>1, <2>2, ReadsNothing
  <2> QED
    BY <2>3 DEF a
<1> QED
  BY <1>2, <1>3, <1>5 DEF ReadsOn

\* A piece of s is taken or given up.
LEMMA ReadsOff ==
  ASSUME ParserType, NEW first \in 0 .. Len(buffer), NEW s, s = Drop(buffer, first), ReadsAs(0, first),
         NEW o \in Nat, NEW k \in Nat, o + k <= Len(s), IsFirst(s, o, k),
         \/ isLengthAllowed(k) /\ Emits(first + o, k)
              /\ SubSeq(buffer, first + o + 1, first + o + k) = SubSeq(s, o + 1, o + k)
         \/ ~isLengthAllowed(k) /\ Passes(first + (o + k)) /\ pc' # "idle"
  PROVE  ReadsOn
<1>1. /\ buffer \in Seq(Byte) /\ Len(buffer) \in Nat /\ s \in Seq(Byte) /\ Len(s) = Len(buffer) - first
      /\ first \in Nat
  BY Dropped, LenProperties DEF ParserType
<1>2. /\ first + o + k \in 0 .. Len(buffer) /\ first + (o + k) = first + o + k /\ first + o \in Nat
      /\ first + o + k <= Len(buffer)
  BY <1>1
<1>3. CASE isLengthAllowed(k)
  <2>1. ReadsFirst(first, [at |-> Consumed + (first + o), packet |-> SubSeq(s, o + 1, o + k)], first + o + k)
    BY <1>3, ReadsPiece
  <2>2. ReadsFirst(0, [at |-> Consumed + (first + o), packet |-> SubSeq(s, o + 1, o + k)], first + o + k)
    BY <2>1, ReadsThrough
  <2>3. Emits(first + o, k) /\ SubSeq(buffer, first + o + 1, first + o + k) = SubSeq(s, o + 1, o + k)
    BY <1>3
  <2> DEFINE q == first + o
  <2>4. /\ ReadsFirst(0, [at |-> Consumed + q, packet |-> SubSeq(buffer, q + 1, q + k)], q + k)
        /\ Emits(q, k) /\ q \in Nat /\ q + k <= Len(buffer)
    BY <1>2, <2>2, <2>3
  <2> HIDE DEF q
  <2> QED
    BY <2>4 DEF ReadsOn
<1>4. CASE ~isLengthAllowed(k)
  <2>1. ReadsAs(0, first + o + k)
    BY <1>4, ReadsPiece, ReadsThrough
  <2> QED
    BY <1>2, <1>4, <2>1 DEF ReadsOn
<1> QED
  BY <1>3, <1>4

\* Where an iteration goes on.
LEMMA GoesOnAt ==
  ASSUME ParserType, ~DependsOnChunks, NEW first, NEW s, NEW n, GoesOn(first, s, n)
  PROVE  /\ config \in ConfigType /\ first \in 0 .. Len(buffer) /\ s = Drop(buffer, first)
         /\ s \in Seq(Byte) /\ Len(s) \in Nat /\ Len(s) > 0 /\ headerLength <= Len(s)
         /\ 0 \in HeaderPlaces(s) /\ ReadsAs(0, first) /\ Moves(first, s)
         /\ headerLength \in Nat /\ config.length \in Nat /\ config.maxLength = 0
         /\ config.lengthAt = 0 /\ (config.length > 0 => headerLength = 0)
<1>1. /\ config \in ConfigType /\ buffer \in Seq(Byte) /\ received \in Seq(Byte) /\ Len(buffer) \in Nat
      /\ headerLength \in Nat /\ config.length \in Nat /\ config.maxLength \in Nat /\ config.lengthAt \in Nat
  BY LenProperties, ConfigFacts DEF ParserType
<1>2. /\ first \in 0 .. Len(buffer) /\ s = Drop(buffer, first) /\ s \in Seq(Byte)
      /\ Len(s) > 0 /\ headerLength <= Len(s) /\ 0 \in HeaderPlaces(s)
  BY <1>1, FromFirst DEF GoesOn
<1>3. ReadsAs(0, first)
  BY ReadsFromFirst DEF GoesOn
<1>4. Moves(first, s)
  BY <1>1, <1>2, StepsMove
<1>5. Len(s) \in Nat
  BY <1>2, LenProperties
<1>6. config.maxLength = 0 /\ config.lengthAt = 0 /\ (config.length > 0 => headerLength = 0)
  BY <1>1 DEF DependsOnChunks
<1> QED
  BY <1>1, <1>2, <1>3, <1>4, <1>5, <1>6

\* An iteration of strategy A reads the stream on, where its window covers the packet.
LEMMA FixedReads ==
  ASSUME ParserType, ~DependsOnChunks, WindowCovers, pc = "loop",
         NEW first, NEW s, NEW n, GoesOn(first, s, n), FixedLength(s, n)
  PROVE  ReadsOn
<1>1. /\ config \in ConfigType /\ first \in 0 .. Len(buffer) /\ s = Drop(buffer, first)
      /\ s \in Seq(Byte) /\ Len(s) \in Nat /\ Len(s) > 0
      /\ ReadsAs(0, first) /\ Moves(first, s) /\ config.length \in Nat
  BY GoesOnAt
<1>2. config.length > 0
  BY FixedOutcome
<1>3. /\ first + 0 = first /\ Drop(s, 0) = s /\ 0 \in 0 .. Len(s) /\ NoStarts(s, 0)
  <2>1. first + 0 = first /\ Drop(s, 0) = s /\ 0 \in 0 .. Len(s) /\ 0 .. (0 - 1) = {}
    BY <1>1, DropNone
  <2> QED
    BY <2>1 DEF NoStarts
<1>4. CASE Len(s) < config.length /\ Stop(s, n)
  <2>1. Passes(first)
    BY <1>1, <1>4 DEF Moves
  <2>2. FixedStarts(s, 0) = {}
    BY <1>1, <1>2, <1>4, NoFixed
  <2> QED
    BY <1>1, <1>2, <1>3, <2>1, <2>2, ReadsPast
<1>5. CASE Len(s) >= config.length /\ ~isLengthAllowed(config.length) /\ Skip(s, 1)
  <2>1. 1 \in 0 .. Len(s)
    BY <1>1
  <2>2. Passes(first + 1) /\ pc' # "idle"
    BY <1>1, <1>5, <2>1 DEF Moves
  <2>3. ASSUME NEW t \in Seq(Byte), NEW x \in FixedStarts(t, 0)
        PROVE  FALSE
    <3>1. Len(t) \in Nat
      BY LenProperties
    <3>2. x \in 0 .. (Len(t) - config.length) /\ verifyChecksum(SubSeq(t, x + 1, x + config.length))
      BY <2>3 DEF FixedStarts
    <3>3. /\ x \in Nat /\ config.length \in Nat /\ config.length > 0 /\ Len(t) \in Nat
          /\ x + config.length <= Len(t)
      <4>1. config.length \in Nat /\ config.length > 0
        BY <1>1, <1>2
      <4>2. x \in 0 .. (Len(t) - config.length)
        BY <3>2
      <4> QED
        BY ONLY <3>1, <4>1, <4>2
    <3>4. Len(SubSeq(t, x + 1, x + config.length)) = config.length
      <4>1. /\ x + 1 \in Int /\ x + config.length \in Int /\ 1 <= x + 1
            /\ x + 1 <= x + config.length /\ x + config.length <= Len(t)
            /\ (x + config.length) - (x + 1) + 1 = config.length
        BY ONLY <3>3
      <4> QED
        BY <4>1, Sub
    <3> QED
      BY <1>5, <3>2, <3>4 DEF verifyChecksum
  <2>4. NoStarts(s, 1)
    <3> SUFFICES ASSUME NEW c \in Seq(Byte), NEW o \in 0 .. (1 - 1)
                 PROVE  o \notin FixedStarts(s \o c, 0)
      BY <1>2 DEF NoStarts
    <3>1. s \o c \in Seq(Byte)
      BY <1>1, Concat
    <3> QED
      BY <2>3, <3>1
  <2> QED
    BY <1>1, <2>1, <2>2, <2>4, ReadsPast
<1>6. CASE /\ Len(s) >= config.length /\ isLengthAllowed(config.length)
           /\ FixedMatches(s) # {} /\ Emit(s, Min(FixedMatches(s)), config.length)
  <2> DEFINE o == Min(FixedMatches(s))
             k == config.length
  <2>1. FixedMatches(s) = FixedStarts(s, 0)
    BY <1>1, <1>2, <1>6, FixedMatchesAre
  <2>2. FixedStarts(s, 0) \subseteq 0 .. (Len(s) - k)
    BY DEF FixedStarts
  <2>3. o \in FixedStarts(s, 0) /\ \A x \in FixedStarts(s, 0) : o <= x
    <3>1. FixedStarts(s, 0) \in SUBSET Nat
      BY <2>2
    <3> QED
      BY <1>6, <2>1, <3>1, MinIs
  <2>4. Emit(s, o, k)
    BY <1>6
  <2>5. o \in 0 .. (Len(s) - k)
    BY <2>2, <2>3
  <2> HIDE DEF o
  <2>6. o \in Nat /\ k \in Nat /\ o + k <= Len(s)
    BY <1>1, <2>5
  <2>7. IsFirst(s, o, k)
    <3> SUFFICES ASSUME NEW c \in Seq(Byte)
                 PROVE  /\ o \in FixedStarts(s \o c, 0)
                        /\ \A x \in FixedStarts(s \o c, 0) : o <= x
      BY <1>2 DEF IsFirst, Leads
    <3>1. o \in FixedStarts(s \o c, 0)
      BY <1>1, <1>2, <2>3, <2>5, StartsGrow
    <3>2. ASSUME NEW x \in FixedStarts(s \o c, 0) PROVE o <= x
      <4>1. x \in 0 .. (Len(s \o c) - k) /\ Len(s \o c) \in Nat
        <5>1. s \o c \in Seq(Byte)
          BY <1>1, Concat
        <5> QED
          BY <5>1, LenProperties DEF FixedStarts
      <4>2. x \in Nat
        BY <4>1
      <4>3. CASE x <= Len(s) - k
        <5>1. x \in 0 .. (Len(s) - k)
          BY <1>1, <4>2, <4>3
        <5>2. x \in FixedStarts(s, 0)
          BY <1>1, <1>2, <3>2, <5>1, StartsGrow
        <5> QED
          BY <2>3, <5>2
      <4>4. CASE ~(x <= Len(s) - k)
        BY <1>1, <2>5, <4>2, <4>4
      <4> QED
        BY <4>3, <4>4
    <3> QED
      BY <3>1, <3>2
  <2>8. Emits(first + o, k) /\ SubSeq(buffer, first + o + 1, first + o + k) = SubSeq(s, o + 1, o + k)
    BY <1>1, <2>4, <2>6 DEF Moves
  <2>9. isLengthAllowed(k)
    BY <1>6
  <2> HIDE DEF k
  <2> QED
    BY <1>1, <2>6, <2>7, <2>8, <2>9, ReadsOff
<1>7. CASE /\ Len(s) >= config.length /\ isLengthAllowed(config.length)
           /\ FixedMatches(s) = {} /\ Stop(Drop(s, Len(s) - config.length + 1), 0)
  <2> DEFINE m == Len(s) - config.length + 1
  <2>1. m \in 0 .. Len(s) /\ m \in Nat /\ m - 1 = Len(s) - config.length /\ Len(s) - m < config.length
    BY <1>1, <1>2, <1>7
  <2>2. Stop(Drop(s, m), 0)
    BY <1>7
  <2> HIDE DEF m
  <2>3. Passes(first + m)
    BY <1>1, <2>1, <2>2 DEF Moves
  <2>4. FixedStarts(s, 0) = {}
    BY <1>1, <1>2, <1>7, FixedMatchesAre
  <2>5. NoStarts(s, m)
    <3> SUFFICES ASSUME NEW c \in Seq(Byte), NEW o \in 0 .. (m - 1)
                 PROVE  o \notin FixedStarts(s \o c, 0)
      BY <1>2 DEF NoStarts
    <3>1. o \in 0 .. (Len(s) - config.length)
      BY <2>1
    <3> QED
      BY <1>1, <1>2, <2>4, <3>1, StartsGrow
  <2>6. FixedStarts(Drop(s, m), 0) = {}
    <3>1. Drop(s, m) \in Seq(Byte) /\ Len(Drop(s, m)) = Len(s) - m
      BY <1>1, <2>1, Dropped
    <3> QED
      BY <1>1, <1>2, <2>1, <3>1, NoFixed
  <2> QED
    BY <1>1, <1>2, <2>1, <2>3, <2>5, <2>6, ReadsPast
<1> QED
  BY <1>4, <1>5, <1>6, <1>7, FixedOutcome

\* An iteration of strategies B and C reads the stream on.
LEMMA DelimitedReads ==
  ASSUME ParserType, ~DependsOnChunks, pc = "loop",
         NEW first, NEW s, NEW n, GoesOn(first, s, n), config.length = 0, Delimited(s)
  PROVE  ReadsOn
<1>1. /\ config \in ConfigType /\ first \in 0 .. Len(buffer) /\ s = Drop(buffer, first)
      /\ s \in Seq(Byte) /\ Len(s) \in Nat /\ Len(s) > 0 /\ headerLength <= Len(s)
      /\ 0 \in HeaderPlaces(s) /\ ReadsAs(0, first) /\ Moves(first, s)
      /\ headerLength \in Nat /\ config.maxLength = 0 /\ config.lengthAt = 0
  BY GoesOnAt
<1>2. /\ first + 0 = first /\ Drop(s, 0) = s /\ 0 \in 0 .. Len(s) /\ NoStarts(s, 0)
  <2>1. first + 0 = first /\ Drop(s, 0) = s /\ 0 \in 0 .. Len(s) /\ 0 .. (0 - 1) = {}
    BY <1>1, DropNone
  <2> QED
    BY <2>1 DEF NoStarts
<1>3. 0 \in StreamStarts(s) <=> ValidStart(s[1])
  BY <1>1 DEF StreamStarts
<1>4. \A c \in Seq(Byte) : 0 \in StreamStarts(s \o c) <=> 0 \in StreamStarts(s)
  <2>1. 0 \in 0 .. Len(s) /\ 0 < Len(s) /\ 0 + headerLength <= Len(s)
    BY <1>1
  <2> QED
    BY <1>1, <2>1, StartsGrow
<1>5. CASE Waits(s)
  <2>1. Stop(s, Len(s))
    BY <1>1, <1>5 DEF Waits
  <2>2. Passes(first)
    BY <1>1, <2>1 DEF Moves
  <2>3. ASSUME NEW o \in StreamStarts(s), \A x \in StreamStarts(s) : o <= x
        PROVE  Candidates(Drop(s, o)) = {}
    <3>1. o \in Nat /\ o \in 0 .. Len(s)
      <4>1. o \in Nat /\ o < Len(s)
        BY <1>1, StartsLie
      <4> QED
        BY <1>1, <4>1
    <3>2. CASE ValidStart(s[1])
      <4>1. o = 0
        BY <1>3, <2>3, <3>1, <3>2
      <4> QED
        BY <1>2, <1>5, <4>1 DEF Waits
    <3>3. CASE ~ValidStart(s[1])
      BY <1>5, <3>1, <3>3 DEF Waits
    <3> QED
      BY <3>2, <3>3
  <2> QED
    BY <1>1, <1>2, <2>2, <2>3, ReadsPast
<1>6. CASE GivesUp(s)
  <2>1. 1 \in 0 .. Len(s)
    BY <1>1
  <2>2. Passes(first + 1) /\ pc' # "idle"
    BY <1>1, <1>6, <2>1 DEF Moves, GivesUp
  <2>3. NoStarts(s, 1)
    <3> SUFFICES ASSUME NEW c \in Seq(Byte), NEW o \in 0 .. (1 - 1)
                 PROVE  o \notin StreamStarts(s \o c)
      BY DEF NoStarts
    <3>1. o = 0
      OBVIOUS
    <3> QED
      BY <1>3, <1>4, <1>6, <3>1 DEF GivesUp
  <2> QED
    BY <1>1, <2>1, <2>2, <2>3, ReadsPast
<1>7. CASE TakesFirst(s)
  <2>1. PICK k \in Candidates(s) :
          /\ \A x \in Candidates(s) : k <= x
          /\ ValidStart(s[1])
          /\ IF isLengthAllowed(k) THEN Emit(s, 0, k) ELSE Skip(s, k)
    BY <1>7 DEF TakesFirst
  <2>2. k \in 1 .. Len(s)
    BY <1>1, CandidatesLie
  <2>3. k \in Nat /\ 0 + k <= Len(s) /\ k \in 0 .. Len(s) /\ 0 + k = k
    BY <1>1, <2>2
  <2>4. IsFirst(s, 0, k)
    <3> SUFFICES ASSUME NEW c \in Seq(Byte)
                 PROVE  /\ 0 \in StreamStarts(s \o c) /\ k \in Candidates(s \o c)
                        /\ \A x \in Candidates(s \o c) : k <= x
      BY DEF IsFirst, Leads
    <3>1. 0 \in StreamStarts(s \o c)
      BY <1>3, <1>4, <2>1
    <3>2. k \in Candidates(s \o c)
      BY <1>1, <2>1, <2>3, CandidatesGrow
    <3>3. ASSUME NEW x \in Candidates(s \o c) PROVE k <= x
      <4>1. x \in Nat
        <5>1. s \o c \in Seq(Byte)
          BY <1>1, Concat
        <5>2. x \in 1 .. Len(s \o c) /\ Len(s \o c) \in Nat
          BY <1>1, <5>1, CandidatesLie, LenProperties
        <5> QED
          BY <5>2
      <4>2. CASE x <= Len(s)
        <5>1. x \in 0 .. Len(s)
          BY <1>1, <4>1, <4>2
        <5>2. x \in Candidates(s)
          BY <1>1, <3>3, <5>1, CandidatesGrow
        <5> QED
          BY <2>1, <5>2
      <4>3. CASE ~(x <= Len(s))
        BY <1>1, <2>2, <4>1, <4>3
      <4> QED
        BY <4>2, <4>3
    <3> QED
      BY <3>1, <3>2, <3>3
  <2>5. CASE isLengthAllowed(k)
    <3>1. Emit(s, 0, k)
      BY <2>1, <2>5
    <3>2. Emits(first + 0, k) /\ SubSeq(buffer, first + 0 + 1, first + 0 + k) = SubSeq(s, 0 + 1, 0 + k)
      BY <1>1, <2>3, <3>1 DEF Moves
    <3> QED
      BY <1>1, <2>3, <2>4, <2>5, <3>2, ReadsOff
  <2>6. CASE ~isLengthAllowed(k)
    <3>1. Passes(first + k) /\ pc' # "idle"
      BY <1>1, <2>1, <2>3, <2>6 DEF Moves
    <3> QED
      BY <1>1, <2>3, <2>4, <2>6, <3>1, ReadsOff
  <2> QED
    BY <2>5, <2>6
<1>8. CASE GoesBy(s)
  BY <1>1, <1>8 DEF GoesBy
<1> QED
  BY <1>5, <1>6, <1>7, <1>8 DEF Delimited

\* An iteration reads the stream on.
LEMMA IterateReads ==
  ASSUME ParserSafe, Whole, Iterate
  PROVE  ReadsOn
<1>1. ParserType /\ Remembered /\ ~DependsOnChunks /\ WindowCovers
  BY DEF ParserSafe, Whole
<1>2. pc = "loop"
  BY <1>1, IterateCases
<1>3. CASE \E first, s, n : GoesOn(first, s, n)
  <2>1. PICK first, s, n : GoesOn(first, s, n)
    BY <1>3
  <2> QED
    BY <1>1, <1>2, <2>1, FixedReads, DelimitedReads DEF GoesOn
<1>4. CASE \/ (Len(buffer) = 0 \/ Len(buffer) < headerLength) /\ Stop(buffer, scanned)
           \/ /\ Len(buffer) >= headerLength /\ headerLength > 0 /\ HeaderPlaces(buffer) = {}
              /\ Stop(Drop(buffer, Len(buffer) - (headerLength - 1)), 0)
  BY <1>1, <1>4, ReadsNoHeader
<1> QED
  BY <1>1, <1>3, <1>4, IterateCases
=============================================================================
