---------------------------- MODULE Loops_proofs ----------------------------
(***************************************************************************)
(* Theorems about the two pure loops.  colordb_hash, for names of any      *)
(* length, any alphabet, any bucket factors and any word that is a         *)
(* multiple of the first factor; two calls of it: names of one length that *)
(* differ in one character never share a type, for any invertible          *)
(* reduction; and the search for the nearest ANSI colour, which returns    *)
(* the first nearest entry of every table.                                 *)
(***************************************************************************)
EXTENDS HashTwins, NearestAnsi, SequenceTheorems, TLAPS

(* Arithmetic of remainders.                                               *)

\* What div and mod return.
LEMMA DivisionFacts ==
  ASSUME NEW a \in Int, NEW m \in Nat \ {0}
  PROVE  /\ a \div m \in Int
         /\ a % m \in 0..(m - 1)
         /\ a = m * (a \div m) + (a % m)
OBVIOUS

\* Multiplication is associative.
LEMMA Associative ==
  ASSUME NEW a \in Int, NEW b \in Int, NEW c \in Int
  PROVE  (a * b) * c = a * (b * c)
OBVIOUS

\* Multiplying by a positive number keeps numbers apart.
LEMMA CancelFactor ==
  ASSUME NEW a \in Int, NEW b \in Int, NEW m \in Nat \ {0}, a # b
  PROVE  a * m # b * m
<1>1. ASSUME NEW x \in Int, NEW y \in Int, x < y PROVE x * m < y * m
  BY <1>1
<1> QED
  BY <1>1

\* A multiple of m that is smaller than m in size is zero.
LEMMA SmallMultiple ==
  ASSUME NEW m \in Nat \ {0}, NEW q \in Int, -m < m * q, m * q < m
  PROVE  q = 0
OBVIOUS

\* Quotient and remainder are unique.
LEMMA RemainderUnique ==
  ASSUME NEW a \in Int, NEW m \in Nat \ {0}, NEW q \in Int, NEW r \in 0..(m - 1),
         a = m * q + r
  PROVE  a % m = r
<1>1. PICK u \in Int, v \in 0..(m - 1) : a = m * u + v /\ a % m = v
  BY DivisionFacts
<1> DEFINE d == u - q
<1>2. m * d = m * u - m * q /\ d \in Int
  BY <1>1
<1> HIDE DEF d
<1>3. m * d = r - v
  BY <1>1, <1>2
<1>4. d = 0
  BY <1>1, <1>2, <1>3, SmallMultiple
<1> QED
  BY <1>1, <1>3, <1>4

\* a and b differ by a multiple of m.
Cong(a, b, m) == \E q \in Int : a = b + m * q

\* Congruent numbers have the same remainder.
LEMMA CongSameRemainder ==
  ASSUME NEW a \in Int, NEW b \in Int, NEW m \in Nat \ {0}, Cong(a, b, m)
  PROVE  a % m = b % m
<1>1. PICK q \in Int : a = b + m * q
  BY DEF Cong
<1>2. PICK u \in Int, v \in 0..(m - 1) : b = m * u + v /\ b % m = v
  BY DivisionFacts
<1> DEFINE d == u + q
<1>3. m * d = m * u + m * q /\ d \in Int
  BY <1>2
<1> HIDE DEF d
<1>4. a = m * d + v
  BY <1>1, <1>2, <1>3
<1> QED
  BY <1>2, <1>3, <1>4, RemainderUnique

\* Numbers with the same remainder are congruent.
LEMMA SameRemainderCong ==
  ASSUME NEW a \in Int, NEW b \in Int, NEW m \in Nat \ {0}, a % m = b % m
  PROVE  Cong(a, b, m)
<1>1. /\ a = m * (a \div m) + (a % m) /\ a \div m \in Int
      /\ b = m * (b \div m) + (b % m) /\ b \div m \in Int
  BY DivisionFacts
<1> DEFINE q == (a \div m) - (b \div m)
<1>2. m * q = m * (a \div m) - m * (b \div m) /\ q \in Int
  BY <1>1
<1> HIDE DEF q
<1>3. a = b + m * q
  BY <1>1, <1>2
<1> QED
  BY <1>2, <1>3 DEF Cong

\* Reducing modulo a multiple of m first does not change the remainder.
LEMMA ReduceTwice ==
  ASSUME NEW a \in Int, NEW m \in Nat \ {0}, NEW k \in Nat \ {0}
  PROVE  (a % (m * k)) % m = a % m
<1> DEFINE w == m * k
<1>1. w \in Nat \ {0}
  OBVIOUS
<1> HIDE DEF w
<1> DEFINE u == a \div w
           r == a % w
           q == k * u
<1>2. a = w * u + r /\ u \in Int /\ r \in Int
  BY <1>1, DivisionFacts
<1> HIDE DEF u, r
<1>3. w * u = m * q /\ q \in Int
  BY <1>2, Associative DEF w
<1> HIDE DEF q
<1>4. a = r + m * q
  BY <1>2, <1>3
<1>5. Cong(a, r, m)
  BY <1>3, <1>4 DEF Cong
<1>6. a % m = r % m
  BY <1>2, <1>5, CongSameRemainder
<1> QED
  BY <1>6 DEF w, r

\* Congruence is kept by x |-> 33 * x + c.
LEMMA MixCongruent ==
  ASSUME NEW a \in Int, NEW b \in Int, NEW c \in Int, NEW m \in Nat \ {0},
         a % m = b % m
  PROVE  (33 * a + c) % m = (33 * b + c) % m
<1>1. PICK q \in Int : a = b + m * q
  BY SameRemainderCong DEF Cong
<1> DEFINE p == 33 * q
<1>2. m * p = 33 * (m * q) /\ p \in Int
  BY <1>1
<1> HIDE DEF p
<1>3. 33 * a + c = 33 * b + c + m * p
  BY <1>1, <1>2
<1>4. Cong(33 * a + c, 33 * b + c, m)
  BY <1>2, <1>3 DEF Cong
<1> QED
  BY <1>4, CongSameRemainder

\* 33 is invertible modulo m.
Invertible(m) == \A x \in 1..(m - 1) : (33 * x) % m # 0

\* If 33 is invertible modulo m, that map also keeps incongruence.
LEMMA MixInjective ==
  ASSUME NEW a \in Int, NEW b \in Int, NEW c \in Int, NEW m \in Nat \ {0},
         Invertible(m), a % m # b % m
  PROVE  (33 * a + c) % m # (33 * b + c) % m
<1>1. ASSUME NEW e \in Int, NEW f \in Int, e % m > f % m
      PROVE  (33 * e + c) % m # (33 * f + c) % m
  <2> SUFFICES ASSUME (33 * e + c) % m = (33 * f + c) % m PROVE FALSE
    OBVIOUS
  <2>0. Cong(33 * e + c, 33 * f + c, m)
    BY SameRemainderCong
  <2>1. PICK q \in Int : 33 * e + c = 33 * f + c + m * q
    BY ONLY <2>0 DEF Cong
  <2>2. PICK g \in Int, u \in 0..(m - 1) : e = m * g + u /\ e % m = u
    BY DivisionFacts
  <2>3. PICK k \in Int, v \in 0..(m - 1) : f = m * k + v /\ f % m = v
    BY DivisionFacts
  <2> DEFINE x == u - v
             n == q + 33 * k - 33 * g
  <2>4. x \in 1..(m - 1)
    BY <1>1, <2>2, <2>3
  <2>5. m * n = m * q + 33 * (m * k) - 33 * (m * g) /\ n \in Int
    BY <2>1, <2>2, <2>3
  <2> HIDE DEF n
  <2>6. 33 * x = m * n + 0
    BY <2>1, <2>2, <2>3, <2>5
  <2> HIDE DEF x
  <2> DEFINE y == 33 * x
  <2>7. y \in Int /\ y = m * n + 0 /\ 0 \in 0..(m - 1)
    BY <2>4, <2>6
  <2> HIDE DEF y
  <2>8. y % m = 0
    BY <2>5, <2>7, RemainderUnique
  <2> QED
    BY <2>4, <2>8 DEF y, Invertible
<1>2. a % m \in Int /\ b % m \in Int
  BY DivisionFacts
<1>3. a % m > b % m \/ b % m > a % m
  BY <1>2
<1> QED
  BY <1>1, <1>3

\* Two different last characters less than m apart give different remainders.
LEMMA LastCharDiffers ==
  ASSUME NEW h \in Int, NEW c \in Int, NEW d \in Int, NEW m \in Nat \ {0},
         c # d, c - d < m, d - c < m
  PROVE  (33 * h + c) % m # (33 * h + d) % m
<1> SUFFICES ASSUME (33 * h + c) % m = (33 * h + d) % m PROVE FALSE
  OBVIOUS
<1>0. Cong(33 * h + c, 33 * h + d, m)
  BY SameRemainderCong
<1>1. PICK q \in Int : 33 * h + c = 33 * h + d + m * q
  BY ONLY <1>0 DEF Cong
<1>2. c - d = m * q
  BY <1>1
<1>3. q = 0
  BY <1>1, <1>2, SmallMultiple
<1> QED
  BY <1>2, <1>3
-----------------------------------------------------------------------------
(* One call of colordb_hash.                                               *)

\* A name is a sequence of chars.
LEMMA NamesAreSequences == Names \subseteq Seq(Chars)
BY DEF Names

\* The char that one turn of the colordb_hash loop reads is a char of the name.
LEMMA NextChar ==
  ASSUME TypeOK, i < Len(key)
  PROVE  key[i + 1] \in Int
<1>1. key \in Seq(Chars) /\ i + 1 \in 1..Len(key)
  <2>1. key \in Seq(Chars)
    BY NamesAreSequences DEF TypeOK
  <2>2. Len(key) \in Nat
    BY <2>1
  <2> QED
    BY <2>1, <2>2 DEF TypeOK
<1>2. key[i + 1] \in Chars
  BY <1>1, ElementOfSeq
<1> QED
  BY <1>2, HashAssumption

\* An unsigned long has at least one value.
LEMMA WordSize == Residues * Words \in Nat \ {0}
BY HashAssumption

\* Wrapping gives a value of an unsigned long.
LEMMA WrapRange == ASSUME NEW n \in Int PROVE Wrap(n) \in 0..(Residues * Words - 1)
BY WordSize, DivisionFacts DEF Wrap

\* Wrapping does not change the remainder that colordb_hash reduces to.
LEMMA WrapKeepsRemainder ==
  ASSUME NEW n \in Int
  PROVE  Wrap(n) \in Int /\ Wrap(n) % Residues = n % Residues
<1>1. Wrap(n) \in Int
  BY WrapRange, WordSize
<1> QED
  BY <1>1, ReduceTwice, HashAssumption DEF Wrap

\* A type is a non-negative value below Residues * Stride.
LEMMA BucketRange ==
  ASSUME NEW h \in Int
  PROVE  Bucket(h) \in 0..(Residues * Stride - 1)
<1> DEFINE r == h % Residues
<1>1. r \in 0..(Residues - 1)
  BY HashAssumption, DivisionFacts
<1> HIDE DEF r
<1>2. /\ (Residues - r) * Stride >= Stride
      /\ (Residues - r) * Stride = Residues * Stride - r * Stride
      /\ r * Stride \in Nat
  BY <1>1, HashAssumption
<1>3. r * Stride \in 0..(Residues * Stride - 1)
  BY <1>1, <1>2, HashAssumption
<1> QED
  BY <1>3 DEF r, Bucket

(* The loop stays inside the name, the hash inside its word, and a type    *)
(* inside the range of the reduction.                                      *)
THEOREM HashTypeCorrect == Spec => []TypeOK
<1>1. Init => TypeOK
  BY WrapRange, NamesAreSequences DEF Init, TypeOK
<1>2. TypeOK /\ [Next]_vars => TypeOK'
  <2> SUFFICES ASSUME TypeOK, [Next]_vars PROVE TypeOK'
    OBVIOUS
  <2>0. key \in Seq(Chars) /\ Chars \subseteq Int
    BY NamesAreSequences, HashAssumption DEF TypeOK
  <2>1. ASSUME Step PROVE TypeOK'
    <3>1. key[i + 1] \in Int
      BY <2>1, NextChar DEF Step
    <3>2. Mix(hash, key[i + 1]) \in Int /\ Mix(exact, key[i + 1]) \in Int
      BY <3>1 DEF Mix, TypeOK
    <3>3. hash' \in 0..(Residues * Words - 1)
      BY <2>1, <3>2, WrapRange DEF Step
    <3> QED
      BY <2>0, <2>1, <3>2, <3>3 DEF Step, TypeOK
  <2>2. ASSUME Return PROVE TypeOK'
    <3>1. out' \in 0..(Residues * Stride - 1)
      BY <2>2, BucketRange DEF Return, TypeOK
    <3> QED
      BY <2>2, <3>1 DEF Return, TypeOK
  <2>3. CASE UNCHANGED vars
    BY <2>3 DEF vars, TypeOK
  <2> QED
    BY <2>1, <2>2, <2>3 DEF Next
<1> QED
  BY <1>1, <1>2, PTL DEF Spec

(* The width of unsigned long never shows in a type.                       *)
Agree ==
  /\ hash % Residues = exact % Residues
  /\ out # NoResult => i = Len(key) /\ out = Bucket(exact)

\* The type of a name is what the sum without wrapping gives.
THEOREM WrapNeverShows == Spec => []WrapInvisible
<1>1. Init => Agree
  <2>1. Wrap(5381) % Residues = 5381 % Residues
    BY WrapKeepsRemainder
  <2> QED
    BY <2>1 DEF Init, Agree
<1>2. TypeOK /\ TypeOK' /\ Agree /\ [Next]_vars => Agree'
  <2> SUFFICES ASSUME TypeOK, TypeOK', Agree, [Next]_vars PROVE Agree'
    OBVIOUS
  <2>1. ASSUME Step PROVE Agree'
    <3>1. /\ key[i + 1] \in Int /\ hash \in Int /\ exact \in Int
          /\ Residues \in Nat \ {0} /\ Words \in Nat \ {0}
      BY <2>1, NextChar, HashAssumption DEF Step, TypeOK
    <3>2. Mix(hash, key[i + 1]) % Residues = Mix(exact, key[i + 1]) % Residues
      BY <3>1, MixCongruent DEF Mix, Agree
    <3>3. Mix(hash, key[i + 1]) \in Int
      BY <3>1 DEF Mix
    <3>4. Wrap(Mix(hash, key[i + 1])) % Residues = Mix(hash, key[i + 1]) % Residues
      BY <3>3, WrapKeepsRemainder
    <3>5. Len(key) \in Nat /\ i < Len(key) /\ out' = out
      BY <2>1, NamesAreSequences DEF Step, TypeOK
    <3>6. out' = NoResult
      BY <3>5 DEF Agree, TypeOK
    <3> QED
      BY <2>1, <3>2, <3>4, <3>6 DEF Step, Agree
  <2>2. ASSUME Return PROVE Agree'
    BY <2>2 DEF Return, Agree, Bucket
  <2>3. CASE UNCHANGED vars
    BY <2>3 DEF vars, Agree
  <2> QED
    BY <2>1, <2>2, <2>3 DEF Next
<1>3. Agree => WrapInvisible
  BY DEF Agree, WrapInvisible
<1> QED
  BY <1>1, <1>2, <1>3, HashTypeCorrect, PTL DEF Spec

(* Every type survives the conversion to int, so the rows colordb_add      *)
(* stores under a type are the rows colordb_one finds.                     *)
THEOREM TypesFitInt == Spec => []LookupFindsInserted
<1>1. TypeOK => LookupFindsInserted
  <2> SUFFICES ASSUME TypeOK, out # NoResult PROVE AsInt(out) = out
    BY DEF LookupFindsInserted
  <2>1. out \in 0..IntMax /\ IntMax \in Nat
    BY HashAssumption DEF TypeOK
  <2> DEFINE n == out + IntMax + 1
             m == 2 * (IntMax + 1)
  <2>2. n \in Int /\ m \in Nat \ {0} /\ n \in 0..(m - 1) /\ n = m * 0 + n
    BY <2>1
  <2> HIDE DEF n, m
  <2>3. n % m = n
    BY <2>2, RemainderUnique
  <2> QED
    BY <2>1, <2>3 DEF AsInt, n, m
<1> QED
  BY <1>1, HashTypeCorrect, PTL
-----------------------------------------------------------------------------
\* A char of a name, by the index the loop has reached.
LEMMA CharOfName ==
  ASSUME NEW name \in Names, i \in Nat, i < Len(name)
  PROVE  name[i + 1] \in Chars /\ i + 1 \in 1..Len(name)
<1>1. name \in Seq(Chars)
  BY DEF Names
<1>2. i + 1 \in 1..Len(name)
  BY <1>1
<1> QED
  BY <1>1, <1>2, ElementOfSeq

\* Up to the differing position the hashes are equal, from there on they
\* differ modulo Residues.
Apart ==
  \E k \in 1..MaxLen :
    /\ DifferAt(k)
    /\ i < k => hash = hashB
    /\ i >= k => hash % Residues # hashB % Residues

Returned(name, h, o) ==
  o # NoResult => i = Len(name) /\ o = Bucket(h)

TwinInv ==
  /\ key \in Names /\ keyB \in Names
  /\ i \in Nat
  /\ hash \in Int /\ hashB \in Int
  /\ Apart
  /\ Returned(key, hash, out) /\ Returned(keyB, hashB, outB)

\* Before the loop the two hashes are equal.
LEMMA InitTwins == TwinInit => TwinInv
<1> SUFFICES ASSUME TwinInit PROVE TwinInv
  OBVIOUS
<1>1. /\ key \in Names /\ keyB \in Names /\ i = 0
      /\ hash = Wrap(5381) /\ hashB = Wrap(5381)
      /\ out = NoResult /\ outB = NoResult
  BY DEF TwinInit, Init, B!Init, Names, B!Names, Wrap, B!Wrap, NoResult, B!NoResult
<1>2. hash \in Int /\ hash = hashB
  BY <1>1, WrapKeepsRemainder
<1>3. Apart
  BY <1>1, <1>2 DEF TwinInit, Apart
<1> QED
  BY <1>1, <1>2, <1>3 DEF TwinInv, Returned

\* One turn of both loops: the hashes part at the differing char and stay apart.
LEMMA StepTwins ==
  ASSUME TwinInv, Step, B!Step
  PROVE  TwinInv'
<1> DEFINE c == key[i + 1]
           d == keyB[i + 1]
           m == Residues
<1>1. /\ i' = i + 1 /\ key' = key /\ keyB' = keyB /\ out' = out /\ outB' = outB
      /\ hash' = Wrap(33 * hash + c) /\ hashB' = Wrap(33 * hashB + d)
      /\ i < Len(key) /\ i < Len(keyB)
  BY DEF Step, B!Step, Mix, B!Mix, Wrap, B!Wrap
<1>2. /\ c \in Chars /\ d \in Chars /\ i + 1 \in 1..Len(key)
      /\ Len(key) \in Nat /\ Len(keyB) \in Nat /\ i \in Nat
  BY <1>1, CharOfName DEF TwinInv
<1>3. /\ c \in Int /\ d \in Int /\ hash \in Int /\ hashB \in Int
      /\ c - d < m /\ d - c < m /\ m \in Nat \ {0}
  BY <1>2, HashAssumption, TwinAssumption DEF TwinInv
<1> HIDE DEF c, d, m
<1>4. /\ hash' \in Int /\ hash' % m = (33 * hash + c) % m
      /\ hashB' \in Int /\ hashB' % m = (33 * hashB + d) % m
  BY <1>1, <1>3, WrapKeepsRemainder DEF m
<1>5. PICK k \in 1..MaxLen :
        /\ DifferAt(k)
        /\ i < k => hash = hashB
        /\ i >= k => hash % m # hashB % m
  BY DEF TwinInv, Apart, m
<1>6. k \in Int /\ (c = d <=> i + 1 # k)
  BY <1>2, <1>5 DEF DifferAt, c, d
<1>7. ASSUME i + 1 < k PROVE Apart'
  <2>1. hash' = hashB'
    BY <1>1, <1>2, <1>5, <1>6, <1>7
  <2> QED
    BY <1>1, <1>2, <1>5, <1>6, <1>7, <2>1 DEF Apart, DifferAt
<1>8. ASSUME i + 1 = k PROVE Apart'
  <2>1. hash = hashB /\ c # d
    BY <1>2, <1>5, <1>6, <1>8
  <2>2. (33 * hash + c) % m # (33 * hash + d) % m
    BY <1>3, <2>1, LastCharDiffers
  <2>3. hash' % m # hashB' % m
    BY <1>4, <2>1, <2>2
  <2> QED
    BY <1>1, <1>2, <1>5, <1>8, <2>3 DEF Apart, DifferAt, m
<1>9. ASSUME i + 1 > k PROVE Apart'
  <2>1. c = d /\ hash % m # hashB % m
    BY <1>2, <1>5, <1>6, <1>9
  <2>2. Invertible(m)
    BY HashAssumption, TwinAssumption DEF m, Invertible
  <2>3. (33 * hash + c) % m # (33 * hashB + c) % m
    BY ONLY <1>3, <2>1, <2>2, MixInjective
  <2>4. hash' % m # hashB' % m
    BY <1>4, <2>1, <2>3
  <2> QED
    BY <1>1, <1>2, <1>5, <1>9, <2>4 DEF Apart, DifferAt, m
<1>10. Apart'
  BY <1>2, <1>6, <1>7, <1>8, <1>9
<1>11. out' = NoResult /\ outB' = NoResult
  BY <1>1, <1>2 DEF TwinInv, Returned
<1> QED
  BY <1>1, <1>2, <1>4, <1>10, <1>11 DEF TwinInv, Returned

\* The two results are the reductions of the two hashes.
LEMMA ReturnTwins ==
  ASSUME TwinInv, Return, B!Return
  PROVE  TwinInv'
BY DEF TwinInv, Return, B!Return, Bucket, B!Bucket, Returned, Apart, DifferAt

(* Two names of one length that differ in a single character get different *)
(* types, so neither keeps the other out of the database.                  *)
THEOREM NeighboursNeverCollide ==
  TwinSpec => []NeighboursDiffer
<1>1. TwinInv /\ [TwinNext]_twinVars => TwinInv'
  <2>1. ASSUME TwinInv, UNCHANGED twinVars PROVE TwinInv'
    BY <2>1 DEF TwinInv, twinVars, Returned, Apart, DifferAt
  <2> QED
    BY <2>1, StepTwins, ReturnTwins DEF TwinNext
<1>2. TwinInv => NeighboursDiffer
  <2> SUFFICES ASSUME TwinInv, out # NoResult, outB # NoResult
               PROVE  out # outB
    BY DEF NeighboursDiffer, NoResult, B!NoResult
  <2> DEFINE u == hash % Residues
             v == hashB % Residues
  <2>1. u # v
    BY DEF TwinInv, Apart, Returned, DifferAt
  <2>2. hash \in Int /\ hashB \in Int /\ Residues \in Nat \ {0} /\ Stride \in Nat \ {0}
    BY HashAssumption, TwinAssumption DEF TwinInv
  <2>3. u \in Int /\ v \in Int
    BY ONLY <2>2, DivisionFacts
  <2> HIDE DEF u, v
  <2>4. u * Stride # v * Stride
    BY ONLY <2>1, <2>2, <2>3, CancelFactor
  <2> QED
    BY <2>4 DEF TwinInv, Returned, Bucket, u, v
<1> QED
  BY <1>1, <1>2, InitTwins, PTL DEF TwinSpec
-----------------------------------------------------------------------------
(* The nearest ANSI colour.                                                *)

\* What the loop knows after its first turns: t is the first nearest of the
\* entries seen, or none of them is nearer than Far.
Best ==
  \/ /\ t + 1 \in 1..turn
     /\ then = dist[t + 1] /\ then < Far
     /\ \A j \in 1..turn : then <= dist[j] /\ (j < t + 1 => then < dist[j])
  \/ /\ t = 0 /\ then = Far
     /\ \A j \in 1..turn : dist[j] >= Far

SearchInv ==
  /\ AnsiTypeOK
  /\ Best
  /\ code # NoCode => turn = Len(dist) /\ code = t + 16

\* A distance is a number.
LEMMA DistanceIsNat ==
  ASSUME dist \in Distances
  PROVE  /\ Len(dist) \in Nat
         /\ DOMAIN dist = 1..Len(dist)
         /\ \A j \in 1..Len(dist) : dist[j] \in Nat
BY AnsiAssumption

\* Before the first turn nothing is nearer than Far.
LEMMA InitBest == AnsiInit => SearchInv
BY DistanceIsNat, AnsiAssumption DEF AnsiInit, SearchInv, AnsiTypeOK, Best, NoCode

\* One turn: the entry is nearer than all before it, or the old one stays.
LEMMA TurnKeepsBest ==
  ASSUME SearchInv, Turn
  PROVE  SearchInv'
<1> DEFINE new == dist[turn + 1]
<1>1. /\ dist \in Distances /\ Len(dist) \in Nat
      /\ \A j \in 1..Len(dist) : dist[j] \in Nat
      /\ turn \in Nat /\ turn < Len(dist) /\ t \in Nat /\ then \in Nat /\ Far \in Nat
  <2>1. dist \in Distances
    BY DEF SearchInv, AnsiTypeOK
  <2>2. Len(dist) \in Nat /\ \A j \in 1..Len(dist) : dist[j] \in Nat
    BY <2>1, DistanceIsNat
  <2> QED
    BY <2>1, <2>2, AnsiAssumption DEF SearchInv, AnsiTypeOK, Turn
<1>2. new \in Nat
  BY <1>1
<1>3. dist' = dist /\ code' = code /\ turn' = turn + 1
  BY DEF Turn
<1>4. code = NoCode
  BY <1>1 DEF SearchInv
<1>5. ASSUME new < then PROVE t' = turn /\ then' = new
  BY <1>5 DEF Turn, Nearer
<1>6. ASSUME ~(new < then) PROVE t' = t /\ then' = then
  BY <1>6 DEF Turn, Nearer
<1>7. AnsiTypeOK'
  BY <1>1, <1>2, <1>3, <1>5, <1>6 DEF SearchInv, AnsiTypeOK
<1>8. ASSUME new < then PROVE Best'
  <2>1. new < Far
    BY <1>1, <1>2, <1>8 DEF SearchInv, Best
  <2>2. \A j \in 1..turn : new < dist[j]
    BY <1>1, <1>2, <1>8 DEF SearchInv, Best
  <2> QED
    BY <1>1, <1>2, <1>3, <1>5, <1>8, <2>1, <2>2 DEF Best
<1>9. ASSUME ~(new < then) PROVE Best'
  <2>1. CASE t + 1 \in 1..turn /\ then = dist[t + 1] /\ then < Far
               /\ \A j \in 1..turn : then <= dist[j] /\ (j < t + 1 => then < dist[j])
    BY <1>1, <1>2, <1>3, <1>6, <1>9, <2>1 DEF Best
  <2>2. CASE t = 0 /\ then = Far /\ \A j \in 1..turn : dist[j] >= Far
    BY <1>1, <1>2, <1>3, <1>6, <1>9, <2>2 DEF Best
  <2> QED
    BY <2>1, <2>2 DEF SearchInv, Best
<1> QED
  BY <1>3, <1>4, <1>7, <1>8, <1>9 DEF SearchInv

\* Returning changes only the code.
LEMMA ReturnKeepsBest ==
  ASSUME SearchInv, ReturnCode
  PROVE  SearchInv'
BY DEF SearchInv, ReturnCode, AnsiTypeOK, Best, NoCode

\* The invariant is inductive.
LEMMA BestAlways == AnsiSpec => []SearchInv
<1>1. SearchInv /\ [AnsiNext]_ansiVars => SearchInv'
  <2>1. ASSUME SearchInv, UNCHANGED ansiVars PROVE SearchInv'
    BY <2>1 DEF SearchInv, ansiVars, AnsiTypeOK, Best
  <2> QED
    BY <2>1, TurnKeepsBest, ReturnKeepsBest DEF AnsiNext
<1> QED
  BY <1>1, InitBest, PTL DEF AnsiSpec

(* The search is well typed: t is always an index of the table.            *)
THEOREM SearchTypeCorrect == AnsiSpec => []AnsiTypeOK
<1>1. SearchInv => AnsiTypeOK
  BY DEF SearchInv
<1> QED
  BY <1>1, BestAlways, PTL

(* For every table and every colour hex_to_closest_ansi_code returns the   *)
(* code of the first nearest entry, or black if none is nearer than 255.   *)
THEOREM SearchIsNearest == AnsiSpec => []CodeIsNearest
<1>1. SearchInv => CodeIsNearest
  <2> SUFFICES ASSUME SearchInv, code # NoCode
               PROVE  FirstNearest(code - 15)
                      \/ (code = 16 /\ \A j \in DOMAIN dist : dist[j] >= Far)
    BY DEF CodeIsNearest
  <2>1. /\ DOMAIN dist = 1..Len(dist) /\ t \in Nat
        /\ turn = Len(dist) /\ code = t + 16
    <3>1. dist \in Distances
      BY DEF SearchInv, AnsiTypeOK
    <3> QED
      BY <3>1, DistanceIsNat DEF SearchInv, AnsiTypeOK
  <2>2. code - 15 = t + 1
    BY <2>1
  <2> QED
    BY <2>1, <2>2 DEF SearchInv, Best, FirstNearest
<1> QED
  BY <1>1, BestAlways, PTL
=============================================================================
