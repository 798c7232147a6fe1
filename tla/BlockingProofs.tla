---------------------------- MODULE BlockingProofs ----------------------------
(***************************************************************************)
(* The three places of module Blocking are correct for any constants: the  *)
(* ring of the pipe is a queue, freed with its last descriptor; the ring   *)
(* of the console gives its readers what was typed and edited; and the     *)
(* sleep-lock excludes, loses no wakeup and implements the abstract lock.  *)
(* The first sections are about remainders, sequences and rings alone.     *)
(***************************************************************************)
EXTENDS Blocking, SequenceTheorems, TLAPS

\* The remainder of a division by n is the only r in 0..n-1 that differs from the
\* dividend by a multiple of n.
LEMMA ModRange ==
  ASSUME NEW n \in Nat \ {0}, NEW a \in Int
  PROVE  /\ a % n \in 0 .. n - 1 /\ a \div n \in Int
         /\ a = n * (a \div n) + (a % n)
OBVIOUS

LEMMA MulBound ==
  ASSUME NEW n \in Nat \ {0}, NEW k \in Int, n * k < n, n * k > -n
  PROVE  k = 0
<1>1. CASE k >= 1  BY <1>1
<1>2. CASE k <= -1  BY <1>2
<1> QED  BY <1>1, <1>2

LEMMA ModUnique ==
  ASSUME NEW n \in Nat \ {0}, NEW a \in Int, NEW q \in Int, NEW r \in 0 .. n - 1,
         a = n * q + r
  PROVE  a % n = r
<1>1. a \div n \in Int /\ a = n * (a \div n) + (a % n) /\ a % n \in 0 .. n - 1  BY ModRange, Zenon
<1>2. n * (q - (a \div n)) = (a % n) - r  BY <1>1
<1>3. q - (a \div n) = 0  BY <1>1, <1>2, MulBound
<1> QED  BY <1>1, <1>2, <1>3

LEMMA ModSmall ==
  ASSUME NEW n \in Nat \ {0}, NEW a \in 0 .. n - 1
  PROVE  a % n = a
OBVIOUS

LEMMA ModShift ==
  ASSUME NEW n \in Nat \ {0}, NEW a \in Int, NEW k \in Int
  PROVE  (a + n * k) % n = a % n
<1>1. a \div n \in Int /\ a = n * (a \div n) + (a % n) /\ a % n \in 0 .. n - 1  BY ModRange
<1> DEFINE b == a + n * k
           q == (a \div n) + k
<1>2. b \in Int /\ q \in Int /\ b = n * q + (a % n)  BY <1>1
<1> HIDE DEF b, q
<1>3. b % n = a % n  BY <1>1, <1>2, ModUnique, Zenon
<1> QED  BY <1>3 DEF b

\* Numbers less than n apart have different remainders.
LEMMA ModDistinct ==
  ASSUME NEW n \in Nat \ {0}, NEW a \in Int, NEW b \in Int, a < b, b < a + n
  PROVE  a % n # b % n
<1>1. /\ a \div n \in Int /\ a = n * (a \div n) + (a % n)
      /\ b \div n \in Int /\ b = n * (b \div n) + (b % n)
      /\ a % n \in Int /\ b % n \in Int
  BY ModRange
<1> SUFFICES ASSUME a % n = b % n PROVE FALSE  OBVIOUS
<1>2. n * ((b \div n) - (a \div n)) = b - a  BY <1>1
<1>3. (b \div n) - (a \div n) = 0  BY <1>1, <1>2, MulBound
<1> QED  BY <1>1, <1>2, <1>3

\* A counter that wraps at a multiple of n addresses the same place of the ring.
LEMMA ModWrap ==
  ASSUME NEW n \in Nat \ {0}, NEW u \in Nat \ {0}, u % n = 0, NEW a \in Int, NEW j \in Int
  PROVE  ((a % u) + j) % n = (a + j) % n
<1>1. a \div u \in Int /\ a = u * (a \div u) + (a % u) /\ a % u \in Int  BY ModRange
<1>2. u \div n \in Int /\ u = n * (u \div n)  BY ModRange
<1> DEFINE k == (u \div n) * (a \div u)
           b == (a % u) + j
<1>3. k \in Int /\ b \in Int  BY <1>1, <1>2
<1>4. u * (a \div u) = n * k
  <2> DEFINE x == u \div n
             y == a \div u
  <2>1. x \in Int /\ y \in Int /\ u = n * x  BY <1>1, <1>2
  <2> HIDE DEF x, y
  <2>2. u * y = n * (x * y)  BY <2>1
  <2> QED  BY <2>2 DEF x, y
<1>5. a + j = b + n * k  BY <1>1, <1>3, <1>4
<1> HIDE DEF k, b
<1>6. (b + n * k) % n = b % n  BY <1>3, ModShift, Zenon
<1> QED  BY <1>5, <1>6 DEF b

\* Counters that wrap: both numbers are less than n.
LEMMA ModSub ==
  ASSUME NEW n \in Nat \ {0}, NEW a \in 0 .. n - 1, NEW b \in 0 .. n - 1
  PROVE  (a - b) % n = IF b <= a THEN a - b ELSE a - b + n
<1>1. CASE b <= a  BY <1>1, ModSmall
<1>2. CASE b > a
  <2> DEFINE d == a - b
             r == a - b + n
  <2>1. d \in Int /\ r \in 0 .. n - 1 /\ d = n * (-1) + r  BY <1>2
  <2> HIDE DEF d, r
  <2>2. d % n = r  BY <2>1, ModUnique
  <2> QED  BY <1>2, <2>2 DEF d, r
<1> QED  BY <1>1, <1>2

LEMMA ModAdd ==
  ASSUME NEW n \in Nat \ {0}, NEW a \in 0 .. n - 1, NEW b \in 0 .. n - 1
  PROVE  (a + b) % n = IF a + b < n THEN a + b ELSE a + b - n
<1>1. CASE a + b < n  BY <1>1, ModSmall
<1>2. CASE a + b >= n
  <2> DEFINE d == a + b
             r == a + b - n
  <2>1. d \in Int /\ r \in 0 .. n - 1 /\ d = n * 1 + r  BY <1>2
  <2> HIDE DEF d, r
  <2>2. d % n = r  BY <2>1, ModUnique
  <2> QED  BY <1>2, <2>2 DEF d, r
<1> QED  BY <1>1, <1>2

LEMMA ModMod ==
  ASSUME NEW n \in Nat \ {0}, NEW u \in Nat \ {0}, u % n = 0, NEW a \in Int
  PROVE  (a % u) % n = a % n
<1>1. 0 \in Int  OBVIOUS
<1>2. ((a % u) + 0) % n = (a + 0) % n  BY <1>1, ModWrap, Zenon
<1>3. a + 0 = a /\ (a % u) + 0 = a % u  BY ModRange
<1> QED  BY <1>2, <1>3

Plus(n, a, d) == (a + d) % n
Apart(n, a, b) == (a - b) % n

\* The distance of two such counters, and what a step of either does to it.
LEMMA Distance ==
  ASSUME NEW n \in Nat, n > 1, NEW a \in 0 .. n - 1, NEW b \in 0 .. n - 1
  PROVE  /\ Apart(n, a, b) \in 0 .. n - 1
         /\ Apart(n, a, b) = 0 <=> a = b
         /\ \A d \in 0 .. n - 1 : Apart(n, a, b) = d <=> a = Plus(n, b, d)
         /\ Apart(n, a, b) < n - 1 => Apart(n, Plus(n, a, 1), b) = Apart(n, a, b) + 1
         /\ Apart(n, a, b) > 0 => Apart(n, a, Plus(n, b, 1)) = Apart(n, a, b) - 1
<1>1. 1 \in 0 .. n - 1 /\ n \in Nat \ {0}  OBVIOUS
<1>2. ASSUME NEW x \in 0 .. n - 1, NEW y \in 0 .. n - 1
      PROVE  /\ Apart(n, x, y) = IF y <= x THEN x - y ELSE x - y + n
             /\ Plus(n, x, y) = IF x + y < n THEN x + y ELSE x + y - n
  BY <1>1, <1>2, ModSub, ModAdd, Zenon DEF Apart, Plus
<1>3. /\ Plus(n, a, 1) = IF a + 1 < n THEN a + 1 ELSE a + 1 - n
      /\ Plus(n, b, 1) = IF b + 1 < n THEN b + 1 ELSE b + 1 - n
      /\ Apart(n, a, b) = IF b <= a THEN a - b ELSE a - b + n
  BY <1>1, <1>2
<1>4. Plus(n, a, 1) \in 0 .. n - 1 /\ Plus(n, b, 1) \in 0 .. n - 1  BY <1>3
<1>5. /\ Apart(n, Plus(n, a, 1), b) = IF b <= Plus(n, a, 1) THEN Plus(n, a, 1) - b
                                       ELSE Plus(n, a, 1) - b + n
      /\ Apart(n, a, Plus(n, b, 1)) = IF Plus(n, b, 1) <= a THEN a - Plus(n, b, 1)
                                       ELSE a - Plus(n, b, 1) + n
  BY <1>2, <1>4
<1>6. \A d \in 0 .. n - 1 : Plus(n, b, d) = IF b + d < n THEN b + d ELSE b + d - n  BY <1>2
<1>7. Apart(n, a, b) \in 0 .. n - 1 /\ (Apart(n, a, b) = 0 <=> a = b)  BY <1>3
<1>8. \A d \in 0 .. n - 1 : Apart(n, a, b) = d <=> a = Plus(n, b, d)  BY <1>3, <1>6
<1>9. Apart(n, a, b) < n - 1 => Apart(n, Plus(n, a, 1), b) = Apart(n, a, b) + 1
  BY <1>3, <1>5
<1>10. Apart(n, a, b) > 0 => Apart(n, a, Plus(n, b, 1)) = Apart(n, a, b) - 1
  BY <1>3, <1>5
<1> QED  BY <1>7, <1>8, <1>9, <1>10
-----------------------------------------------------------------------------
(* Sequences as functions on 1..l.                                         *)

LEMMA FcnSeq ==
  ASSUME NEW B, NEW l \in Nat, NEW f \in [1 .. l -> B]
  PROVE  f \in Seq(B) /\ Len(f) = l
OBVIOUS

LEMMA SeqFcn ==
  ASSUME NEW B, NEW s \in Seq(B)
  PROVE  s \in [1 .. Len(s) -> B]
OBVIOUS

\* A function that goes on for one more element is the sequence with it appended.
LEMMA AppendIs ==
  ASSUME NEW B, NEW l \in Nat, NEW s \in [1 .. l -> B], NEW t \in [1 .. l + 1 -> B],
         \A i \in 1 .. l : t[i] = s[i]
  PROVE  t = Append(s, t[l + 1])
<1> DEFINE a == Append(s, t[l + 1])
<1>1. s \in Seq(B) /\ Len(s) = l /\ t[l + 1] \in B  BY FcnSeq
<1>2. a \in Seq(B) /\ Len(a) = l + 1 /\ \A i \in 1 .. l + 1 : a[i] = t[i]  BY <1>1
<1>3. a \in [1 .. l + 1 -> B]  BY <1>2, SeqFcn, Zenon
<1> QED  BY <1>2, <1>3

\* A function on a part of the indices, moved to 1, is the subsequence.
LEMMA SubSeqIs ==
  ASSUME NEW B, NEW l \in Nat, NEW s \in [1 .. l -> B], NEW k \in Nat, NEW m \in Nat,
         k + m <= l, NEW t \in [1 .. m -> B], \A i \in 1 .. m : t[i] = s[k + i]
  PROVE  t = SubSeq(s, k + 1, k + m)
<1> DEFINE x == SubSeq(s, k + 1, k + m)
<1>1. s \in Seq(B) /\ Len(s) = l  BY FcnSeq
<1>2. x \in Seq(B)  BY <1>1
<1>3. Len(x) = m  BY <1>1
<1>4. x \in [1 .. m -> B]  BY <1>2, <1>3, SeqFcn, Zenon
<1>5. \A i \in 1 .. m : x[i] = t[i]  BY <1>1
<1> QED  BY <1>4, <1>5

\* The tail leaves out the first element.
LEMMA TailIs ==
  ASSUME NEW B, NEW s \in Seq(B), Len(s) \in Nat \ {0}
  PROVE  s # <<>> /\ Head(s) = s[1] /\ Tail(s) = SubSeq(s, 1 + 1, Len(s))
<1> DEFINE l == Len(s)
           m == l - 1
<1>1. s # <<>> /\ Head(s) = s[1]  OBVIOUS
<1>2. Tail(s) \in Seq(B) /\ Len(Tail(s)) = m /\ \A i \in 1 .. m : Tail(s)[i] = s[1 + i]
  BY <1>1
<1>3. l \in Nat /\ m \in Nat /\ 1 \in Nat /\ 1 + m <= l /\ 1 + m = l  OBVIOUS
<1>4. Tail(s) \in [1 .. m -> B] /\ s \in [1 .. l -> B]  BY <1>2, SeqFcn, Zenon
<1> HIDE DEF l, m
<1>5. Tail(s) = SubSeq(s, 1 + 1, 1 + m)  BY <1>2, <1>3, <1>4, SubSeqIs
<1> QED  BY <1>1, <1>3, <1>5 DEF l

Lists(s, l, B) == l \in Nat /\ s \in [1 .. l -> B]

\* A function that goes on where another one ends.
LEMMA ConcatIs ==
  ASSUME NEW B, NEW l, NEW m, NEW s, NEW t, NEW z,
         Lists(s, l, B), Lists(t, m, B), Lists(z, l + m, B),
         \A i \in 1 .. l : z[i] = s[i], \A i \in 1 .. m : z[l + i] = t[i]
  PROVE  z = s \o t
<1> DEFINE x == s \o t
<1>0. /\ l \in Nat /\ m \in Nat
      /\ s \in [1 .. l -> B] /\ t \in [1 .. m -> B] /\ z \in [1 .. l + m -> B]
  BY DEF Lists
<1>1. s \in Seq(B) /\ Len(s) = l /\ t \in Seq(B) /\ Len(t) = m  BY <1>0, FcnSeq
<1>2. /\ x \in Seq(B) /\ Len(x) = l + m
      /\ \A i \in 1 .. l + m : x[i] = IF i <= l THEN s[i] ELSE t[i - l]
  <2>1. /\ x \in Seq(B) /\ Len(x) = Len(s) + Len(t)
        /\ \A i \in 1 .. Len(s) + Len(t) : x[i] = IF i <= Len(s) THEN s[i] ELSE t[i - Len(s)]
    BY <1>1, ConcatProperties, Zenon
  <2> HIDE DEF x
  <2> QED  BY <1>1, <2>1
<1> HIDE DEF x
<1>3. x \in [1 .. l + m -> B]  BY <1>0, <1>2, SeqFcn
<1>4. ASSUME NEW i \in 1 .. l + m  PROVE x[i] = z[i]
  <2>1. CASE i <= l  BY <1>0, <1>2, <2>1
  <2>2. CASE i > l
    <3>1. i - l \in 1 .. m /\ l + (i - l) = i  BY <1>0, <2>2
    <3>2. z[i] = t[i - l]  BY <3>1
    <3>3. x[i] = t[i - l]  BY <1>0, <1>2, <2>2
    <3> QED  BY <3>2, <3>3
  <2> QED  BY <1>0, <2>1, <2>2
<1>5. z = x  BY <1>0, <1>3, <1>4
<1> QED  BY <1>5 DEF x
-----------------------------------------------------------------------------
(* A ring of n places and counters that wrap at u, a multiple of n.        *)

At(n, d, x) == d[x % n]

\* The places between two counters, oldest first.
Between(n, u, d, a, b) == [i \in 1 .. Apart(u, b, a) |-> At(n, d, a + i - 1)]

\* The ring d holds elements of B.
Holds(n, d, B) == d \in [0 .. n - 1 -> B]

RingSizes(n, u) == n \in Nat \ {0} /\ u \in Nat /\ u > n /\ u % n = 0

\* The contents between two counters are a sequence.
LEMMA BetweenIs ==
  ASSUME NEW n, NEW u, RingSizes(n, u), NEW B, NEW d, Holds(n, d, B),
         NEW a \in 0 .. u - 1, NEW b \in 0 .. u - 1
  PROVE  /\ Between(n, u, d, a, b) \in [1 .. Apart(u, b, a) -> B]
         /\ Between(n, u, d, a, b) \in Seq(B) /\ Len(Between(n, u, d, a, b)) = Apart(u, b, a)
         /\ \A i \in 1 .. Apart(u, b, a) : Between(n, u, d, a, b)[i] = At(n, d, a + i - 1)
<1> DEFINE l == Apart(u, b, a)
           q == Between(n, u, d, a, b)
<1>0. u \in Nat /\ u > 1 /\ n \in Nat \ {0}  BY DEF RingSizes
<1>1. l \in 0 .. u - 1  BY <1>0, Distance
<1>2. l \in Nat /\ a \in Int  BY <1>0, <1>1
<1>3. q = [i \in 1 .. l |-> At(n, d, a + i - 1)]  BY DEF Between
<1> HIDE DEF l, q
<1>4. ASSUME NEW i \in 1 .. l  PROVE At(n, d, a + i - 1) \in B
  <2>1. a + i - 1 \in Int  BY <1>2
  <2>2. (a + i - 1) % n \in 0 .. n - 1  BY <1>0, <2>1, ModRange, Zenon
  <2> QED  BY <2>2 DEF At, Holds
<1>5. q \in [1 .. l -> B]  BY <1>3, <1>4
<1>6. q \in Seq(B) /\ Len(q) = l /\ \A i \in 1 .. l : q[i] = At(n, d, a + i - 1)
  BY <1>2, <1>3, <1>5, FcnSeq, Zenon
<1> QED  BY <1>5, <1>6 DEF l, q

\* A counter moved by j and wrapped addresses the place j further on.
LEMMA AtWraps ==
  ASSUME NEW n, NEW u, RingSizes(n, u), NEW d, NEW a \in Int, NEW j \in Int, NEW i \in Int
  PROVE  At(n, d, Plus(u, a, j) + i) = At(n, d, a + j + i)
<1>1. n \in Nat \ {0} /\ u \in Nat \ {0} /\ u % n = 0  BY DEF RingSizes
<1> DEFINE x == a + j
<1>2. x \in Int  OBVIOUS
<1> HIDE DEF x
<1>3. ((x % u) + i) % n = (x + i) % n  BY <1>1, <1>2, ModWrap, Zenon
<1> QED  BY <1>3 DEF x, Plus, At

\* The ring after a store of v at the counter e.
Store(n, d, e, v) == [d EXCEPT ![e % n] = v]

\* Storing at the counter e changes nothing between a and b when these are less
\* than a ring before e.
LEMMA StoreOutside ==
  ASSUME NEW n, NEW u, RingSizes(n, u), NEW B, NEW d, Holds(n, d, B), NEW v \in B,
         NEW a \in 0 .. u - 1, NEW b \in 0 .. u - 1, NEW e \in 0 .. u - 1,
         Apart(u, e, a) < n, Apart(u, b, a) <= Apart(u, e, a)
  PROVE  Between(n, u, Store(n, d, e, v), a, b) = Between(n, u, d, a, b)
<1> DEFINE c == [d EXCEPT ![e % n] = v]
           l == Apart(u, b, a)
           g == Apart(u, e, a)
<1>0. u \in Nat /\ u > 1 /\ n \in Nat \ {0} /\ a \in Int /\ e \in Int /\ 0 \in Int
  BY DEF RingSizes
<1>1. l \in Nat /\ g \in Nat /\ l <= g /\ g < n /\ e = Plus(u, a, g)
  <2>1. l \in 0 .. u - 1 /\ g \in 0 .. u - 1  BY <1>0, Distance
  <2>2. e = Plus(u, a, g)  BY <1>0, <2>1, Distance
  <2> QED  BY <1>0, <2>1, <2>2
<1>2. e % n = (a + g) % n
  <2>1. e = (a + g) % u  BY <1>1 DEF Plus
  <2> DEFINE x == a + g
  <2>2. x \in Int /\ u \in Nat \ {0} /\ u % n = 0  BY <1>0, <1>1 DEF RingSizes
  <2> HIDE DEF x
  <2>3. (x % u) % n = x % n  BY <1>0, <2>2, ModMod, Zenon
  <2> QED  BY <2>1, <2>3 DEF x
<1>3. Holds(n, c, B)  BY Zenon DEF Holds
<1>4. ASSUME NEW i \in 1 .. l  PROVE At(n, c, a + i - 1) = At(n, d, a + i - 1)
  <2> DEFINE x == a + i - 1
             y == a + g
  <2>1. x \in Int /\ y \in Int /\ x < y /\ y < x + n  BY <1>0, <1>1
  <2>2. e % n = y % n  BY <1>2
  <2> HIDE DEF x, y
  <2>3. x % n # e % n /\ x % n \in 0 .. n - 1
    BY <1>0, <2>1, <2>2, ModDistinct, ModRange, Zenon
  <2>4. c[x % n] = d[x % n]  BY <2>3 DEF Holds
  <2> HIDE DEF c
  <2>5. At(n, c, x) = At(n, d, x)  BY <2>4 DEF At
  <2> QED  BY <2>5 DEF x
<1>5. /\ Between(n, u, d, a, b) = [i \in 1 .. l |-> At(n, d, a + i - 1)]
      /\ Between(n, u, c, a, b) = [i \in 1 .. l |-> At(n, c, a + i - 1)]
  BY DEF Between
<1> HIDE DEF c, l
<1>6. Between(n, u, c, a, b) = Between(n, u, d, a, b)  BY <1>4, <1>5
<1> QED  BY <1>6, Zenon DEF c, Store

\* Storing at the end and moving it on appends.
LEMMA StoreAtEnd ==
  ASSUME NEW n, NEW u, RingSizes(n, u), NEW B, NEW d, Holds(n, d, B), NEW v \in B,
         NEW a \in 0 .. u - 1, NEW b \in 0 .. u - 1, Apart(u, b, a) < n
  PROVE  Between(n, u, Store(n, d, b, v), a, Plus(u, b, 1))
           = Append(Between(n, u, d, a, b), v)
<1> DEFINE c == [d EXCEPT ![b % n] = v]
           l == Apart(u, b, a)
           q == Between(n, u, c, a, b)
           t == Between(n, u, c, a, Plus(u, b, 1))
<1>0. /\ u \in Nat /\ u > 1 /\ n \in Nat \ {0} /\ a \in Int /\ b \in Int /\ 0 \in Int
      /\ u \in Nat \ {0}
  BY DEF RingSizes
<1>1. l \in Nat /\ l < n /\ b = Plus(u, a, l) /\ Apart(u, Plus(u, b, 1), a) = l + 1
  <2>1. l \in 0 .. u - 1 /\ b = Plus(u, a, l)  BY <1>0, Distance
  <2>2. l < u - 1 => Apart(u, Plus(u, b, 1), a) = l + 1  BY <1>0, Distance
  <2> QED  BY <1>0, <2>1, <2>2 DEF RingSizes
<1>2. Plus(u, b, 1) \in 0 .. u - 1
  <2>1. b + 1 \in Int  BY <1>0
  <2> QED  BY <1>0, <2>1, ModRange, Zenon DEF Plus
<1>3. Holds(n, c, B)  BY Zenon DEF Holds
<1>4. q = Between(n, u, d, a, b)
  <2>1. Apart(u, b, a) <= Apart(u, b, a)  BY <1>1
  <2>2. Between(n, u, Store(n, d, b, v), a, b) = Between(n, u, d, a, b)
    BY <2>1, StoreOutside
  <2> QED  BY <2>2, Zenon DEF Store
<1> HIDE DEF c
<1>y. ASSUME NEW y \in 0 .. u - 1
      PROVE  /\ Between(n, u, c, a, y) \in [1 .. Apart(u, y, a) -> B]
             /\ \A i \in 1 .. Apart(u, y, a) : Between(n, u, c, a, y)[i] = At(n, c, a + i - 1)
  <2>1. Between(n, u, c, a, y) \in [1 .. Apart(u, y, a) -> B]  BY <1>3, BetweenIs
  <2>2. \A i \in 1 .. Apart(u, y, a) : Between(n, u, c, a, y)[i] = At(n, c, a + i - 1)
     BY <1>3, BetweenIs
  <2> QED  BY <2>1, <2>2
<1>5. /\ q \in [1 .. l -> B]
      /\ \A i \in 1 .. l : q[i] = At(n, c, a + i - 1)
  BY <1>y
<1>6. /\ t \in [1 .. l + 1 -> B]
      /\ \A i \in 1 .. l + 1 : t[i] = At(n, c, a + i - 1)
  <2>1. /\ t \in [1 .. Apart(u, Plus(u, b, 1), a) -> B]
        /\ \A i \in 1 .. Apart(u, Plus(u, b, 1), a) : t[i] = At(n, c, a + i - 1)
    BY <1>2, <1>y
  <2>2. Apart(u, Plus(u, b, 1), a) = l + 1  BY <1>1
  <2> HIDE DEF t, l
  <2> QED  BY <2>1, <2>2
<1>7. At(n, c, a + (l + 1) - 1) = v
  <2>1. a + (l + 1) - 1 = a + l + 0  BY <1>0, <1>1
  <2>2. At(n, c, Plus(u, a, l) + 0) = At(n, c, a + l + 0)  BY <1>0, <1>1, AtWraps
  <2>3. Plus(u, a, l) + 0 = b  BY <1>0, <1>1
  <2>4. b % n \in 0 .. n - 1  BY <1>0, ModRange
  <2>5. At(n, c, b) = v  BY <2>4 DEF At, c, Holds
  <2> QED  BY <2>1, <2>2, <2>3, <2>5
<1> HIDE DEF q, t, c, l
<1>8. t = Append(q, t[l + 1])  BY <1>1, <1>5, <1>6, AppendIs
<1>9. t[l + 1] = v  BY <1>1, <1>6, <1>7
<1> QED  BY <1>4, <1>8, <1>9, Zenon DEF q, t, c, Store

\* Moving either counter towards the other by j.
LEMMA Nearer ==
  ASSUME NEW n \in Nat, n > 1, NEW a \in 0 .. n - 1, NEW b \in 0 .. n - 1,
         NEW j \in 0 .. Apart(n, a, b)
  PROVE  /\ Plus(n, b, j) \in 0 .. n - 1 /\ Apart(n, a, Plus(n, b, j)) = Apart(n, a, b) - j
         /\ Apart(n, a, j) \in 0 .. n - 1 /\ Apart(n, Apart(n, a, j), b) = Apart(n, a, b) - j
<1>1. n \in Nat \ {0}  OBVIOUS
<1>2. ASSUME NEW x \in 0 .. n - 1, NEW y \in 0 .. n - 1
      PROVE  /\ Apart(n, x, y) = IF y <= x THEN x - y ELSE x - y + n
             /\ Plus(n, x, y) = IF x + y < n THEN x + y ELSE x + y - n
  BY <1>1, <1>2, ModSub, ModAdd, Zenon DEF Apart, Plus
<1>3. Apart(n, a, b) = IF b <= a THEN a - b ELSE a - b + n  BY <1>2
<1>4. j \in 0 .. n - 1  BY <1>3
<1>5. /\ Plus(n, b, j) = IF b + j < n THEN b + j ELSE b + j - n
      /\ Apart(n, a, j) = IF j <= a THEN a - j ELSE a - j + n
  BY <1>2, <1>4
<1>6. Plus(n, b, j) \in 0 .. n - 1 /\ Apart(n, a, j) \in 0 .. n - 1  BY <1>4, <1>5
<1> DEFINE p == Plus(n, b, j)
           q == Apart(n, a, j)
<1>7. /\ Apart(n, a, p) = IF p <= a THEN a - p ELSE a - p + n
      /\ Apart(n, q, b) = IF b <= q THEN q - b ELSE q - b + n
  BY <1>2, <1>6
<1> HIDE DEF p, q
<1>8. Apart(n, a, p) = Apart(n, a, b) - j  BY <1>3, <1>4, <1>5, <1>7 DEF p
<1>9. Apart(n, q, b) = Apart(n, a, b) - j  BY <1>3, <1>4, <1>5, <1>7 DEF q
<1> QED  BY <1>6, <1>8, <1>9 DEF p, q

\* Moving the front on by j drops the j oldest elements.
LEMMA DropFront ==
  ASSUME NEW n, NEW u, RingSizes(n, u), NEW B, NEW d, Holds(n, d, B),
         NEW a \in 0 .. u - 1, NEW b \in 0 .. u - 1, NEW j \in 0 .. Apart(u, b, a)
  PROVE  Between(n, u, d, Plus(u, a, j), b)
           = SubSeq(Between(n, u, d, a, b), j + 1, Len(Between(n, u, d, a, b)))
<1> DEFINE l == Apart(u, b, a)
           q == Between(n, u, d, a, b)
           t == Between(n, u, d, Plus(u, a, j), b)
<1>0. u \in Nat /\ u > 1 /\ a \in Int  BY DEF RingSizes
<1>1. l \in Nat /\ j \in Nat /\ l - j \in Nat /\ j + (l - j) = l /\ j \in Int
  <2>1. l \in 0 .. u - 1  BY <1>0, Distance
  <2> QED  BY <1>0, <2>1
<1>2. Plus(u, a, j) \in 0 .. u - 1 /\ Apart(u, b, Plus(u, a, j)) = l - j  BY <1>0, Nearer
<1>3. q \in [1 .. l -> B]  BY BetweenIs
<1>4. Len(q) = l  BY BetweenIs
<1>5. \A i \in 1 .. l : q[i] = At(n, d, a + i - 1)  BY BetweenIs
<1>6. t \in [1 .. Apart(u, b, Plus(u, a, j)) -> B]  BY <1>2, BetweenIs, Zenon
<1>7. \A i \in 1 .. Apart(u, b, Plus(u, a, j)) : t[i] = At(n, d, Plus(u, a, j) + i - 1)
  <2>1. ASSUME NEW x \in 0 .. u - 1
        PROVE  \A i \in 1 .. Apart(u, b, x) : Between(n, u, d, x, b)[i] = At(n, d, x + i - 1)
    BY <2>1, BetweenIs
  <2> QED  BY <1>2, <2>1
<1> HIDE DEF l, q, t
<1>8. ASSUME NEW i \in 1 .. l - j  PROVE t[i] = q[j + i]
  <2>1. i - 1 \in Int /\ j + i \in 1 .. l  BY <1>1
  <2>2. At(n, d, Plus(u, a, j) + (i - 1)) = At(n, d, a + j + (i - 1))  BY <1>0, <1>1, <2>1, AtWraps
  <2>3. Plus(u, a, j) + (i - 1) = Plus(u, a, j) + i - 1 /\ a + j + (i - 1) = a + (j + i) - 1
    BY <1>0, <1>1, <1>2
  <2>4. t[i] = At(n, d, Plus(u, a, j) + i - 1)  BY <1>2, <1>7
  <2>5. q[j + i] = At(n, d, a + (j + i) - 1)  BY <1>5, <2>1
  <2> QED  BY <2>2, <2>3, <2>4, <2>5
<1>9. t \in [1 .. l - j -> B]  BY <1>2, <1>6
<1>10. t = SubSeq(q, j + 1, j + (l - j))
  <2> DEFINE m == l - j
  <2>1. m \in Nat /\ j + m <= l /\ t \in [1 .. m -> B] /\ \A i \in 1 .. m : t[i] = q[j + i]
    BY <1>1, <1>8, <1>9
  <2> HIDE DEF m
  <2>2. t = SubSeq(q, j + 1, j + m)  BY <1>1, <1>3, <2>1, SubSeqIs
  <2> QED  BY <2>2 DEF m
<1> QED  BY <1>1, <1>4, <1>10 DEF q, t

\* Moving the end back by j drops the j newest elements.
LEMMA CutEnd ==
  ASSUME NEW n, NEW u, RingSizes(n, u), NEW B, NEW d, Holds(n, d, B),
         NEW a \in 0 .. u - 1, NEW b \in 0 .. u - 1, NEW j \in 0 .. Apart(u, b, a)
  PROVE  Between(n, u, d, a, Apart(u, b, j))
           = SubSeq(Between(n, u, d, a, b), 1, Len(Between(n, u, d, a, b)) - j)
<1> DEFINE l == Apart(u, b, a)
           m == l - j
           c == Apart(u, b, j)
           q == Between(n, u, d, a, b)
           t == Between(n, u, d, a, c)
<1>0. u \in Nat /\ u > 1 /\ a \in Int  BY DEF RingSizes
<1>1. l \in Nat /\ j \in Nat /\ m \in Nat /\ 0 \in Nat /\ 0 + m <= l
  <2>1. l \in 0 .. u - 1  BY <1>0, Distance
  <2> QED  BY <1>0, <2>1
<1>2. c \in 0 .. u - 1 /\ Apart(u, c, a) = m  BY <1>0, Nearer
<1>3. q \in [1 .. l -> B]  BY BetweenIs
<1>4. Len(q) = l  BY BetweenIs
<1>5. \A i \in 1 .. l : q[i] = At(n, d, a + i - 1)  BY BetweenIs
<1> HIDE DEF c
<1>6. t \in [1 .. Apart(u, c, a) -> B]  BY <1>2, BetweenIs
<1>7. \A i \in 1 .. Apart(u, c, a) : t[i] = At(n, d, a + i - 1)  BY <1>2, BetweenIs
<1> HIDE DEF l, q, t
<1>8. \A i \in 1 .. m : t[i] = q[0 + i]
  <2> SUFFICES ASSUME NEW i \in 1 .. m PROVE t[i] = q[i]  BY <1>1
  <2>1. i \in 1 .. l  BY <1>1
  <2> QED  BY <1>2, <1>5, <1>7, <2>1
<1>9. t \in [1 .. m -> B]  BY <1>2, <1>6
<1> HIDE DEF m
<1>10. t = SubSeq(q, 0 + 1, 0 + m)  BY <1>1, <1>3, <1>8, <1>9, SubSeqIs
<1> QED  BY <1>1, <1>4, <1>10 DEF q, t, m, c

\* Contents that meet at a counter.
LEMMA Joined ==
  ASSUME NEW n, NEW u, RingSizes(n, u), NEW B, NEW d, Holds(n, d, B),
         NEW a \in 0 .. u - 1, NEW b \in 0 .. u - 1, NEW c \in 0 .. u - 1,
         Apart(u, c, a) = Apart(u, b, a) + Apart(u, c, b)
  PROVE  Between(n, u, d, a, c) = Between(n, u, d, a, b) \o Between(n, u, d, b, c)
<1> DEFINE l == Apart(u, b, a)
           m == Apart(u, c, b)
           s == Between(n, u, d, a, b)
           t == Between(n, u, d, b, c)
           z == Between(n, u, d, a, c)
<1>0. u \in Nat /\ u > 1 /\ a \in Int /\ b \in Int  BY DEF RingSizes
<1>1. l \in Nat /\ m \in Nat /\ b = Plus(u, a, l)
  <2>1. l \in 0 .. u - 1 /\ m \in 0 .. u - 1  BY <1>0, Distance
  <2>2. b = Plus(u, a, l)  BY <1>0, <2>1, Distance
  <2> QED  BY <1>0, <2>1, <2>2
<1>2. s \in [1 .. l -> B]  BY BetweenIs
<1>3. t \in [1 .. m -> B]  BY BetweenIs
<1>4. z \in [1 .. Apart(u, c, a) -> B]  BY BetweenIs
<1>5. \A i \in 1 .. l : s[i] = At(n, d, a + i - 1)  BY BetweenIs
<1>6. \A i \in 1 .. m : t[i] = At(n, d, b + i - 1)  BY BetweenIs
<1>7. \A i \in 1 .. Apart(u, c, a) : z[i] = At(n, d, a + i - 1)  BY BetweenIs
<1>8. Apart(u, c, a) = l + m  OBVIOUS
<1> HIDE DEF l, m, s, t, z
<1>9. ASSUME NEW i \in 1 .. m  PROVE z[l + i] = t[i]
  <2>1. l \in Int /\ i - 1 \in Int /\ l + i \in 1 .. Apart(u, c, a)  BY <1>1, <1>8
  <2>2. At(n, d, Plus(u, a, l) + (i - 1)) = At(n, d, a + l + (i - 1))  BY <1>0, <2>1, AtWraps
  <2>3. Plus(u, a, l) + (i - 1) = b + i - 1 /\ a + l + (i - 1) = a + (l + i) - 1
    BY <1>0, <1>1
  <2>4. z[l + i] = At(n, d, a + (l + i) - 1)  BY <1>7, <2>1
  <2> QED  BY <1>6, <2>2, <2>3, <2>4
<1>10. ASSUME NEW i \in 1 .. l  PROVE z[i] = s[i]
  <2>1. i \in 1 .. Apart(u, c, a)  BY <1>1, <1>8
  <2> QED  BY <1>5, <1>7, <2>1
<1>11. z \in [1 .. l + m -> B]  BY <1>4, <1>8
<1>12. (\A i \in 1 .. l : z[i] = s[i]) /\ (\A i \in 1 .. m : z[l + i] = t[i])  BY <1>9, <1>10
<1>13. Lists(s, l, B) /\ Lists(t, m, B) /\ Lists(z, l + m, B)
  BY <1>1, <1>2, <1>3, <1>11 DEF Lists
<1>14. z = s \o t  BY <1>12, <1>13, ConcatIs
<1> QED  BY <1>14, Zenon DEF s, t, z

\* Nothing is between a counter and itself.
LEMMA Nothing ==
  ASSUME NEW n, NEW u, RingSizes(n, u), NEW d, NEW a \in 0 .. u - 1
  PROVE  Between(n, u, d, a, a) = <<>> /\ Apart(u, a, a) = 0
<1>1. u \in Nat /\ u > 1  BY DEF RingSizes
<1>2. Apart(u, a, a) = 0  BY <1>1, Distance
<1>3. Between(n, u, d, a, a) = [i \in 1 .. 0 |-> At(n, d, a + i - 1)]  BY <1>2 DEF Between
<1> QED  BY <1>2, <1>3
-----------------------------------------------------------------------------
(* The pipe.                                                               *)

PipeLocations == {"user", "write", "read", "copy", "sleep", "asleep", "woken"}

Used == Apart(UINT, nwrite, nread)

PipeTypeOK ==
  /\ data \in [0..(PIPESIZE - 1) -> Bytes]
  /\ nread \in 0 .. UINT - 1 /\ nwrite \in 0 .. UINT - 1
  /\ readopen \in BOOLEAN /\ writeopen \in BOOLEAN /\ freed \in BOOLEAN /\ eof \in BOOLEAN
  /\ lock \in Procs \cup {NoProc}
  /\ pc \in [Procs -> PipeLocations]
  /\ left \in [Procs -> Nat]
  /\ fresh \in [Procs -> BOOLEAN]
  /\ fds \subseteq Procs

\* p->lock is held from the acquire of a call to its sleep or release, and each
\* end runs its own loop.
LockHeld ==
  \A p \in Procs : /\ lock = p <=> pc[p] \in {"write", "read", "copy", "sleep"}
                   /\ pc[p] = "write" => p \in Writers
                   /\ pc[p] \in {"read", "copy"} => p \in Readers

\* A call is made on an open descriptor; an end is open while a process has a
\* descriptor of it, and the pipe goes with the last of both ends.
EndsOpen ==
  /\ \A p \in Procs : pc[p] # "user" => p \in fds
  /\ writeopen <=> fds \cap Writers # {}
  /\ readopen <=> fds \cap Readers # {}
  /\ freed <=> fds = {}

\* A reader that has copied nothing and still wants bytes has seen either bytes or
\* the end of the file, and holds p->lock since.
CopyReady ==
  \A p \in Procs : pc[p] # "user" /\ fresh[p] =>
    left[p] > 0 /\ (pc[p] = "copy" => ~(Empty /\ writeopen))

PipeInv == PipeTypeOK /\ Used <= PIPESIZE /\ LockHeld /\ EndsOpen /\ CopyReady

\* The facts about the constants, as the provers want them.
LEMMA PipeSizes ==
  /\ RingSizes(PIPESIZE, UINT)
  /\ PIPESIZE \in Nat \ {0} /\ UINT \in Nat /\ UINT > 1 /\ PIPESIZE \in 0 .. UINT - 1
  /\ 0 \in 0 .. UINT - 1 /\ UINT \in Nat \ {0} /\ UINT % PIPESIZE = 0
BY PipeAssumption DEF RingSizes

\* Every step of the pipe keeps the types.
LEMMA PipeTypeStep ==
  ASSUME PipeTypeOK, [Next]_vars PROVE PipeTypeOK'
<1> USE DEF PipeTypeOK, PipeLocations, Goto, ringVars, endVars
<1>1. CASE UNCHANGED vars  BY <1>1 DEF vars
<1>2. ASSUME NEW p \in Procs, call(p)  PROVE PipeTypeOK'
  BY <1>2, PipeAssumption DEF call
<1>3. ASSUME NEW p \in Procs, sleepReturn(p) \/ sleep(p) \/ pipereadReady(p)  PROVE PipeTypeOK'
  BY <1>3 DEF sleepReturn, sleep, pipereadReady
<1>4. ASSUME NEW p \in Procs, pipewriteFull(p) \/ pipewriteDone(p)  PROVE PipeTypeOK'
  <2>1. pc' \in [Procs -> PipeLocations]
    BY <1>4 DEF pipewriteFull, pipewriteDone, WakeAndGoto
  <2>2. left' \in [Procs -> Nat]  BY <1>4 DEF pipewriteFull, pipewriteDone, return
  <2>3. fresh' \in [Procs -> BOOLEAN]  BY <1>4, Zenon DEF pipewriteFull, pipewriteDone, return
  <2> QED  BY <1>4, <2>1, <2>2, <2>3 DEF pipewriteFull, pipewriteDone
<1>5. ASSUME NEW p \in Procs, pipereadWait(p) \/ pipereadDone(p)  PROVE PipeTypeOK'
  <2>1. pc' \in [Procs -> PipeLocations]
    BY <1>5 DEF pipereadWait, pipereadDone, WakeAndGoto
  <2>2. left' \in [Procs -> Nat]  BY <1>5 DEF pipereadWait, pipereadDone, return
  <2>3. fresh' \in [Procs -> BOOLEAN]  BY <1>5, Zenon DEF pipereadWait, pipereadDone, return
  <2> QED  BY <1>5, <2>1, <2>2, <2>3 DEF pipereadWait, pipereadDone
<1>6. ASSUME NEW p \in Procs, pipereadByte(p)  PROVE PipeTypeOK'
  <2>1. nread' \in 0 .. UINT - 1  BY <1>6, PipeSizes, ModRange DEF pipereadByte
  <2> QED  BY <1>6, <2>1 DEF pipereadByte
<1>7. ASSUME NEW p \in Procs, NEW v \in Bytes, pipewriteByte(p, v)  PROVE PipeTypeOK'
  <2>1. nwrite' \in 0 .. UINT - 1  BY <1>7, PipeSizes, ModRange DEF pipewriteByte
  <2>2. left' \in [Procs -> Nat]  BY <1>7 DEF pipewriteByte
  <2>3. fresh' \in [Procs -> BOOLEAN]  BY <1>7, Zenon DEF pipewriteByte
  <2>4. data' \in [0..(PIPESIZE - 1) -> Bytes]  BY <1>7, Zenon DEF pipewriteByte
  <2> QED  BY <1>7, <2>1, <2>2, <2>3, <2>4 DEF pipewriteByte
<1>8. ASSUME NEW p \in Procs, pipeclose(p)  PROVE PipeTypeOK'
  BY <1>8 DEF pipeclose, WakeAndGoto
<1>9. ASSUME NEW p \in Killable, kill(p)  PROVE PipeTypeOK'
  BY <1>9 DEF kill
<1> QED  BY <1>1, <1>2, <1>3, <1>4, <1>5, <1>6, <1>7, <1>8, <1>9, Zenon DEF Next, run

\* What moving one of the counters does to the number of bytes in the ring.
LEMMA Moved ==
  ASSUME PipeTypeOK, Used <= PIPESIZE
  PROVE  /\ Used \in Nat /\ Used \in 0 .. UINT - 1
         /\ nwrite = Plus(UINT, nread, Used)
         /\ Used = 0 <=> Empty
         /\ Used = PIPESIZE <=> Full
         /\ ~Full /\ nwrite' = (nwrite + 1) % UINT /\ nread' = nread => Used' = Used + 1
         /\ ~Empty /\ nread' = (nread + 1) % UINT /\ nwrite' = nwrite => Used' = Used - 1
<1>1. nread \in 0 .. UINT - 1 /\ nwrite \in 0 .. UINT - 1  BY DEF PipeTypeOK
<1>2. /\ Used \in 0 .. UINT - 1
      /\ Used = 0 <=> nwrite = nread
      /\ \A d \in 0 .. UINT - 1 : Used = d <=> nwrite = Plus(UINT, nread, d)
      /\ Used < UINT - 1 => Apart(UINT, Plus(UINT, nwrite, 1), nread) = Used + 1
      /\ Used > 0 => Apart(UINT, nwrite, Plus(UINT, nread, 1)) = Used - 1
  BY <1>1, PipeSizes, Distance DEF Used
<1>3. Used' = Apart(UINT, nwrite', nread')  BY DEF Used
<1>4. /\ Full <=> nwrite = Plus(UINT, nread, PIPESIZE)
      /\ (nwrite + 1) % UINT = Plus(UINT, nwrite, 1)
      /\ (nread + 1) % UINT = Plus(UINT, nread, 1)
  BY DEF Full, Plus
<1> QED  BY <1>1, <1>2, <1>3, <1>4, PipeSizes DEF Empty

\* A step transfers at most one byte: it leaves the counters alone, or moves one
\* of them with room or a byte there.
LEMMA RingStep ==
  ASSUME PipeTypeOK, Used <= PIPESIZE, [Next]_vars
  PROVE  Used' <= PIPESIZE
<1>1. ASSUME NEW p \in Procs, pipereadByte(p)  PROVE Used' <= PIPESIZE
  <2>1. Used \in Nat /\ Used' = Used - 1
    BY <1>1, Moved, Zenon DEF pipereadByte, Empty
  <2> QED  BY <2>1, PipeSizes
<1>2. ASSUME NEW p \in Procs, NEW v \in Bytes, pipewriteByte(p, v)  PROVE Used' <= PIPESIZE
  <2>1. Used \in Nat /\ Used # PIPESIZE /\ Used' = Used + 1
    BY <1>2, Moved DEF pipewriteByte, Full
  <2> QED  BY <2>1, PipeSizes
<1>3. CASE UNCHANGED <<nread, nwrite>>  BY <1>3 DEF Used
<1> QED
  BY <1>1, <1>2, <1>3, Zenon DEF Next, run, vars, ringVars, call, sleepReturn, sleep, pipewriteFull,
     pipewriteDone, pipereadWait, pipereadReady, pipereadDone, pipeclose, kill

\* p->lock is passed on only by an acquire, a sleep or a release.
LEMMA LockStep ==
  ASSUME PipeTypeOK, LockHeld, [Next]_vars
  PROVE  LockHeld'
<1> USE PipeAssumption DEF PipeTypeOK, PipeLocations, Procs, Goto, LockHeld
<1>1. CASE UNCHANGED vars  BY <1>1 DEF vars
<1>2. ASSUME NEW p \in Procs, call(p)  PROVE LockHeld'
  BY <1>2 DEF call
<1>3. ASSUME NEW p \in Procs, sleepReturn(p)  PROVE LockHeld'
  BY <1>3 DEF sleepReturn
<1>4. ASSUME NEW p \in Procs, sleep(p)  PROVE LockHeld'
  BY <1>4 DEF sleep
<1>5. ASSUME NEW p \in Procs, pipewriteFull(p)  PROVE LockHeld'
  BY <1>5 DEF pipewriteFull, WakeAndGoto, return
<1>6. ASSUME NEW p \in Procs, pipewriteDone(p)  PROVE LockHeld'
  BY <1>6 DEF pipewriteDone, WakeAndGoto, return
<1>7. ASSUME NEW p \in Procs, pipereadWait(p)  PROVE LockHeld'
  BY <1>7 DEF pipereadWait, return
<1>8. ASSUME NEW p \in Procs, pipereadReady(p)  PROVE LockHeld'
  BY <1>8 DEF pipereadReady
<1>9. ASSUME NEW p \in Procs, pipereadByte(p)  PROVE LockHeld'
  BY <1>9 DEF pipereadByte
<1>10. ASSUME NEW p \in Procs, pipereadDone(p)  PROVE LockHeld'
  BY <1>10 DEF pipereadDone, WakeAndGoto, return
<1>11. ASSUME NEW p \in Procs, NEW v \in Bytes, pipewriteByte(p, v)  PROVE LockHeld'
  BY <1>11 DEF pipewriteByte
<1>12. ASSUME NEW p \in Procs, pipeclose(p)  PROVE LockHeld'
  BY <1>12 DEF pipeclose, WakeAndGoto
<1>13. ASSUME NEW p \in Killable, kill(p)  PROVE LockHeld'
  BY <1>13 DEF kill
<1> QED  BY <1>1, <1>2, <1>3, <1>4, <1>5, <1>6, <1>7, <1>8, <1>9, <1>10, <1>11, <1>12, <1>13, Zenon DEF Next, run

\* Descriptors are only closed, each by a process that is in no call, and the last of
\* an end clears its flag.
LEMMA EndsStep ==
  ASSUME PipeTypeOK, LockHeld, EndsOpen, [Next]_vars
  PROVE  EndsOpen'
<1> USE PipeAssumption DEF PipeTypeOK, PipeLocations, Procs, Goto, LockHeld, EndsOpen, ringVars, endVars
<1>1. CASE UNCHANGED vars  BY <1>1 DEF vars
<1>2. ASSUME NEW p \in Procs, call(p)  PROVE EndsOpen'
  BY <1>2 DEF call
<1>3. ASSUME NEW p \in Procs, sleepReturn(p)  PROVE EndsOpen'
  BY <1>3 DEF sleepReturn
<1>4. ASSUME NEW p \in Procs, sleep(p)  PROVE EndsOpen'
  BY <1>4 DEF sleep
<1>5. ASSUME NEW p \in Procs, pipewriteFull(p)  PROVE EndsOpen'
  BY <1>5 DEF pipewriteFull, WakeAndGoto, return
<1>6. ASSUME NEW p \in Procs, pipewriteDone(p)  PROVE EndsOpen'
  BY <1>6 DEF pipewriteDone, WakeAndGoto, return
<1>7. ASSUME NEW p \in Procs, pipereadWait(p)  PROVE EndsOpen'
  BY <1>7 DEF pipereadWait, return
<1>8. ASSUME NEW p \in Procs, pipereadReady(p)  PROVE EndsOpen'
  BY <1>8 DEF pipereadReady
<1>9. ASSUME NEW p \in Procs, pipereadByte(p)  PROVE EndsOpen'
  BY <1>9 DEF pipereadByte
<1>10. ASSUME NEW p \in Procs, pipereadDone(p)  PROVE EndsOpen'
  BY <1>10 DEF pipereadDone, WakeAndGoto, return
<1>11. ASSUME NEW p \in Procs, NEW v \in Bytes, pipewriteByte(p, v)  PROVE EndsOpen'
  BY <1>11 DEF pipewriteByte
<1>12. ASSUME NEW p \in Procs, pipeclose(p)  PROVE EndsOpen'
  BY <1>12 DEF pipeclose, WakeAndGoto
<1>13. ASSUME NEW p \in Killable, kill(p)  PROVE EndsOpen'
  BY <1>13 DEF kill
<1> QED  BY <1>1, <1>2, <1>3, <1>4, <1>5, <1>6, <1>7, <1>8, <1>9, <1>10, <1>11, <1>12, <1>13, Zenon DEF Next, run

\* What a reader saw under p->lock stays so while it holds it.
LEMMA CopyStep ==
  ASSUME PipeTypeOK, LockHeld, EndsOpen, CopyReady, [Next]_vars
  PROVE  CopyReady'
<1> USE PipeAssumption DEF PipeTypeOK, PipeLocations, Procs, Goto, LockHeld, EndsOpen, CopyReady, ringVars, endVars, Empty
<1>1. CASE UNCHANGED vars  BY <1>1 DEF vars
<1>2. ASSUME NEW p \in Procs, call(p)  PROVE CopyReady'
  BY <1>2 DEF call
<1>3. ASSUME NEW p \in Procs, sleepReturn(p)  PROVE CopyReady'
  BY <1>3 DEF sleepReturn
<1>4. ASSUME NEW p \in Procs, sleep(p)  PROVE CopyReady'
  BY <1>4 DEF sleep
<1>5. ASSUME NEW p \in Procs, pipewriteFull(p)  PROVE CopyReady'
  BY <1>5 DEF pipewriteFull, WakeAndGoto, return
<1>6. ASSUME NEW p \in Procs, pipewriteDone(p)  PROVE CopyReady'
  BY <1>6 DEF pipewriteDone, WakeAndGoto, return
<1>7. ASSUME NEW p \in Procs, pipereadWait(p)  PROVE CopyReady'
  BY <1>7 DEF pipereadWait, return
<1>8. ASSUME NEW p \in Procs, pipereadReady(p)  PROVE CopyReady'
  BY <1>8 DEF pipereadReady
<1>9. ASSUME NEW p \in Procs, pipereadByte(p)  PROVE CopyReady'
  BY <1>9 DEF pipereadByte
<1>10. ASSUME NEW p \in Procs, pipereadDone(p)  PROVE CopyReady'
  BY <1>10 DEF pipereadDone, WakeAndGoto, return
<1>11. ASSUME NEW p \in Procs, NEW v \in Bytes, pipewriteByte(p, v)  PROVE CopyReady'
  BY <1>11 DEF pipewriteByte
<1>12. ASSUME NEW p \in Procs, pipeclose(p)  PROVE CopyReady'
  BY <1>12 DEF pipeclose, WakeAndGoto
<1>13. ASSUME NEW p \in Killable, kill(p)  PROVE CopyReady'
  BY <1>13 DEF kill
<1> QED  BY <1>1, <1>2, <1>3, <1>4, <1>5, <1>6, <1>7, <1>8, <1>9, <1>10, <1>11, <1>12, <1>13, Zenon DEF Next, run

\* The inductive invariant holds in every state of a pipe.
THEOREM PipeInvariance == Spec => []PipeInv
<1>1. Init => PipeInv
  <2> SUFFICES ASSUME Init PROVE PipeInv  OBVIOUS
  <2>1. PipeTypeOK  BY PipeSizes DEF Init, PipeTypeOK, PipeLocations
  <2>2. Used = 0  BY <2>1, PipeSizes, Distance DEF Init, Used
  <2>3. LockHeld /\ EndsOpen /\ CopyReady
    BY PipeAssumption DEF Init, LockHeld, EndsOpen, CopyReady, Procs
  <2> QED  BY <2>1, <2>2, <2>3, PipeSizes DEF PipeInv
<1>2. PipeInv /\ [Next]_vars => PipeInv'
  BY PipeTypeStep, RingStep, LockStep, EndsStep, CopyStep DEF PipeInv
<1> QED  BY <1>1, <1>2, PTL DEF Spec

\* However the calls of any number of readers and writers interleave, the pipe is
\* freed exactly with the last descriptor, and no call is inside it then.
THEOREM FreedLastSafe == Spec => []FreedLast
<1>1. PipeInv => FreedLast  BY DEF PipeInv, EndsOpen, FreedLast
<1> QED  BY <1>1, PipeInvariance, PTL
-----------------------------------------------------------------------------
(* The ring of the pipe is a queue.                                        *)

LEMMA QueueForm ==
  /\ Queue = Between(PIPESIZE, UINT, data, nread, nwrite)
  /\ Queue' = Between(PIPESIZE, UINT, data', nread', nwrite')
BY DEF Queue, Between, At, Apart

\* What the type of the ring means for the queue.
LEMMA QueueIs ==
  ASSUME PipeTypeOK
  PROVE  /\ Holds(PIPESIZE, data, Bytes) /\ Queue \in Seq(Bytes) /\ Len(Queue) = Used
         /\ Queue \in [1 .. Used -> Bytes]
<1>1. /\ Holds(PIPESIZE, data, Bytes) /\ nread \in 0 .. UINT - 1 /\ nwrite \in 0 .. UINT - 1
  BY DEF PipeTypeOK, Holds
<1>2. Queue \in Seq(Bytes) /\ Len(Queue) = Used  BY <1>1, PipeSizes, QueueForm, BetweenIs DEF Used
<1>3. Queue \in [1 .. Used -> Bytes]  BY <1>1, PipeSizes, QueueForm, BetweenIs DEF Used
<1> QED  BY <1>1, <1>2, <1>3

\* pipewrite's byte goes behind the others and overwrites none of them.
LEMMA PutStep ==
  ASSUME PipeInv, NEW p \in Procs, NEW v \in Bytes, pipewriteByte(p, v)
  PROVE  Len(Queue) < PIPESIZE /\ Queue' = Append(Queue, v)
<1>1. /\ Holds(PIPESIZE, data, Bytes) /\ nread \in 0 .. UINT - 1 /\ nwrite \in 0 .. UINT - 1
      /\ Len(Queue) = Used /\ PipeTypeOK
  BY QueueIs DEF PipeInv, PipeTypeOK
<1>2. /\ ~Full /\ nwrite' = Plus(UINT, nwrite, 1) /\ nread' = nread
      /\ data' = [data EXCEPT ![nwrite % PIPESIZE] = v]
  BY Zenon DEF pipewriteByte, Plus
<1>3. Apart(UINT, nwrite, nread) < PIPESIZE /\ Used < PIPESIZE
  BY <1>2, PipeSizes, Moved DEF PipeInv, Used
<1>4. RingSizes(PIPESIZE, UINT)  BY PipeSizes
<1>5. Between(PIPESIZE, UINT, Store(PIPESIZE, data, nwrite, v), nread, Plus(UINT, nwrite, 1))
        = Append(Between(PIPESIZE, UINT, data, nread, nwrite), v)
  BY <1>1, <1>3, <1>4, StoreAtEnd
<1>6. data' = Store(PIPESIZE, data, nwrite, v)  BY <1>2 DEF Store
<1> QED  BY <1>1, <1>2, <1>3, <1>5, <1>6, QueueForm, Zenon

\* piperead takes the oldest byte.
LEMMA GetStep ==
  ASSUME PipeInv, NEW p \in Procs, pipereadByte(p)
  PROVE  Queue # <<>> /\ got' = <<Head(Queue)>> /\ Queue' = Tail(Queue)
<1>1. /\ Holds(PIPESIZE, data, Bytes) /\ nread \in 0 .. UINT - 1 /\ nwrite \in 0 .. UINT - 1
      /\ Queue \in Seq(Bytes) /\ Len(Queue) = Used /\ PipeTypeOK
  BY QueueIs DEF PipeInv, PipeTypeOK
<1>2. /\ ~Empty /\ data' = data /\ nwrite' = nwrite /\ nread' = Plus(UINT, nread, 1)
      /\ got' = <<At(PIPESIZE, data, nread)>>
  BY Zenon DEF pipereadByte, Plus, At
<1>3. Used \in Nat \ {0}  BY <1>2, Moved DEF PipeInv
<1>4. 1 \in 0 .. Apart(UINT, nwrite, nread) /\ 1 \in 1 .. Apart(UINT, nwrite, nread)
  BY <1>3 DEF Used
<1>5. Between(PIPESIZE, UINT, data, Plus(UINT, nread, 1), nwrite) = SubSeq(Queue, 1 + 1, Len(Queue))
  BY <1>1, <1>4, PipeSizes, DropFront, QueueForm
<1>6. Queue[1] = At(PIPESIZE, data, nread)
  <2>1. Queue[1] = At(PIPESIZE, data, nread + 1 - 1)
    <3>1. RingSizes(PIPESIZE, UINT)  BY PipeSizes
    <3>2. \A i \in 1 .. Apart(UINT, nwrite, nread) :
            Between(PIPESIZE, UINT, data, nread, nwrite)[i] = At(PIPESIZE, data, nread + i - 1)
      BY <1>1, <3>1, BetweenIs
    <3>3. Between(PIPESIZE, UINT, data, nread, nwrite)[1] = At(PIPESIZE, data, nread + 1 - 1)
      BY <1>4, <3>2, Zenon
    <3> QED  BY <3>3, QueueForm, Zenon
  <2>2. nread + 1 - 1 = nread  BY <1>1, PipeSizes
  <2> QED  BY <2>1, <2>2
<1>7. Queue # <<>> /\ Head(Queue) = Queue[1] /\ Tail(Queue) = SubSeq(Queue, 1 + 1, Len(Queue))
  BY <1>1, <1>3, TailIs
<1> QED  BY <1>2, <1>5, <1>6, <1>7, QueueForm

\* A step of pipe.c is a step of the queue, or does not concern it.
LEMMA FifoStep ==
  ASSUME PipeInv, [Next]_vars
  PROVE  [abstract!Next]_(abstract!vars)
<1> USE DEF abstract!vars, ringVars, endVars
<1>1. CASE UNCHANGED <<data, nread, nwrite, got, writeopen, eof>>
  BY <1>1 DEF Queue
<1>2. ASSUME NEW p \in Procs, NEW v \in Bytes, pipewriteByte(p, v)
      PROVE  abstract!Next
  <2>1. writeopen  BY <1>2 DEF pipewriteByte, PipeInv, LockHeld, EndsOpen
  <2>2. abstract!Put(v)
    BY <1>2, <2>1, PutStep, Zenon DEF pipewriteByte, abstract!Put
  <2> QED  BY <2>2 DEF abstract!Next
<1>3. ASSUME NEW p \in Procs, pipereadByte(p)  PROVE abstract!Next
  BY <1>3, GetStep, Zenon DEF pipereadByte, abstract!Next, abstract!Get
<1>4. ASSUME NEW p \in Procs, pipereadDone(p)
      PROVE  abstract!Next \/ UNCHANGED abstract!vars
  <2>1. Queue' = Queue /\ got' = got /\ writeopen' = writeopen  BY <1>4 DEF pipereadDone, Queue
  <2>2. CASE fresh[p]
    <3>1. Empty /\ ~writeopen /\ eof' = TRUE
      BY <1>4, <2>2 DEF pipereadDone, PipeInv, PipeTypeOK, CopyReady
    <3>2. Queue = <<>>
      <4>1. Used = 0  BY <3>1, Moved DEF PipeInv
      <4>2. Queue \in [1 .. 0 -> Bytes]
        BY <4>1, QueueIs DEF PipeInv
      <4> QED  BY <4>2
    <3> QED  BY <2>1, <3>1, <3>2, Zenon DEF abstract!Next, abstract!Eof
  <2>3. CASE ~fresh[p]
    BY <1>4, <2>1, <2>3 DEF pipereadDone, PipeInv, PipeTypeOK
  <2> QED  BY <2>2, <2>3
<1>5. ASSUME NEW p \in Procs, pipeclose(p)
      PROVE  abstract!Next \/ UNCHANGED abstract!vars
  BY <1>5, Zenon DEF pipeclose, Queue, PipeInv, PipeTypeOK, abstract!Next, abstract!Close
<1> QED
  BY <1>1, <1>2, <1>3, <1>4, <1>5, Zenon DEF Next, run, vars, call, sleepReturn, sleep, pipewriteFull,
     pipewriteDone, pipereadWait, pipereadReady, kill

\* The ring with its wrapping counters is a queue of at most PIPESIZE bytes, for
\* any numbers of readers and writers, any size of the ring and any width of the
\* counters that is a multiple of it.
THEOREM FifoRefinement == Spec => ImplementsFifo
<1>1. Init => abstract!Init
  <2> SUFFICES ASSUME Init PROVE Queue = <<>>
    BY Zenon DEF Init, abstract!Init
  <2>1. PipeTypeOK  BY PipeSizes DEF Init, PipeTypeOK, PipeLocations
  <2>2. Used = 0  BY <2>1, PipeSizes, Distance DEF Init, Used
  <2>3. Queue \in [1 .. 0 -> Bytes]
    BY <2>1, <2>2, QueueIs
  <2> QED  BY <2>3
<1>2. PipeInv /\ [Next]_vars => [abstract!Next]_(abstract!vars)  BY FifoStep
<1> QED  BY <1>1, <1>2, PipeInvariance, PTL DEF Spec, ImplementsFifo, abstract!Spec
-----------------------------------------------------------------------------
(* The console: the ring between its three indices.                        *)

InputTypeOK ==
  /\ Holds(INPUT_BUF, input_buf, console!Chars)
  /\ input_r \in 0 .. W - 1 /\ input_w \in 0 .. W - 1 /\ input_e \in 0 .. W - 1

ReadsOK ==
  reads \in [LineReaders -> [pc : {"user", "woken", "sleep", "asleep"}, n : Nat, target : Nat]]

\* The write index is between the read and the edit index, which are at most a
\* ring apart.
InputInOrder ==
  /\ Apart(W, input_e, input_r) = Apart(W, input_w, input_r) + Apart(W, input_e, input_w)
  /\ Apart(W, input_e, input_r) <= INPUT_BUF

\* Between them are the finished lines and the line being edited.
InputHeld ==
  /\ unread = Between(INPUT_BUF, W, input_buf, input_r, input_w)
  /\ line = Between(INPUT_BUF, W, input_buf, input_w, input_e)

InputInv == InputTypeOK /\ InputInOrder /\ InputHeld

\* The facts about the sizes, as the lemmas on rings want them.
LEMMA ConsoleSizes ==
  /\ RingSizes(INPUT_BUF, W) /\ W \in Nat /\ W > 1 /\ W \in Nat \ {0}
  /\ INPUT_BUF \in Nat \ {0} /\ INPUT_BUF < W
BY ConsoleAssumption DEF RingSizes

\* What the indices say about each other.
LEMMA InputSpans ==
  ASSUME InputTypeOK, InputInOrder
  PROVE  /\ Apart(W, input_w, input_r) \in Nat /\ Apart(W, input_e, input_w) \in Nat
         /\ Apart(W, input_e, input_r) \in Nat
         /\ Apart(W, input_w, input_r) <= Apart(W, input_e, input_r)
         /\ Apart(W, input_e, input_w) <= Apart(W, input_e, input_r)
<1>1. /\ Apart(W, input_w, input_r) \in 0 .. W - 1 /\ Apart(W, input_e, input_w) \in 0 .. W - 1
      /\ Apart(W, input_e, input_r) \in 0 .. W - 1
  BY ConsoleSizes, Distance DEF InputTypeOK
<1> QED  BY <1>1, ConsoleSizes DEF InputInOrder

\* Backspace and kill line shorten the line being edited.
LEMMA EraseStep ==
  ASSUME InputInv, NEW n \in Nat, n <= Apart(W, input_e, input_w),
         console!Erase(n), input_r' = input_r
  PROVE  InputInv'
<1> DEFINE f == Apart(W, input_e, n)
<1>1. /\ input_r \in 0 .. W - 1 /\ input_w \in 0 .. W - 1 /\ input_e \in 0 .. W - 1
      /\ Holds(INPUT_BUF, input_buf, console!Chars)
  BY DEF InputInv, InputTypeOK
<1>2. /\ input_e' = f /\ input_w' = input_w /\ input_buf' = input_buf /\ unread' = unread
      /\ line' = SubSeq(line, 1, Len(line) - n)
  BY DEF console!Erase, Apart
<1>3. n \in 0 .. Apart(W, input_e, input_w) /\ n \in 0 .. Apart(W, input_e, input_r)
  BY InputSpans DEF InputInv
<1>4. f \in 0 .. W - 1 /\ Apart(W, f, input_w) = Apart(W, input_e, input_w) - n
  BY <1>1, <1>3, ConsoleSizes, Nearer
<1>5. Apart(W, f, input_r) = Apart(W, input_e, input_r) - n
  BY <1>1, <1>3, ConsoleSizes, Nearer
<1>6. line' = Between(INPUT_BUF, W, input_buf, input_w, f)
  <2>1. RingSizes(INPUT_BUF, W)  BY ConsoleSizes
  <2>2. Between(INPUT_BUF, W, input_buf, input_w, Apart(W, input_e, n))
          = SubSeq(Between(INPUT_BUF, W, input_buf, input_w, input_e), 1,
                   Len(Between(INPUT_BUF, W, input_buf, input_w, input_e)) - n)
    BY <1>1, <1>3, <2>1, CutEnd
  <2>3. line = Between(INPUT_BUF, W, input_buf, input_w, input_e)  BY DEF InputInv, InputHeld
  <2> QED  BY <1>2, <2>2, <2>3, Zenon
<1> HIDE DEF f
<1>7. InputTypeOK'  BY <1>1, <1>2, <1>4 DEF InputTypeOK
<1>8. InputInOrder'
  <2>1. /\ Apart(W, f, input_r) = Apart(W, input_w, input_r) + Apart(W, f, input_w)
        /\ Apart(W, f, input_r) <= INPUT_BUF
    BY <1>4, <1>5, InputSpans, ConsoleSizes DEF InputInv, InputInOrder
  <2> QED  BY <1>2, <2>1 DEF InputInOrder
<1>9. InputHeld'  BY <1>2, <1>6 DEF InputInv, InputHeld
<1> QED  BY <1>7, <1>8, <1>9 DEF InputInv

\* A character typed while there is room goes behind the line being edited and
\* overwrites nothing; the character that ends the line finishes all of it.
LEMMA InsertStep ==
  ASSUME InputInv, NEW c \in console!Chars, Apart(W, input_e, input_r) < INPUT_BUF,
         console!Insert(c), input_r' = input_r
  PROVE  InputInv'
<1> DEFINE f == Plus(W, input_e, 1)
           b == Store(INPUT_BUF, input_buf, input_e, c)
<1>0. RingSizes(INPUT_BUF, W)  BY ConsoleSizes
<1>1. /\ input_r \in 0 .. W - 1 /\ input_w \in 0 .. W - 1 /\ input_e \in 0 .. W - 1
      /\ Holds(INPUT_BUF, input_buf, console!Chars)
  BY DEF InputInv, InputTypeOK
<1>2. input_e' = f /\ input_buf' = b  BY DEF console!Insert, Plus, Store
<1>3. \/ /\ input_w' = f /\ line' = <<>> /\ unread' = unread \o Append(line, c)
      \/ input_w' = input_w /\ line' = Append(line, c) /\ unread' = unread
  BY <1>2, Zenon DEF console!Insert
<1>4. /\ Apart(W, input_w, input_r) \in Nat /\ Apart(W, input_e, input_w) \in Nat
      /\ Apart(W, input_e, input_r) \in Nat
      /\ Apart(W, input_w, input_r) <= Apart(W, input_e, input_r)
      /\ Apart(W, input_e, input_w) < INPUT_BUF
      /\ Apart(W, input_e, input_r) < W - 1 /\ Apart(W, input_e, input_w) < W - 1
  BY InputSpans, ConsoleSizes DEF InputInv
<1>5. Apart(W, f, input_r) = Apart(W, input_e, input_r) + 1
  BY <1>1, <1>4, ConsoleSizes, Distance
<1>6. Apart(W, f, input_w) = Apart(W, input_e, input_w) + 1
  BY <1>1, <1>4, ConsoleSizes, Distance
<1>7. f \in 0 .. W - 1
  <2>1. input_e + 1 \in Int /\ W \in Nat \ {0}  BY <1>1, ConsoleSizes
  <2> QED  BY <2>1, ModRange, Zenon DEF Plus
<1>8. Holds(INPUT_BUF, b, console!Chars)  BY <1>1, Zenon DEF Holds, Store
<1>9. Between(INPUT_BUF, W, b, input_r, input_w) = unread
  <2>1. Between(INPUT_BUF, W, b, input_r, input_w)
          = Between(INPUT_BUF, W, input_buf, input_r, input_w)
    BY <1>0, <1>1, <1>4, StoreOutside
  <2> QED  BY <2>1 DEF InputInv, InputHeld
<1>10. Between(INPUT_BUF, W, b, input_w, f) = Append(line, c)
  <2>1. Between(INPUT_BUF, W, b, input_w, f)
          = Append(Between(INPUT_BUF, W, input_buf, input_w, input_e), c)
    BY <1>0, <1>1, <1>4, StoreAtEnd
  <2>2. line = Between(INPUT_BUF, W, input_buf, input_w, input_e)  BY DEF InputInv, InputHeld
  <2> QED  BY <2>1, <2>2, Zenon
<1>11. /\ Apart(W, f, input_r) = Apart(W, input_w, input_r) + Apart(W, f, input_w)
       /\ Apart(W, f, input_r) <= INPUT_BUF
  BY <1>4, <1>5, <1>6, ConsoleSizes DEF InputInv, InputInOrder
<1>12. Between(INPUT_BUF, W, b, input_r, f) = unread \o Append(line, c)
  <2>1. Between(INPUT_BUF, W, b, input_r, f) = Between(INPUT_BUF, W, b, input_r, input_w)
                                                \o Between(INPUT_BUF, W, b, input_w, f)
    <3> HIDE DEF b, f
    <3> QED  BY <1>0, <1>1, <1>7, <1>8, <1>11, Joined
  <2> QED  BY <1>9, <1>10, <2>1, Zenon
<1>13. Between(INPUT_BUF, W, b, f, f) = <<>> /\ Apart(W, f, f) = 0
  BY <1>7, ConsoleSizes, Nothing
<1> HIDE DEF f, b
<1>14. Apart(W, f, input_r) \in Nat  BY <1>4, <1>5
<1>15. InputTypeOK'  BY <1>1, <1>2, <1>3, <1>7, <1>8 DEF InputTypeOK
<1>16. InputInOrder'  BY <1>2, <1>3, <1>11, <1>13, <1>14 DEF InputInOrder
<1>17. InputHeld'  BY <1>2, <1>3, <1>9, <1>10, <1>12, <1>13, Zenon DEF InputHeld
<1> QED  BY <1>15, <1>16, <1>17 DEF InputInv

\* A read takes the oldest characters of the finished lines.
LEMMA ConsumeStep ==
  ASSUME InputInv, NEW t \in Nat, t <= Apart(W, input_w, input_r), console!Consume(t),
         UNCHANGED <<input_buf, input_w, input_e, line>>
  PROVE  InputInv'
<1> DEFINE f == Plus(W, input_r, t)
<1>1. /\ input_r \in 0 .. W - 1 /\ input_w \in 0 .. W - 1 /\ input_e \in 0 .. W - 1
      /\ Holds(INPUT_BUF, input_buf, console!Chars)
  BY DEF InputInv, InputTypeOK
<1>2. input_r' = f /\ unread' = SubSeq(unread, t + 1, Len(unread))
  BY DEF console!Consume, Plus
<1>3. t \in 0 .. Apart(W, input_w, input_r) /\ t \in 0 .. Apart(W, input_e, input_r)
  BY InputSpans DEF InputInv
<1>4. f \in 0 .. W - 1 /\ Apart(W, input_w, f) = Apart(W, input_w, input_r) - t
  BY <1>1, <1>3, ConsoleSizes, Nearer
<1>5. Apart(W, input_e, f) = Apart(W, input_e, input_r) - t
  BY <1>1, <1>3, ConsoleSizes, Nearer
<1>6. unread' = Between(INPUT_BUF, W, input_buf, f, input_w)
  BY <1>1, <1>2, <1>3, ConsoleSizes, DropFront, Zenon DEF InputInv, InputHeld
<1> HIDE DEF f
<1>7. InputTypeOK'  BY <1>1, <1>2, <1>4 DEF InputTypeOK
<1>8. InputInOrder'
  <2>1. /\ Apart(W, input_e, f) = Apart(W, input_w, f) + Apart(W, input_e, input_w)
        /\ Apart(W, input_e, f) <= INPUT_BUF
    BY <1>4, <1>5, InputSpans, ConsoleSizes DEF InputInv, InputInOrder
  <2> QED  BY <1>2, <2>1 DEF InputInOrder
<1>9. InputHeld'  BY <1>2, <1>6 DEF InputInv, InputHeld
<1> QED  BY <1>7, <1>8, <1>9 DEF InputInv

\* Every step keeps the reads in progress what they are.
LEMMA ReadsStep ==
  ASSUME ReadsOK, [console!Next]_(console!vars)
  PROVE  ReadsOK'
<1> USE DEF ReadsOK
<1>1. CASE UNCHANGED console!vars  BY <1>1 DEF console!vars
<1>2. CASE console!consoleintr
  <2>1. reads' = reads \/ console!wakeup
    BY <1>2 DEF console!consoleintr, console!Erase, console!Insert
  <2> QED  BY <2>1 DEF console!wakeup
<1>3. ASSUME NEW p \in LineReaders, console!read(p)  PROVE ReadsOK'
  BY <1>3, ConsoleAssumption DEF console!read
<1>4. ASSUME NEW p \in LineReaders, console!consoleread(p)  PROVE ReadsOK'
  <2>1. CASE reads' = [reads EXCEPT ![p].pc = "user"]  BY <2>1
  <2>2. ASSUME NEW m \in 0 .. reads[p].n, reads' = [reads EXCEPT ![p] = console!Progress(p, m)]
        PROVE  ReadsOK'
    <3>1. reads[p].n - m \in Nat  OBVIOUS
    <3> QED  BY <2>2, <3>1, Zenon DEF console!Progress
  <2> QED  BY <1>4, <2>1, <2>2 DEF console!consoleread
<1>5. ASSUME NEW p \in LineReaders, console!sleep(p)  PROVE ReadsOK'
  BY <1>5 DEF console!sleep
<1>6. ASSUME NEW p \in KillableReaders, console!kill(p)  PROVE ReadsOK'
  BY <1>6, Zenon DEF console!kill
<1> QED  BY <1>1, <1>2, <1>3, <1>4, <1>5, <1>6 DEF console!Next

\* Every step keeps the ring what the history of the typing says.
LEMMA InputStep ==
  ASSUME InputInv, ReadsOK, [console!Next]_(console!vars)
  PROVE  InputInv'
<1>1. CASE UNCHANGED <<input_buf, input_r, input_w, input_e, line, unread>>
  BY <1>1 DEF InputInv, InputTypeOK, InputInOrder, InputHeld
<1>2. CASE console!consoleintr
  <2>1. input_r' = input_r  BY <1>2 DEF console!consoleintr
  <2>2. ASSUME NEW n \in 0 .. INPUT_BUF, console!Kills(n), console!Erase(n)  PROVE InputInv'
    <3>1. n \in Nat /\ n <= Apart(W, input_e, input_w)
      BY <2>2, ConsoleSizes DEF console!Kills, console!Dist, Apart
    <3> QED  BY <2>1, <2>2, <3>1, EraseStep
  <2>3. CASE console!Erase(IF input_e # input_w THEN 1 ELSE 0)
    <3> DEFINE n == IF input_e # input_w THEN 1 ELSE 0
    <3>1. input_e \in 0 .. W - 1 /\ input_w \in 0 .. W - 1  BY DEF InputInv, InputTypeOK
    <3>2. Apart(W, input_e, input_w) \in Nat /\ (Apart(W, input_e, input_w) = 0 <=> input_e = input_w)
      BY <3>1, ConsoleSizes, Distance
    <3>3. n \in Nat /\ n <= Apart(W, input_e, input_w)  BY <3>2
    <3> QED  BY <2>1, <2>3, <3>3, EraseStep
  <2>4. ASSUME NEW c \in console!Chars, console!Room, console!Insert(c)  PROVE InputInv'
    <3>1. Apart(W, input_e, input_r) < INPUT_BUF
      BY <2>4 DEF console!Room, console!Dist, Apart
    <3> QED  BY <2>1, <2>4, <3>1, InsertStep
  <2> QED  BY <1>1, <1>2, <2>1, <2>2, <2>3, <2>4 DEF console!consoleintr
<1>3. ASSUME NEW p \in LineReaders, console!consoleread(p)  PROVE InputInv'
  <2>1. UNCHANGED <<input_buf, input_w, input_e, line>>  BY <1>3 DEF console!consoleread
  <2>2. ASSUME NEW m \in 0 .. reads[p].n, console!Takes(m, reads[p].n),
               console!Consume(IF console!EofTaken(p, m) THEN m + 1 ELSE m)
        PROVE  InputInv'
    <3> DEFINE t == IF console!EofTaken(p, m) THEN m + 1 ELSE m
    <3>1. m \in Nat /\ m <= Apart(W, input_w, input_r)
      BY <2>2 DEF ReadsOK, console!Takes, console!Dist, Apart
    <3>2. console!EofTaken(p, m) => m < Apart(W, input_w, input_r)
      BY DEF console!EofTaken, console!Dist, Apart
    <3>3. Apart(W, input_w, input_r) \in Nat  BY InputSpans DEF InputInv
    <3>4. t \in Nat /\ t <= Apart(W, input_w, input_r)  BY <3>1, <3>2, <3>3
    <3>5. console!Consume(t)  BY <2>2
    <3> HIDE DEF t
    <3> QED  BY <2>1, <3>4, <3>5, ConsumeStep
  <2> QED  BY <1>1, <1>3, <2>1, <2>2 DEF console!consoleread
<1> QED
  BY <1>1, <1>2, <1>3
     DEF console!Next, console!vars, console!read, console!sleep, console!kill

\* Readers of the console get the bytes of the finished lines, as they were edited,
\* each once and in order: for any number of readers, any ring and any width of its
\* indices that is a multiple of it.
THEOREM InputExactSafe == console!Spec => []InputExact
<1>1. console!Init => InputInv /\ ReadsOK
  <2> SUFFICES ASSUME console!Init PROVE InputInv /\ ReadsOK  OBVIOUS
  <2>1. 0 \in 0 .. W - 1  BY ConsoleSizes
  <2>2. Between(INPUT_BUF, W, input_buf, 0, 0) = <<>> /\ Apart(W, 0, 0) = 0
    BY <2>1, ConsoleSizes, Nothing
  <2>3. input_r = 0 /\ input_w = 0 /\ input_e = 0 /\ line = <<>> /\ unread = <<>>
    BY DEF console!Init
  <2>4. InputTypeOK  BY <2>1, <2>3, ConsoleSizes DEF console!Init, InputTypeOK, Holds, console!Chars
  <2>5. InputInOrder /\ InputHeld  BY <2>2, <2>3, ConsoleSizes DEF InputInOrder, InputHeld
  <2>6. ReadsOK  BY DEF console!Init, ReadsOK
  <2> QED  BY <2>4, <2>5, <2>6 DEF InputInv
<1>2. (InputInv /\ ReadsOK) /\ [console!Next]_(console!vars) => (InputInv /\ ReadsOK)'
  BY InputStep, ReadsStep
<1>3. InputInv => InputExact
  BY DEF InputInv, InputInOrder, InputHeld, InputExact, console!InputExact, console!Dist,
         console!At, Between, At, Apart
<1> QED  BY <1>1, <1>2, <1>3, PTL DEF console!Spec
-----------------------------------------------------------------------------
(* The sleep-lock.                                                         *)

\* The two spinlocks are held where the code believes it holds them.
SpinlocksHeld ==
  \A p \in Lockers :
    /\ lk = p <=> spc[p] \in {"test", "sleep1", "sleep2", "wakeup", "done"}
    /\ ptable = p <=> spc[p] \in {"sleep2", "sleep3", "woken"}

\* A process is off the CPU exactly while it is in sched, with its channel set.
OffCpu ==
  \A p \in Lockers : /\ spc[p] = "asleep" <=> state[p] # "RUNNING"
                     /\ spc[p] = "asleep" => chan[p]

LockInv == sleeplock!TypeOK /\ SpinlocksHeld /\ OffCpu /\ sleeplock!MutualExclusion /\ sleeplock!NoLostWakeup

\* The inductive invariant holds when the lock has been initialised.
LEMMA LockInitInv == sleeplock!Init => LockInv
BY LockersAssumption, ZenonT(30)
   DEF sleeplock!Init, LockInv, sleeplock!TypeOK, sleeplock!Locations, SpinlocksHeld, OffCpu, sleeplock!MutualExclusion,
       sleeplock!NoLostWakeup

\* Every step of acquiresleep, releasesleep, sleep and wakeup keeps the types.
LEMMA LockTypeStep == sleeplock!TypeOK /\ [sleeplock!Next]_(sleeplock!vars) => sleeplock!TypeOK'
<1> SUFFICES ASSUME sleeplock!TypeOK, [sleeplock!Next]_(sleeplock!vars) PROVE sleeplock!TypeOK'
  OBVIOUS
<1> USE DEF sleeplock!TypeOK, sleeplock!Locations, sleeplock!Step
<1>1. CASE UNCHANGED sleeplock!vars
  BY <1>1 DEF sleeplock!vars
<1>2. ASSUME NEW p \in Lockers, sleeplock!run(p) \/ sleeplock!call(p) \/ sleeplock!kill(p) PROVE sleeplock!TypeOK'
  <2>1. CASE sleeplock!call(p) \/ sleeplock!kill(p)
    BY <2>1 DEF sleeplock!call, sleeplock!kill
  <2>2. CASE sleeplock!acquire(p) \/ sleeplock!acquiresleep(p) \/ sleeplock!acquiresleepWait(p)
    BY <2>2, ZenonT(30) DEF sleeplock!acquire, sleeplock!acquiresleep, sleeplock!acquiresleepWait
  <2>3. CASE sleeplock!sleepLockTable(p) \/ sleeplock!sleepUnlock(p) \/ sleeplock!sleepSched(p)
    BY <2>3, ZenonT(30) DEF sleeplock!sleepLockTable, sleeplock!sleepUnlock, sleeplock!sleepSched
  <2>4. CASE sleeplock!schedule(p) \/ sleeplock!sleepTidy(p)
    BY <2>4, ZenonT(30) DEF sleeplock!schedule, sleeplock!sleepTidy
  <2>5. CASE sleeplock!releasesleep(p) \/ sleeplock!wakeup(p) \/ sleeplock!releasesleepEnd(p)
    BY <2>5, ZenonT(30) DEF sleeplock!releasesleep, sleeplock!wakeup, sleeplock!releasesleepEnd
  <2> QED BY <1>2, <2>1, <2>2, <2>3, <2>4, <2>5, Zenon DEF sleeplock!run
<1> QED BY <1>1, <1>2 DEF sleeplock!Next

\* No step of the lock, of sleep or of wakeup breaks the inductive invariant.
LEMMA LockInvStep == LockInv /\ [sleeplock!Next]_(sleeplock!vars) => LockInv'
<1> SUFFICES ASSUME LockInv, [sleeplock!Next]_(sleeplock!vars) PROVE LockInv'
  OBVIOUS
<1>0. sleeplock!TypeOK'
  BY LockTypeStep DEF LockInv
<1> USE LockersAssumption DEF LockInv, sleeplock!TypeOK, sleeplock!Locations, sleeplock!Step
<1>1. CASE UNCHANGED sleeplock!vars
  BY <1>1 DEF sleeplock!vars, SpinlocksHeld, OffCpu, sleeplock!MutualExclusion, sleeplock!NoLostWakeup
<1>2. ASSUME NEW p \in Lockers, sleeplock!run(p) \/ sleeplock!call(p) \/ sleeplock!kill(p) PROVE LockInv'
  <2>1. CASE sleeplock!call(p)
    <3>1. SpinlocksHeld'
      BY <2>1 DEF sleeplock!call, SpinlocksHeld
    <3>2. OffCpu'
      BY <2>1 DEF sleeplock!call, OffCpu
    <3>3. sleeplock!MutualExclusion'
      BY <2>1 DEF sleeplock!call, SpinlocksHeld, sleeplock!MutualExclusion
    <3>4. sleeplock!NoLostWakeup'
      BY <2>1, <3>3 DEF sleeplock!call, SpinlocksHeld, OffCpu, sleeplock!MutualExclusion, sleeplock!NoLostWakeup
    <3> QED BY <1>0, <3>1, <3>2, <3>3, <3>4
  <2>2. CASE sleeplock!acquire(p)
    <3>1. SpinlocksHeld'
      BY <2>2 DEF sleeplock!acquire, SpinlocksHeld
    <3>2. OffCpu'
      BY <2>2 DEF sleeplock!acquire, OffCpu
    <3>3. sleeplock!MutualExclusion'
      BY <2>2 DEF sleeplock!acquire, SpinlocksHeld, sleeplock!MutualExclusion
    <3>4. sleeplock!NoLostWakeup'
      BY <2>2, <3>3 DEF sleeplock!acquire, SpinlocksHeld, OffCpu, sleeplock!MutualExclusion, sleeplock!NoLostWakeup
    <3> QED BY <1>0, <3>1, <3>2, <3>3, <3>4
  <2>3. CASE sleeplock!acquiresleep(p)
    <3>1. SpinlocksHeld'
      BY <2>3 DEF sleeplock!acquiresleep, SpinlocksHeld
    <3>2. OffCpu'
      BY <2>3 DEF sleeplock!acquiresleep, OffCpu
    <3>3. sleeplock!MutualExclusion'
      BY <2>3 DEF sleeplock!acquiresleep, SpinlocksHeld, sleeplock!MutualExclusion
    <3>4. sleeplock!NoLostWakeup'
      BY <2>3, <3>3 DEF sleeplock!acquiresleep, SpinlocksHeld, OffCpu, sleeplock!MutualExclusion, sleeplock!NoLostWakeup
    <3> QED BY <1>0, <3>1, <3>2, <3>3, <3>4
  <2>4. CASE sleeplock!acquiresleepWait(p)
    <3>1. SpinlocksHeld'
      BY <2>4 DEF sleeplock!acquiresleepWait, SpinlocksHeld
    <3>2. OffCpu'
      BY <2>4 DEF sleeplock!acquiresleepWait, OffCpu
    <3>3. sleeplock!MutualExclusion'
      BY <2>4 DEF sleeplock!acquiresleepWait, SpinlocksHeld, sleeplock!MutualExclusion
    <3>4. sleeplock!NoLostWakeup'
      BY <2>4, <3>3 DEF sleeplock!acquiresleepWait, SpinlocksHeld, OffCpu, sleeplock!MutualExclusion, sleeplock!NoLostWakeup
    <3> QED BY <1>0, <3>1, <3>2, <3>3, <3>4
  <2>5. CASE sleeplock!sleepLockTable(p)
    <3>1. SpinlocksHeld'
      BY <2>5 DEF sleeplock!sleepLockTable, SpinlocksHeld
    <3>2. OffCpu'
      BY <2>5 DEF sleeplock!sleepLockTable, OffCpu
    <3>3. sleeplock!MutualExclusion'
      BY <2>5 DEF sleeplock!sleepLockTable, SpinlocksHeld, sleeplock!MutualExclusion
    <3>4. sleeplock!NoLostWakeup'
      BY <2>5, <3>3 DEF sleeplock!sleepLockTable, SpinlocksHeld, OffCpu, sleeplock!MutualExclusion, sleeplock!NoLostWakeup
    <3> QED BY <1>0, <3>1, <3>2, <3>3, <3>4
  <2>6. CASE sleeplock!sleepUnlock(p)
    <3>1. SpinlocksHeld'
      BY <2>6 DEF sleeplock!sleepUnlock, SpinlocksHeld
    <3>2. OffCpu'
      BY <2>6 DEF sleeplock!sleepUnlock, OffCpu
    <3>3. sleeplock!MutualExclusion'
      BY <2>6 DEF sleeplock!sleepUnlock, SpinlocksHeld, sleeplock!MutualExclusion
    <3>4. sleeplock!NoLostWakeup'
      BY <2>6, <3>3 DEF sleeplock!sleepUnlock, SpinlocksHeld, OffCpu, sleeplock!MutualExclusion, sleeplock!NoLostWakeup
    <3> QED BY <1>0, <3>1, <3>2, <3>3, <3>4
  <2>7. CASE sleeplock!sleepSched(p)
    <3>1. SpinlocksHeld'
      BY <2>7 DEF sleeplock!sleepSched, SpinlocksHeld
    <3>2. OffCpu'
      BY <2>7 DEF sleeplock!sleepSched, OffCpu
    <3>3. sleeplock!MutualExclusion'
      BY <2>7 DEF sleeplock!sleepSched, SpinlocksHeld, sleeplock!MutualExclusion
    <3>4. sleeplock!NoLostWakeup'
      BY <2>7, <3>3 DEF sleeplock!sleepSched, SpinlocksHeld, OffCpu, sleeplock!MutualExclusion, sleeplock!NoLostWakeup
    <3> QED BY <1>0, <3>1, <3>2, <3>3, <3>4
  <2>8. CASE sleeplock!schedule(p)
    <3>1. SpinlocksHeld'
      BY <2>8 DEF sleeplock!schedule, SpinlocksHeld
    <3>2. OffCpu'
      BY <2>8 DEF sleeplock!schedule, OffCpu
    <3>3. sleeplock!MutualExclusion'
      BY <2>8 DEF sleeplock!schedule, SpinlocksHeld, sleeplock!MutualExclusion
    <3>4. sleeplock!NoLostWakeup'
      BY <2>8, <3>3 DEF sleeplock!schedule, SpinlocksHeld, OffCpu, sleeplock!MutualExclusion, sleeplock!NoLostWakeup
    <3> QED BY <1>0, <3>1, <3>2, <3>3, <3>4
  <2>9. CASE sleeplock!sleepTidy(p)
    <3>1. SpinlocksHeld'
      BY <2>9 DEF sleeplock!sleepTidy, SpinlocksHeld
    <3>2. OffCpu'
      BY <2>9 DEF sleeplock!sleepTidy, OffCpu
    <3>3. sleeplock!MutualExclusion'
      BY <2>9 DEF sleeplock!sleepTidy, SpinlocksHeld, sleeplock!MutualExclusion
    <3>4. sleeplock!NoLostWakeup'
      BY <2>9, <3>3 DEF sleeplock!sleepTidy, SpinlocksHeld, OffCpu, sleeplock!MutualExclusion, sleeplock!NoLostWakeup
    <3> QED BY <1>0, <3>1, <3>2, <3>3, <3>4
  <2>10. CASE sleeplock!releasesleep(p)
    <3>1. SpinlocksHeld'
      BY <2>10 DEF sleeplock!releasesleep, SpinlocksHeld
    <3>2. OffCpu'
      BY <2>10 DEF sleeplock!releasesleep, OffCpu
    <3>3. sleeplock!MutualExclusion'
      BY <2>10 DEF sleeplock!releasesleep, SpinlocksHeld, sleeplock!MutualExclusion
    <3>4. sleeplock!NoLostWakeup'
      BY <2>10, <3>3 DEF sleeplock!releasesleep, SpinlocksHeld, OffCpu, sleeplock!MutualExclusion, sleeplock!NoLostWakeup
    <3> QED BY <1>0, <3>1, <3>2, <3>3, <3>4
  <2>11. CASE sleeplock!wakeup(p)
    <3>1. SpinlocksHeld'
      BY <2>11 DEF sleeplock!wakeup, SpinlocksHeld
    <3>2. OffCpu'
      BY <2>11 DEF sleeplock!wakeup, OffCpu
    <3>3. sleeplock!MutualExclusion'
      BY <2>11 DEF sleeplock!wakeup, SpinlocksHeld, sleeplock!MutualExclusion
    <3>4. sleeplock!NoLostWakeup'
      BY <2>11, <3>3 DEF sleeplock!wakeup, SpinlocksHeld, OffCpu, sleeplock!MutualExclusion, sleeplock!NoLostWakeup
    <3> QED BY <1>0, <3>1, <3>2, <3>3, <3>4
  <2>12. CASE sleeplock!releasesleepEnd(p)
    <3>1. SpinlocksHeld'
      BY <2>12 DEF sleeplock!releasesleepEnd, SpinlocksHeld
    <3>2. OffCpu'
      BY <2>12 DEF sleeplock!releasesleepEnd, OffCpu
    <3>3. sleeplock!MutualExclusion'
      BY <2>12 DEF sleeplock!releasesleepEnd, SpinlocksHeld, sleeplock!MutualExclusion
    <3>4. sleeplock!NoLostWakeup'
      BY <2>12, <3>3 DEF sleeplock!releasesleepEnd, SpinlocksHeld, OffCpu, sleeplock!MutualExclusion, sleeplock!NoLostWakeup
    <3> QED BY <1>0, <3>1, <3>2, <3>3, <3>4
  <2>13. CASE sleeplock!kill(p)
    <3>1. SpinlocksHeld'
      BY <2>13 DEF sleeplock!kill, SpinlocksHeld
    <3>2. OffCpu'
      BY <2>13 DEF sleeplock!kill, OffCpu
    <3>3. sleeplock!MutualExclusion'
      BY <2>13 DEF sleeplock!kill, SpinlocksHeld, sleeplock!MutualExclusion
    <3>4. sleeplock!NoLostWakeup'
      BY <2>13, <3>3 DEF sleeplock!kill, SpinlocksHeld, OffCpu, sleeplock!MutualExclusion, sleeplock!NoLostWakeup
    <3> QED BY <1>0, <3>1, <3>2, <3>3, <3>4
  <2> QED BY <1>2, <2>1, <2>2, <2>3, <2>4, <2>5, <2>6, <2>7, <2>8, <2>9, <2>10, <2>11, <2>12, <2>13, Zenon DEF sleeplock!run
<1> QED BY <1>1, <1>2 DEF sleeplock!Next

\* The inductive invariant holds in every reachable state.
THEOREM SleepLockInvariance == sleeplock!Spec => []LockInv
BY LockInitInv, LockInvStep, PTL DEF sleeplock!Spec

\* Types are kept by every behaviour of the sleep-lock.
THEOREM SleepLockTypes == sleeplock!Spec => []sleeplock!TypeOK
BY SleepLockInvariance, PTL DEF LockInv

\* However many processes compete, acquiresleep lets in one at a time, and
\* holdingsleep is right about who that is.
THEOREM SleepLockMutex == sleeplock!Spec => []sleeplock!MutualExclusion
BY SleepLockInvariance, PTL DEF LockInv

\* However sleep and wakeup interleave, no process is left asleep on a lock
\* that is free with nobody about to wake it.
THEOREM WakeupSafe == sleeplock!Spec => []NoLostWakeup
BY SleepLockInvariance, PTL DEF LockInv, NoLostWakeup

\* The code holds each spinlock exactly where it relies on it.
THEOREM SpinlocksSafe == sleeplock!Spec => []SpinlocksHeld
BY SleepLockInvariance, PTL DEF LockInv

\* sleeplock.c with sleep and wakeup implements the abstract lock: every step
\* asks for it, is granted it while nobody holds it, drops it, or does not
\* concern it.
THEOREM SleepLockRefinement == sleeplock!Spec => sleeplock!ImplementsMutex
<1>1. sleeplock!Init => sleeplock!abstract!Init
  BY DEF sleeplock!Init, sleeplock!Standing, sleeplock!abstract!Init
<1>2. LockInv /\ [sleeplock!Next]_(sleeplock!vars) => [sleeplock!abstract!Next]_(sleeplock!Standing)
  <2> SUFFICES ASSUME LockInv, [sleeplock!Next]_(sleeplock!vars) PROVE [sleeplock!abstract!Next]_(sleeplock!Standing)
    OBVIOUS
  <2> USE DEF LockInv, sleeplock!TypeOK, sleeplock!Locations, sleeplock!Step, sleeplock!Standing
  <2>1. CASE UNCHANGED sleeplock!vars
    BY <2>1 DEF sleeplock!vars
  <2>2. ASSUME NEW p \in Lockers, sleeplock!run(p) \/ sleeplock!call(p) \/ sleeplock!kill(p)
        PROVE [sleeplock!abstract!Next]_(sleeplock!Standing)
    <3>1. CASE sleeplock!call(p)
      <4>1. CASE spc[p] = "idle"
        <5>1. sleeplock!abstract!Ask(p)
          BY <3>1, <4>1, ZenonT(30) DEF sleeplock!call, sleeplock!abstract!Ask
        <5> QED BY <5>1 DEF sleeplock!abstract!Next
      <4>2. CASE spc[p] # "idle"
        BY <3>1, <4>2 DEF sleeplock!call
      <4> QED BY <4>1, <4>2
    <3>2. CASE sleeplock!acquiresleep(p)
      <4>1. sleeplock!abstract!Grant(p)
        BY <3>2, ZenonT(30) DEF sleeplock!acquiresleep, sleeplock!MutualExclusion, sleeplock!abstract!Grant
      <4> QED BY <4>1 DEF sleeplock!abstract!Next
    <3>3. CASE sleeplock!releasesleep(p)
      <4>1. sleeplock!abstract!Drop(p)
        BY <3>3, ZenonT(30) DEF sleeplock!releasesleep, sleeplock!abstract!Drop
      <4> QED BY <4>1 DEF sleeplock!abstract!Next
    <3>4. CASE sleeplock!acquire(p) \/ sleeplock!acquiresleepWait(p) \/ sleeplock!sleepLockTable(p)
      BY <3>4 DEF sleeplock!acquire, sleeplock!acquiresleepWait, sleeplock!sleepLockTable
    <3>5. CASE sleeplock!sleepUnlock(p) \/ sleeplock!sleepSched(p) \/ sleeplock!schedule(p) \/ sleeplock!sleepTidy(p)
      BY <3>5 DEF sleeplock!sleepUnlock, sleeplock!sleepSched, sleeplock!schedule, sleeplock!sleepTidy
    <3>6. CASE sleeplock!wakeup(p) \/ sleeplock!releasesleepEnd(p) \/ sleeplock!kill(p)
      BY <3>6 DEF sleeplock!wakeup, sleeplock!releasesleepEnd, sleeplock!kill
    <3> QED BY <2>2, <3>1, <3>2, <3>3, <3>4, <3>5, <3>6, Zenon DEF sleeplock!run
  <2> QED BY <2>1, <2>2 DEF sleeplock!Next
<1> QED BY <1>1, <1>2, SleepLockInvariance, PTL DEF sleeplock!Spec, sleeplock!ImplementsMutex, sleeplock!abstract!Spec
===============================================================================
