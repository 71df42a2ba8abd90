----------------------------- MODULE RingIndex -----------------------------
(***************************************************************************)
(* Arithmetic of ring indexes.  A free-running index counts modulo the     *)
(* width of an unsigned integer; the entry it stands for is its remainder  *)
(* modulo the size of the ring, which divides the width.  The lemmas say   *)
(* what the proofs of the transmit and the receive ring need: that the two *)
(* remainders agree, that fewer steps than the ring has entries lead to    *)
(* different entries, and that every entry is reached by some number of    *)
(* steps.                                                                  *)
(***************************************************************************)
EXTENDS Integers, TLAPS

\* A remainder is below the modulus.
LEMMA ModType ==
  ASSUME NEW m \in Nat \ {0}, NEW a \in Int
  PROVE  a % m \in 0 .. m - 1
  BY SMT

\* An index below the modulus is its own remainder.
LEMMA ModSmall ==
  ASSUME NEW m \in Nat \ {0}, NEW a \in 0 .. m - 1
  PROVE  a % m = a
  BY SMT

\* One turn over the modulus.
LEMMA ModWrap ==
  ASSUME NEW m \in Nat \ {0}, NEW a \in m .. 2 * m - 1
  PROVE  a % m = a - m
  BY SMT

\* One turn below zero, as unsigned subtraction does.
LEMMA ModNeg ==
  ASSUME NEW m \in Nat \ {0}, NEW a \in -m .. -1
  PROVE  a % m = a + m
  BY SMT

\* Division with remainder.
LEMMA ModDef ==
  ASSUME NEW m \in Nat \ {0}, NEW a \in Int
  PROVE  /\ a % m \in 0 .. m - 1 /\ a \div m \in Int
         /\ a = m * (a \div m) + (a % m)
  BY SMT

\* The remainder is the only one there is.
LEMMA ModUnique ==
  ASSUME NEW m \in Nat \ {0}, NEW q \in Int, NEW r \in 0 .. m - 1
  PROVE  (m * q + r) % m = r
  BY SMT

\* A multiple of m that lies strictly between -m and m is zero.
LEMMA MulSmall ==
  ASSUME NEW m \in Nat \ {0}, NEW q \in Int, m * q < m, m * q > -m
  PROVE  q = 0
  BY SMT

\* Multiplication of integers.
LEMMA MulInt ==
  ASSUME NEW n \in Int, NEW k \in Int, NEW q \in Int
  PROVE  /\ (n * k) * q = n * (k * q) /\ k * q \in Int
         /\ n * k + n * q = n * (k + q) /\ n * k - n * q = n * (k - q)
  BY SMT

\* Full turns of the ring do not change the entry.
LEMMA ModTurns ==
  ASSUME NEW m \in Nat \ {0}, NEW a \in Int, NEW q \in Int
  PROVE  (a + m * q) % m = a % m
<1>. DEFINE d == a \div m
            r == a % m
<1>1. r \in 0 .. m - 1 /\ d \in Int /\ a = m * d + r
  BY ModDef
<1>. HIDE DEF d, r
<1>2. m * d + m * q = m * (d + q) /\ m * d \in Int /\ m * q \in Int
  BY <1>1, MulInt
<1>3. a + m * q = m * (d + q) + r
  BY <1>1, <1>2
<1>4. (m * (d + q) + r) % m = r
  BY <1>1, ModUnique
<1>5. a % m = r
  BY DEF r
<1>. QED BY <1>3, <1>4, <1>5

Divides(n, w) == \E k \in Int : w = n * k

\* The wrap of the index is invisible in the ring: n divides the width w.
LEMMA ModMod ==
  ASSUME NEW n \in Nat \ {0}, NEW w \in Nat \ {0}, Divides(n, w), NEW a \in Int
  PROVE  (a % w) % n = a % n
<1>0. PICK k \in Int : w = n * k
  BY DEF Divides
<1>. DEFINE d == a \div w
            r == a % w
<1>1. r \in Int /\ d \in Int /\ a = w * d + r
  BY ONLY w \in Nat \ {0}, a \in Int, ModDef
<1>. HIDE DEF d, r
<1>2. (n * k) * d = n * (k * d) /\ k * d \in Int
  BY <1>1, MulInt
<1>3. a = r + n * (k * d)
  <2>1. w * d = n * (k * d)
    BY <1>0, <1>2
  <2>2. w * d \in Int
    BY <1>1, SMT
  <2>. QED BY <1>1, <2>1, <2>2
<1>4. (r + n * (k * d)) % n = r % n
  BY <1>1, <1>2, ModTurns
<1>. QED BY <1>3, <1>4 DEF r

\* Fewer steps than the ring has entries lead to another entry.
LEMMA RingApart ==
  ASSUME NEW n \in Nat \ {0}, NEW a \in Int, NEW b \in Int,
         a <= b, b < a + n, a % n = b % n
  PROVE  a = b
<1>. DEFINE d == a \div n
            e == b \div n
            r == a % n
<1>1. r \in Int /\ d \in Int /\ e \in Int /\ a = n * d + r /\ b = n * e + r
  BY ModDef
<1>. HIDE DEF d, e, r
<1>2. n * e - n * d = n * (e - d) /\ n * e \in Int /\ n * d \in Int
  BY <1>1, MulInt
<1>3. n * (e - d) = b - a
  BY <1>1, <1>2
<1>4. e - d = 0
  BY <1>1, <1>3, MulSmall
<1>. QED BY <1>1, <1>2, <1>3, <1>4

\* Some number of steps, below the size of the ring, leads to any entry.
LEMMA RingReach ==
  ASSUME NEW n \in Nat \ {0}, NEW a \in Int, NEW e \in 0 .. n - 1
  PROVE  \E k \in 0 .. n - 1 : (a + k) % n = e
<1>. DEFINE k == (e - a) % n
            d == (e - a) \div n
<1>0. e - a \in Int
  OBVIOUS
<1>1. k \in 0 .. n - 1 /\ d \in Int /\ e - a = n * d + k
  BY <1>0, ModDef
<1>. HIDE DEF k, d
<1>2. n * d \in Int
  BY <1>1, SMT
<1>3. e = (a + k) + n * d
  BY <1>1, <1>2
<1>4. ((a + k) + n * d) % n = (a + k) % n
  <2>1. a + k \in Int
    BY <1>1
  <2>. QED BY <1>1, <2>1, ModTurns
<1>5. e % n = e
  BY ModSmall
<1>. QED BY <1>1, <1>3, <1>4, <1>5

\* Steps may be counted before or after the wrap.
LEMMA ModAdd ==
  ASSUME NEW m \in Nat \ {0}, NEW a \in Int, NEW b \in Int
  PROVE  ((a % m) + b) % m = (a + b) % m
<1>. DEFINE d == a \div m
            r == a % m
<1>1. r \in Int /\ d \in Int /\ a = m * d + r
  BY ModDef
<1>. HIDE DEF d, r
<1>2. m * d \in Int
  BY <1>1, SMT
<1>3. a + b = (r + b) + m * d /\ (r + b) \in Int
  BY <1>1, <1>2
<1>4. ((r + b) + m * d) % m = (r + b) % m
  BY <1>1, <1>3, ModTurns
<1>. QED BY <1>3, <1>4 DEF r

\* The same for steps back.
LEMMA ModSub ==
  ASSUME NEW m \in Nat \ {0}, NEW a \in Int, NEW b \in Int
  PROVE  ((a % m) - b) % m = (a - b) % m
<1>. DEFINE d == a \div m
            r == a % m
<1>1. r \in Int /\ d \in Int /\ a = m * d + r
  BY ModDef
<1>. HIDE DEF d, r
<1>2. m * d \in Int
  BY <1>1, SMT
<1>3. a - b = (r - b) + m * d /\ (r - b) \in Int
  BY <1>1, <1>2
<1>4. ((r - b) + m * d) % m = (r - b) % m
  BY <1>1, <1>3, ModTurns
<1>. QED BY <1>3, <1>4 DEF r

\* The same for the distance to a wrapped index.
LEMMA SubMod ==
  ASSUME NEW m \in Nat \ {0}, NEW a \in Int, NEW b \in Int
  PROVE  (b - (a % m)) % m = (b - a) % m
<1>. DEFINE d == a \div m
            r == a % m
<1>1. r \in Int /\ d \in Int /\ a = m * d + r
  BY ModDef
<1>. HIDE DEF d, r
<1>2. m * d \in Int
  BY <1>1, SMT
<1>3. b - r = (b - a) + m * d /\ (b - a) \in Int
  BY <1>1, <1>2
<1>4. ((b - a) + m * d) % m = (b - a) % m
  BY <1>1, <1>3, ModTurns
<1>. QED BY <1>3, <1>4 DEF r

-----------------------------------------------------------------------------
(***************************************************************************)
(* The window between two free-running indexes d (the older one) and c.    *)
(***************************************************************************)

\* Advancing the newer index by one makes the window longer by one.
LEMMA WindowGrows ==
  ASSUME NEW m \in Nat \ {0}, NEW c \in 0 .. m - 1, NEW d \in 0 .. m - 1,
         (c - d) % m < m - 1
  PROVE  (((c + 1) % m) - d) % m = ((c - d) % m) + 1
<1>. DEFINE x == (c - d) % m
<1>0. c + 1 \in Int /\ c - d \in Int /\ d \in Int /\ 1 \in Int
  OBVIOUS
<1>1. x \in Nat /\ x < m - 1
  BY <1>0, ModType
<1>2. (((c + 1) % m) - d) % m = ((c + 1) - d) % m
  BY <1>0, ModSub
<1>3. (x + 1) % m = ((c - d) + 1) % m
  BY <1>0, ModAdd
<1>4. (x + 1) % m = x + 1
  BY <1>1, ModSmall
<1>5. (c - d) + 1 = (c + 1) - d
  OBVIOUS
<1>. QED BY <1>2, <1>3, <1>4, <1>5

\* Advancing the older index by n, up to the newer one, makes it shorter by n.
LEMMA WindowShrinks ==
  ASSUME NEW m \in Nat \ {0}, NEW c \in 0 .. m - 1, NEW d \in 0 .. m - 1,
         NEW n \in 0 .. ((c - d) % m)
  PROVE  (c - ((d + n) % m)) % m = ((c - d) % m) - n
<1>. DEFINE x == (c - d) % m
<1>0. d + n \in Int /\ c - d \in Int /\ c \in Int /\ n \in Int
  OBVIOUS
<1>1. x \in 0 .. m - 1 /\ n \in 0 .. x
  BY <1>0, ModType
<1>2. (c - ((d + n) % m)) % m = (c - (d + n)) % m
  BY <1>0, SubMod
<1>3. (x - n) % m = ((c - d) - n) % m
  BY <1>0, ModSub
<1>4. (x - n) % m = x - n
  BY <1>1, ModSmall
<1>5. (c - d) - n = c - (d + n)
  OBVIOUS
<1>. QED BY <1>2, <1>3, <1>4, <1>5

\* What is left of the ring beside the window: the unsigned arithmetic of
\* n + d - c does not underflow.
LEMMA WindowRest ==
  ASSUME NEW m \in Nat \ {0}, NEW c \in 0 .. m - 1, NEW d \in 0 .. m - 1,
         NEW n \in 0 .. m - 1, (c - d) % m <= n
  PROVE  (n + d - c) % m = n - ((c - d) % m)
<1>. DEFINE x == (c - d) % m
<1>0. c - d \in Int /\ n \in Int
  OBVIOUS
<1>1. x \in 0 .. n
  BY <1>0, ModType
<1>2. (n - x) % m = (n - (c - d)) % m
  BY <1>0, SubMod
<1>3. (n - x) % m = n - x
  BY <1>1, ModSmall
<1>4. n - (c - d) = n + d - c
  OBVIOUS
<1>. QED BY <1>2, <1>3, <1>4

\* The window ends where the newer index is.
LEMMA WindowEnd ==
  ASSUME NEW n \in Nat \ {0}, NEW m \in Nat \ {0}, Divides(n, m),
         NEW c \in 0 .. m - 1, NEW d \in 0 .. m - 1, NEW j \in Int
  PROVE  (c + j) % n = (d + ((c - d) % m) + j) % n
<1>. DEFINE x == (c - d) % m
<1>0. c - d \in Int /\ d + j \in Int /\ c + j \in Int /\ c \in Int /\ d \in Int
  OBVIOUS
<1>1. x \in Int
  BY ONLY <1>0, m \in Nat \ {0}, ModType
<1>2. (x + (d + j)) % m = ((c - d) + (d + j)) % m
  BY ONLY <1>0, m \in Nat \ {0}, ModAdd
<1>3. (c - d) + (d + j) = c + j /\ x + (d + j) = d + x + j /\ d + x + j \in Int
  BY <1>0, <1>1
<1>4. (d + x + j) % m = (c + j) % m
  BY <1>2, <1>3
<1>5. ((d + x + j) % m) % n = (d + x + j) % n
  BY <1>3, ModMod
<1>6. ((c + j) % m) % n = (c + j) % n
  BY <1>0, ModMod
<1>. QED BY <1>4, <1>5, <1>6

-----------------------------------------------------------------------------
(***************************************************************************)
(* The l entries of a ring of n from the index d on.                       *)
(***************************************************************************)
Segment(n, d, l) == {(d + j) % n : j \in 0 .. l - 1}

\* The entries of a segment are entries of the ring.
LEMMA SegType ==
  ASSUME NEW n \in Nat \ {0}, NEW d \in Int, NEW l \in Nat
  PROVE  Segment(n, d, l) \subseteq 0 .. n - 1 /\ (l = 0 => Segment(n, d, l) = {})
<1>1. \A j \in 0 .. l - 1 : d + j \in Int
  OBVIOUS
<1>2. \A j \in 0 .. l - 1 : (d + j) % n \in 0 .. n - 1
  BY <1>1, ModType
<1>. QED BY <1>2 DEF Segment

\* A segment is the one before an index inside it and the one from there on.
LEMMA SegSplit ==
  ASSUME NEW n \in Nat \ {0}, NEW d \in Int, NEW l \in Nat, NEW i \in 0 .. l
  PROVE  Segment(n, d, l) = Segment(n, d, i) \cup Segment(n, d + i, l - i)
<1>1. ASSUME NEW e \in Segment(n, d, l)
      PROVE  e \in Segment(n, d, i) \cup Segment(n, d + i, l - i)
  <2>1. PICK j \in 0 .. l - 1 : e = (d + j) % n
    BY DEF Segment
  <2>2. CASE j < i
    <3>1. j \in 0 .. i - 1
      BY <2>2
    <3>2. e \in Segment(n, d, i)
      BY <2>1, <3>1 DEF Segment
    <3>. QED BY <3>2
  <2>3. CASE j >= i
    <3>1. j - i \in 0 .. (l - i) - 1 /\ (d + i) + (j - i) = d + j
      BY <2>3
    <3>2. e = ((d + i) + (j - i)) % n
      BY <2>1, <3>1
    <3>. QED BY <3>1, <3>2 DEF Segment
  <2>. QED BY <2>2, <2>3
<1>2. ASSUME NEW e \in Segment(n, d, i)
      PROVE  e \in Segment(n, d, l)
  BY DEF Segment
<1>3. ASSUME NEW e \in Segment(n, d + i, l - i)
      PROVE  e \in Segment(n, d, l)
  <2>1. PICK j \in 0 .. (l - i) - 1 : e = ((d + i) + j) % n
    BY DEF Segment
  <2>2. i + j \in 0 .. l - 1 /\ (d + i) + j = d + (i + j)
    BY <2>1
  <2>3. e = (d + (i + j)) % n
    BY <2>1, <2>2
  <2>. QED BY <2>2, <2>3 DEF Segment
<1>. QED BY <1>1, <1>2, <1>3

\* A segment of one entry.
LEMMA SegOne ==
  ASSUME NEW n \in Nat \ {0}, NEW d \in Int
  PROVE  Segment(n, d, 1) = {d % n}
<1>1. 0 .. 1 - 1 = {0} /\ d + 0 = d
  OBVIOUS
<1>. QED BY <1>1 DEF Segment

\* A segment grows by the entry after it.
LEMMA SegGrow ==
  ASSUME NEW n \in Nat \ {0}, NEW d \in Int, NEW l \in Nat
  PROVE  Segment(n, d, l + 1) = Segment(n, d, l) \cup {(d + l) % n}
<1>1. l \in 0 .. l + 1 /\ (l + 1) - l = 1 /\ d + l \in Int /\ l + 1 \in Nat
  OBVIOUS
<1>2. Segment(n, d, l + 1) = Segment(n, d, l) \cup Segment(n, d + l, (l + 1) - l)
  BY <1>1, SegSplit
<1>. QED BY <1>1, <1>2, SegOne

\* A segment begins with the entry of its index.
LEMMA SegFirst ==
  ASSUME NEW n \in Nat \ {0}, NEW d \in Int, NEW l \in Nat, l > 0
  PROVE  Segment(n, d, l) = {d % n} \cup Segment(n, d + 1, l - 1)
<1>1. 1 \in 0 .. l
  OBVIOUS
<1>2. Segment(n, d, l) = Segment(n, d, 1) \cup Segment(n, d + 1, l - 1)
  BY <1>1, SegSplit
<1>. QED BY <1>2, SegOne

\* The two parts of a segment no longer than the ring have no entry in common.
LEMMA SegApart ==
  ASSUME NEW n \in Nat \ {0}, NEW d \in Int, NEW l \in 0 .. n, NEW i \in 0 .. l
  PROVE  Segment(n, d, i) \cap Segment(n, d + i, l - i) = {}
<1>. SUFFICES ASSUME NEW e \in Segment(n, d, i), e \in Segment(n, d + i, l - i)
              PROVE  FALSE
  OBVIOUS
<1>1. PICK j \in 0 .. i - 1 : e = (d + j) % n
  BY DEF Segment
<1>2. PICK k \in 0 .. (l - i) - 1 : e = ((d + i) + k) % n
  BY DEF Segment
<1>3. /\ d + j \in Int /\ (d + i) + k \in Int
      /\ d + j <= (d + i) + k /\ (d + i) + k < (d + j) + n /\ d + j # (d + i) + k
  BY <1>1, <1>2
<1>4. (d + j) % n = ((d + i) + k) % n
  BY <1>1, <1>2
<1>. QED BY <1>3, <1>4, RingApart

\* The entry after a segment shorter than the ring is not in it.
LEMMA SegEnd ==
  ASSUME NEW n \in Nat \ {0}, NEW d \in Int, NEW l \in 0 .. n - 1
  PROVE  (d + l) % n \notin Segment(n, d, l)
<1>1. l + 1 \in 0 .. n /\ l \in 0 .. l + 1 /\ (l + 1) - l = 1 /\ d + l \in Int
  OBVIOUS
<1>2. Segment(n, d, l) \cap Segment(n, d + l, (l + 1) - l) = {}
  BY <1>1, SegApart
<1>. QED BY <1>1, <1>2, SegOne

\* The first entry of a segment no longer than the ring does not come again.
LEMMA SegOnce ==
  ASSUME NEW n \in Nat \ {0}, NEW d \in Int, NEW l \in 1 .. n
  PROVE  d % n \notin Segment(n, d + 1, l - 1)
<1>1. 1 \in 0 .. l /\ l \in 0 .. n
  OBVIOUS
<1>2. Segment(n, d, 1) \cap Segment(n, d + 1, l - 1) = {}
  BY <1>1, SegApart
<1>. QED BY <1>2, SegOne

\* The whole ring.
LEMMA SegAll ==
  ASSUME NEW n \in Nat \ {0}, NEW d \in Int
  PROVE  Segment(n, d, n) = 0 .. n - 1
<1>1. \A e \in 0 .. n - 1 : \E j \in 0 .. n - 1 : (d + j) % n = e
  BY RingReach
<1>2. Segment(n, d, n) \subseteq 0 .. n - 1
  BY SegType
<1>. QED BY <1>1, <1>2 DEF Segment

\* The wrap of the index is invisible in the ring.
LEMMA SegWrap ==
  ASSUME NEW n \in Nat \ {0}, NEW m \in Nat \ {0}, Divides(n, m),
         NEW a \in Int, NEW l \in Nat
  PROVE  Segment(n, a % m, l) = Segment(n, a, l)
<1>1. ASSUME NEW j \in 0 .. l - 1
      PROVE  ((a % m) + j) % n = (a + j) % n
  <2>1. a % m \in Int /\ j \in Int
    BY ONLY m \in Nat \ {0}, a \in Int, j \in 0 .. l - 1, l \in Nat, ModType
  <2>2. (((a % m) % n) + j) % n = ((a % m) + j) % n
    BY <2>1, ModAdd
  <2>3. ((a % n) + j) % n = (a + j) % n
    BY <2>1, ModAdd
  <2>4. (a % m) % n = a % n
    BY ModMod
  <2>. QED BY <2>2, <2>3, <2>4
<1>. QED BY <1>1 DEF Segment

=============================================================================
