------------------------- MODULE PciLadder_proofs -------------------------
(***************************************************************************)
(* Proofs about the ladders of the drivers.  A ladder is well built over a *)
(* list R, its remove list, if each rung acquires the next resource of R   *)
(* from its end, and the undo list of each rung is the part of R that      *)
(* takes back what was acquired below it.  Whatever the kernel refuses, a  *)
(* driver with a well-built ladder releases the newest resource first,     *)
(* leaves nothing behind, and holds what its resources stand on.           *)
(***************************************************************************)
EXTENDS PciLadder, SequenceTheorems, TLAPS

-----------------------------------------------------------------------------
(***************************************************************************)
(* Well-built ladders.                                                     *)
(***************************************************************************)

\* What the rungs acquire, and what they ask for.
Names ==
  {"device", "mwi", "regions", "regs", "dma_mask", "msi", "drvdata", "netdev",
   "interface", "desc_tx", "desc_rx", "pkt_tx", "map_tx", "pkt_rx", "map_rx",
   "irq", "hw", "chrdev", "cdev", "class", "node", "left_out", "nothing"}

\* The j-th resource that is acquired, when R is the list of the releases.
Rung(R, j) == R[(Len(R) + 1) - j]

\* The list u takes back the first k resources.
TakesBack(u, R, k) ==
  /\ u \in Seq(Names) /\ Len(u) = k
  /\ \A j \in 1 .. k : u[j] = Rung(R, (k + 1) - j)

\* The rung r of a probe, with k resources acquired before it and n after it.
RungFits(r, R, k, n) ==
  /\ k \in 0 .. Len(R) /\ n \in 0 .. Len(R)
  /\ \/ r.get = << >> /\ n = k
     \/ r.get = <<Rung(R, k + 1)>> /\ n = k + 1
  /\ r.ask \in Refused \cup {"left_out"} =>
       \/ r.then = "unwind" /\ TakesBack(r.undo, R, k)
       \/ /\ r.then = "slip" /\ r.undo = << >>
          /\ r.get = <<"msi">> /\ r.ask # "left_out"

LadderFits(l, R, k) ==
  /\ R \in Seq(Names) /\ Len(l.probe) \in Nat
  /\ k[1] = 0
  /\ \A i \in 1 .. Len(l.probe) : RungFits(l.probe[i], R, k[i], k[i + 1])
  /\ \/ l.remove = R /\ k[Len(l.probe) + 1] = Len(R)
     \/ \E i \in 1 .. Len(l.probe) : l.probe[i].ask = "left_out"

\* What is released at place i of R stands on x, which is released later and
\* without which no probe goes on.
StandsOn(R, i, x) == x # "msi" /\ \E j \in i + 1 .. Len(R) : R[j] = x

Stacked(l, R) ==
  /\ \A i, j \in 1 .. Len(R) : R[i] = R[j] => i = j
  /\ \A i \in 1 .. Len(R) :
       /\ \A p \in Rests : p[1] = R[i] => StandsOn(R, i, p[2])
       /\ R[i] = "irq" => \A x \in l.handler : StandsOn(R, i, x)
       /\ R[i] = "cdev" => \A x \in l.calls : StandsOn(R, i, x)

BuiltOver(l, R, k) == LadderFits(l, R, k) /\ Stacked(l, R)

WellBuilt(l) == \E R, k : BuiltOver(l, R, k)

-----------------------------------------------------------------------------
(***************************************************************************)
(* The inductive invariant.  What is held are the first d resources, or    *)
(* all of them but MSI, for the d of the rung the probe is at, or for as   *)
(* many releases as are still to be made.                                  *)
(***************************************************************************)
Full(h, R, d) ==
  /\ h \in Seq(Names) /\ Len(h) = d
  /\ \A j \in 1 .. d : h[j] = Rung(R, j)

Short(h, R, d, m) ==
  /\ Rung(R, m) = "msi"
  /\ h \in Seq(Names) /\ Len(h) = d - 1
  /\ \A j \in 1 .. d - 1 : h[j] = Rung(R, IF j < m THEN j ELSE j + 1)

Stack(h, R, d) == Full(h, R, d) \/ \E m \in 1 .. d : Short(h, R, d, m)

NotPassed == \A i \in 1 .. at - 1 : Probe[i].ask # "left_out"

PhaseInv(R, k) ==
  \/ phase = "unbound" /\ todo = << >> /\ held = << >>
  \/ /\ phase = "probe" /\ todo = << >> /\ NotPassed
     /\ at \in 1 .. Len(Probe) + 1 /\ Stack(held, R, k[at])
  \/ /\ phase = "slip" /\ todo = << >> /\ NotPassed
     /\ at \in 1 .. Len(Probe) /\ Stack(held, R, k[at])
     /\ Probe[at].get = <<"msi">> /\ Probe[at].ask # "left_out"
  \/ phase = "bound" /\ todo = << >> /\ Remove = R /\ Stack(held, R, Len(R))
  \/ /\ phase \in {"unwind", "remove"}
     /\ \E d \in 0 .. Len(R) : TakesBack(todo, R, d) /\ Stack(held, R, d)

LadderInv ==
  \E R, k : BuiltOver(Ladders[driver], R, k) /\ PhaseInv(R, k)

\* The depth of every rung, and of the end of the probe.
LEMMA DepthType ==
  ASSUME NEW l, NEW R, NEW k, LadderFits(l, R, k), NEW i \in 1 .. Len(l.probe) + 1
  PROVE  k[i] \in 0 .. Len(R) /\ Len(R) \in Nat
<1>. DEFINE n == Len(l.probe)
<1>0. n \in Nat /\ Len(R) \in Nat /\ k[1] = 0
  BY LenProperties DEF LadderFits
<1>1. \A j \in 1 .. n : RungFits(l.probe[j], R, k[j], k[j + 1])
  BY DEF LadderFits
<1>. HIDE DEF n
<1>2. CASE i = n + 1 /\ n # 0
  <2>1. n \in 1 .. n
    BY <1>0, <1>2
  <2>. QED BY <1>0, <1>1, <1>2, <2>1 DEF RungFits
<1>3. CASE i # n + 1
  <2>1. i \in 1 .. n
    BY <1>0, <1>3 DEF n
  <2>. QED BY <1>0, <1>1, <2>1 DEF RungFits
<1>4. CASE n = 0
  <2>1. i = 1
    BY <1>4 DEF n
  <2>. QED BY <1>0, <2>1
<1>. QED BY <1>2, <1>3, <1>4

\* No resource is acquired twice.
LEMMA RungOnce ==
  ASSUME NEW l, NEW R \in Seq(Names), Stacked(l, R),
         NEW a \in 1 .. Len(R), NEW b \in 1 .. Len(R), Rung(R, a) = Rung(R, b)
  PROVE  a = b
<1>1. Len(R) \in Nat
  BY LenProperties
<1>2. (Len(R) + 1) - a \in 1 .. Len(R) /\ (Len(R) + 1) - b \in 1 .. Len(R)
  BY <1>1
<1>3. (Len(R) + 1) - a = (Len(R) + 1) - b
  BY <1>2 DEF Stacked, Rung
<1>. QED BY <1>1, <1>3

\* A resource is a name.
LEMMA RungName ==
  ASSUME NEW R \in Seq(Names), NEW a \in 1 .. Len(R)
  PROVE  Rung(R, a) \in Names
<1>1. Len(R) \in Nat
  BY LenProperties
<1>2. (Len(R) + 1) - a \in 1 .. Len(R)
  BY <1>1
<1>. QED BY <1>2, ElementOfSeq DEF Rung

\* The next release is of the newest of the d resources.
LEMMA NextRelease ==
  ASSUME NEW R \in Seq(Names), NEW d \in 0 .. Len(R), TakesBack(todo, R, d)
  PROVE  /\ todo # << >> <=> d > 0
         /\ todo # << >> =>
              /\ Head(todo) = Rung(R, d)
              /\ TakesBack(Tail(todo), R, d - 1)
<1>0. Len(R) \in Nat /\ d \in Nat
  BY LenProperties
<1>1. todo \in Seq(Names) /\ Len(todo) = d
  BY DEF TakesBack
<1>2. todo # << >> <=> d > 0
  BY <1>0, <1>1, EmptySeq
<1>3. ASSUME todo # << >>
      PROVE  Head(todo) = Rung(R, d) /\ TakesBack(Tail(todo), R, d - 1)
  <2>. DEFINE t == Tail(todo)
  <2>0. d > 0
    BY <1>2, <1>3
  <2>1. /\ Head(todo) = todo[1]
        /\ t \in Seq(Names) /\ Len(t) = d - 1
        /\ \A j \in 1 .. d - 1 : t[j] = todo[j + 1]
    BY <1>0, <1>1, <1>3
  <2>2. Head(todo) = Rung(R, d)
    <3>1. 1 \in 1 .. d /\ (d + 1) - 1 = d
      BY <1>0, <2>0
    <3>2. todo[1] = Rung(R, (d + 1) - 1)
      BY <3>1 DEF TakesBack
    <3>. QED BY <2>1, <3>1, <3>2
  <2>. HIDE DEF t
  <2>3. ASSUME NEW j \in 1 .. d - 1 PROVE t[j] = Rung(R, ((d - 1) + 1) - j)
    <3>1. j + 1 \in 1 .. d /\ (d + 1) - (j + 1) = ((d - 1) + 1) - j
      BY <1>0, <2>0
    <3>2. todo[j + 1] = Rung(R, (d + 1) - (j + 1))
      BY <3>1 DEF TakesBack
    <3>. QED BY <2>1, <3>1, <3>2
  <2>4. TakesBack(t, R, d - 1)
    BY <2>1, <2>3 DEF TakesBack
  <2>. QED BY <2>2, <2>4 DEF t
<1>. QED BY <1>2, <1>3

\* To release what is not there changes nothing.
LEMMA WithoutNone ==
  ASSUME NEW h \in Seq(Names), NEW r, \A i \in 1 .. Len(h) : h[i] # r
  PROVE  Without(h, r) = h
<1>1. DOMAIN h = 1 .. Len(h)
  BY LenProperties
<1>. QED BY <1>1 DEF Without

\* To release the newest takes it off the end.
LEMMA WithoutLast ==
  ASSUME NEW h \in Seq(Names), NEW n \in Nat, Len(h) = n, n > 0,
         \A i \in 1 .. n : h[i] = h[n] => i = n
  PROVE  /\ Without(h, h[n]) \in Seq(Names) /\ Len(Without(h, h[n])) = n - 1
         /\ \A j \in 1 .. n - 1 : Without(h, h[n])[j] = h[j]
<1>1. DOMAIN h = 1 .. n /\ n \in 1 .. n
  BY LenProperties
<1>. DEFINE c == CHOOSE i \in DOMAIN h : h[i] = h[n]
            g == [j \in 1 .. n - 1 |-> IF j < c THEN h[j] ELSE h[j + 1]]
<1>2. c \in DOMAIN h /\ h[c] = h[n]
  BY <1>1
<1>3. c = n
  BY <1>1, <1>2
<1>4. Without(h, h[n]) = g
  BY <1>1 DEF Without
<1>. HIDE DEF c
<1>5. g = [j \in 1 .. n - 1 |-> h[j]]
  BY <1>3
<1>6. \A j \in 1 .. n - 1 : h[j] \in Names
  <2>1. \A j \in 1 .. n - 1 : j \in 1 .. Len(h)
    OBVIOUS
  <2>. QED BY <2>1, ElementOfSeq
<1>. HIDE DEF g
<1>7. g \in [1 .. n - 1 -> Names]
  BY <1>5, <1>6
<1>8. g \in Seq(Names) /\ Len(g) = n - 1
  BY <1>7
<1>. QED BY <1>4, <1>5, <1>8

\* Of the first d resources, the newest is released.
LEMMA FullRelease ==
  ASSUME NEW l, NEW R \in Seq(Names), Stacked(l, R), NEW d \in 1 .. Len(R),
         NEW h, Full(h, R, d)
  PROVE  /\ h[Len(h)] = Rung(R, d) /\ h # << >>
         /\ Full(Without(h, Rung(R, d)), R, d - 1)
<1>0. Len(R) \in Nat /\ d \in Nat /\ d > 0 /\ d \in 1 .. d
  BY LenProperties
<1>1. h \in Seq(Names) /\ Len(h) = d /\ h[d] = Rung(R, d)
  BY <1>0 DEF Full
<1>2. ASSUME NEW i \in 1 .. d, h[i] = h[d] PROVE i = d
  <2>1. h[i] = Rung(R, i) /\ i \in 1 .. Len(R)
    BY <1>0 DEF Full
  <2>. QED BY <1>1, <1>2, <2>1, RungOnce
<1>3. LET g == Without(h, h[d])
      IN  g \in Seq(Names) /\ Len(g) = d - 1 /\ \A j \in 1 .. d - 1 : g[j] = h[j]
  BY <1>0, <1>1, <1>2, WithoutLast
<1>4. \A j \in 1 .. d - 1 : h[j] = Rung(R, j)
  BY <1>0 DEF Full
<1>5. h # << >>
  BY <1>0, <1>1, EmptySeq
<1>. QED BY <1>1, <1>3, <1>4, <1>5 DEF Full

\* Of the first d resources without MSI, the newest is released, or MSI is
\* asked for and is not there.
LEMMA ShortRelease ==
  ASSUME NEW l, NEW R \in Seq(Names), Stacked(l, R), NEW d \in 1 .. Len(R),
         NEW m \in 1 .. d, NEW h, Short(h, R, d, m)
  PROVE  /\ \/ h # << >> /\ h[Len(h)] = Rung(R, d)
            \/ Rung(R, d) = "msi" /\ \A i \in 1 .. Len(h) : h[i] # "msi"
         /\ Stack(Without(h, Rung(R, d)), R, d - 1)
<1>0. Len(R) \in Nat /\ d \in Nat /\ d > 0 /\ m \in 1 .. Len(R)
  BY LenProperties
<1>1. h \in Seq(Names) /\ Len(h) = d - 1 /\ Rung(R, m) = "msi"
  BY DEF Short
<1>2. CASE m = d
  <2>1. \A i \in 1 .. d - 1 : h[i] = Rung(R, i)
    <3>1. \A i \in 1 .. d - 1 : i < m
      BY <1>0, <1>2
    <3>. QED BY <3>1 DEF Short
  <2>2. ASSUME NEW i \in 1 .. d - 1 PROVE h[i] # "msi"
    <3>1. i \in 1 .. Len(R) /\ i # m
      BY <1>0, <1>2
    <3>. QED BY <1>0, <1>1, <2>1, <3>1, RungOnce
  <2>3. Without(h, "msi") = h
    BY <1>1, <2>2, WithoutNone
  <2>4. Full(h, R, d - 1)
    BY <1>1, <2>1 DEF Full
  <2>. QED BY <1>1, <1>2, <2>2, <2>3, <2>4 DEF Stack
<1>3. CASE m # d
  <2>. DEFINE n == d - 1
              g == Without(h, h[n])
  <2>1. n \in Nat /\ n > 0 /\ n \in 1 .. n /\ ~(n < m) /\ n + 1 = d /\ m \in 1 .. n
    BY <1>0, <1>3
  <2>2. h[n] = Rung(R, d)
    <3>1. h[n] = Rung(R, IF n < m THEN n ELSE n + 1)
      BY <2>1 DEF Short
    <3>. QED BY <2>1, <3>1
  <2>3. ASSUME NEW i \in 1 .. n, h[i] = h[n] PROVE i = n
    <3>1. h[i] = Rung(R, IF i < m THEN i ELSE i + 1)
      BY DEF Short
    <3>2. (IF i < m THEN i ELSE i + 1) \in 1 .. Len(R)
      BY <1>0
    <3>. HIDE DEF n
    <3>3. (IF i < m THEN i ELSE i + 1) = d
      BY <2>2, <2>3, <3>1, <3>2, RungOnce
    <3>. QED BY <1>0, <2>1, <3>3
  <2>4. g \in Seq(Names) /\ Len(g) = n - 1 /\ \A j \in 1 .. n - 1 : g[j] = h[j]
    <3>1. Len(h) = n
      BY <1>1
    <3>. HIDE DEF n
    <3>. QED BY <1>1, <2>1, <2>3, <3>1, WithoutLast
  <2>5. \A j \in 1 .. n - 1 : g[j] = Rung(R, IF j < m THEN j ELSE j + 1)
    <3>1. \A j \in 1 .. n - 1 : j \in 1 .. d - 1
      BY <1>0, <2>1
    <3>. HIDE DEF n, g
    <3>. QED BY <2>4, <3>1 DEF Short
  <2>6. Short(g, R, d - 1, m)
    BY <1>1, <2>4, <2>5 DEF Short
  <2>7. h # << >>
    BY <1>1, <2>1, EmptySeq
  <2>8. Stack(g, R, d - 1)
    BY <2>1, <2>6 DEF Stack
  <2>. QED BY <1>1, <2>2, <2>7, <2>8
<1>. QED BY <1>2, <1>3

\* A sequence of one element.
LEMMA OneElement ==
  ASSUME NEW S, NEW x \in S
  PROVE  <<x>> \in Seq(S) /\ Len(<<x>>) = 1 /\ <<x>>[1] = x
  OBVIOUS

\* What is acquired next goes on top.
LEMMA StackGrows ==
  ASSUME NEW R \in Seq(Names), NEW d \in 0 .. Len(R), NEW h, Stack(h, R, d),
         d + 1 \in 0 .. Len(R)
  PROVE  Stack(h \o <<Rung(R, d + 1)>>, R, d + 1)
<1>. DEFINE x == Rung(R, d + 1)
            g == h \o <<x>>
<1>0. Len(R) \in Nat /\ d \in Nat /\ d + 1 \in 1 .. Len(R)
  BY LenProperties
<1>1. x \in Names /\ <<x>> \in Seq(Names) /\ Len(<<x>>) = 1 /\ <<x>>[1] = x
  <2>1. x \in Names
    BY <1>0, RungName
  <2>. HIDE DEF x
  <2>. QED BY <2>1, OneElement
<1>. HIDE DEF x
<1>2. ASSUME NEW n \in Nat, h \in Seq(Names), Len(h) = n
      PROVE  /\ g \in Seq(Names) /\ Len(g) = n + 1 /\ g[n + 1] = x
             /\ \A j \in 1 .. n : g[j] = h[j]
  <2>1. /\ g \in Seq(Names) /\ Len(g) = Len(h) + Len(<<x>>)
        /\ \A i \in 1 .. Len(h) + Len(<<x>>) :
             g[i] = IF i <= Len(h) THEN h[i] ELSE <<x>>[i - Len(h)]
    BY <1>1, <1>2, ConcatProperties
  <2>2. n + 1 \in 1 .. n + 1 /\ ~(n + 1 <= n) /\ (n + 1) - n = 1
    OBVIOUS
  <2>3. g[n + 1] = x
    BY <1>1, <1>2, <2>1, <2>2
  <2>4. \A j \in 1 .. n : g[j] = h[j]
    <3>1. \A j \in 1 .. n : j \in 1 .. n + 1 /\ j <= n
      OBVIOUS
    <3>. QED BY <1>1, <1>2, <2>1, <3>1
  <2>. QED BY <1>1, <1>2, <2>1, <2>3, <2>4
<1>. HIDE DEF g
<1>3. CASE Full(h, R, d)
  <2>1. h \in Seq(Names) /\ Len(h) = d /\ \A j \in 1 .. d : h[j] = Rung(R, j)
    BY <1>3 DEF Full
  <2>2. /\ g \in Seq(Names) /\ Len(g) = d + 1 /\ g[d + 1] = x
        /\ \A j \in 1 .. d : g[j] = h[j]
    BY <1>0, <1>2, <2>1
  <2>3. \A j \in 1 .. d + 1 : g[j] = Rung(R, j)
    <3>1. \A j \in 1 .. d + 1 : j \in 1 .. d \/ j = d + 1
      BY <1>0
    <3>. QED BY <2>1, <2>2, <3>1 DEF x
  <2>4. Full(g, R, d + 1)
    BY <2>2, <2>3 DEF Full
  <2>. QED BY <2>4 DEF Stack, g, x
<1>4. CASE \E m \in 1 .. d : Short(h, R, d, m)
  <2>0. PICK m \in 1 .. d : Short(h, R, d, m)
    BY <1>4
  <2>1. /\ h \in Seq(Names) /\ Len(h) = d - 1 /\ Rung(R, m) = "msi"
        /\ \A j \in 1 .. d - 1 : h[j] = Rung(R, IF j < m THEN j ELSE j + 1)
    BY <2>0 DEF Short
  <2>a. d - 1 \in Nat /\ (d - 1) + 1 = d /\ (d + 1) - 1 = d /\ m \in 1 .. d + 1
        /\ ~(d < m)
    BY <1>0, <2>0
  <2>2. /\ g \in Seq(Names) /\ Len(g) = d /\ g[d] = x
        /\ \A j \in 1 .. d - 1 : g[j] = h[j]
    BY <2>a, <1>2, <2>1
  <2>3. \A j \in 1 .. d : g[j] = Rung(R, IF j < m THEN j ELSE j + 1)
    <3>1. \A j \in 1 .. d : j \in 1 .. d - 1 \/ j = d
      BY <1>0
    <3>2. g[d] = Rung(R, IF d < m THEN d ELSE d + 1)
      BY <2>a, <2>2 DEF x
    <3>. QED BY <2>1, <2>2, <3>1, <3>2
  <2>4. Short(g, R, d + 1, m)
    BY <2>1, <2>2, <2>3, <2>a DEF Short
  <2>. QED BY <2>4, <2>a DEF Stack, g, x
<1>. QED BY <1>3, <1>4 DEF Stack

\* A refused MSI is passed over.
LEMMA StackSlips ==
  ASSUME NEW l, NEW R \in Seq(Names), Stacked(l, R), NEW d \in 0 .. Len(R),
         d + 1 \in 0 .. Len(R), NEW h, Stack(h, R, d), Rung(R, d + 1) = "msi"
  PROVE  Stack(h, R, d + 1)
<1>0. Len(R) \in Nat /\ d \in Nat /\ d + 1 \in 1 .. Len(R) /\ d + 1 \in 1 .. d + 1
      /\ (d + 1) - 1 = d
  BY LenProperties
<1>1. ASSUME NEW m \in 1 .. d, Short(h, R, d, m) PROVE FALSE
  <2>1. m \in 1 .. Len(R) /\ m # d + 1
    BY <1>0
  <2>. QED BY <1>0, <1>1, <2>1, RungOnce DEF Short
<1>2. Full(h, R, d)
  BY <1>1 DEF Stack
<1>3. \A j \in 1 .. d : h[j] = Rung(R, IF j < d + 1 THEN j ELSE j + 1)
  <2>1. \A j \in 1 .. d : j < d + 1
    BY <1>0
  <2>. QED BY <1>2, <2>1 DEF Full
<1>4. Short(h, R, d + 1, d + 1)
  BY <1>0, <1>2, <1>3 DEF Full, Short
<1>. QED BY <1>0, <1>4 DEF Stack

\* What is held are resources of the list, and all of them but MSI.
LEMMA HoldsStack ==
  ASSUME NEW R \in Seq(Names), NEW d \in 0 .. Len(R), Stack(held, R, d)
  PROVE  /\ \A x \in Holds : \E i \in 1 .. d : x = Rung(R, i)
         /\ \A i \in 1 .. d : Rung(R, i) # "msi" => Rung(R, i) \in Holds
<1>0. Len(R) \in Nat /\ d \in Nat
  BY LenProperties
<1>1. held \in Seq(Names) /\ DOMAIN held = 1 .. Len(held)
  BY LenProperties DEF Stack, Full, Short
<1>2. CASE Full(held, R, d)
  BY <1>1, <1>2 DEF Full, Holds
<1>3. CASE \E m \in 1 .. d : Short(held, R, d, m)
  <2>0. PICK m \in 1 .. d : Short(held, R, d, m)
    BY <1>3
  <2>1. /\ Rung(R, m) = "msi" /\ Len(held) = d - 1
        /\ \A j \in 1 .. d - 1 : held[j] = Rung(R, IF j < m THEN j ELSE j + 1)
    BY <2>0 DEF Short
  <2>2. \A j \in 1 .. d - 1 : (IF j < m THEN j ELSE j + 1) \in 1 .. d
    BY <1>0
  <2>3. \A x \in Holds : \E i \in 1 .. d : x = Rung(R, i)
    BY <1>1, <2>1, <2>2 DEF Holds
  <2>4. ASSUME NEW i \in 1 .. d, Rung(R, i) # "msi" PROVE Rung(R, i) \in Holds
    <3>1. i # m
      BY <2>1, <2>4
    <3>2. CASE i < m
      <4>1. i \in 1 .. d - 1
        BY <1>0, <3>2
      <4>. QED BY <1>1, <2>1, <3>2, <4>1 DEF Holds
    <3>3. CASE ~(i < m)
      <4>1. i - 1 \in 1 .. d - 1 /\ ~(i - 1 < m) /\ (i - 1) + 1 = i
        BY <1>0, <3>1, <3>3
      <4>2. held[i - 1] = Rung(R, i)
        BY <2>1, <4>1
      <4>. QED BY <1>1, <2>1, <4>1, <4>2 DEF Holds
    <3>. QED BY <3>2, <3>3
  <2>. QED BY <2>3, <2>4
<1>. QED BY <1>2, <1>3 DEF Stack

\* What a resource that is held stands on is held.
LEMMA StackStands ==
  ASSUME NEW R \in Seq(Names), NEW d \in 0 .. Len(R), Stack(held, R, d),
         NEW i \in 1 .. d, NEW x, StandsOn(R, (Len(R) + 1) - i, x)
  PROVE  x \in Holds
<1>0. Len(R) \in Nat
  BY LenProperties
<1>1. PICK j \in ((Len(R) + 1) - i) + 1 .. Len(R) : R[j] = x
  BY DEF StandsOn
<1>2. (Len(R) + 1) - j \in 1 .. d /\ (Len(R) + 1) - ((Len(R) + 1) - j) = j
  BY <1>0, <1>1
<1>3. Rung(R, (Len(R) + 1) - j) = x /\ x # "msi"
  BY <1>1, <1>2 DEF Rung, StandsOn
<1>. QED BY <1>2, <1>3, HoldsStack

\* The resources of a well-built ladder stand on each other.
LEMMA StackGrounded ==
  ASSUME NEW R \in Seq(Names), Stacked(Ladders[driver], R),
         NEW d \in 0 .. Len(R), Stack(held, R, d)
  PROVE  Grounded
<1>0. Len(R) \in Nat
  BY LenProperties
<1>1. ASSUME NEW x \in Holds
      PROVE  \E i \in 1 .. d : /\ x = R[(Len(R) + 1) - i]
                               /\ (Len(R) + 1) - i \in 1 .. Len(R)
  <2>1. PICK i \in 1 .. d : x = Rung(R, i)
    BY HoldsStack
  <2>2. (Len(R) + 1) - i \in 1 .. Len(R)
    BY <1>0
  <2>. QED BY <2>1, <2>2 DEF Rung
<1>2. ASSUME NEW p \in Rests, p[1] \in Holds PROVE p[2] \in Holds
  <2>1. PICK i \in 1 .. d : /\ p[1] = R[(Len(R) + 1) - i]
                            /\ (Len(R) + 1) - i \in 1 .. Len(R)
    BY <1>1, <1>2
  <2>2. StandsOn(R, (Len(R) + 1) - i, p[2])
    BY <2>1 DEF Stacked
  <2>. QED BY <2>2, StackStands
<1>3. ASSUME "irq" \in Holds, NEW x \in Ladders[driver].handler PROVE x \in Holds
  <2>1. PICK i \in 1 .. d : /\ "irq" = R[(Len(R) + 1) - i]
                            /\ (Len(R) + 1) - i \in 1 .. Len(R)
    BY <1>1, <1>3
  <2>2. StandsOn(R, (Len(R) + 1) - i, x)
    BY <1>3, <2>1 DEF Stacked
  <2>. QED BY <2>2, StackStands
<1>4. ASSUME "cdev" \in Holds, NEW x \in Ladders[driver].calls PROVE x \in Holds
  <2>1. PICK i \in 1 .. d : /\ "cdev" = R[(Len(R) + 1) - i]
                            /\ (Len(R) + 1) - i \in 1 .. Len(R)
    BY <1>1, <1>4
  <2>2. StandsOn(R, (Len(R) + 1) - i, x)
    BY <1>4, <2>1 DEF Stacked
  <2>. QED BY <2>2, StackStands
<1>. QED BY <1>2, <1>3, <1>4 DEF Grounded

-----------------------------------------------------------------------------
(***************************************************************************)
(* The steps.                                                              *)
(***************************************************************************)

\* The empty stack.
LEMMA StackEmpty ==
  ASSUME NEW R \in Seq(Names), NEW h
  PROVE  Stack(h, R, 0) <=> h = << >>
<1>1. << >> \in Seq(Names) /\ Len(<< >>) = 0
  BY EmptySeq
<1>2. Full(<< >>, R, 0)
  BY <1>1 DEF Full
<1>3. Full(h, R, 0) => h = << >>
  BY EmptySeq DEF Full
<1>. QED BY <1>2, <1>3 DEF Stack

\* A rung is climbed.
LEMMA AcquireInv ==
  ASSUME NEW R, NEW k, BuiltOver(Ladders[driver], R, k), PhaseInv(R, k), Acquire
  PROVE  PhaseInv(R, k)'
<1>. DEFINE l == Ladders[driver]
<1>0. LadderFits(l, R, k) /\ R \in Seq(Names)
  BY DEF BuiltOver, LadderFits
<1>1. /\ phase = "probe" /\ todo = << >> /\ NotPassed
      /\ at \in 1 .. Len(Probe) + 1 /\ Stack(held, R, k[at])
  BY DEF PhaseInv, Acquire
<1>2. /\ at <= Len(Probe) /\ Probe[at].ask # "left_out"
      /\ held' = held \o Probe[at].get /\ at' = at + 1
      /\ UNCHANGED <<driver, phase, todo>> /\ Probe' = Probe
  BY DEF Acquire, Probe
<1>3. Len(Probe) \in Nat /\ l.probe = Probe
  BY <1>0 DEF LadderFits, Probe
<1>4. at \in 1 .. Len(Probe) /\ at + 1 \in 1 .. Len(Probe) + 1
  BY <1>1, <1>2, <1>3
<1>5. RungFits(Probe[at], R, k[at], k[at + 1])
  BY <1>0, <1>3, <1>4 DEF LadderFits
<1>6. Stack(held', R, k[at + 1])
  <2>1. k[at] \in 0 .. Len(R) /\ k[at + 1] \in 0 .. Len(R)
    BY <1>5 DEF RungFits
  <2>2. CASE Probe[at].get = << >> /\ k[at + 1] = k[at]
    <3>1. held \in Seq(Names)
      BY <1>1 DEF Stack, Full, Short
    <3>2. held' = held
      BY <1>2, <2>2, <3>1, ConcatEmptySeq
    <3>. QED BY <1>1, <2>2, <3>2
  <2>3. CASE Probe[at].get = <<Rung(R, k[at] + 1)>> /\ k[at + 1] = k[at] + 1
    BY <1>0, <1>1, <1>2, <2>1, <2>3, StackGrows
  <2>. QED BY <1>5, <2>2, <2>3 DEF RungFits
<1>7. NotPassed'
  <2>1. \A i \in 1 .. (at + 1) - 1 : i \in 1 .. at - 1 \/ i = at
    BY <1>4
  <2>. QED BY <1>1, <1>2, <2>1 DEF NotPassed
<1>. QED BY <1>1, <1>2, <1>4, <1>6, <1>7 DEF PhaseInv

\* A rung fails.
LEMMA RefuseInv ==
  ASSUME NEW R, NEW k, BuiltOver(Ladders[driver], R, k), PhaseInv(R, k), Refuse
  PROVE  PhaseInv(R, k)'
<1>. DEFINE l == Ladders[driver]
<1>0. LadderFits(l, R, k) /\ R \in Seq(Names)
  BY DEF BuiltOver, LadderFits
<1>1. /\ phase = "probe" /\ todo = << >> /\ NotPassed
      /\ at \in 1 .. Len(Probe) + 1 /\ Stack(held, R, k[at])
  BY DEF PhaseInv, Refuse
<1>2. /\ at <= Len(Probe) /\ Probe[at].ask \in Refused \cup {"left_out"}
      /\ todo' = Probe[at].undo /\ phase' = Probe[at].then
      /\ UNCHANGED <<driver, at, held>> /\ Probe' = Probe
  BY DEF Refuse, Probe
<1>3. Len(Probe) \in Nat /\ l.probe = Probe
  BY <1>0 DEF LadderFits, Probe
<1>4. at \in 1 .. Len(Probe)
  BY <1>1, <1>2, <1>3
<1>5. RungFits(Probe[at], R, k[at], k[at + 1])
  BY <1>0, <1>3, <1>4 DEF LadderFits
<1>6. k[at] \in 0 .. Len(R)
  BY <1>5 DEF RungFits
<1>7. CASE Probe[at].then = "unwind" /\ TakesBack(Probe[at].undo, R, k[at])
  BY <1>1, <1>2, <1>6, <1>7 DEF PhaseInv
<1>8. CASE /\ Probe[at].then = "slip" /\ Probe[at].undo = << >>
           /\ Probe[at].get = <<"msi">> /\ Probe[at].ask # "left_out"
  <2>1. NotPassed'
    BY <1>1, <1>2 DEF NotPassed
  <2>. QED BY <1>1, <1>2, <1>4, <1>8, <2>1 DEF PhaseInv
<1>. QED BY <1>2, <1>5, <1>7, <1>8 DEF RungFits

\* The probe is at its end: it has passed every rung, so it has one that
\* remove undoes.
LEMMA ProbeEndInv ==
  ASSUME NEW R, NEW k, BuiltOver(Ladders[driver], R, k), PhaseInv(R, k), ProbeEnd
  PROVE  PhaseInv(R, k)'
<1>. DEFINE l == Ladders[driver]
<1>0. LadderFits(l, R, k)
  BY DEF BuiltOver
<1>1. /\ todo = << >> /\ NotPassed /\ Stack(held, R, k[at]) /\ at = Len(Probe) + 1
      /\ phase' = "bound" /\ UNCHANGED <<driver, at, todo, held>>
  BY DEF PhaseInv, ProbeEnd
<1>2. Len(Probe) \in Nat /\ l.probe = Probe /\ l.remove = Remove
  BY <1>0 DEF LadderFits, Probe, Remove
<1>3. \A i \in 1 .. Len(Probe) : i \in 1 .. at - 1
  BY <1>1, <1>2
<1>4. Remove = R /\ k[at] = Len(R)
  BY <1>0, <1>1, <1>2, <1>3 DEF LadderFits, NotPassed
<1>5. Remove' = Remove
  BY <1>1 DEF Remove
<1>. QED BY <1>1, <1>4, <1>5 DEF PhaseInv

\* remove begins, with everything held.
LEMMA RemoveBeginInv ==
  ASSUME NEW R, NEW k, BuiltOver(Ladders[driver], R, k), PhaseInv(R, k), RemoveBegin
  PROVE  PhaseInv(R, k)'
<1>0. R \in Seq(Names)
  BY DEF BuiltOver, LadderFits
<1>1. /\ Remove = R /\ Stack(held, R, Len(R))
      /\ phase' = "remove" /\ todo' = R /\ held' = held
  BY DEF PhaseInv, RemoveBegin
<1>2. Len(R) \in Nat
  BY <1>0, LenProperties
<1>3. TakesBack(R, R, Len(R))
  <2>1. \A j \in 1 .. Len(R) : (Len(R) + 1) - ((Len(R) + 1) - j) = j
    BY <1>2
  <2>. QED BY <1>0, <2>1 DEF TakesBack, Rung
<1>4. Len(R) \in 0 .. Len(R)
  BY <1>2
<1>. QED BY <1>1, <1>3, <1>4 DEF PhaseInv

\* The next release is of the newest, or of MSI that is not there, and what
\* is held stays a stack.
LEMMA StackReleases ==
  ASSUME NEW l, NEW R \in Seq(Names), Stacked(l, R), NEW d \in 0 .. Len(R),
         TakesBack(todo, R, d), Stack(held, R, d), todo # << >>
  PROVE  /\ LastFirst
         /\ d - 1 \in 0 .. Len(R)
         /\ TakesBack(Tail(todo), R, d - 1)
         /\ Stack(Without(held, Head(todo)), R, d - 1)
<1>1. d > 0 /\ Head(todo) = Rung(R, d) /\ TakesBack(Tail(todo), R, d - 1)
  BY NextRelease
<1>2. d \in 1 .. Len(R) /\ d - 1 \in 0 .. Len(R)
  BY <1>1, LenProperties
<1>3. held \in Seq(Names) /\ DOMAIN held = 1 .. Len(held)
  BY LenProperties DEF Stack, Full, Short
<1>4. /\ Stack(Without(held, Rung(R, d)), R, d - 1)
      /\ \/ held # << >> /\ held[Len(held)] = Rung(R, d)
         \/ Rung(R, d) = "msi" /\ \A i \in 1 .. Len(held) : held[i] # "msi"
  <2>1. CASE Full(held, R, d)
    BY <1>2, <2>1, FullRelease DEF Stack
  <2>2. CASE \E m \in 1 .. d : Short(held, R, d, m)
    BY <1>2, <2>2, ShortRelease
  <2>. QED BY <2>1, <2>2 DEF Stack
<1>5. LastFirst
  BY <1>1, <1>3, <1>4 DEF LastFirst, Holds
<1>. QED BY <1>1, <1>2, <1>4, <1>5

\* A resource is released.
LEMMA ReleaseInv ==
  ASSUME NEW R, NEW k, BuiltOver(Ladders[driver], R, k), PhaseInv(R, k), Release
  PROVE  PhaseInv(R, k)'
<1>0. R \in Seq(Names) /\ Stacked(Ladders[driver], R)
  BY DEF BuiltOver, LadderFits
<1>1. /\ todo # << >> /\ held' = Without(held, Head(todo)) /\ todo' = Tail(todo)
      /\ phase' = phase
  BY DEF Release
<1>2. /\ phase \in {"unwind", "remove"}
      /\ \E d \in 0 .. Len(R) : TakesBack(todo, R, d) /\ Stack(held, R, d)
  BY <1>1 DEF PhaseInv
<1>3. PICK d \in 0 .. Len(R) : TakesBack(todo, R, d) /\ Stack(held, R, d)
  BY <1>2
<1>4. /\ d - 1 \in 0 .. Len(R) /\ TakesBack(todo', R, d - 1)
      /\ Stack(held', R, d - 1)
  BY <1>0, <1>1, <1>3, StackReleases
<1>. QED BY <1>1, <1>2, <1>4 DEF PhaseInv

\* A list of releases is at its end.
LEMMA ReleaseEndInv ==
  ASSUME NEW R, NEW k, BuiltOver(Ladders[driver], R, k), PhaseInv(R, k), ReleaseEnd
  PROVE  PhaseInv(R, k)'
<1>. DEFINE l == Ladders[driver]
<1>0. R \in Seq(Names) /\ Stacked(l, R) /\ LadderFits(l, R, k)
  BY DEF BuiltOver, LadderFits
<1>1. CASE phase = "slip"
  <2>1. /\ todo = << >> /\ NotPassed
        /\ at \in 1 .. Len(Probe) /\ Stack(held, R, k[at])
        /\ Probe[at].get = <<"msi">> /\ Probe[at].ask # "left_out"
    BY <1>1 DEF PhaseInv
  <2>2. /\ phase' = "probe" /\ at' = at + 1 /\ UNCHANGED <<driver, todo, held>>
        /\ Probe' = Probe
    BY <1>1 DEF ReleaseEnd, Probe
  <2>3. Len(Probe) \in Nat /\ l.probe = Probe
    BY <1>0 DEF LadderFits, Probe
  <2>4. at + 1 \in 1 .. Len(Probe) + 1
    BY <2>1, <2>3
  <2>5. RungFits(Probe[at], R, k[at], k[at + 1])
    BY <1>0, <2>1, <2>3 DEF LadderFits
  <2>6. /\ k[at] \in 0 .. Len(R) /\ k[at + 1] \in 0 .. Len(R)
        /\ k[at + 1] = k[at] + 1 /\ <<"msi">> = <<Rung(R, k[at] + 1)>>
    BY <2>1, <2>5 DEF RungFits
  <2>7. Rung(R, k[at] + 1) = "msi"
    BY <2>6
  <2>8. Stack(held, R, k[at + 1])
    BY <1>0, <2>1, <2>6, <2>7, StackSlips
  <2>9. NotPassed'
    <3>1. \A i \in 1 .. (at + 1) - 1 : i \in 1 .. at - 1 \/ i = at
      BY <2>1, <2>3
    <3>. QED BY <2>1, <2>2, <3>1 DEF NotPassed
  <2>. QED BY <2>1, <2>2, <2>4, <2>8, <2>9 DEF PhaseInv
<1>2. CASE phase # "slip"
  <2>1. /\ phase \in {"unwind", "remove"} /\ todo = << >> /\ phase' = "unbound"
        /\ UNCHANGED <<todo, held>>
    BY <1>2 DEF ReleaseEnd
  <2>2. PICK d \in 0 .. Len(R) : TakesBack(todo, R, d) /\ Stack(held, R, d)
    BY <2>1 DEF PhaseInv
  <2>3. d = 0
    BY <1>0, <2>1, <2>2, NextRelease, LenProperties
  <2>4. held = << >>
    BY <1>0, <2>2, <2>3, StackEmpty
  <2>. QED BY <2>1, <2>4 DEF PhaseInv
<1>. QED BY <1>1, <1>2

\* An unbound device holds nothing.
LEMMA LadderInit ==
  ASSUME \A d \in Drivers : WellBuilt(Ladders[d]), Init
  PROVE  LadderInv
<1>1. PICK R, k : BuiltOver(Ladders[driver], R, k)
  BY DEF Init, WellBuilt
<1>2. PhaseInv(R, k)
  BY DEF Init, PhaseInv
<1>. QED BY <1>1, <1>2 DEF LadderInv

\* Every call keeps what is held a stack.
LEMMA LadderNext == LadderInv /\ [Next]_vars => LadderInv'
<1>. SUFFICES ASSUME LadderInv, [Next]_vars PROVE LadderInv'
  OBVIOUS
<1>1. PICK R, k : BuiltOver(Ladders[driver], R, k) /\ PhaseInv(R, k)
  BY DEF LadderInv
<1>2. driver' = driver
  BY DEF Next, ProbeBegin, Acquire, Refuse, ProbeEnd, RemoveBegin, Release,
         ReleaseEnd, vars
<1>3. BuiltOver(Ladders[driver], R, k)'
  BY <1>1, <1>2
<1>4. PhaseInv(R, k)'
  <2>1. CASE ProbeBegin
    <3>1. LadderFits(Ladders[driver], R, k) /\ R \in Seq(Names)
      BY <1>1 DEF BuiltOver, LadderFits
    <3>2. /\ todo' = << >> /\ held' = << >> /\ at' = 1 /\ phase' = "probe"
          /\ Probe' = Probe
      BY <1>1, <2>1 DEF PhaseInv, ProbeBegin, Probe
    <3>3. Len(Probe) \in Nat /\ k[1] = 0
      BY <3>1 DEF LadderFits, Probe
    <3>4. 1 \in 1 .. Len(Probe) + 1 /\ ~(\E i \in 1 .. 1 - 1 : TRUE)
      BY <3>3
    <3>5. Stack(held', R, k[at'])
      BY <3>1, <3>2, <3>3, StackEmpty
    <3>. QED BY <3>2, <3>4, <3>5 DEF PhaseInv, NotPassed
  <2>2. CASE Acquire \/ Refuse \/ ProbeEnd \/ RemoveBegin \/ Release \/ ReleaseEnd
    BY <1>1, <2>2, AcquireInv, RefuseInv, ProbeEndInv, RemoveBeginInv, ReleaseInv,
       ReleaseEndInv
  <2>3. CASE UNCHANGED vars
    BY <1>1, <2>3 DEF vars, PhaseInv, NotPassed, Probe, Remove
  <2>. QED BY <2>1, <2>2, <2>3 DEF Next
<1>. QED BY <1>3, <1>4 DEF LadderInv

\* What the invariant says of the calls and of what is held.
LEMMA LadderProps == LadderInv => LastFirst /\ NothingLeft /\ Grounded
<1>. SUFFICES ASSUME LadderInv PROVE LastFirst /\ NothingLeft /\ Grounded
  OBVIOUS
<1>1. PICK R, k : BuiltOver(Ladders[driver], R, k) /\ PhaseInv(R, k)
  BY DEF LadderInv
<1>2. /\ R \in Seq(Names) /\ Stacked(Ladders[driver], R)
      /\ LadderFits(Ladders[driver], R, k) /\ Len(R) \in Nat
  BY <1>1, LenProperties DEF BuiltOver, LadderFits
<1>3. NothingLeft
  BY <1>1 DEF PhaseInv, NothingLeft
<1>4. LastFirst
  <2>. SUFFICES ASSUME todo # << >> PROVE LastFirst
    BY DEF LastFirst
  <2>1. PICK d \in 0 .. Len(R) : TakesBack(todo, R, d) /\ Stack(held, R, d)
    BY <1>1 DEF PhaseInv
  <2>. QED BY <1>2, <2>1, StackReleases
<1>5. Grounded
  <2>1. \E d \in 0 .. Len(R) : Stack(held, R, d)
    <3>1. CASE phase = "unbound"
      <4>1. 0 \in 0 .. Len(R) /\ Stack(held, R, 0)
        BY <1>1, <1>2, <3>1, StackEmpty DEF PhaseInv
      <4>. QED BY <4>1
    <3>2. CASE phase \in {"probe", "slip"}
      <4>1. at \in 1 .. Len(Probe) + 1 /\ Stack(held, R, k[at])
        <5>1. Len(Probe) \in Nat
          BY <1>2 DEF LadderFits, Probe
        <5>. QED BY <1>1, <3>2, <5>1 DEF PhaseInv
      <4>2. k[at] \in 0 .. Len(R)
        BY <1>2, <4>1, DepthType DEF Probe
      <4>. QED BY <4>1, <4>2
    <3>3. CASE phase = "bound"
      <4>1. Len(R) \in 0 .. Len(R) /\ Stack(held, R, Len(R))
        BY <1>1, <1>2, <3>3 DEF PhaseInv
      <4>. QED BY <4>1
    <3>4. CASE phase \in {"unwind", "remove"}
      BY <1>1, <3>4 DEF PhaseInv
    <3>. QED BY <1>1, <3>1, <3>2, <3>3, <3>4 DEF PhaseInv
  <2>. QED BY <1>2, <2>1, StackGrounded
<1>. QED BY <1>3, <1>4, <1>5

-----------------------------------------------------------------------------
(***************************************************************************)
(* How ladders are built from parts.  A part P of a probe fits over R from *)
(* depth a to depth b if its rungs do and its undo lists take back what    *)
(* was acquired above depth c: the rest is up to its caller.               *)
(***************************************************************************)

\* The list u takes back the resources from the k-th down to the one above c.
TakesDown(u, R, c, k) ==
  /\ u \in Seq(Names) /\ Len(u) = k - c
  /\ \A j \in 1 .. k - c : u[j] = Rung(R, (k + 1) - j)

RungOver(r, R, c, k, n) ==
  /\ k \in c .. Len(R) /\ n \in c .. Len(R)
  /\ \/ r.get = << >> /\ n = k
     \/ r.get = <<Rung(R, k + 1)>> /\ n = k + 1
  /\ r.ask \in Refused \cup {"left_out"} =>
       \/ r.then = "unwind" /\ TakesDown(r.undo, R, c, k)
       \/ /\ r.then = "slip" /\ r.undo = << >>
          /\ r.get = <<"msi">> /\ r.ask # "left_out"

RungSet == [get : Seq(Names), ask : Names, undo : Seq(Names), then : {"unwind", "slip"}]

Climbs(P, R, c, k) ==
  \A i \in 1 .. Len(P) : RungOver(P[i], R, c, k[i], k[i + 1])

Part(P, R, c, a, b) ==
  /\ P \in Seq(RungSet)
  /\ \E k : k[1] = a /\ k[Len(P) + 1] = b /\ Climbs(P, R, c, k)

\* One list of releases after another.
LEMMA DownConcat ==
  ASSUME NEW R, NEW a \in Nat, NEW b \in Nat, NEW k \in Nat, a <= b, b <= k,
         NEW s, TakesDown(s, R, b, k), NEW t, TakesDown(t, R, a, b)
  PROVE  TakesDown(s \o t, R, a, k)
<1>. DEFINE u == s \o t
<1>1. /\ s \in Seq(Names) /\ Len(s) = k - b /\ t \in Seq(Names) /\ Len(t) = b - a
      /\ \A j \in 1 .. k - b : s[j] = Rung(R, (k + 1) - j)
      /\ \A j \in 1 .. b - a : t[j] = Rung(R, (b + 1) - j)
  BY DEF TakesDown
<1>2. /\ u \in Seq(Names) /\ Len(u) = Len(s) + Len(t)
      /\ \A i \in 1 .. Len(s) + Len(t) :
           u[i] = IF i <= Len(s) THEN s[i] ELSE t[i - Len(s)]
  BY <1>1, ConcatProperties
<1>. HIDE DEF u
<1>3. Len(u) = k - a
  BY <1>1, <1>2
<1>4. ASSUME NEW j \in 1 .. k - a PROVE u[j] = Rung(R, (k + 1) - j)
  <2>1. CASE j <= k - b
    <3>1. j \in 1 .. k - b /\ j \in 1 .. Len(s) + Len(t)
      BY <1>1, <2>1
    <3>. QED BY <1>1, <1>2, <2>1, <3>1
  <2>2. CASE ~(j <= k - b)
    <3>1. /\ j - (k - b) \in 1 .. b - a /\ j \in 1 .. Len(s) + Len(t)
          /\ (b + 1) - (j - (k - b)) = (k + 1) - j
      BY <1>1, <2>2
    <3>. QED BY <1>1, <1>2, <2>2, <3>1
  <2>. QED BY <2>1, <2>2
<1>5. TakesDown(u, R, a, k)
  BY <1>2, <1>3, <1>4 DEF TakesDown
<1>. QED BY <1>5 DEF u

\* One part of a probe after another.
LEMMA PartConcat ==
  ASSUME NEW R, NEW c, NEW a, NEW b, NEW d,
         NEW P, Part(P, R, c, a, b), NEW Q, Part(Q, R, c, b, d)
  PROVE  Part(P \o Q, R, c, a, d)
<1>. DEFINE n == Len(P)
            m == Len(Q)
            W == P \o Q
<1>1. P \in Seq(RungSet) /\ Q \in Seq(RungSet) /\ n \in Nat /\ m \in Nat
  BY LenProperties DEF Part
<1>2. PICK k : k[1] = a /\ k[n + 1] = b /\ Climbs(P, R, c, k)
  BY DEF Part
<1>3. PICK q : q[1] = b /\ q[m + 1] = d /\ Climbs(Q, R, c, q)
  BY DEF Part
<1>4. /\ W \in Seq(RungSet) /\ Len(W) = n + m
      /\ \A i \in 1 .. n + m : W[i] = IF i <= n THEN P[i] ELSE Q[i - n]
  BY <1>1, ConcatProperties
<1>5. \A i \in 1 .. n : RungOver(P[i], R, c, k[i], k[i + 1])
  BY <1>2 DEF Climbs
<1>6. \A i \in 1 .. m : RungOver(Q[i], R, c, q[i], q[i + 1])
  BY <1>3 DEF Climbs
<1>. DEFINE f == [i \in 1 .. (n + m) + 1 |-> IF i <= n THEN k[i] ELSE q[i - n]]
<1>. HIDE DEF n, m, W
<1>7. f[1] = a
  <2>1. CASE n = 0
    <3>1. 1 \in 1 .. (n + m) + 1 /\ ~(1 <= n) /\ 1 - n = 1 /\ n + 1 = 1
      BY <1>1, <2>1
    <3>. QED BY <1>2, <1>3, <3>1
  <2>2. CASE n # 0
    <3>1. 1 \in 1 .. (n + m) + 1 /\ 1 <= n
      BY <1>1, <2>2
    <3>. QED BY <1>2, <3>1
  <2>. QED BY <2>1, <2>2
<1>8. f[(n + m) + 1] = d
  <2>1. /\ (n + m) + 1 \in 1 .. (n + m) + 1 /\ ~((n + m) + 1 <= n)
        /\ ((n + m) + 1) - n = m + 1
    BY <1>1
  <2>. QED BY <1>3, <2>1
<1>9. ASSUME NEW i \in 1 .. n + m PROVE RungOver(W[i], R, c, f[i], f[i + 1])
  <2>0. i \in 1 .. (n + m) + 1 /\ i + 1 \in 1 .. (n + m) + 1
    BY <1>1
  <2>1. CASE i < n
    <3>1. i \in 1 .. n /\ i <= n /\ i + 1 <= n
      BY <1>1, <2>1
    <3>2. W[i] = P[i] /\ f[i] = k[i] /\ f[i + 1] = k[i + 1]
      BY <1>4, <2>0, <3>1
    <3>. QED BY <1>5, <3>1, <3>2
  <2>2. CASE i = n
    <3>1. i \in 1 .. n /\ i <= n /\ ~(i + 1 <= n) /\ (i + 1) - n = 1
      BY <1>1, <2>2
    <3>2. W[i] = P[i] /\ f[i] = k[i] /\ f[i + 1] = q[1]
      BY <1>4, <2>0, <3>1
    <3>3. f[i + 1] = k[i + 1]
      BY <1>2, <1>3, <2>2, <3>2
    <3>. QED BY <1>5, <3>1, <3>2, <3>3
  <2>3. CASE i > n
    <3>1. /\ i - n \in 1 .. m /\ ~(i <= n) /\ ~(i + 1 <= n)
          /\ (i + 1) - n = (i - n) + 1
      BY <1>1, <2>3
    <3>2. W[i] = Q[i - n] /\ f[i] = q[i - n] /\ f[i + 1] = q[(i - n) + 1]
      BY <1>4, <2>0, <3>1
    <3>. QED BY <1>6, <3>1, <3>2
  <2>. QED BY <1>1, <2>1, <2>2, <2>3
<1>. HIDE DEF f
<1>10. Climbs(W, R, c, f)
  BY <1>4, <1>9 DEF Climbs
<1>11. Part(W, R, c, a, d)
  BY <1>4, <1>7, <1>8, <1>10 DEF Part
<1>. QED BY <1>11 DEF W

\* A part called by a function that undoes what is below it.
LEMMA PartWithin ==
  ASSUME NEW R, NEW c \in Nat, Len(R) \in Nat, NEW a, NEW b,
         NEW P, Part(P, R, c, a, b), NEW u, TakesDown(u, R, 0, c)
  PROVE  Part(Within(P, u), R, 0, a, b)
<1>. DEFINE n == Len(P)
            W == Within(P, u)
<1>1. P \in Seq(RungSet) /\ n \in Nat /\ DOMAIN P = 1 .. n /\ u \in Seq(Names)
  BY LenProperties DEF Part, TakesDown
<1>2. PICK k : k[1] = a /\ k[n + 1] = b /\ Climbs(P, R, c, k)
  BY DEF Part
<1>3. ASSUME NEW i \in 1 .. n
      PROVE  /\ P[i] \in RungSet
             /\ W[i] = [get |-> P[i].get, ask |-> P[i].ask, then |-> P[i].then,
                        undo |-> IF P[i].then = "unwind" THEN P[i].undo \o u
                                                         ELSE P[i].undo]
  <2>1. P[i] \in RungSet
    BY <1>1, ElementOfSeq
  <2>. QED BY <1>1, <2>1 DEF Within
<1>4. ASSUME NEW i \in 1 .. n PROVE W[i] \in RungSet
  <2>. DEFINE r == P[i]
              v == r.undo \o u
              x == IF r.then = "unwind" THEN v ELSE r.undo
  <2>1. /\ r.get \in Seq(Names) /\ r.ask \in Names /\ r.then \in {"unwind", "slip"}
        /\ r.undo \in Seq(Names)
    BY <1>3 DEF RungSet
  <2>2. v \in Seq(Names)
    BY <1>1, <2>1, ConcatProperties
  <2>3. x \in Seq(Names)
    BY <2>1, <2>2
  <2>4. W[i] = [get |-> r.get, ask |-> r.ask, then |-> r.then, undo |-> x]
    BY <1>3
  <2>. HIDE DEF r, x, W
  <2>. QED BY <2>1, <2>3, <2>4 DEF RungSet
<1>5. W \in Seq(RungSet) /\ Len(W) = n
  <2>1. W \in [1 .. n -> RungSet]
    BY <1>1, <1>4 DEF Within
  <2>. HIDE DEF W, n
  <2>. QED BY <1>1, <2>1
<1>6. ASSUME NEW i \in 1 .. n PROVE RungOver(W[i], R, 0, k[i], k[i + 1])
  <2>. DEFINE v == P[i].undo \o u
              w == W[i]
  <2>1. RungOver(P[i], R, c, k[i], k[i + 1])
    BY <1>2 DEF Climbs
  <2>2. /\ w.get = P[i].get /\ w.ask = P[i].ask /\ w.then = P[i].then
        /\ w.then = "unwind" => w.undo = v
        /\ w.then # "unwind" => w.undo = P[i].undo
    <3>. DEFINE x == IF P[i].then = "unwind" THEN v ELSE P[i].undo
    <3>1. w = [get |-> P[i].get, ask |-> P[i].ask, then |-> P[i].then, undo |-> x]
      BY <1>3
    <3>2. /\ P[i].then = "unwind" => x = v
          /\ P[i].then # "unwind" => x = P[i].undo
      OBVIOUS
    <3>. HIDE DEF w, x, v
    <3>. QED BY <3>1, <3>2
  <2>. HIDE DEF w
  <2>3. k[i] \in c .. Len(R) /\ k[i] \in 0 .. Len(R) /\ k[i + 1] \in 0 .. Len(R)
    BY <2>1 DEF RungOver
  <2>4. TakesDown(P[i].undo, R, c, k[i]) => TakesDown(v, R, 0, k[i])
    <3>1. 0 \in Nat /\ k[i] \in Nat /\ 0 <= c /\ c <= k[i]
      BY <2>3
    <3>. QED BY <3>1, DownConcat
  <2>. HIDE DEF v
  <2>5. RungOver(w, R, 0, k[i], k[i + 1])
    BY <2>1, <2>2, <2>3, <2>4 DEF RungOver
  <2>. QED BY <2>5 DEF w
<1>. HIDE DEF W, n
<1>7. Climbs(W, R, 0, k)
  BY <1>5, <1>6 DEF Climbs
<1>8. Part(W, R, 0, a, b)
  BY <1>2, <1>5, <1>7 DEF Part
<1>. QED BY <1>8 DEF W

\* A probe whose parts fit, with a list of releases for all of it.
LEMMA PartsFit ==
  ASSUME NEW l, NEW R \in Seq(Names), NEW b, Part(l.probe, R, 0, 0, b),
         \/ l.remove = R /\ b = Len(R)
         \/ \E i \in 1 .. Len(l.probe) : l.probe[i].ask = "left_out",
         Stacked(l, R)
  PROVE  WellBuilt(l)
<1>1. PICK k : k[1] = 0 /\ k[Len(l.probe) + 1] = b /\ Climbs(l.probe, R, 0, k)
  BY DEF Part
<1>2. Len(l.probe) \in Nat /\ Len(R) \in Nat
  BY LenProperties DEF Part
<1>3. ASSUME NEW i \in 1 .. Len(l.probe)
      PROVE  RungFits(l.probe[i], R, k[i], k[i + 1])
  <2>1. RungOver(l.probe[i], R, 0, k[i], k[i + 1])
    BY <1>1 DEF Climbs
  <2>. DEFINE u == l.probe[i].undo
  <2>2. k[i] \in 0 .. Len(R) /\ k[i] - 0 = k[i]
    BY <1>2, <2>1 DEF RungOver
  <2>3. TakesDown(u, R, 0, k[i]) => TakesBack(u, R, k[i])
    BY <2>2 DEF TakesDown, TakesBack
  <2>. QED BY <2>1, <2>3 DEF RungOver, RungFits
<1>4. LadderFits(l, R, k)
  BY <1>1, <1>2, <1>3 DEF LadderFits
<1>. QED BY <1>4 DEF WellBuilt, BuiltOver

-----------------------------------------------------------------------------
(***************************************************************************)
(* The parts of the drivers.                                               *)
(***************************************************************************)

\* A rung is made of these.
LEMMA RungMade ==
  ASSUME NEW g \in Seq(Names), NEW a \in Names, NEW u \in Seq(Names),
         NEW n \in {"unwind", "slip"}
  PROVE  [get |-> g, ask |-> a, undo |-> u, then |-> n] \in RungSet
BY DEF RungSet

\* The kinds of rungs, at depth k.
LEMMA TryFits ==
  ASSUME NEW R, NEW c \in Nat, NEW k \in Nat, c <= k, k + 1 <= Len(R), Len(R) \in Nat,
         NEW r \in Names, r = Rung(R, k + 1), NEW u, TakesDown(u, R, c, k)
  PROVE  RungOver(Try(r, u), R, c, k, k + 1) /\ Try(r, u) \in RungSet
<1>. DEFINE t == Try(r, u)
<1>1. t.get = <<r>> /\ t.ask = r /\ t.undo = u /\ t.then = "unwind"
  BY DEF Try
<1>2. k \in c .. Len(R) /\ k + 1 \in c .. Len(R)
  OBVIOUS
<1>3. <<r>> \in Seq(Names) /\ u \in Seq(Names)
  BY DEF TakesDown
<1>4. t \in RungSet
  BY <1>3, RungMade DEF Try
<1>. HIDE DEF t
<1>5. RungOver(t, R, c, k, k + 1)
  BY <1>1, <1>2 DEF RungOver
<1>. QED BY <1>4, <1>5 DEF t

\* A test acquires nothing.
LEMMA TestFits ==
  ASSUME NEW R, NEW c \in Nat, NEW k \in Nat, c <= k, k <= Len(R), Len(R) \in Nat,
         NEW r \in Names, NEW u, TakesDown(u, R, c, k)
  PROVE  RungOver(Test(r, u), R, c, k, k) /\ Test(r, u) \in RungSet
<1>. DEFINE t == Test(r, u)
<1>1. t.get = << >> /\ t.ask = r /\ t.undo = u /\ t.then = "unwind"
  BY DEF Test
<1>2. k \in c .. Len(R)
  OBVIOUS
<1>3. << >> \in Seq(Names) /\ u \in Seq(Names)
  BY DEF TakesDown
<1>4. t \in RungSet
  BY <1>3, RungMade DEF Test
<1>. HIDE DEF t
<1>5. RungOver(t, R, c, k, k)
  BY <1>1, <1>2 DEF RungOver
<1>. QED BY <1>4, <1>5 DEF t

\* What cannot be refused needs no undo list.
LEMMA DoFits ==
  ASSUME NEW R, NEW c \in Nat, NEW k \in Nat, c <= k, k + 1 <= Len(R), Len(R) \in Nat,
         NEW r \in Names, r = Rung(R, k + 1)
  PROVE  RungOver(Do(r), R, c, k, k + 1) /\ Do(r) \in RungSet
<1>. DEFINE t == Do(r)
<1>1. t.get = <<r>> /\ t.ask = "nothing"
  BY DEF Do
<1>2. k \in c .. Len(R) /\ k + 1 \in c .. Len(R)
  OBVIOUS
<1>3. <<r>> \in Seq(Names) /\ << >> \in Seq(Names)
  OBVIOUS
<1>4. t \in RungSet
  BY <1>3, RungMade DEF Do, Names
<1>. HIDE DEF t
<1>5. t.ask \notin Refused \cup {"left_out"}
  BY <1>1, LadderAssumption
<1>6. RungOver(t, R, c, k, k + 1)
  BY <1>1, <1>2, <1>5 DEF RungOver
<1>. QED BY <1>4, <1>6 DEF t

\* A slip over a resource that is not refused is not taken.
LEMMA SlipFits ==
  ASSUME NEW R, NEW c \in Nat, NEW k \in Nat, c <= k, k + 1 <= Len(R), Len(R) \in Nat,
         NEW r \in Names, r = Rung(R, k + 1), r # "left_out",
         r \notin Refused, NEW u \in Seq(Names)
  PROVE  RungOver(Slip(r, u), R, c, k, k + 1) /\ Slip(r, u) \in RungSet
<1>. DEFINE t == Slip(r, u)
<1>1. t.get = <<r>> /\ t.ask = r /\ t.undo = u /\ t.then = "slip"
  BY DEF Slip
<1>2. k \in c .. Len(R) /\ k + 1 \in c .. Len(R)
  OBVIOUS
<1>3. <<r>> \in Seq(Names)
  OBVIOUS
<1>4. t \in RungSet
  BY <1>3, RungMade DEF Slip
<1>. HIDE DEF t
<1>5. RungOver(t, R, c, k, k + 1)
  BY <1>1, <1>2 DEF RungOver
<1>. QED BY <1>4, <1>5 DEF t

\* A probe goes on without MSI.
LEMMA MsiFits ==
  ASSUME NEW R, NEW c \in Nat, NEW k \in Nat, c <= k, k + 1 <= Len(R), Len(R) \in Nat,
         Rung(R, k + 1) = "msi"
  PROVE  RungOver(Slip("msi", << >>), R, c, k, k + 1) /\ Slip("msi", << >>) \in RungSet
<1>. DEFINE t == Slip("msi", << >>)
<1>1. t.get = <<"msi">> /\ t.ask = "msi" /\ t.undo = << >> /\ t.then = "slip"
  BY DEF Slip
<1>2. k \in c .. Len(R) /\ k + 1 \in c .. Len(R)
  OBVIOUS
<1>3. <<"msi">> \in Seq(Names) /\ << >> \in Seq(Names) /\ "msi" \in Names
  BY DEF Names
<1>4. t \in RungSet
  BY <1>3, RungMade DEF Slip
<1>. HIDE DEF t
<1>5. RungOver(t, R, c, k, k + 1)
  BY <1>1, <1>2 DEF RungOver
<1>. QED BY <1>4, <1>5 DEF t

\* A call that is left out has acquired nothing of its own.
LEMMA GiveUpFits ==
  ASSUME NEW R, NEW k \in Nat, k <= Len(R), Len(R) \in Nat
  PROVE  RungOver(GiveUp, R, k, k, k) /\ GiveUp \in RungSet
<1>1. GiveUp.get = << >> /\ GiveUp.undo = << >> /\ GiveUp.then = "unwind"
  BY DEF GiveUp
<1>2. k \in k .. Len(R) /\ k - k = 0
  OBVIOUS
<1>3. << >> \in Seq(Names) /\ Len(<< >>) = 0
  OBVIOUS
<1>4. GiveUp \in RungSet
  BY <1>3, RungMade DEF GiveUp, Names
<1>5. TakesDown(<< >>, R, k, k)
  BY <1>2, <1>3 DEF TakesDown
<1>6. RungOver(GiveUp, R, k, k, k)
  BY <1>1, <1>2, <1>5 DEF RungOver
<1>. QED BY <1>4, <1>6

\* A tuple of rungs is a part if each of them fits where the one before it ends.
LEMMA PartOf1 ==
  ASSUME NEW R, NEW c, NEW a, NEW b, NEW r \in RungSet, RungOver(r, R, c, a, b)
  PROVE  Part(<<r>>, R, c, a, b)
<1>. DEFINE P == <<r>>
            k == <<a, b>>
<1>1. P \in Seq(RungSet) /\ Len(P) = 1
  OBVIOUS
<1>2. k[1] = a /\ k[1 + 1] = b
  OBVIOUS
<1>3. ASSUME NEW i \in 1 .. 1 PROVE RungOver(P[i], R, c, k[i], k[i + 1])
  OBVIOUS
<1>. HIDE DEF P, k
<1>4. Part(P, R, c, a, b)
  BY <1>1, <1>2, <1>3 DEF Part, Climbs
<1>. QED BY <1>4 DEF P

\* The same for two rungs,
LEMMA PartOf2 ==
  ASSUME NEW R, NEW c, NEW a, NEW b, NEW k1,
         NEW r1 \in RungSet, NEW r2 \in RungSet,
         RungOver(r1, R, c, a, k1), RungOver(r2, R, c, k1, b)
  PROVE  Part(<<r1, r2>>, R, c, a, b)
<1>. DEFINE P == <<r1, r2>>
            k == <<a, k1, b>>
<1>1. P \in Seq(RungSet) /\ Len(P) = 2
  OBVIOUS
<1>2. k[1] = a /\ k[2 + 1] = b
  OBVIOUS
<1>3. ASSUME NEW i \in 1 .. 2 PROVE RungOver(P[i], R, c, k[i], k[i + 1])
  OBVIOUS
<1>. HIDE DEF P, k
<1>4. Part(P, R, c, a, b)
  BY <1>1, <1>2, <1>3 DEF Part, Climbs
<1>. QED BY <1>4 DEF P

\* for four,
LEMMA PartOf4 ==
  ASSUME NEW R, NEW c, NEW a, NEW b, NEW k1, NEW k2, NEW k3,
         NEW r1 \in RungSet, NEW r2 \in RungSet, NEW r3 \in RungSet, NEW r4 \in RungSet,
         RungOver(r1, R, c, a, k1), RungOver(r2, R, c, k1, k2),
         RungOver(r3, R, c, k2, k3), RungOver(r4, R, c, k3, b)
  PROVE  Part(<<r1, r2, r3, r4>>, R, c, a, b)
<1>. DEFINE P == <<r1, r2, r3, r4>>
            k == <<a, k1, k2, k3, b>>
<1>1. P \in Seq(RungSet) /\ Len(P) = 4
  OBVIOUS
<1>2. k[1] = a /\ k[4 + 1] = b
  OBVIOUS
<1>3. ASSUME NEW i \in 1 .. 4 PROVE RungOver(P[i], R, c, k[i], k[i + 1])
  OBVIOUS
<1>. HIDE DEF P, k
<1>4. Part(P, R, c, a, b)
  BY <1>1, <1>2, <1>3 DEF Part, Climbs
<1>. QED BY <1>4 DEF P

\* for six,
LEMMA PartOf6 ==
  ASSUME NEW R, NEW c, NEW a, NEW b, NEW k1, NEW k2, NEW k3, NEW k4, NEW k5,
         NEW r1 \in RungSet, NEW r2 \in RungSet, NEW r3 \in RungSet, NEW r4 \in RungSet,
         NEW r5 \in RungSet, NEW r6 \in RungSet,
         RungOver(r1, R, c, a, k1), RungOver(r2, R, c, k1, k2),
         RungOver(r3, R, c, k2, k3), RungOver(r4, R, c, k3, k4),
         RungOver(r5, R, c, k4, k5), RungOver(r6, R, c, k5, b)
  PROVE  Part(<<r1, r2, r3, r4, r5, r6>>, R, c, a, b)
<1>. DEFINE P == <<r1, r2, r3, r4, r5, r6>>
            k == <<a, k1, k2, k3, k4, k5, b>>
<1>1. P \in Seq(RungSet) /\ Len(P) = 6
  OBVIOUS
<1>2. k[1] = a /\ k[6 + 1] = b
  OBVIOUS
<1>3. ASSUME NEW i \in 1 .. 6 PROVE RungOver(P[i], R, c, k[i], k[i + 1])
  OBVIOUS
<1>. HIDE DEF P, k
<1>4. Part(P, R, c, a, b)
  BY <1>1, <1>2, <1>3 DEF Part, Climbs
<1>. QED BY <1>4 DEF P

\* and for seven.
LEMMA PartOf7 ==
  ASSUME NEW R, NEW c, NEW a, NEW b, NEW k1, NEW k2, NEW k3, NEW k4, NEW k5, NEW k6,
         NEW r1 \in RungSet, NEW r2 \in RungSet, NEW r3 \in RungSet, NEW r4 \in RungSet,
         NEW r5 \in RungSet, NEW r6 \in RungSet, NEW r7 \in RungSet,
         RungOver(r1, R, c, a, k1), RungOver(r2, R, c, k1, k2),
         RungOver(r3, R, c, k2, k3), RungOver(r4, R, c, k3, k4),
         RungOver(r5, R, c, k4, k5), RungOver(r6, R, c, k5, k6),
         RungOver(r7, R, c, k6, b)
  PROVE  Part(<<r1, r2, r3, r4, r5, r6, r7>>, R, c, a, b)
<1>. DEFINE P == <<r1, r2, r3, r4, r5, r6, r7>>
            k == <<a, k1, k2, k3, k4, k5, k6, b>>
<1>1. P \in Seq(RungSet) /\ Len(P) = 7
  OBVIOUS
<1>2. k[1] = a /\ k[7 + 1] = b
  OBVIOUS
<1>3. ASSUME NEW i \in 1 .. 7 PROVE RungOver(P[i], R, c, k[i], k[i + 1])
  OBVIOUS
<1>. HIDE DEF P, k
<1>4. Part(P, R, c, a, b)
  BY <1>1, <1>2, <1>3 DEF Part, Climbs
<1>. QED BY <1>4 DEF P

\* The first half of the character drivers, and what takes it back.
LEMMA MapDeviceFits ==
  ASSUME NEW R, Len(R) \in Nat, Len(R) >= 4,
         Rung(R, 1) = "device", Rung(R, 2) = "regions", Rung(R, 3) = "regs",
         Rung(R, 4) = "drvdata"
  PROVE  Part(MapDevice, R, 0, 0, 4) /\ TakesDown(UnmapDevice, R, 0, 4)
<1>1. TakesDown(<< >>, R, 0, 0)
  BY DEF TakesDown
<1>2. TakesDown(<<"device">>, R, 0, 1)
  BY DEF TakesDown, Names
<1>3. TakesDown(<<"regions", "device">>, R, 0, 2)
  BY DEF TakesDown, Names
<1>4. TakesDown(UnmapDevice, R, 0, 4)
  BY DEF TakesDown, Names, UnmapDevice
<1>. DEFINE r1 == Try("device", << >>)
            r2 == Try("regions", <<"device">>)
            r3 == Try("regs", <<"regions", "device">>)
            r4 == Do("drvdata")
<1>5. /\ "device" \in Names /\ "regions" \in Names /\ "regs" \in Names
      /\ "drvdata" \in Names /\ 0 \in Nat /\ 1 \in Nat /\ 2 \in Nat
      /\ 3 \in Nat /\ 4 \in Nat /\ 0 + 1 = 1 /\ 1 + 1 = 2 /\ 2 + 1 = 3
      /\ 3 + 1 = 4 /\ 0 <= Len(R) /\ 1 <= Len(R) /\ 2 <= Len(R) /\ 3 <= Len(R)
      /\ 4 <= Len(R)
  BY DEF Names
<1>6. r1 \in RungSet /\ RungOver(r1, R, 0, 0, 1)
  BY <1>1, <1>5, TryFits
<1>7. r2 \in RungSet /\ RungOver(r2, R, 0, 1, 2)
  BY <1>2, <1>5, TryFits
<1>8. r3 \in RungSet /\ RungOver(r3, R, 0, 2, 3)
  BY <1>3, <1>5, TryFits
<1>9. r4 \in RungSet /\ RungOver(r4, R, 0, 3, 4)
  BY <1>5, DoFits
<1>. HIDE DEF r1, r2, r3, r4
<1>10. Part(<<r1, r2, r3, r4>>, R, 0, 0, 4)
  BY <1>6, <1>7, <1>8, <1>9, PartOf4
<1>. QED BY <1>4, <1>10 DEF MapDevice, r1, r2, r3, r4

\* The first half of the network driver, and what takes it back.
LEMMA PnMapFits ==
  ASSUME NEW R, Len(R) \in Nat, Len(R) >= 6,
         Rung(R, 1) = "device", Rung(R, 2) = "mwi", Rung(R, 3) = "regions",
         Rung(R, 4) = "regs", Rung(R, 5) = "msi", Rung(R, 6) = "drvdata"
  PROVE  Part(PnMap, R, 0, 0, 6) /\ TakesDown(PnUndo, R, 0, 6)
<1>1. TakesDown(<< >>, R, 0, 0)
  BY DEF TakesDown
<1>2. TakesDown(<<"device">>, R, 0, 1)
  BY DEF TakesDown, Names
<1>3. TakesDown(<<"mwi", "device">>, R, 0, 2)
  BY DEF TakesDown, Names
<1>4. TakesDown(<<"regions", "mwi", "device">>, R, 0, 3)
  BY DEF TakesDown, Names
<1>5. TakesDown(<<"regs", "regions", "mwi", "device">>, R, 0, 4)
  BY DEF TakesDown, Names
<1>6. TakesDown(PnUndo, R, 0, 6)
  BY DEF TakesDown, Names, PnUndo
<1>. DEFINE r1 == Try("device", << >>)
            r2 == Try("mwi", <<"device">>)
            r3 == Try("regions", <<"mwi", "device">>)
            r4 == Try("regs", <<"regions", "mwi", "device">>)
            r5 == Test("dma_mask", <<"regs", "regions", "mwi", "device">>)
            r6 == Slip("msi", << >>)
            r7 == Do("drvdata")
<1>7. /\ "device" \in Names /\ "mwi" \in Names /\ "regions" \in Names
      /\ "regs" \in Names /\ "dma_mask" \in Names /\ "msi" \in Names
      /\ "drvdata" \in Names /\ 0 \in Nat /\ 1 \in Nat /\ 2 \in Nat
      /\ 3 \in Nat /\ 4 \in Nat /\ 5 \in Nat /\ 6 \in Nat /\ 0 + 1 = 1
      /\ 1 + 1 = 2 /\ 2 + 1 = 3 /\ 3 + 1 = 4 /\ 4 + 1 = 5 /\ 5 + 1 = 6
      /\ 0 <= Len(R) /\ 1 <= Len(R) /\ 2 <= Len(R) /\ 3 <= Len(R)
      /\ 4 <= Len(R) /\ 5 <= Len(R) /\ 6 <= Len(R)
  BY DEF Names
<1>8. r1 \in RungSet /\ RungOver(r1, R, 0, 0, 1)
  BY <1>1, <1>7, TryFits
<1>9. r2 \in RungSet /\ RungOver(r2, R, 0, 1, 2)
  BY <1>2, <1>7, TryFits
<1>10. r3 \in RungSet /\ RungOver(r3, R, 0, 2, 3)
  BY <1>3, <1>7, TryFits
<1>11. r4 \in RungSet /\ RungOver(r4, R, 0, 3, 4)
  BY <1>4, <1>7, TryFits
<1>12. r5 \in RungSet /\ RungOver(r5, R, 0, 4, 4)
  BY <1>5, <1>7, TestFits
<1>13. r6 \in RungSet /\ RungOver(r6, R, 0, 4, 5)
  BY <1>7, MsiFits
<1>14. r7 \in RungSet /\ RungOver(r7, R, 0, 5, 6)
  BY <1>7, DoFits
<1>. HIDE DEF r1, r2, r3, r4, r5, r6, r7
<1>15. Part(<<r1, r2, r3, r4, r5, r6, r7>>, R, 0, 0, 6)
  BY <1>8, <1>9, <1>10, <1>11, <1>12, <1>13, <1>14, PartOf7
<1>. QED BY <1>6, <1>15 DEF PnMap, r1, r2, r3, r4, r5, r6, r7

\* The registration of the network device, above all that.
LEMMA NetRegisterFits ==
  ASSUME NEW R, Len(R) \in Nat, Len(R) >= 8,
         Rung(R, 7) = "netdev", Rung(R, 8) = "interface"
  PROVE  Part(NetRegister, R, 6, 6, 8)
<1>1. TakesDown(<< >>, R, 6, 6)
  BY DEF TakesDown
<1>2. TakesDown(<<"netdev">>, R, 6, 7)
  BY DEF TakesDown, Names
<1>. DEFINE r1 == Try("netdev", << >>)
            r2 == Try("interface", <<"netdev">>)
<1>3. /\ "netdev" \in Names /\ "interface" \in Names /\ 6 \in Nat /\ 7 \in Nat
      /\ 8 \in Nat /\ 6 + 1 = 7 /\ 7 + 1 = 8 /\ 6 <= Len(R) /\ 7 <= Len(R)
      /\ 8 <= Len(R) /\ 6 <= 6 /\ 6 <= 7 /\ 6 <= 8
  BY DEF Names
<1>4. r1 \in RungSet /\ RungOver(r1, R, 6, 6, 7)
  BY <1>1, <1>3, TryFits
<1>5. r2 \in RungSet /\ RungOver(r2, R, 6, 7, 8)
  BY <1>2, <1>3, TryFits
<1>. HIDE DEF r1, r2
<1>6. Part(<<r1, r2>>, R, 6, 6, 8)
  BY <1>4, <1>5, PartOf2
<1>. QED BY <1>6 DEF NetRegister, r1, r2

\* The registration of the character device, over whatever is below it.
LEMMA CharRegisterFits ==
  ASSUME NEW R, NEW c \in Nat, Len(R) \in Nat, Len(R) >= c + 4,
         Rung(R, c + 1) = "chrdev", Rung(R, c + 2) = "cdev",
         Rung(R, c + 3) = "class", Rung(R, c + 4) = "node"
  PROVE  Part(CharRegister, R, c, c, c + 4) /\ TakesDown(CharDeregister, R, c, c + 4)
<1>1. TakesDown(<< >>, R, c, c)
  BY DEF TakesDown
<1>2. TakesDown(<<"chrdev">>, R, c, c + 1)
  BY DEF TakesDown, Names
<1>3. TakesDown(<<"cdev", "chrdev">>, R, c, c + 2)
  BY DEF TakesDown, Names
<1>4. TakesDown(<<"class", "cdev", "chrdev">>, R, c, c + 3)
  BY DEF TakesDown, Names
<1>5. TakesDown(CharDeregister, R, c, c + 4)
  BY DEF TakesDown, Names, CharDeregister
<1>. DEFINE r1 == Try("chrdev", << >>)
            r2 == Try("cdev", <<"chrdev">>)
            r3 == Try("class", <<"cdev", "chrdev">>)
            r4 == Try("node", <<"class", "cdev", "chrdev">>)
<1>6. /\ "chrdev" \in Names /\ "cdev" \in Names /\ "class" \in Names
      /\ "node" \in Names /\ c \in Nat /\ c + 1 \in Nat /\ c + 2 \in Nat
      /\ c + 3 \in Nat /\ c + 4 \in Nat /\ (c + 1) + 1 = c + 2
      /\ (c + 2) + 1 = c + 3 /\ (c + 3) + 1 = c + 4 /\ c <= Len(R)
      /\ c + 1 <= Len(R) /\ c + 2 <= Len(R) /\ c + 3 <= Len(R)
      /\ c + 4 <= Len(R) /\ c <= c /\ c <= c + 1 /\ c <= c + 2 /\ c <= c + 3
      /\ c <= c + 4
  BY DEF Names
<1>7. r1 \in RungSet /\ RungOver(r1, R, c, c, c + 1)
  BY <1>1, <1>6, TryFits
<1>8. r2 \in RungSet /\ RungOver(r2, R, c, c + 1, c + 2)
  BY <1>2, <1>6, TryFits
<1>9. r3 \in RungSet /\ RungOver(r3, R, c, c + 2, c + 3)
  BY <1>3, <1>6, TryFits
<1>10. r4 \in RungSet /\ RungOver(r4, R, c, c + 3, c + 4)
  BY <1>4, <1>6, TryFits
<1>. HIDE DEF r1, r2, r3, r4
<1>11. Part(<<r1, r2, r3, r4>>, R, c, c, c + 4)
  BY <1>7, <1>8, <1>9, <1>10, PartOf4
<1>. QED BY <1>5, <1>11 DEF CharRegister, r1, r2, r3, r4

\* The buffers, if no kmalloc is refused.
LEMMA SetupBuffersFit ==
  ASSUME NEW R, Len(R) \in Nat, Len(R) >= 11,
         Rung(R, 6) = "desc_tx", Rung(R, 7) = "desc_rx", Rung(R, 8) = "pkt_tx",
         Rung(R, 9) = "map_tx", Rung(R, 10) = "pkt_rx", Rung(R, 11) = "map_rx",
         "pkt_tx" \notin Refused, "pkt_rx" \notin Refused
  PROVE  Part(SetupBuffers, R, 5, 5, 11) /\ TakesDown(CleanupBuffers, R, 5, 11)
<1>1. TakesDown(<< >>, R, 5, 5)
  BY DEF TakesDown
<1>2. TakesDown(<<"desc_tx">>, R, 5, 6)
  BY DEF TakesDown, Names
<1>3. <<"desc_rx", "desc_tx">> \in Seq(Names)
  BY DEF Names
<1>4. <<"map_tx", "pkt_tx", "desc_rx", "desc_tx">> \in Seq(Names)
  BY DEF Names
<1>5. TakesDown(CleanupBuffers, R, 5, 11)
  BY DEF TakesDown, Names, CleanupBuffers
<1>. DEFINE r1 == Try("desc_tx", << >>)
            r2 == Try("desc_rx", <<"desc_tx">>)
            r3 == Slip("pkt_tx", <<"desc_rx", "desc_tx">>)
            r4 == Do("map_tx")
            r5 == Slip("pkt_rx", <<"map_tx", "pkt_tx", "desc_rx", "desc_tx">>)
            r6 == Do("map_rx")
<1>6. /\ "desc_tx" \in Names /\ "desc_rx" \in Names /\ "pkt_tx" \in Names
      /\ "map_tx" \in Names /\ "pkt_rx" \in Names /\ "map_rx" \in Names
      /\ 5 \in Nat /\ 6 \in Nat /\ 7 \in Nat /\ 8 \in Nat /\ 9 \in Nat
      /\ 10 \in Nat /\ 11 \in Nat /\ 5 + 1 = 6 /\ 6 + 1 = 7 /\ 7 + 1 = 8
      /\ 8 + 1 = 9 /\ 9 + 1 = 10 /\ 10 + 1 = 11 /\ 5 <= Len(R) /\ 6 <= Len(R)
      /\ 7 <= Len(R) /\ 8 <= Len(R) /\ 9 <= Len(R) /\ 10 <= Len(R)
      /\ 11 <= Len(R) /\ 5 <= 5 /\ 5 <= 6 /\ 5 <= 7 /\ 5 <= 8 /\ 5 <= 9
      /\ 5 <= 10 /\ 5 <= 11
  BY DEF Names
<1>7. r1 \in RungSet /\ RungOver(r1, R, 5, 5, 6)
  BY <1>1, <1>6, TryFits
<1>8. r2 \in RungSet /\ RungOver(r2, R, 5, 6, 7)
  BY <1>2, <1>6, TryFits
<1>9. r3 \in RungSet /\ RungOver(r3, R, 5, 7, 8)
  BY <1>3, <1>6, SlipFits
<1>10. r4 \in RungSet /\ RungOver(r4, R, 5, 8, 9)
  BY <1>6, DoFits
<1>11. r5 \in RungSet /\ RungOver(r5, R, 5, 9, 10)
  BY <1>4, <1>6, SlipFits
<1>12. r6 \in RungSet /\ RungOver(r6, R, 5, 10, 11)
  BY <1>6, DoFits
<1>. HIDE DEF r1, r2, r3, r4, r5, r6
<1>13. Part(<<r1, r2, r3, r4, r5, r6>>, R, 5, 5, 11)
  BY <1>7, <1>8, <1>9, <1>10, <1>11, <1>12, PartOf6
<1>. QED BY <1>5, <1>13 DEF SetupBuffers, r1, r2, r3, r4, r5, r6

-----------------------------------------------------------------------------
(***************************************************************************)
(* The drivers.                                                            *)
(***************************************************************************)

\* The network driver.
LEMMA PnWellBuilt == WellBuilt(Ladders["pn"])
<1>. DEFINE R == PnRemove
            l == Ladders["pn"]
<1>1. R \in Seq(Names) /\ Len(R) = 8
  BY DEF PnRemove, NetDeregister, PnUndo, Names
<1>2. /\ R[1] = "interface" /\ R[2] = "netdev" /\ R[3] = "drvdata" /\ R[4] = "msi"
      /\ R[5] = "regs" /\ R[6] = "regions" /\ R[7] = "mwi" /\ R[8] = "device"
  BY DEF PnRemove, NetDeregister, PnUndo
<1>3. l.probe = PnProbe /\ l.remove = R /\ l.handler = {} /\ l.calls = {}
  BY DEF Ladders, Ladder
<1>. HIDE DEF R, l
<1>4. /\ Rung(R, 1) = "device" /\ Rung(R, 2) = "mwi" /\ Rung(R, 3) = "regions"
      /\ Rung(R, 4) = "regs" /\ Rung(R, 5) = "msi" /\ Rung(R, 6) = "drvdata"
      /\ Rung(R, 7) = "netdev" /\ Rung(R, 8) = "interface"
  BY <1>1, <1>2 DEF Rung
<1>5. Len(R) \in Nat /\ Len(R) >= 6 /\ Len(R) >= 8 /\ 6 \in Nat
  BY <1>1
<1>6. Part(PnMap, R, 0, 0, 6) /\ TakesDown(PnUndo, R, 0, 6)
  BY <1>4, <1>5, PnMapFits
<1>7. Part(NetRegister, R, 6, 6, 8)
  BY <1>4, <1>5, NetRegisterFits
<1>8. Part(Within(NetRegister, PnUndo), R, 0, 6, 8)
  BY <1>5, <1>6, <1>7, PartWithin
<1>9. Part(PnProbe, R, 0, 0, 8)
  BY <1>6, <1>8, PartConcat DEF PnProbe
<1>10. Stacked(l, R)
  <2>1. \A i, j \in 1 .. Len(R) : R[i] = R[j] => i = j
    BY <1>1, <1>2
  <2>2. ASSUME NEW i \in 1 .. Len(R), NEW p \in Rests, p[1] = R[i]
        PROVE  StandsOn(R, i, p[2])
    BY <1>1, <1>2, <2>2 DEF Rests, StandsOn
  <2>. QED BY <1>3, <2>1, <2>2 DEF Stacked
<1>. QED BY <1>1, <1>3, <1>9, <1>10, PartsFit DEF l

\* The network driver of the exercises.
LEMMA AssnPnWellBuilt == WellBuilt(Ladders["assn_pn"])
<1>. DEFINE R == PnUndo
            l == Ladders["assn_pn"]
            Q == Within(AssnNetRegister, PnUndo)
<1>1. R \in Seq(Names) /\ Len(R) = 6
  BY DEF PnUndo, Names
<1>2. /\ R[1] = "drvdata" /\ R[2] = "msi" /\ R[3] = "regs" /\ R[4] = "regions"
      /\ R[5] = "mwi" /\ R[6] = "device"
  BY DEF PnUndo
<1>3. l.probe = AssnPnProbe /\ l.handler = {} /\ l.calls = {}
  BY DEF Ladders, Ladder
<1>. HIDE DEF R, l
<1>4. /\ Rung(R, 1) = "device" /\ Rung(R, 2) = "mwi" /\ Rung(R, 3) = "regions"
      /\ Rung(R, 4) = "regs" /\ Rung(R, 5) = "msi" /\ Rung(R, 6) = "drvdata"
  BY <1>1, <1>2 DEF Rung
<1>5. Len(R) \in Nat /\ Len(R) >= 6 /\ 6 <= Len(R) /\ 6 \in Nat
  BY <1>1
<1>6. Part(PnMap, R, 0, 0, 6) /\ TakesDown(PnUndo, R, 0, 6)
  BY <1>4, <1>5, PnMapFits
<1>7. Part(AssnNetRegister, R, 6, 6, 6)
  BY <1>5, GiveUpFits, PartOf1 DEF AssnNetRegister
<1>8. Part(Q, R, 0, 6, 6)
  BY <1>5, <1>6, <1>7, PartWithin
<1>9. Part(AssnPnProbe, R, 0, 0, 6)
  BY <1>6, <1>8, PartConcat DEF AssnPnProbe
<1>10. \E i \in 1 .. Len(l.probe) : l.probe[i].ask = "left_out"
  <2>1. PnMap \in Seq(RungSet) /\ Len(PnMap) = 7
    BY <1>6 DEF Part, PnMap
  <2>2. Q \in Seq(RungSet) /\ Len(Q) = 1 /\ Q[1].ask = "left_out"
    <3>1. AssnNetRegister = <<GiveUp>> /\ GiveUp.ask = "left_out"
      BY DEF AssnNetRegister, GiveUp
    <3>2. DOMAIN AssnNetRegister = 1 .. 1 /\ AssnNetRegister[1].ask = "left_out"
      BY <3>1
    <3>3. DOMAIN Q = 1 .. 1 /\ Q[1].ask = "left_out"
      BY <3>2 DEF Within
    <3>4. Q \in Seq(RungSet)
      BY <1>8 DEF Part
    <3>. HIDE DEF Q
    <3>. QED BY <3>3, <3>4, LenProperties
  <2>. HIDE DEF Q
  <2>. DEFINE W == PnMap \o Q
  <2>3. /\ Len(W) = Len(PnMap) + Len(Q)
        /\ \A i \in 1 .. Len(PnMap) + Len(Q) :
             W[i] = IF i <= Len(PnMap) THEN PnMap[i] ELSE Q[i - Len(PnMap)]
    BY <2>1, <2>2, ConcatProperties
  <2>4. W = l.probe
    BY <1>3 DEF AssnPnProbe, Q
  <2>. HIDE DEF W
  <2>5. Len(W) = 8 /\ W[8] = Q[1] /\ 8 \in 1 .. 8
    BY <2>1, <2>2, <2>3
  <2>. QED BY <2>2, <2>4, <2>5
<1>11. Stacked(l, R)
  <2>1. \A i, j \in 1 .. Len(R) : R[i] = R[j] => i = j
    BY <1>1, <1>2
  <2>2. ASSUME NEW i \in 1 .. Len(R), NEW p \in Rests, p[1] = R[i]
        PROVE  StandsOn(R, i, p[2])
    BY <1>1, <1>2, <2>2 DEF Rests, StandsOn
  <2>. QED BY <1>3, <2>1, <2>2 DEF Stacked
<1>. QED BY <1>1, <1>3, <1>9, <1>10, <1>11, PartsFit DEF l

\* Two exercises of the character driver map the device and no more.
LEMMA MapDeviceWellBuilt ==
  ASSUME NEW l, l.probe = MapDevice, l.remove = UnmapDevice, l.handler = {}, l.calls = {}
  PROVE  WellBuilt(l)
<1>. DEFINE R == UnmapDevice
<1>1. R \in Seq(Names) /\ Len(R) = 4
  BY DEF UnmapDevice, Names
<1>2. R[1] = "drvdata" /\ R[2] = "regs" /\ R[3] = "regions" /\ R[4] = "device"
  BY DEF UnmapDevice
<1>3. l.remove = R
  OBVIOUS
<1>. HIDE DEF R
<1>4. /\ Rung(R, 1) = "device" /\ Rung(R, 2) = "regions" /\ Rung(R, 3) = "regs"
      /\ Rung(R, 4) = "drvdata"
  BY <1>1, <1>2 DEF Rung
<1>5. Len(R) \in Nat /\ Len(R) >= 4
  BY <1>1
<1>6. Part(MapDevice, R, 0, 0, 4)
  BY <1>4, <1>5, MapDeviceFits
<1>7. Stacked(l, R)
  <2>1. \A i, j \in 1 .. Len(R) : R[i] = R[j] => i = j
    BY <1>1, <1>2
  <2>2. ASSUME NEW i \in 1 .. Len(R), NEW p \in Rests, p[1] = R[i]
        PROVE  StandsOn(R, i, p[2])
    BY <1>1, <1>2, <2>2 DEF Rests, StandsOn
  <2>. QED BY <2>1, <2>2 DEF Stacked
<1>. QED BY <1>1, <1>3, <1>6, <1>7, PartsFit

\* The debugging exercise registers the device node and no more.
LEMMA BuggyWellBuilt == WellBuilt(Ladders["buggy"])
<1>. DEFINE R == CharDeregister
            l == Ladders["buggy"]
<1>1. R \in Seq(Names) /\ Len(R) = 4
  BY DEF CharDeregister, Names
<1>2. R[1] = "node" /\ R[2] = "class" /\ R[3] = "cdev" /\ R[4] = "chrdev"
  BY DEF CharDeregister
<1>3. l.probe = CharRegister /\ l.remove = R /\ l.handler = {} /\ l.calls = {}
  BY DEF Ladders, Ladder, DebugInit, DebugExit
<1>. HIDE DEF R, l
<1>4. /\ Rung(R, 0 + 1) = "chrdev" /\ Rung(R, 0 + 2) = "cdev"
      /\ Rung(R, 0 + 3) = "class" /\ Rung(R, 0 + 4) = "node"
  BY <1>1, <1>2 DEF Rung
<1>5. Len(R) \in Nat /\ Len(R) >= 0 + 4 /\ 0 \in Nat
  BY <1>1
<1>6. Part(CharRegister, R, 0, 0, 0 + 4)
  BY <1>4, <1>5, CharRegisterFits
<1>7. Stacked(l, R)
  <2>1. \A i, j \in 1 .. Len(R) : R[i] = R[j] => i = j
    BY <1>1, <1>2
  <2>2. ASSUME NEW i \in 1 .. Len(R), NEW p \in Rests, p[1] = R[i]
        PROVE  StandsOn(R, i, p[2])
    BY <1>1, <1>2, <2>2 DEF Rests, StandsOn
  <2>. QED BY <1>3, <2>1, <2>2 DEF Stacked
<1>8. 0 + 4 = Len(R)
  BY <1>1
<1>. QED BY <1>1, <1>3, <1>6, <1>7, <1>8, PartsFit DEF l

\* The character driver with DMA, if no kmalloc is refused.
LEMMA ExptWellBuilt ==
  ASSUME "pkt_tx" \notin Refused, "pkt_rx" \notin Refused
  PROVE  WellBuilt(Ladders["expt_dma"])
<1>. DEFINE R == ExptRemove
            l == Ladders["expt_dma"]
<1>1. R \in Seq(Names) /\ Len(R) = 17
  BY DEF ExptRemove, CharDeregister, HwShut, CleanupBuffers, UnmapDevice, Names
<1>2. /\ R[1] = "node" /\ R[2] = "class" /\ R[3] = "cdev" /\ R[4] = "chrdev"
      /\ R[5] = "hw" /\ R[6] = "irq" /\ R[7] = "map_rx" /\ R[8] = "pkt_rx"
      /\ R[9] = "map_tx" /\ R[10] = "pkt_tx" /\ R[11] = "desc_rx" /\ R[12] = "desc_tx"
      /\ R[13] = "msi" /\ R[14] = "drvdata" /\ R[15] = "regs" /\ R[16] = "regions"
      /\ R[17] = "device"
  BY DEF ExptRemove, CharDeregister, HwShut, CleanupBuffers, UnmapDevice
<1>3. /\ l.probe = ExptProbe /\ l.remove = R
      /\ l.handler = ExptHandler /\ l.calls = ExptCalls
  BY DEF Ladders, Ladder
<1>. HIDE DEF R, l
<1>4. /\ Rung(R, 1) = "device" /\ Rung(R, 2) = "regions" /\ Rung(R, 3) = "regs"
      /\ Rung(R, 4) = "drvdata" /\ Rung(R, 5) = "msi" /\ Rung(R, 6) = "desc_tx"
      /\ Rung(R, 7) = "desc_rx" /\ Rung(R, 8) = "pkt_tx" /\ Rung(R, 9) = "map_tx"
      /\ Rung(R, 10) = "pkt_rx" /\ Rung(R, 11) = "map_rx" /\ Rung(R, 12) = "irq"
      /\ Rung(R, 13) = "hw" /\ Rung(R, 13 + 1) = "chrdev" /\ Rung(R, 13 + 2) = "cdev"
      /\ Rung(R, 13 + 3) = "class" /\ Rung(R, 13 + 4) = "node"
  BY <1>1, <1>2 DEF Rung
<1>5. /\ Len(R) \in Nat /\ Len(R) >= 4 /\ Len(R) >= 11 /\ Len(R) >= 13 + 4
      /\ 5 <= Len(R) /\ 12 <= Len(R) /\ 13 <= Len(R) /\ 0 + 17 = Len(R)
  BY <1>1
<1>6. /\ 0 \in Nat /\ 4 \in Nat /\ 5 \in Nat /\ 11 \in Nat /\ 12 \in Nat /\ 13 \in Nat
      /\ 0 <= 4 /\ 4 <= 5 /\ 5 <= 11 /\ 0 <= 11 /\ 0 <= 12 /\ 11 <= 12 /\ 12 <= 13
      /\ 4 + 1 = 5 /\ 11 + 1 = 12 /\ 12 + 1 = 13 /\ 13 + 4 = 17
      /\ 0 <= 5 /\ "irq" \in Names /\ "hw" \in Names
  BY DEF Names

\* The undo lists, from the innermost out.
<1>7. Part(MapDevice, R, 0, 0, 4) /\ TakesDown(UnmapDevice, R, 0, 4)
  BY <1>4, <1>5, MapDeviceFits
<1>8. Part(SetupBuffers, R, 5, 5, 11) /\ TakesDown(CleanupBuffers, R, 5, 11)
  BY <1>4, <1>5, SetupBuffersFit
<1>9. Part(CharRegister, R, 13, 13, 17)
  BY <1>4, <1>5, <1>6, CharRegisterFits
<1>10. /\ TakesDown(<<"msi">>, R, 4, 5) /\ TakesDown(<<"irq">>, R, 11, 12)
       /\ TakesDown(HwShut, R, 12, 13)
  BY <1>4 DEF TakesDown, Names, HwShut
<1>. DEFINE u5 == <<"msi">> \o UnmapDevice
            v11 == CleanupBuffers \o <<"msi">>
            u11 == v11 \o UnmapDevice
            v13 == HwShut \o <<"irq">>
            w13 == v13 \o CleanupBuffers
            x13 == w13 \o <<"msi">>
            u13 == x13 \o UnmapDevice
<1>11. TakesDown(u5, R, 0, 5)
  BY <1>6, <1>7, <1>10, DownConcat
<1>12. TakesDown(u11, R, 0, 11)
  <2>1. TakesDown(v11, R, 4, 11)
    BY <1>6, <1>8, <1>10, DownConcat
  <2>. HIDE DEF v11
  <2>. QED BY <1>6, <1>7, <2>1, DownConcat
<1>13. TakesDown(u13, R, 0, 13)
  <2>1. TakesDown(v13, R, 11, 13)
    BY <1>6, <1>10, DownConcat
  <2>. HIDE DEF v13
  <2>2. TakesDown(w13, R, 5, 13)
    BY <1>6, <1>8, <2>1, DownConcat
  <2>. HIDE DEF w13
  <2>3. TakesDown(x13, R, 4, 13)
    BY <1>6, <1>10, <2>2, DownConcat
  <2>. HIDE DEF x13
  <2>. QED BY <1>6, <1>7, <2>3, DownConcat

\* The parts of the probe, from the bottom up.
<1>. DEFINE p5 == <<Slip("msi", <<>>)>>
            p11 == Within(SetupBuffers, u5)
            p12 == <<Try("irq", u11)>>
            p17 == Within(CharRegister, u13)
            q5 == MapDevice \o p5
            q11 == q5 \o p11
            q12 == q11 \o p12
            q13 == q12 \o HwInit
<1>14. ExptProbe = q13 \o p17
  BY DEF ExptProbe
<1>. HIDE DEF u5, u11, u13
<1>15. Part(p5, R, 0, 4, 5)
  BY <1>4, <1>5, <1>6, MsiFits, PartOf1
<1>16. Part(p11, R, 0, 5, 11)
  BY <1>5, <1>6, <1>8, <1>11, PartWithin
<1>17. Part(p12, R, 0, 11, 12)
  <2>1. RungOver(Try("irq", u11), R, 0, 11, 12) /\ Try("irq", u11) \in RungSet
    BY <1>4, <1>5, <1>6, <1>12, TryFits
  <2>. QED BY <2>1, PartOf1
<1>18. Part(HwInit, R, 0, 12, 13)
  <2>1. RungOver(Do("hw"), R, 0, 12, 13) /\ Do("hw") \in RungSet
    BY <1>4, <1>5, <1>6, DoFits
  <2>. QED BY <2>1, PartOf1 DEF HwInit
<1>19. Part(p17, R, 0, 13, 17)
  BY <1>5, <1>6, <1>9, <1>13, PartWithin
<1>. HIDE DEF p5, p11, p12, p17
<1>20. Part(q5, R, 0, 0, 5)
  BY <1>7, <1>15, PartConcat
<1>. HIDE DEF q5
<1>21. Part(q11, R, 0, 0, 11)
  BY <1>16, <1>20, PartConcat
<1>. HIDE DEF q11
<1>22. Part(q12, R, 0, 0, 12)
  BY <1>17, <1>21, PartConcat
<1>. HIDE DEF q12
<1>23. Part(q13, R, 0, 0, 13)
  BY <1>18, <1>22, PartConcat
<1>. HIDE DEF q13
<1>24. Part(ExptProbe, R, 0, 0, 17)
  BY <1>14, <1>19, <1>23, PartConcat

\* What the resources stand on is released after them.
<1>25. Stacked(l, R)
  <2>. DEFINE Placed(m) ==
                /\ (R[m] = "node" => m = 1) /\ (R[m] = "class" => m = 2)
                /\ (R[m] = "cdev" => m = 3) /\ (R[m] = "chrdev" => m = 4)
                /\ (R[m] = "hw" => m = 5) /\ (R[m] = "irq" => m = 6)
                /\ (R[m] = "map_rx" => m = 7) /\ (R[m] = "pkt_rx" => m = 8)
                /\ (R[m] = "map_tx" => m = 9) /\ (R[m] = "pkt_tx" => m = 10)
                /\ (R[m] = "desc_rx" => m = 11) /\ (R[m] = "desc_tx" => m = 12)
                /\ (R[m] = "msi" => m = 13) /\ (R[m] = "drvdata" => m = 14)
                /\ (R[m] = "regs" => m = 15) /\ (R[m] = "regions" => m = 16)
                /\ (R[m] = "device" => m = 17)
  <2>0. ASSUME NEW m \in 1 .. Len(R) PROVE Placed(m)
    BY <1>1, <1>2
  <2>1. ASSUME NEW i \in 1 .. Len(R), NEW j \in 1 .. Len(R), R[i] = R[j]
        PROVE  i = j
    <3>1. Placed(i) /\ Placed(j)
      BY <2>0
    <3>2. CASE i \in {1, 2, 3, 4, 5, 6}
      BY <1>2, <2>1, <3>1, <3>2
    <3>3. CASE i \in {7, 8, 9, 10, 11, 12}
      BY <1>2, <2>1, <3>1, <3>3
    <3>4. CASE i \in {13, 14, 15, 16, 17}
      BY <1>2, <2>1, <3>1, <3>4
    <3>. QED BY <1>1, <3>2, <3>3, <3>4
  <2>2. ASSUME NEW i \in 1 .. Len(R), NEW p \in Rests, p[1] = R[i]
        PROVE  StandsOn(R, i, p[2])
    <3>1. /\ StandsOn(R, 1, "class") /\ StandsOn(R, 1, "cdev") /\ StandsOn(R, 3, "chrdev")
          /\ StandsOn(R, 5, "irq") /\ StandsOn(R, 5, "map_rx")
          /\ StandsOn(R, 5, "desc_rx") /\ StandsOn(R, 5, "desc_tx")
          /\ StandsOn(R, 7, "pkt_rx") /\ StandsOn(R, 9, "pkt_tx")
          /\ StandsOn(R, 13, "device") /\ StandsOn(R, 15, "regions")
          /\ StandsOn(R, 16, "device")
      BY <1>1, <1>2 DEF StandsOn
    <3>2. Placed(i) /\ R[i] # "mwi" /\ R[i] # "interface"
      BY <1>1, <1>2, <2>0
    <3>. QED BY <2>2, <3>1, <3>2 DEF Rests
  <2>3. ASSUME NEW i \in 1 .. Len(R), R[i] = "irq", NEW x \in ExptHandler
        PROVE  StandsOn(R, i, x)
    BY <1>1, <1>2, <2>3 DEF ExptHandler, StandsOn
  <2>4. ASSUME NEW i \in 1 .. Len(R), R[i] = "cdev", NEW x \in ExptCalls
        PROVE  StandsOn(R, i, x)
    BY <1>1, <1>2, <2>4 DEF ExptCalls, StandsOn
  <2>. QED BY <1>3, <2>1, <2>2, <2>3, <2>4 DEF Stacked
<1>. QED BY <1>1, <1>3, <1>24, <1>25, PartsFit DEF l

\* The drivers whose ladders are well built.  (init_char leaves its device node
\* behind, and the remove of assn_dma clears drvdata first.)
Sound == {"pn", "assn_pn", "expt_dma", "assn_intr", "assn_char", "buggy"}

\* The kernel refuses neither packet buffer: expt_dma does not return the error
\* of its kmalloc.
Buffered == "expt_dma" \in Drivers => {"pkt_tx", "pkt_rx"} \cap Refused = {}

\* Each of these drivers has a well-built ladder.
LEMMA SoundWellBuilt ==
  ASSUME Drivers \subseteq Sound, Buffered, NEW d \in Drivers
  PROVE  WellBuilt(Ladders[d])
<1>1. CASE d = "expt_dma"
  <2>1. "pkt_tx" \notin Refused /\ "pkt_rx" \notin Refused
    BY <1>1 DEF Buffered
  <2>. QED BY <1>1, <2>1, ExptWellBuilt
<1>2. CASE d = "assn_intr"
  <2>. DEFINE l == Ladders["assn_intr"]
  <2>1. /\ l.probe = MapDevice /\ l.remove = UnmapDevice
        /\ l.handler = {} /\ l.calls = {}
    BY DEF Ladders, Ladder, AssnIntrProbe, AssnIntrRemove
  <2>. HIDE DEF l
  <2>2. WellBuilt(l)
    BY <2>1, MapDeviceWellBuilt
  <2>. QED BY <1>2, <2>2 DEF l
<1>3. CASE d = "assn_char"
  <2>. DEFINE l == Ladders["assn_char"]
  <2>1. /\ l.probe = MapDevice /\ l.remove = UnmapDevice
        /\ l.handler = {} /\ l.calls = {}
    BY DEF Ladders, Ladder, AssnCharProbe, AssnCharRemove
  <2>. HIDE DEF l
  <2>2. WellBuilt(l)
    BY <2>1, MapDeviceWellBuilt
  <2>. QED BY <1>3, <2>2 DEF l
<1>4. d \in Sound
  OBVIOUS
<1>. QED BY <1>1, <1>2, <1>3, <1>4, PnWellBuilt, AssnPnWellBuilt, BuggyWellBuilt DEF Sound

-----------------------------------------------------------------------------
(***************************************************************************)
(* The theorems.                                                           *)
(***************************************************************************)

\* Any driver whose ladder is well built, these or one still to be written,
\* releases the newest resource first, leaves nothing behind and holds what its
\* resources stand on, at every call of its probe and its remove and whatever
\* the kernel refuses.
THEOREM WellBuiltLadders ==
  ASSUME \A d \in Drivers : WellBuilt(Ladders[d])
  PROVE  Spec => [](LastFirst /\ NothingLeft /\ Grounded)
<1>1. Init => LadderInv
  BY LadderInit
<1>2. LadderInv /\ [Next]_vars => LadderInv'
  BY LadderNext
<1>3. LadderInv => LastFirst /\ NothingLeft /\ Grounded
  BY LadderProps
<1>. QED BY <1>1, <1>2, <1>3, PTL DEF Spec

\* Each undo list of a probe and each remove of the drivers in Sound
\* (pci_net.c, expt_drv_with_dma.c and the exercises) takes back the newest
\* resource first and none that is not held.
THEOREM LastAcquiredFirst ==
  ASSUME Drivers \subseteq Sound, Buffered
  PROVE  Spec => []LastFirst
<1>1. \A d \in Drivers : WellBuilt(Ladders[d])
  BY SoundWellBuilt, Zenon
<1>. QED BY <1>1, WellBuiltLadders, PTL

\* A failed probe of these drivers, wherever it failed, and their remove
\* leave nothing behind.
THEOREM NothingLeftBehind ==
  ASSUME Drivers \subseteq Sound, Buffered
  PROVE  Spec => []NothingLeft
<1>1. \A d \in Drivers : WellBuilt(Ladders[d])
  BY SoundWellBuilt, Zenon
<1>. QED BY <1>1, WellBuiltLadders, PTL

\* The interrupt handler, the system calls and the NIC of these drivers find
\* what they use at every moment of a probe, of its failure and of a remove.
THEOREM AlwaysGrounded ==
  ASSUME Drivers \subseteq Sound, Buffered
  PROVE  Spec => []Grounded
<1>1. \A d \in Drivers : WellBuilt(Ladders[d])
  BY SoundWellBuilt, Zenon
<1>. QED BY <1>1, WellBuiltLadders, PTL

=============================================================================
