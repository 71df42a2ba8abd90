-------------------------- MODULE SnullPool_proofs --------------------------
(***************************************************************************)
(* The packets of the snull interfaces are neither lost nor linked twice,  *)
(* for every pool size and wherever kmalloc fails, when the pools are torn *)
(* down with no packet in flight.                                          *)
(***************************************************************************)
EXTENDS SnullPool, TLAPS

PoolTypes ==
  /\ made \in [Devs -> 0..pool_size]
  /\ ppool \in [Devs -> Seq(Packets)] /\ rx_queue \in [Devs -> Seq(Packets)]
  /\ sent \subseteq Packets /\ taken \subseteq Packets

-----------------------------------------------------------------------------
\* A list that is pushed holds one packet more, and still none twice.
LEMMA PushList ==
  ASSUME NEW S, NEW l \in Seq(S), NEW p \in S, IsInjective(l), p \notin ToSet(l)
  PROVE  /\ Push(l, p) \in Seq(S) /\ IsInjective(Push(l, p))
         /\ ToSet(Push(l, p)) = ToSet(l) \cup {p}
<1>1. /\ Push(l, p) \in Seq(S) /\ Len(Push(l, p)) = Len(l) + 1
      /\ \A i \in 1..Len(l) + 1 :
           Push(l, p)[i] = IF i = 1 THEN p ELSE l[i - 1]
  BY DEF Push
<1>2. Push(l,p)[1] = p /\ \A i \in 1..Len(l) : Push(l, p)[i + 1] = l[i]
  BY <1>1
<1>3. IsInjective(Push(l, p))
  BY <1>1 DEF IsInjective, ToSet
<1>4. ToSet(Push(l, p)) = ToSet(l) \cup {p}
  <2>. DEFINE q == Push(l, p)
  <2>1. DOMAIN q = 1..Len(l) + 1 /\ DOMAIN l = 1..Len(l) /\ Len(l) \in Nat
    BY <1>1
  <2>. HIDE DEF q
  <2>2. ASSUME NEW x \in ToSet(q) PROVE x \in ToSet(l) \cup {p}
    <3>1. PICK i \in 1..Len(l) + 1 : x = q[i]
      BY <2>1 DEF ToSet
    <3>2. i # 1 => i - 1 \in DOMAIN l /\ x = l[i - 1]
      BY <1>1, <2>1, <3>1 DEF q
    <3>. QED BY <1>2, <3>1, <3>2 DEF ToSet, q
  <2>3. ASSUME NEW x \in ToSet(l) \cup {p} PROVE x \in ToSet(q)
    <3>1. CASE x = p
      BY <1>2, <2>1, <3>1 DEF ToSet, q
    <3>2. CASE x \in ToSet(l)
      <4>1. PICK i \in 1..Len(l) : x = l[i]
        BY <2>1, <3>2 DEF ToSet
      <4>2. i + 1 \in DOMAIN q /\ q[i + 1] = x
        BY <1>2, <2>1, <4>1 DEF q
      <4>. QED BY <4>2 DEF ToSet
    <3>. QED BY <3>1, <3>2
  <2>. QED BY <2>2, <2>3 DEF q
<1>. QED BY <1>1, <1>3, <1>4

\* Its first packet leaves it with the others.
LEMMA PopList ==
  ASSUME NEW S, NEW l \in Seq(S), l # <<>>, IsInjective(l)
  PROVE  /\ Tail(l) \in Seq(S) /\ IsInjective(Tail(l))
         /\ Head(l) \in ToSet(l) /\ ToSet(Tail(l)) = ToSet(l) \ {Head(l)}
<1>1. /\ Tail(l) \in Seq(S) /\ Len(Tail(l)) = Len(l) - 1 /\ Len(l) \in Nat \ {0}
      /\ \A i \in 1..Len(l) - 1 : Tail(l)[i] = l[i + 1]
      /\ Head(l) = l[1]
  OBVIOUS
<1>2. IsInjective(Tail(l))
  BY <1>1 DEF IsInjective
<1>3. ToSet(Tail(l)) = ToSet(l) \ {Head(l)}
  <2>1. ASSUME NEW x \in ToSet(Tail(l)) PROVE x \in ToSet(l) /\ x # Head(l)
    <3>1. PICK i \in 1..Len(l) - 1 : x = Tail(l)[i]
      BY <1>1 DEF ToSet
    <3>2. i + 1 \in DOMAIN l /\ 1 \in DOMAIN l /\ x = l[i + 1] /\ i + 1 # 1
      BY <1>1, <3>1
    <3>. QED BY <1>1, <3>2 DEF ToSet, IsInjective
  <2>2. ASSUME NEW x \in ToSet(l), x # Head(l) PROVE x \in ToSet(Tail(l))
    <3>1. PICK i \in 1..Len(l) : x = l[i]
      BY <2>2 DEF ToSet
    <3>2. i - 1 \in DOMAIN Tail(l) /\ Tail(l)[i - 1] = x
      BY <1>1, <2>2, <3>1
    <3>. QED BY <3>2 DEF ToSet
  <2>. QED BY <2>1, <2>2
<1>4. Head(l) \in ToSet(l)
  <2>1. 1 \in DOMAIN l /\ Head(l) = l[1]
    BY <1>1
  <2>. QED BY <2>1 DEF ToSet
<1>. QED BY <1>1, <1>2, <1>3, <1>4

\* snull_setup_pool's list: the packets it made, the last one first.
LEMMA FreshList ==
  ASSUME NEW d \in Devs, NEW n \in 0..pool_size
  PROVE  LET l == Reverse([i \in 1..n |-> Packet(d, i)])
         IN  /\ l \in Seq(Packets) /\ IsInjective(l)
             /\ ToSet(l) = {Packet(d, i) : i \in 1..n}
<1>. DEFINE m == [i \in 1..n |-> Packet(d, i)]
            l == Reverse(m)
<1>0. pool_size \in Nat /\ n \in Nat
  BY SnullAssumption
<1>1. m \in Seq(Packets) /\ Len(m) = n
  BY <1>0 DEF Packet, Packets
<1>2. l = [i \in 1..n |-> Packet(d, n - i + 1)]
  <2>1. l = [i \in 1..n |-> m[n - i + 1]]
    <3>. HIDE DEF m
    <3>. QED BY <1>1, Zenon DEF Reverse
  <2>2. \A i \in 1..n : m[n - i + 1] = Packet(d, n - i + 1)
    BY <1>0
  <2>. QED BY <2>1, <2>2
<1>. HIDE DEF l
<1>3. l \in Seq(Packets)
  <2>1. \A i \in 1..n : Packet(d, n - i + 1) \in Packets
    BY <1>0 DEF Packet, Packets
  <2>. QED BY <1>0, <1>2, <2>1
<1>4. IsInjective(l)
  BY <1>0, <1>2 DEF IsInjective, Packet
<1>5. ToSet(l) = {Packet(d, i) : i \in 1..n}
  <2>1. ASSUME NEW i \in 1..n PROVE Packet(d, i) \in ToSet(l)
    <3>1. n - i + 1 \in 1..n /\ l[n - i + 1] = Packet(d, i)
      BY <1>0, <1>2
    <3>. QED BY <1>2, <3>1 DEF ToSet
  <2>2. ASSUME NEW x \in ToSet(l) PROVE x \in {Packet(d, i) : i \in 1..n}
    <3>1. PICK i \in 1..n : x = l[i]
      BY <1>2 DEF ToSet
    <3>2. n - i + 1 \in 1..n /\ x = Packet(d, n - i + 1)
      BY <1>0, <1>2, <3>1
    <3>. QED BY <3>2
  <2>. QED BY <2>1, <2>2
<1>. QED BY <1>3, <1>4, <1>5 DEF l

-----------------------------------------------------------------------------
(***************************************************************************)
(* The invariant: OnePlace, device by device, and PacketsAccounted.  They  *)
(* need each other: setup_pool makes packets that are nowhere else only    *)
(* because a pool that is torn down has left none, and what is put back    *)
(* is still accounted for only because it was nowhere else.                *)
(***************************************************************************)
Pool(d)  == ToSet(ppool[d])
Queue(d) == ToSet(rx_queue[d])

Apart ==
  /\ \A d, e \in Devs : d # e => Pool(d) \cap Pool(e) = {}
  /\ \A d, e \in Devs : d # e => Queue(d) \cap Queue(e) = {}
  /\ \A d, e \in Devs : Pool(d) \cap Queue(e) = {}
  /\ \A d \in Devs : Pool(d) \cap sent = {} /\ Pool(d) \cap taken = {}
  /\ \A d \in Devs : Queue(d) \cap sent = {} /\ Queue(d) \cap taken = {}
  /\ sent \cap taken = {}

Once == \A d \in Devs : IsInjective(ppool[d]) /\ IsInjective(rx_queue[d])

PoolInv == PoolTypes /\ Once /\ Apart /\ PacketsAccounted

\* Places lists the same six places.
LEMMA PlacesApart == Once /\ Apart => OnePlace
<1>. SUFFICES ASSUME Once, Apart,
                     NEW i \in 1..6, NEW j \in 1..6, i # j
              PROVE  Places[i] \cap Places[j] = {}
  BY DEF OnePlace, Once, Places
<1>1. /\ Places[1] = Pool(0) /\ Places[2] = Pool(1)
      /\ Places[3] = Queue(0) /\ Places[4] = Queue(1)
      /\ Places[5] = sent /\ Places[6] = taken
  BY DEF Places, Pool, Queue
<1>2. 0 \in Devs /\ 1 \in Devs
  BY DEF Devs
<1>3. i \in {1, 2, 3, 4, 5, 6} /\ j \in {1, 2, 3, 4, 5, 6}
  OBVIOUS
<1>. HIDE DEF Places
<1>. QED BY <1>1, <1>2, <1>3 DEF Apart

\* A pool or queue of one device, and the packets in flight.
LEMMA FlightIs == InFlight = sent \cup taken \cup Queue(0) \cup Queue(1)
  BY DEF InFlight, Queue

\* The packets of a device say so.
LEMMA OwnPackets ==
  ASSUME PacketsAccounted, NEW d \in Devs, NEW p \in Pool(d)
  PROVE  p.dev = d
<1>1. PICK i \in 1..made[d] : p = Packet(d, i)
  BY DEF PacketsAccounted, Pool
<1>. QED BY <1>1 DEF Packet

\* Nothing is anywhere before snull_init.
LEMMA PoolInit == Init => PoolInv
<1>. SUFFICES ASSUME Init PROVE PoolInv
  OBVIOUS
<1>1. \A d \in Devs : Pool(d) = {} /\ Queue(d) = {}
  BY DEF Init, Pool, Queue, ToSet
<1>2. PoolTypes
  BY SnullAssumption DEF Init, PoolTypes
<1>3. Once
  BY DEF Init, Once, IsInjective
<1>4. Apart
  BY <1>1 DEF Init, Apart
<1>5. PacketsAccounted
  <2>1. InFlight = {}
    BY <1>1, FlightIs DEF Init, Devs
  <2>. QED BY <1>1, <2>1 DEF Init, PacketsAccounted, Pool
<1>. QED BY <1>2, <1>3, <1>4, <1>5 DEF PoolInv

\* snull_setup_pool fills an empty pool with packets that are nowhere.
LEMMA PoolSetup ==
  ASSUME PoolInv, NEW d \in Devs, snull_setup_pool(d)
  PROVE  PoolInv'
<1>. USE DEF PoolInv
<1>1. PICK n \in 0..pool_size :
        /\ made' = [made EXCEPT ![d] = n]
        /\ ppool' = [ppool EXCEPT ![d] = Reverse([i \in 1..n |-> Packet(d, i)])]
  BY DEF snull_setup_pool
<1>. DEFINE l == Reverse([i \in 1..n |-> Packet(d, i)])
            New == {Packet(d, i) : i \in 1..n}
<1>2. l \in Seq(Packets) /\ IsInjective(l) /\ ToSet(l) = New
  BY FreshList
<1>3. made[d] = 0 /\ UNCHANGED <<rx_queue, sent, taken>>
  BY DEF snull_setup_pool
<1>4. ppool' = [ppool EXCEPT ![d] = l]
  BY <1>1
<1>. HIDE DEF l
<1>5. /\ Pool(d)' = New /\ \A e \in Devs : e # d => Pool(e)' = Pool(e)
      /\ \A e \in Devs : Queue(e)' = Queue(e)
  BY <1>2, <1>3, <1>4 DEF Pool, Queue, PoolTypes
<1>6. InFlight' = InFlight
  BY <1>3 DEF InFlight
<1>7. Pool(d) = {} /\ \A p \in InFlight : p.dev # d
  BY <1>3 DEF PacketsAccounted, Pool
<1>8. \A p \in New : p.dev = d
  BY DEF Packet
<1>9. \A p \in New : p \notin InFlight /\ \A e \in Devs : e # d => p \notin Pool(e)
  BY <1>7, <1>8, OwnPackets
<1>10. PoolTypes'
  BY <1>1, <1>2, <1>3, <1>4 DEF PoolTypes
<1>11. Once'
  BY <1>2, <1>3, <1>4 DEF Once, PoolTypes
<1>. HIDE DEF New
<1>12. Apart'
  <2>1. \A p \in New : /\ p \notin sent /\ p \notin taken
                       /\ \A e \in Devs : p \notin Queue(e)
    BY <1>9, FlightIs DEF Devs
  <2>. QED BY <1>3, <1>5, <1>9, <2>1 DEF Apart
<1>13. PacketsAccounted'
  <2>. SUFFICES ASSUME NEW e \in Devs
                PROVE  Pool(e)' \cup {p \in InFlight' : p.dev = e}
                         = {Packet(e, i) : i \in 1..made'[e]}
    BY DEF PacketsAccounted, Pool
  <2>1. CASE e = d
    <3>1. made'[d] = n
      BY <1>1 DEF PoolTypes
    <3>. QED BY <1>5, <1>6, <1>7, <2>1, <3>1 DEF New
  <2>2. CASE e # d
    <3>1. made'[e] = made[e]
      BY <1>1, <2>2 DEF PoolTypes
    <3>. QED BY <1>5, <1>6, <2>2, <3>1 DEF PacketsAccounted, Pool
  <2>. QED BY <2>1, <2>2
<1>. QED BY <1>10, <1>11, <1>12, <1>13

\* snull_teardown_pool empties the pool of a device that has no packet left.
LEMMA PoolTeardown ==
  ASSUME Drained, PoolInv, NEW d \in Devs, snull_teardown_pool(d)
  PROVE  PoolInv'
<1>. USE DEF PoolInv
<1>1. /\ InFlight = {} /\ ppool' = [ppool EXCEPT ![d] = <<>>]
      /\ made' = [made EXCEPT ![d] = 0]
      /\ UNCHANGED <<rx_queue, sent, taken>>
  BY DEF snull_teardown_pool
<1>2. /\ Pool(d)' = {} /\ \A e \in Devs : e # d => Pool(e)' = Pool(e)
      /\ \A e \in Devs : Queue(e)' = Queue(e)
  BY <1>1 DEF Pool, Queue, PoolTypes, ToSet
<1>3. InFlight' = InFlight
  BY <1>1 DEF InFlight
<1>4. PoolTypes' /\ Once'
  BY <1>1, SnullAssumption DEF PoolTypes, Once, IsInjective
<1>5. Apart'
  BY <1>1, <1>2 DEF Apart
<1>6. PacketsAccounted'
  <2>. SUFFICES ASSUME NEW e \in Devs
                PROVE  Pool(e)' \cup {p \in InFlight' : p.dev = e}
                         = {Packet(e, i) : i \in 1..made'[e]}
    BY DEF PacketsAccounted, Pool
  <2>1. CASE e = d
    <3>1. made'[d] = 0
      BY <1>1 DEF PoolTypes
    <3>. QED BY <1>1, <1>2, <1>3, <2>1, <3>1
  <2>2. CASE e # d
    <3>1. made'[e] = made[e]
      BY <1>1, <2>2 DEF PoolTypes
    <3>. QED BY <1>2, <1>3, <2>2, <3>1 DEF PacketsAccounted, Pool
  <2>. QED BY <2>1, <2>2
<1>. QED BY <1>4, <1>5, <1>6

\* A packet that moves takes its account with it.
LEMMA AccountMoves ==
  ASSUME PacketsAccounted, made' = made,
         \A d \in Devs : Pool(d)' \cup {p \in InFlight' : p.dev = d}
                           = Pool(d) \cup {p \in InFlight : p.dev = d}
  PROVE  PacketsAccounted'
  BY DEF PacketsAccounted, Pool

\* snull_get_tx_buffer: from the pool into the hands of the sender.
LEMMA PoolGet ==
  ASSUME PoolInv, NEW d \in Devs, snull_get_tx_buffer(d)
  PROVE  PoolInv'
<1>. USE DEF PoolInv
<1>. DEFINE h == Head(ppool[d])
<1>1. /\ ppool[d] # <<>> /\ sent' = sent \cup {h}
      /\ ppool' = [ppool EXCEPT ![d] = Tail(ppool[d])]
      /\ UNCHANGED <<made, rx_queue, taken>>
  BY DEF snull_get_tx_buffer
<1>2. ppool[d] \in Seq(Packets) /\ IsInjective(ppool[d])
  BY DEF PoolTypes, Once
<1>3. /\ Tail(ppool[d]) \in Seq(Packets) /\ IsInjective(Tail(ppool[d]))
      /\ h \in Pool(d) /\ ToSet(Tail(ppool[d])) = Pool(d) \ {h}
  BY <1>1, <1>2, PopList DEF Pool
<1>4. /\ Pool(d)' = Pool(d) \ {h}
      /\ \A e \in Devs : e # d => Pool(e)' = Pool(e)
      /\ \A e \in Devs : Queue(e)' = Queue(e)
  BY <1>1, <1>3 DEF Pool, Queue, PoolTypes
<1>5. h.dev = d /\ h \in Packets
  BY <1>2, <1>3, OwnPackets DEF Pool, ToSet
<1>. HIDE DEF h
<1>6. PoolTypes' /\ Once'
  BY <1>1, <1>3, <1>5 DEF PoolTypes, Once
<1>7. Apart'
  BY <1>1, <1>3, <1>4 DEF Apart
<1>8. InFlight' = InFlight \cup {h}
  BY <1>1, <1>4, FlightIs DEF InFlight
<1>9. PacketsAccounted'
  BY <1>1, <1>3, <1>4, <1>5, <1>8, AccountMoves
<1>. QED BY <1>6, <1>7, <1>9

\* snull_enqueue_buf: from the sender into the queue of the other interface.
LEMMA PoolEnqueue ==
  ASSUME PoolInv, NEW d \in Devs, NEW p \in sent, snull_enqueue_buf(d, p)
  PROVE  PoolInv'
<1>. USE DEF PoolInv
<1>1. /\ sent' = sent \ {p}
      /\ rx_queue' = [rx_queue EXCEPT ![d] = Push(rx_queue[d], p)]
      /\ UNCHANGED <<made, ppool, taken>>
  BY DEF snull_enqueue_buf
<1>2. /\ rx_queue[d] \in Seq(Packets) /\ IsInjective(rx_queue[d])
      /\ p \in Packets /\ p \notin ToSet(rx_queue[d])
  BY DEF PoolTypes, Once, Apart, Queue
<1>. DEFINE l == Push(rx_queue[d], p)
<1>3. l \in Seq(Packets) /\ IsInjective(l) /\ ToSet(l) = Queue(d) \cup {p}
  BY <1>2, PushList DEF Queue
<1>4. rx_queue' = [rx_queue EXCEPT ![d] = l]
  BY <1>1
<1>. HIDE DEF l
<1>5. /\ Queue(d)' = Queue(d) \cup {p}
      /\ \A e \in Devs : e # d => Queue(e)' = Queue(e)
      /\ \A e \in Devs : Pool(e)' = Pool(e)
  BY <1>1, <1>3, <1>4 DEF Pool, Queue, PoolTypes
<1>6. PoolTypes' /\ Once'
  BY <1>1, <1>3, <1>4 DEF PoolTypes, Once
<1>7. Apart'
  BY <1>1, <1>5 DEF Apart
<1>8. InFlight' = InFlight
  <2>1. InFlight' = sent' \cup taken' \cup Queue(0)' \cup Queue(1)'
    BY DEF InFlight, Queue
  <2>. QED BY <1>1, <1>5, <2>1, FlightIs DEF Devs
<1>9. PacketsAccounted'
  BY <1>1, <1>5, <1>8, AccountMoves
<1>. QED BY <1>6, <1>7, <1>9

\* snull_dequeue_buf: from the queue into the hands of the receiver.
LEMMA PoolDequeue ==
  ASSUME PoolInv, NEW d \in Devs, snull_dequeue_buf(d)
  PROVE  PoolInv'
<1>. USE DEF PoolInv
<1>. DEFINE h == Head(rx_queue[d])
<1>1. /\ rx_queue[d] # <<>> /\ taken' = taken \cup {h}
      /\ rx_queue' = [rx_queue EXCEPT ![d] = Tail(rx_queue[d])]
      /\ UNCHANGED <<made, ppool, sent>>
  BY DEF snull_dequeue_buf
<1>2. rx_queue[d] \in Seq(Packets) /\ IsInjective(rx_queue[d])
  BY DEF PoolTypes, Once
<1>3. /\ Tail(rx_queue[d]) \in Seq(Packets) /\ IsInjective(Tail(rx_queue[d]))
      /\ h \in Queue(d) /\ ToSet(Tail(rx_queue[d])) = Queue(d) \ {h}
  BY <1>1, <1>2, PopList DEF Queue
<1>4. /\ Queue(d)' = Queue(d) \ {h}
      /\ \A e \in Devs : e # d => Queue(e)' = Queue(e)
      /\ \A e \in Devs : Pool(e)' = Pool(e)
  BY <1>1, <1>3 DEF Pool, Queue, PoolTypes
<1>5. h \in Packets
  BY <1>2, <1>3 DEF Queue, ToSet
<1>. HIDE DEF h
<1>6. PoolTypes' /\ Once'
  BY <1>1, <1>3, <1>5 DEF PoolTypes, Once
<1>7. Apart'
  BY <1>1, <1>3, <1>4 DEF Apart
<1>8. InFlight' = InFlight
  <2>1. InFlight' = sent' \cup taken' \cup Queue(0)' \cup Queue(1)'
    BY DEF InFlight, Queue
  <2>. QED BY <1>1, <1>3, <1>4, <2>1, FlightIs DEF Devs
<1>9. PacketsAccounted'
  BY <1>1, <1>4, <1>8, AccountMoves
<1>. QED BY <1>6, <1>7, <1>9

\* snull_release_buffer: from the receiver back to the pool the packet is from.
LEMMA PoolRelease ==
  ASSUME PoolInv, NEW p \in taken, snull_release_buffer(p)
  PROVE  PoolInv'
<1>. USE DEF PoolInv
<1>0. p \in Packets /\ p.dev \in Devs
  BY DEF PoolTypes, Packets
<1>. DEFINE d == p.dev
            l == Push(ppool[d], p)
<1>1. /\ taken' = taken \ {p} /\ ppool' = [ppool EXCEPT ![d] = l]
      /\ UNCHANGED <<made, rx_queue, sent>>
  BY DEF snull_release_buffer
<1>2. /\ ppool[d] \in Seq(Packets) /\ IsInjective(ppool[d])
      /\ p \notin ToSet(ppool[d])
  BY <1>0 DEF PoolTypes, Once, Apart, Pool
<1>3. l \in Seq(Packets) /\ IsInjective(l) /\ ToSet(l) = Pool(d) \cup {p}
  BY <1>0, <1>2, PushList DEF Pool
<1>. HIDE DEF l
<1>4. /\ Pool(d)' = Pool(d) \cup {p}
      /\ \A e \in Devs : e # d => Pool(e)' = Pool(e)
      /\ \A e \in Devs : Queue(e)' = Queue(e)
  BY <1>0, <1>1, <1>3 DEF Pool, Queue, PoolTypes
<1>5. PoolTypes' /\ Once'
  BY <1>0, <1>1, <1>3 DEF PoolTypes, Once
<1>6. Apart'
  BY <1>0, <1>1, <1>4 DEF Apart
<1>7. InFlight' = InFlight \ {p}
  <2>1. InFlight' = sent' \cup taken' \cup Queue(0)' \cup Queue(1)'
    BY DEF InFlight, Queue
  <2>2. p \notin sent /\ p \notin Queue(0) /\ p \notin Queue(1)
    BY DEF Apart, Devs
  <2>. QED BY <1>1, <1>4, <2>1, <2>2, FlightIs DEF Devs
<1>8. p \in InFlight
  BY DEF InFlight
<1>9. PacketsAccounted'
  BY <1>0, <1>1, <1>4, <1>7, <1>8, AccountMoves
<1>. QED BY <1>5, <1>6, <1>9

\* Every step, with the pools torn down only when they are drained.
LEMMA PoolNext ==
  ASSUME Drained, PoolInv, [Next]_vars
  PROVE  PoolInv'
<1>1. CASE \E d \in Devs : snull_setup_pool(d) \/ snull_teardown_pool(d)
  BY <1>1, PoolSetup, PoolTeardown
<1>2. CASE \E d \in Devs : snull_get_tx_buffer(d) \/ snull_dequeue_buf(d)
  BY <1>2, PoolGet, PoolDequeue
<1>3. CASE \E d \in Devs : \E p \in sent : snull_enqueue_buf(d, p)
  BY <1>3, PoolEnqueue
<1>4. CASE \E p \in taken : snull_release_buffer(p)
  BY <1>4, PoolRelease
<1>5. CASE UNCHANGED <<made, ppool, rx_queue, sent, taken>>
  BY <1>5 DEF PoolInv, PoolTypes, Once, Apart, PacketsAccounted, Pool, Queue, InFlight
<1>. QED
  BY <1>1, <1>2, <1>3, <1>4, <1>5 DEF Next, get_tx_buffer_out, vars

\* The account and the places are an invariant of drained pools.
LEMMA PoolAlways == Drained => (Spec => []PoolInv)
<1>. SUFFICES ASSUME Drained PROVE Spec => []PoolInv
  OBVIOUS
<1>1. PoolInv /\ [Next]_vars => PoolInv'
  BY PoolNext
<1>. QED BY PoolInit, <1>1, PTL DEF Spec

\* No packet is ever in two lists, in two hands, or twice in a list: the next
\* pointers of pools and queues stay lists, for every pool size, and also after
\* the lock was lost in snull_get_tx_buffer.
THEOREM PacketInOnePlace == Drained => (Spec => []OnePlace)
<1>1. PoolInv => OnePlace
  BY PlacesApart DEF PoolInv
<1>. QED BY <1>1, PoolAlways, PTL

\* No packet is lost, and none comes back to a pool it is not from: what
\* snull_teardown_pool frees is all that snull_setup_pool made.
THEOREM NoPacketLost == Drained => (Spec => []PacketsAccounted)
<1>1. PoolInv => PacketsAccounted
  BY DEF PoolInv
<1>. QED BY <1>1, PoolAlways, PTL

=============================================================================
