----------------------------- MODULE SnullPool -----------------------------
(***************************************************************************)
(* The packet pools and receive queues of the two snull interfaces         *)
(* (NetworkDriver/snull.c).  The functions that keep them are complete;    *)
(* their callers are left to the students, so that who calls what and when *)
(* is the environment here: a sender takes a packet from its own pool and  *)
(* queues it at the other interface, a receiver takes it from the queue    *)
(* and releases it.  The functions that move a packet are one critical     *)
(* section of priv->lock each, but for the one path that leaves without    *)
(* unlocking.  snull_setup_pool and snull_teardown_pool take no lock; they *)
(* are one step each here, which is all there is to see as long as nobody  *)
(* sends meanwhile, before the interfaces are registered and after they    *)
(* are unregistered.                                                       *)
(***************************************************************************)
EXTENDS Naturals, Sequences, SequencesExt

CONSTANTS
  pool_size,
  Drained    \* a pool is torn down only when no packet is in flight

ASSUME SnullAssumption == pool_size \in Nat \ {0} /\ Drained \in BOOLEAN

VARIABLES
  made,      \* how many packets the pool of a device was given
  ppool,     \* the pool of each device, as a list
  rx_queue,  \* the incoming packets of each device, as a list
  lock,      \* "free", or "lost": taken by a caller that returned
  sent,      \* packets taken from a pool, in the hands of a sender
  taken      \* packets taken from a queue, in the hands of a receiver

vars == <<made, ppool, rx_queue, lock, sent, taken>>

Devs    == {0, 1}
Twin(d) == 1 - d

\* A packet is known by pkt->dev and its number.
Packet(d, i)  == [dev |-> d, no |-> i]
Packets       == [dev : Devs, no : 1..pool_size]
Push(l, p)    == <<p>> \o l
InFlight      == sent \cup taken \cup ToSet(rx_queue[0]) \cup ToSet(rx_queue[1])

-----------------------------------------------------------------------------
\* kmalloc may fail at any packet: the pool is smaller, or empty.  It is called
\* once, when the module is loaded: called again it would forget the packets.
snull_setup_pool(d) ==
  /\ made[d] = 0
  /\ \E n \in 0..pool_size :
       /\ made' = [made EXCEPT ![d] = n]
       /\ ppool' = [ppool EXCEPT ![d] = Reverse([i \in 1..n |-> Packet(d, i)])]
  /\ UNCHANGED <<rx_queue, lock, sent, taken>>

\* What the pool holds is freed, and no more ("in-flight packets ?").
snull_teardown_pool(d) ==
  /\ made[d] > 0
  /\ Drained => InFlight = {}
  /\ ppool' = [ppool EXCEPT ![d] = <<>>]
  /\ made' = [made EXCEPT ![d] = 0]
  /\ UNCHANGED <<rx_queue, lock, sent, taken>>

snull_get_tx_buffer(d) ==
  /\ lock[d] = "free" /\ ppool[d] # <<>>
  /\ sent' = sent \cup {Head(ppool[d])}
  /\ ppool' = [ppool EXCEPT ![d] = Tail(@)]
  /\ UNCHANGED <<made, rx_queue, lock, taken>>

\* "Out of Pool": the function returns with the lock held.
get_tx_buffer_out(d) ==
  /\ lock[d] = "free" /\ ppool[d] = <<>>
  /\ lock' = [lock EXCEPT ![d] = "lost"]
  /\ UNCHANGED <<made, ppool, rx_queue, sent, taken>>

\* Mutant: the packet is put into the pool of the interface that received it.
snull_release_buffer_There(p) ==
  /\ p \in taken /\ lock[p.dev] = "free"
  /\ taken' = taken \ {p}
  /\ ppool' = [ppool EXCEPT ![Twin(p.dev)] = Push(@, p)]
  /\ UNCHANGED <<made, rx_queue, lock, sent>>

\* Mutant: the packet is forgotten when the pool is empty.
snull_release_buffer_Forgets(p) ==
  /\ p \in taken /\ lock[p.dev] = "free"
  /\ taken' = taken \ {p}
  /\ ppool' = [ppool EXCEPT ![p.dev] = IF @ = <<>> THEN @ ELSE Push(@, p)]
  /\ UNCHANGED <<made, rx_queue, lock, sent>>

\* The packet goes back to the pool of pkt->dev, under the lock of that device.
snull_release_buffer(p) ==
  /\ p \in taken /\ lock[p.dev] = "free"
  /\ taken' = taken \ {p}
  /\ ppool' = [ppool EXCEPT ![p.dev] = Push(@, p)]
  /\ UNCHANGED <<made, rx_queue, lock, sent>>

\* The queue is pushed at its head ("misorders packets").
snull_enqueue_buf(d, p) ==
  /\ p \in sent /\ p.dev = Twin(d) /\ lock[d] = "free"
  /\ sent' = sent \ {p}
  /\ rx_queue' = [rx_queue EXCEPT ![d] = Push(@, p)]
  /\ UNCHANGED <<made, ppool, lock, taken>>

\* Mutant: rx_queue is not moved to the next packet.
snull_dequeue_buf_Stays(d) ==
  /\ lock[d] = "free" /\ rx_queue[d] # <<>>
  /\ taken' = taken \cup {Head(rx_queue[d])}
  /\ UNCHANGED <<made, ppool, rx_queue, lock, sent>>

\* snull_dequeue_buf, and the receive part of snull_regular_interrupt.
snull_dequeue_buf(d) ==
  /\ lock[d] = "free" /\ rx_queue[d] # <<>>
  /\ taken' = taken \cup {Head(rx_queue[d])}
  /\ rx_queue' = [rx_queue EXCEPT ![d] = Tail(@)]
  /\ UNCHANGED <<made, ppool, lock, sent>>

-----------------------------------------------------------------------------
Init ==
  /\ made = [d \in Devs |-> 0] /\ lock = [d \in Devs |-> "free"]
  /\ ppool = [d \in Devs |-> <<>>] /\ rx_queue = [d \in Devs |-> <<>>]
  /\ sent = {} /\ taken = {}

Next ==
  \/ \E d \in Devs :
       \/ snull_setup_pool(d) \/ snull_teardown_pool(d)
       \/ snull_get_tx_buffer(d) \/ get_tx_buffer_out(d)
       \/ snull_dequeue_buf(d)
       \/ \E p \in sent : snull_enqueue_buf(d, p)
  \/ \E p \in taken : snull_release_buffer(p)

\* A sender that has a packet queues it, a receiver looks at its queue and
\* releases what it took.
Fairness ==
  /\ \A d \in Devs : WF_vars(snull_dequeue_buf(d))
  /\ \A p \in Packets :
       /\ \A d \in Devs : WF_vars(snull_enqueue_buf(d, p))
       /\ WF_vars(snull_release_buffer(p))

Spec == Init /\ [][Next]_vars /\ Fairness

-----------------------------------------------------------------------------
(***************************************************************************)
(* Properties.                                                             *)
(***************************************************************************)
Places == <<ToSet(ppool[0]), ToSet(ppool[1]), ToSet(rx_queue[0]),
            ToSet(rx_queue[1]), sent, taken>>

\* A packet is in one list or in one pair of hands at a time, and once: two
\* pushes of one packet would make a list a ring.
OnePlace ==
  /\ \A d \in Devs : IsInjective(ppool[d]) /\ IsInjective(rx_queue[d])
  /\ \A i, j \in DOMAIN Places : i # j => Places[i] \cap Places[j] = {}

\* The packets of a device are in its own pool or in flight, all that
\* snull_setup_pool made and no others, for as long as the pool stands: what
\* snull_release_buffer puts back is where snull_teardown_pool will look.  After
\* snull_teardown_pool there is none.
PacketsAccounted ==
  \A d \in Devs :
    ToSet(ppool[d]) \cup {p \in InFlight : p.dev = d}
      = {Packet(d, i) : i \in 1..made[d]}

\* A pool that was filled does not stay empty, unless someone asked an empty
\* pool for a packet: then the lock of its device is gone, with all that waits
\* for it.
PoolRecovers ==
  \A d \in Devs :
    (made[d] > 0 /\ ppool[d] = <<>>)
      ~> (ppool[d] # <<>> \/ made[d] = 0 \/ \E e \in Devs : lock[e] = "lost")

=============================================================================
