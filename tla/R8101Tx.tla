------------------------------ MODULE R8101Tx ------------------------------
(***************************************************************************)
(* The transmit side of the RTL8101E network driver while the interface is *)
(* up: the descriptor ring, ndo_start_xmit, the NAPI poll that reaps       *)
(* transmitted packets, the link timer, the transmit watchdog and the      *)
(* reset task (Solutions/Rt8169Drv/net_stk.c and mac.c), against a NIC     *)
(* that fetches and writes back descriptors by DMA.                        *)
(*                                                                         *)
(* Everything between spin_lock_irqsave and spin_unlock_irqrestore on      *)
(* pvt->lock is one step.  What the code does outside the lock is a step   *)
(* of its own: start_xmit reads its ring entry before it takes the lock,   *)
(* and poll unmasks the interrupts after napi_complete.                    *)
(***************************************************************************)
EXTENDS Integers, FiniteSets

CONSTANTS
  NUM_TX_DESC,    \* descriptors in the ring
  IdxMod,         \* the ring indexes are unsigned integers modulo IdxMod
  MAX_SKB_FRAGS,  \* room below which the queue is stopped
  Skbs,           \* the socket buffers of the stack
  NULL,           \* no socket buffer
  LinkFlaps,      \* whether the cable may be pulled and plugged
  Watchdog,       \* whether a transmission may take longer than 6*HZ
  SharedLine      \* whether the interrupt line has other devices (no MSI)

ASSUME RingAssumption ==
  /\ NUM_TX_DESC \in Nat \ {0}
  /\ IdxMod \in Nat \ {0}
  /\ \E k \in 1 .. IdxMod : IdxMod = NUM_TX_DESC * k
  /\ MAX_SKB_FRAGS \in 1 .. NUM_TX_DESC - 2
  /\ NUM_TX_DESC < IdxMod
ASSUME EnvAssumption ==
  /\ NULL \notin Skbs
  /\ LinkFlaps \in BOOLEAN
  /\ Watchdog \in BOOLEAN
  /\ SharedLine \in BOOLEAN

VARIABLES
  cur_tx, dirty_tx,  \* DrvPvt: next index to fill, next index to reap
  tx_skb,            \* DrvPvt: RingInfo of each entry
  TxDescArray,       \* the descriptor ring, shared with the NIC
  queue_stopped,     \* netif_queue_stopped(dev)
  carrier,           \* netif_carrier_ok(dev)
  qdisc,             \* the stack's transmit queue is attached (dev_activate)
  live,              \* the socket buffers handed to the driver and not freed
  xmit,              \* the start_xmit call in progress
  napi,              \* NAPI_STATE_SCHED and where poll is
  work,              \* pvt->task: queued, and where the reset task is
  intr,              \* IntrMask and the TxOK bit of IntrStatus
  nic,               \* the NIC's transmitter
  link               \* LinkStatus of PHYstatus

ring == <<cur_tx, dirty_tx, tx_skb, TxDescArray>>
net  == <<queue_stopped, carrier, qdisc>>
vars == <<ring, net, live, xmit, napi, work, intr, nic, link>>

Entries == 0 .. NUM_TX_DESC - 1
Idx     == 0 .. IdxMod - 1

\* The 32-bit arithmetic of the index macros.
TX_BUFFS_AVAIL(dirty, cur) == (dirty + NUM_TX_DESC - cur - 1) % IdxMod

\* Mutant: one descriptor too many is given away before the queue is stopped.
RoomLow_OffByOne(dirty, cur) == TX_BUFFS_AVAIL(dirty, cur) < MAX_SKB_FRAGS - 1

\* Too little room for one packet of the largest number of fragments.
RoomLow(dirty, cur) == TX_BUFFS_AVAIL(dirty, cur) < MAX_SKB_FRAGS

EmptyInfo == [skb |-> NULL, len |-> 0]
\* RingEnd, FirstFrag and LastFrag are set together by start_xmit, so one bit
\* stands for the two fragment bits.
EmptyDesc == [own |-> FALSE, last |-> FALSE, eor |-> FALSE, addr |-> NULL]
Idle      == [pc |-> "idle", skb |-> NULL, entry |-> 0]

-----------------------------------------------------------------------------
(***************************************************************************)
(* The NIC and the kernel services the driver calls.                       *)
(***************************************************************************)

\* rtl8101_hw_reset: mask and acknowledge, then the soft reset, which drops
\* the packet in flight and disables the transmitter.
HwReset == [enb |-> FALSE, cur |-> 0, npq |-> FALSE, buf |-> NULL, eor |-> FALSE]
IntrOff == [mask |-> FALSE, txok |-> FALSE]

\* rtl8101_hw_init after its own reset: the ring address is programmed (the
\* transmitter starts again at the first descriptor), Tx is enabled and the
\* interrupts are unmasked.
HwInit  == [HwReset EXCEPT !.enb = TRUE]
IntrOn  == [mask |-> TRUE, txok |-> FALSE]

\* rtl8101_notify_for_tx: ring the doorbell of the normal priority queue.
Notify(n) == [n EXCEPT !.npq = n.enb]

\* Mutant: the status word survives the unmapping.
UnmapDesc_KeepsOpts(desc) == [desc EXCEPT !.addr = NULL]

\* rtl8101_unmap_tx_skb: what is left in the descriptor.
UnmapDesc(desc) == EmptyDesc

\* The entries rtl8101_tx_clear clears: those with a length.  Its loop runs
\* from dirty_tx up to dirty_tx + NUM_TX_DESC; where that sum wraps round,
\* the first comparison fails already and it clears nothing.
Cleared ==
  {e \in Entries : tx_skb[e].len # 0 /\ dirty_tx + NUM_TX_DESC < IdxMod}

\* Mutant: the buffers are unmapped and forgotten, but not freed.
TxClear_Leaks ==
  /\ tx_skb' = [e \in Entries |-> IF e \in Cleared THEN EmptyInfo ELSE tx_skb[e]]
  /\ TxDescArray' = [e \in Entries |->
       IF e \in Cleared THEN UnmapDesc(TxDescArray[e]) ELSE TxDescArray[e]]
  /\ live' = live
  /\ cur_tx' = 0
  /\ dirty_tx' = 0

\* rtl8101_tx_clear: unmap and free; the index reset is part of it.
TxClear ==
  /\ tx_skb' = [e \in Entries |-> IF e \in Cleared THEN EmptyInfo ELSE tx_skb[e]]
  /\ TxDescArray' = [e \in Entries |->
       IF e \in Cleared THEN UnmapDesc(TxDescArray[e]) ELSE TxDescArray[e]]
  /\ live' = live \ {tx_skb[e].skb : e \in Cleared}
  /\ cur_tx' = 0
  /\ dirty_tx' = 0

-----------------------------------------------------------------------------
(***************************************************************************)
(* ndo_start_xmit.  The stack calls it with the queue awake, one call at a *)
(* time.  The entry is computed before the lock is taken.                  *)
(***************************************************************************)
XmitEnter ==
  /\ qdisc /\ ~queue_stopped
  /\ xmit.pc = "idle"
  /\ \E skb \in Skbs \ live :
       xmit' = [pc |-> "entered", skb |-> skb, entry |-> cur_tx % NUM_TX_DESC]
  /\ UNCHANGED <<ring, net, live, napi, work, intr, nic, link>>

\* The ring has fewer free descriptors than the packet has fragments (none:
\* the device offers no scatter-gather), or the descriptor is the NIC's.
NrFrags == 0
XmitMustStop ==
  \/ TX_BUFFS_AVAIL(dirty_tx, cur_tx) < NrFrags
  \/ TxDescArray[xmit.entry].own

\* err_stop: the stack keeps the packet and tries again when woken.
XmitBusy ==
  /\ xmit.pc = "entered"
  /\ XmitMustStop
  /\ queue_stopped' = TRUE
  /\ xmit' = Idle
  /\ UNCHANGED <<ring, carrier, qdisc, live, napi, work, intr, nic, link>>

\* Mutant: no descriptor ends the ring.
TxWord_NoRingEnd(e, skb) ==
  [own |-> TRUE, last |-> TRUE, eor |-> FALSE, addr |-> skb]

\* The descriptor start_xmit hands to the NIC.
TxWord(e, skb) ==
  [own |-> TRUE, last |-> TRUE, eor |-> (e + 1) % NUM_TX_DESC = 0, addr |-> skb]

\* The queue is stopped when fewer than MAX_SKB_FRAGS descriptors are left.
\* The second test of the room runs under the same lock and sees the same
\* indexes, so it never wakes the queue again.
XmitPost ==
  LET e == xmit.entry
      c == (cur_tx + 1) % IdxMod
  IN  /\ xmit.pc = "entered"
      /\ ~XmitMustStop
      /\ tx_skb' = [tx_skb EXCEPT ![e] = [skb |-> xmit.skb, len |-> 1]]
      /\ TxDescArray' = [TxDescArray EXCEPT ![e] = TxWord(e, xmit.skb)]
      /\ live' = live \cup {xmit.skb}
      /\ cur_tx' = c
      /\ nic' = Notify(nic)
      /\ queue_stopped' = (queue_stopped \/ RoomLow(dirty_tx, c))
      /\ xmit' = Idle
      /\ UNCHANGED <<dirty_tx, carrier, qdisc, napi, work, intr, link>>

-----------------------------------------------------------------------------
(***************************************************************************)
(* The interrupt and the NAPI poll.                                        *)
(***************************************************************************)

\* rtl8101_interrupt: mask and acknowledge, then schedule the poll.  The handler
\* does not look at the mask: on a shared line (IRQF_SHARED) another device may
\* have it called while the NIC's interrupts are masked.  napi_schedule has no
\* effect when the poll is scheduled already.
Interrupt ==
  /\ intr.mask \/ SharedLine
  /\ intr.txok
  /\ intr' = IntrOff
  /\ napi' = [napi EXCEPT !.sched = TRUE]
  /\ UNCHANGED <<ring, net, live, xmit, work, nic, link>>

\* How many entries the while loop of rtl8101_tx_interrupt reaps: it stops at
\* the first one the NIC still owns.
TxLeft == (cur_tx - dirty_tx) % IdxMod
EntryAt(k) == ((dirty_tx + k) % IdxMod) % NUM_TX_DESC

\* Mutant: the poll does not look at DescOwn.
Reapable_Blind(n) == TRUE

Reapable(n) == \A k \in 0 .. n - 1 : ~TxDescArray[EntryAt(k)].own
Reaped(n) == {EntryAt(k) : k \in 0 .. n - 1}

\* Mutant: the freed buffer stays in the ring entry.
ReapInfo_Dangling(e) == [tx_skb[e] EXCEPT !.len = 0]

\* unmap_tx_skb, and the buffer is given up with the last fragment.
ReapInfo(e) ==
  IF TxDescArray[e].last THEN EmptyInfo ELSE [tx_skb[e] EXCEPT !.len = 0]

\* Mutant: nobody wakes the queue after a reap.
StaysStopped_ForEver(n, d) == queue_stopped

\* The queue is woken when something was reaped and there is room again.
StaysStopped(n, d) == queue_stopped /\ (n = 0 \/ RoomLow(d, cur_tx))

\* rtl8101_tx_interrupt, under the lock.  The buffer is freed only when the
\* written-back status has LastFrag.
TxInterrupt(n) ==
  LET d     == (dirty_tx + n) % IdxMod
      freed == {e \in Reaped(n) : TxDescArray[e].last}
  IN  /\ Reapable(n)
      /\ n = TxLeft \/ TxDescArray[EntryAt(n)].own
      /\ dirty_tx' = d
      /\ tx_skb' = [e \in Entries |->
           IF e \in Reaped(n) THEN ReapInfo(e) ELSE tx_skb[e]]
      /\ TxDescArray' = [e \in Entries |->
           IF e \in Reaped(n) THEN UnmapDesc(TxDescArray[e]) ELSE TxDescArray[e]]
      /\ live' = live \ {tx_skb[e].skb : e \in freed}
      /\ queue_stopped' = StaysStopped(n, d)
      /\ nic' = IF n > 0 /\ cur_tx # d THEN Notify(nic) ELSE nic

\* rtl8101_poll up to the release of the lock; rtl8101_rx_interrupt before it
\* does not touch the transmit side.
PollTx ==
  /\ napi.sched /\ napi.pc = "idle"
  /\ \E n \in 0 .. TxLeft : TxInterrupt(n)
  /\ \/ napi' = [napi EXCEPT !.pc = "complete"]
     \/ napi' = napi  \* the receive budget is used up: poll is called again
  /\ UNCHANGED <<cur_tx, carrier, qdisc, xmit, work, intr, link>>

\* napi_complete
PollComplete ==
  /\ napi.pc = "complete"
  /\ napi' = [sched |-> FALSE, pc |-> "unmask"]
  /\ UNCHANGED <<ring, net, live, xmit, work, intr, nic, link>>

\* Mutant: poll forgets to enable the interrupts again.
PollUnmask_Forgotten ==
  /\ napi.pc = "unmask"
  /\ napi' = [napi EXCEPT !.pc = "idle"]
  /\ UNCHANGED <<ring, net, live, xmit, work, intr, nic, link>>

\* rtl8101_enable_interrupts
PollUnmask ==
  /\ napi.pc = "unmask"
  /\ napi' = [napi EXCEPT !.pc = "idle"]
  /\ intr' = [intr EXCEPT !.mask = TRUE]
  /\ UNCHANGED <<ring, net, live, xmit, work, nic, link>>

-----------------------------------------------------------------------------
(***************************************************************************)
(* The link timer, the watchdog and the reset task.                        *)
(***************************************************************************)

\* rtl8101_check_link_status, the link came up: hw_init starts the queue.
LinkUp ==
  /\ link /\ ~carrier
  /\ nic' = HwInit
  /\ intr' = IntrOn
  /\ queue_stopped' = FALSE
  /\ carrier' = TRUE
  /\ UNCHANGED <<ring, qdisc, live, xmit, napi, work, link>>

\* Mutant: the ring is cleared under a transmitter that is still running.
LinkDown_NoReset ==
  /\ ~link /\ carrier
  /\ carrier' = FALSE
  /\ queue_stopped' = TRUE
  /\ TxClear
  /\ UNCHANGED <<qdisc, xmit, napi, work, intr, nic, link>>

\* rtl8101_check_link_status, the link went down.
LinkDown ==
  /\ ~link /\ carrier
  /\ carrier' = FALSE
  /\ queue_stopped' = TRUE
  /\ nic' = HwReset
  /\ intr' = IntrOff
  /\ TxClear
  /\ UNCHANGED <<qdisc, xmit, napi, work, link>>

\* rtl8101_tx_timeout, called by the stack's watchdog with the transmit lock
\* held when the queue has been stopped for too long.
TxTimeout ==
  /\ Watchdog
  /\ qdisc /\ carrier /\ queue_stopped
  /\ xmit.pc = "idle"
  /\ nic' = HwReset
  /\ intr' = IntrOff
  /\ work' = [work EXCEPT !.pending = TRUE]
  /\ UNCHANGED <<ring, net, live, xmit, napi, link>>

\* rtl8101_reset_task up to its lock: napi_disable waits until no poll is
\* scheduled, the interrupts are masked and acknowledged, NAPI is enabled.
TaskQuiesce ==
  /\ work.pending /\ work.pc = "idle"
  /\ ~napi.sched
  /\ work' = [pending |-> FALSE, pc |-> "quiesced"]
  /\ intr' = IntrOff
  /\ UNCHANGED <<ring, net, live, xmit, napi, nic, link>>

\* The locked part of rtl8101_reset_task when every receive buffer has been
\* refilled: clear, initialise the hardware, wake the queue.
TaskRecover ==
  /\ work.pc = "quiesced"
  /\ TxClear
  /\ nic' = HwInit
  /\ intr' = IntrOn
  /\ queue_stopped' = FALSE
  /\ work' = [work EXCEPT !.pc = "idle"]
  /\ UNCHANGED <<carrier, qdisc, xmit, napi, link>>

\* The same with receive buffers missing: clear, and try again later.
TaskRetry ==
  /\ work.pc = "quiesced"
  /\ TxClear
  /\ work' = [pending |-> TRUE, pc |-> "idle"]
  /\ UNCHANGED <<net, xmit, napi, intr, nic, link>>

-----------------------------------------------------------------------------
(***************************************************************************)
(* The environment: the NIC's transmitter, the cable, and the stack's      *)
(* linkwatch, which follows the carrier asynchronously and waits for the   *)
(* start_xmit in progress.                                                 *)
(***************************************************************************)
NicFetch ==
  /\ nic.enb /\ nic.npq /\ nic.buf = NULL /\ link
  /\ nic.cur \in Entries
  /\ IF TxDescArray[nic.cur].own
       THEN nic' = [nic EXCEPT !.buf = TxDescArray[nic.cur].addr,
                               !.eor = TxDescArray[nic.cur].eor]
       ELSE nic' = [nic EXCEPT !.npq = FALSE]
  /\ UNCHANGED <<ring, net, live, xmit, napi, work, intr, link>>

NicDone ==
  /\ nic.buf # NULL
  /\ TxDescArray' = [TxDescArray EXCEPT ![nic.cur].own = FALSE]
  /\ nic' = [nic EXCEPT !.buf = NULL, !.eor = FALSE,
                         !.cur = IF nic.eor THEN 0 ELSE nic.cur + 1]
  /\ intr' = [intr EXCEPT !.txok = TRUE]
  /\ UNCHANGED <<cur_tx, dirty_tx, tx_skb, net, live, xmit, napi, work, link>>

Cable ==
  /\ LinkFlaps
  /\ link' = ~link
  /\ UNCHANGED <<ring, net, live, xmit, napi, work, intr, nic>>

LinkWatch ==
  /\ qdisc # carrier
  /\ carrier \/ xmit.pc = "idle"
  /\ qdisc' = carrier
  /\ UNCHANGED <<ring, queue_stopped, carrier, live, xmit, napi, work,
                 intr, nic, link>>

-----------------------------------------------------------------------------
\* The state rtl8101_open leaves: an empty ring, the hardware initialised and
\* the queue started, the carrier off since net_register_dev.
Init ==
  /\ cur_tx = 0 /\ dirty_tx = 0
  /\ tx_skb = [e \in Entries |-> EmptyInfo]
  /\ TxDescArray = [e \in Entries |->
       [EmptyDesc EXCEPT !.eor = (e = NUM_TX_DESC - 1)]]
  /\ queue_stopped = FALSE /\ carrier = FALSE /\ qdisc = FALSE
  /\ live = {}
  /\ xmit = Idle
  /\ napi = [sched |-> FALSE, pc |-> "idle"]
  /\ work = [pending |-> FALSE, pc |-> "idle"]
  /\ intr = IntrOn
  /\ nic = HwInit
  /\ link = TRUE

Next ==
  \/ XmitEnter \/ XmitBusy \/ XmitPost
  \/ Interrupt \/ PollTx \/ PollComplete \/ PollUnmask
  \/ LinkUp \/ LinkDown
  \/ TxTimeout \/ TaskQuiesce \/ TaskRecover \/ TaskRetry
  \/ NicFetch \/ NicDone \/ Cable \/ LinkWatch

Spec == Init /\ [][Next]_vars

\* A call in progress runs on, the NIC's interrupts and the softirqs are served,
\* the link timer is periodic, the NIC transmits what it was told of.  Nothing
\* obliges the stack to send.  poll comes back to napi_complete: the receive side
\* does not use up its budget for ever.
Fairness ==
  /\ WF_vars(XmitBusy) /\ WF_vars(XmitPost)
  /\ WF_vars(intr.mask /\ Interrupt) /\ WF_vars(PollTx) /\ SF_vars(PollTx /\ napi'.pc = "complete")
  /\ WF_vars(PollComplete) /\ WF_vars(PollUnmask)
  /\ WF_vars(LinkUp) /\ WF_vars(LinkDown) /\ WF_vars(LinkWatch)
  /\ WF_vars(TaskQuiesce) /\ SF_vars(TaskRecover)
  /\ WF_vars(NicFetch) /\ WF_vars(NicDone)

FairSpec == Spec /\ Fairness

-----------------------------------------------------------------------------
(***************************************************************************)
(* Properties.                                                             *)
(***************************************************************************)

\* Every variable has its type.  What could be wrong is nic.cur \in Entries: the
\* NIC follows the RingEnd bits start_xmit writes and never walks off the ring.
TypeOK ==
  /\ cur_tx \in Idx /\ dirty_tx \in Idx
  /\ tx_skb \in [Entries -> [skb : Skbs \cup {NULL}, len : {0, 1}]]
  /\ TxDescArray \in [Entries -> [own : BOOLEAN, last : BOOLEAN,
                                  eor : BOOLEAN, addr : Skbs \cup {NULL}]]
  /\ queue_stopped \in BOOLEAN /\ carrier \in BOOLEAN /\ qdisc \in BOOLEAN
  /\ live \in SUBSET Skbs
  /\ xmit \in [pc : {"idle", "entered"}, skb : Skbs \cup {NULL}, entry : Entries]
  /\ napi \in [sched : BOOLEAN, pc : {"idle", "complete", "unmask"}]
  /\ work \in [pending : BOOLEAN, pc : {"idle", "quiesced"}]
  /\ intr \in [mask : BOOLEAN, txok : BOOLEAN]
  /\ nic \in [enb : BOOLEAN, cur : Entries, npq : BOOLEAN,
              buf : Skbs \cup {NULL}, eor : BOOLEAN]
  /\ link \in BOOLEAN

\* start_xmit never meets the state its message "BUG! Tx Ring full when queue
\* awake!" is about: whenever the queue is awake there is room for one packet
\* of the largest number of fragments.  Every wake-up (tx_interrupt, hw_init,
\* reset_task) must respect it.
QueueAwakeHasRoom ==
  ~queue_stopped => TX_BUFFS_AVAIL(dirty_tx, cur_tx) >= MAX_SKB_FRAGS

\* cur_tx is the next free entry and dirty_tx the oldest one in use, as the
\* comments of DrvPvt say: the entries that hold a buffer are those between
\* the two indexes, across the wrap of the ring and of the index.
Window == {EntryAt(k) : k \in 0 .. TxLeft - 1}
BuffersFillWindow ==
  {e \in Entries : tx_skb[e].skb # NULL} = Window

\* No buffer is lost or held twice: what the driver took from the stack and
\* has not freed is exactly what the ring entries hold, each in one entry,
\* and the stack is not handed a buffer the driver still holds.
BuffersAccounted ==
  /\ live = {tx_skb[e].skb : e \in Entries} \ {NULL}
  /\ \A e, f \in Entries :
       e # f /\ tx_skb[e].skb # NULL => tx_skb[e].skb # tx_skb[f].skb
  /\ xmit.skb \notin live

\* The NIC reads only memory that is still mapped: the buffer in flight has
\* not been unmapped and freed under it by tx_clear or tx_interrupt.
DmaFromLiveBuffer == nic.buf # NULL => nic.buf \in live

\* A descriptor the NIC owns carries the address of the buffer its RingInfo
\* remembers, and a RingInfo has a length exactly when it has a buffer, so
\* that tx_clear (which looks at the length) and tx_interrupt (which looks at
\* LastFrag) agree on what there is to free.
DescMatchesInfo ==
  \A e \in Entries :
    /\ TxDescArray[e].own => TxDescArray[e].addr = tx_skb[e].skb
    /\ TxDescArray[e].own => tx_skb[e].skb # NULL
    /\ TxDescArray[e].last <=> tx_skb[e].skb # NULL
    /\ tx_skb[e].len # 0 <=> tx_skb[e].skb # NULL

\* The NIC and the driver agree on where the ring is: an enabled transmitter
\* stands at an entry in use or at the next one to be filled, otherwise the
\* packets queued there would wait for a full turn of the ring.
NicInWindow ==
  nic.enb => nic.cur \in Window \cup {cur_tx % NUM_TX_DESC}

\* Every packet accepted is eventually sent and its buffer freed, whatever
\* the order in which the interrupt, the poll and start_xmit run.  (Not on a
\* shared line: a TxOK acknowledged while poll is scheduled wakes nobody.)
EveryBufferFreed == \A s \in Skbs : (s \in live) ~> (s \notin live)

\* A stopped queue is woken again, with the same exception.
QueueWakes == queue_stopped ~> ~queue_stopped

\* The ring seen as the queue of the packets between the two indexes; those
\* whose descriptor came back are on the wire.
HeldPackets == [i \in 1 .. TxLeft |-> tx_skb[EntryAt(i - 1)].skb]
SentPackets == Cardinality({k \in 0 .. TxLeft - 1 : ~TxDescArray[EntryAt(k)].own})

Fifo == INSTANCE TxFifo WITH
  Packets <- Skbs, Capacity <- NUM_TX_DESC - MAX_SKB_FRAGS,
  held <- HeldPackets, sent <- SentPackets

\* The ring is a FIFO that sends every packet once and in order.
ImplementsFifo == Fifo!FifoSpec

=============================================================================
