------------------------------ MODULE R8101Rx ------------------------------
(***************************************************************************)
(* The receive side of the RTL8101E network driver while the interface is  *)
(* up: the receive ring, rtl8101_rx_interrupt and rtl8101_rx_fill, the     *)
(* interrupt handler and the NAPI poll, the link timer and the reset task  *)
(* (Solutions/Rt8169Drv/net_stk.c and mac.c), against a NIC that stores    *)
(* frames by DMA.                                                          *)
(*                                                                         *)
(* rtl8101_rx_interrupt takes no lock.  It runs in the poll and in the     *)
(* reset task, and each of its looks at a descriptor, each entry of the    *)
(* refill and each group of accesses to the shared indexes is a step of    *)
(* its own.  A group is one line or two: cur_rx and dirty_rx at the start, *)
(* the count and the store of cur_rx after the loop, and the two arguments *)
(* of rtl8101_rx_fill.  Only the link timer writes the indexes meanwhile,  *)
(* so this matters with LinkFlaps alone, where what is checked does not    *)
(* depend on the indexes.  The link timer and the locked part of the reset *)
(* task are one step each.                                                 *)
(***************************************************************************)
EXTENDS Integers, Sequences, FiniteSets

CONSTANTS
  NUM_RX_DESC,  \* descriptors in the ring
  IdxMod,       \* the ring indexes are unsigned integers modulo IdxMod
  Budget,       \* R8101_NAPI_WEIGHT
  Frames,       \* the good frames of the wire
  NULL,         \* no frame in the descriptor
  Bad,          \* a frame received with an error (RxRES)
  EarlyFrames,  \* frames may arrive before the link timer has seen the link
  LinkFlaps,    \* the cable may be pulled and plugged
  Watchdog,     \* the transmit watchdog may start the reset task
  SlowTask,     \* ... and may fire again while the task is running
  AllocFails,   \* dev_alloc_skb may fail
  SharedLine    \* the interrupt line has other devices (no MSI)

ASSUME RingAssumption ==
  /\ NUM_RX_DESC \in Nat \ {0}
  /\ IdxMod \in Nat \ {0}
  /\ \E k \in 1 .. IdxMod : IdxMod = NUM_RX_DESC * k
  /\ NUM_RX_DESC < IdxMod
  /\ Budget \in Nat \ {0}
ASSUME EnvAssumption ==
  /\ NULL \notin Frames /\ Bad \notin Frames /\ NULL # Bad
  /\ {EarlyFrames, LinkFlaps, Watchdog, SlowTask, AllocFails, SharedLine}
       \subseteq BOOLEAN

VARIABLES
  cur_rx, dirty_rx,  \* DrvPvt: next index to process, next index to refill
  rx_skbuff,         \* DrvPvt: which entries have a buffer
  RxDescArray,       \* the descriptor ring, shared with the NIC
  rx,                \* the call of rtl8101_rx_interrupt of each context
  napi,              \* NAPI_STATE_SCHED
  work,              \* pvt->task is queued
  intr,              \* IntrMask, and RxOK or RxDescUnavail of IntrStatus
  carrier, link,     \* netif_carrier_ok(dev), LinkStatus of PHYstatus
  nic                \* the NIC's receiver

idx  == <<cur_rx, dirty_rx>>
ring == <<rx_skbuff, RxDescArray>>
vars == <<idx, ring, rx, napi, work, intr, carrier, link, nic>>

Entries  == 0 .. NUM_RX_DESC - 1
Idx      == 0 .. IdxMod - 1
Contexts == {"poll", "task"}

Returned == [pc |-> "idle", cur |-> 0, left |-> 0, count |-> 0, start |-> 0]
IntrOff  == [mask |-> FALSE, status |-> FALSE]
IntrOn   == [mask |-> TRUE, status |-> FALSE]

\* rtl8101_hw_reset and rtl8101_hw_init: where they leave the receiver.
HwReset == [enb |-> FALSE, pos |-> 0]
HwInit  == [enb |-> TRUE, pos |-> 0]

-----------------------------------------------------------------------------
(***************************************************************************)
(* rtl8101_rx_interrupt, in context w.                                     *)
(***************************************************************************)
Lower(a, b) == IF a < b THEN a ELSE b

\* poll looks at no more than its budget, the reset task at all (~0).
RxBudget(w) == IF w = "poll" THEN Budget ELSE IdxMod - 1

\* Mutant: the entries still without a buffer are looked at as well.
RxLeft_IgnoresDirty(w) == RxBudget(w)

\* rx_left: the entries that have a buffer, up to the budget.
RxLeft(w) == Lower((NUM_RX_DESC + dirty_rx - cur_rx) % IdxMod, RxBudget(w))

\* The private copies of cur_rx and rx_left; both indexes are read in one step.
RxBegin(w) ==
  /\ rx[w].pc = "begin"
  /\ rx' = [rx EXCEPT ![w] = [Returned EXCEPT !.pc = "loop", !.cur = cur_rx,
                                              !.left = RxLeft(w)]]
  /\ UNCHANGED <<idx, ring, napi, work, intr, carrier, link, nic>>

RxEntry(w) == rx[w].cur % NUM_RX_DESC

\* Mutant: the loop does not look at DescOwn.
RxMore_Blind(w) == rx[w].pc = "loop" /\ rx[w].left > 0

\* The loop goes on: rx_left > 0, and the descriptor is not the NIC's.
RxMore(w) == rx[w].pc = "loop" /\ rx[w].left > 0 /\ ~RxDescArray[RxEntry(w)].own

\* Mutant: the RingEnd bit is not carried over.
MarkToAsic_DropsRingEnd(d) == [own |-> TRUE, eor |-> FALSE, frame |-> NULL]

\* rtl8101_mark_to_asic
MarkToAsic(d) == [own |-> TRUE, eor |-> d.eor, frame |-> NULL]

\* rx_left--, cur_rx++
RxAdvance(r) == [r EXCEPT !.cur = (r.cur + 1) % IdxMod, !.left = r.left - 1]

\* The status word is read; what follows goes by this copy.
RxLook(w) ==
  /\ RxMore(w)
  /\ rx' = [rx EXCEPT ![w].pc =
       IF RxDescArray[RxEntry(w)].frame = Bad THEN "error" ELSE "take"]
  /\ UNCHANGED <<idx, ring, napi, work, intr, carrier, link, nic>>

\* A frame with an error: the descriptor goes back to the NIC.
RxError(w) ==
  /\ rx[w].pc = "error"
  /\ RxDescArray' = [RxDescArray EXCEPT ![RxEntry(w)] = MarkToAsic(@)]
  /\ rx' = [rx EXCEPT ![w] = [RxAdvance(@) EXCEPT !.pc = "loop"]]
  /\ UNCHANGED <<idx, rx_skbuff, napi, work, intr, carrier, link, nic>>

\* Mutant: the descriptor is given back to the NIC with the buffer gone.
RxTake_Recycles(w) ==
  /\ rx[w].pc = "take"
  /\ rx_skbuff' = [rx_skbuff EXCEPT ![RxEntry(w)] = FALSE]
  /\ RxDescArray' = [RxDescArray EXCEPT ![RxEntry(w)] = MarkToAsic(@)]
  /\ rx' = [rx EXCEPT ![w] = [RxAdvance(@) EXCEPT !.pc = "loop"]]
  /\ UNCHANGED <<idx, napi, work, intr, carrier, link, nic>>

\* A good frame is handed to the stack; its status word stays behind.
RxTake(w) ==
  /\ rx[w].pc = "take"
  /\ rx_skbuff' = [rx_skbuff EXCEPT ![RxEntry(w)] = FALSE]
  /\ rx' = [rx EXCEPT ![w] = [RxAdvance(@) EXCEPT !.pc = "loop"]]
  /\ UNCHANGED <<idx, RxDescArray, napi, work, intr, carrier, link, nic>>

\* Mutant: cur_rx is not written back.
RxCommit_Forgets(w) ==
  /\ rx[w].pc = "loop" /\ ~RxMore(w)
  /\ rx' = [rx EXCEPT ![w] = [Returned EXCEPT !.pc = "refill",
                               !.count = (rx[w].cur - cur_rx) % IdxMod]]
  /\ UNCHANGED <<idx, ring, napi, work, intr, carrier, link, nic>>

\* After the loop: count, and the private cur_rx is written back, in one step.
RxCommit(w) ==
  /\ rx[w].pc = "loop" /\ ~RxMore(w)
  /\ cur_rx' = rx[w].cur
  /\ rx' = [rx EXCEPT ![w] = [Returned EXCEPT !.pc = "refill",
                               !.count = (rx[w].cur - cur_rx) % IdxMod]]
  /\ UNCHANGED <<dirty_rx, ring, napi, work, intr, carrier, link, nic>>

\* Mutant: the ring is refilled only after frames were taken.
RxRefill_OnlyAfterWork(w) ==
  /\ rx[w].pc = "refill"
  /\ rx' = [rx EXCEPT ![w].pc = "fill", ![w].cur = dirty_rx, ![w].start = dirty_rx,
                      ![w].left = IF rx[w].count = 0 THEN 0
                                  ELSE (cur_rx - dirty_rx) % IdxMod]
  /\ UNCHANGED <<idx, ring, napi, work, intr, carrier, link, nic>>

\* The arguments of rtl8101_rx_fill, read in one step.
RxRefill(w) ==
  /\ rx[w].pc = "refill"
  /\ rx' = [rx EXCEPT ![w].pc = "fill", ![w].cur = dirty_rx, ![w].start = dirty_rx,
                      ![w].left = (cur_rx - dirty_rx) % IdxMod]
  /\ UNCHANGED <<idx, ring, napi, work, intr, carrier, link, nic>>

\* One entry of rtl8101_rx_fill; one that has its buffer is passed over.
RxFill(w) ==
  /\ rx[w].pc = "fill" /\ rx[w].left > 0
  /\ IF rx_skbuff[RxEntry(w)]
       THEN UNCHANGED ring
       ELSE /\ rx_skbuff' = [rx_skbuff EXCEPT ![RxEntry(w)] = TRUE]
            /\ RxDescArray' = [RxDescArray EXCEPT ![RxEntry(w)] = MarkToAsic(@)]
  /\ rx' = [rx EXCEPT ![w] = RxAdvance(@)]
  /\ UNCHANGED <<idx, napi, work, intr, carrier, link, nic>>

\* Mutant: dirty_rx catches up although buffers are missing.
RxDelta_Optimistic(r) == r.cur + r.left - r.start

\* cur - start, what rtl8101_rx_fill returns.
RxDelta(r) == r.cur - r.start

\* Where the caller goes on.
RxReturn(w) ==
  IF w = "task" THEN [Returned EXCEPT !.pc = "lock"]
  ELSE IF rx[w].count < Budget THEN [Returned EXCEPT !.pc = "complete"]
  ELSE Returned

\* rtl8101_rx_fill is done, or an allocation failed; dirty_rx += delta.
RxFillEnd(w) ==
  /\ rx[w].pc = "fill"
  /\ rx[w].left = 0 \/ (AllocFails /\ ~rx_skbuff[RxEntry(w)])
  /\ dirty_rx' = (dirty_rx + RxDelta(rx[w])) % IdxMod
  /\ rx' = [rx EXCEPT ![w] = RxReturn(w)]
  /\ UNCHANGED <<cur_rx, ring, napi, work, intr, carrier, link, nic>>

RxInterrupt(w) ==
  \/ RxBegin(w) \/ RxLook(w) \/ RxError(w) \/ RxTake(w) \/ RxCommit(w)
  \/ RxRefill(w) \/ RxFill(w) \/ RxFillEnd(w)

-----------------------------------------------------------------------------
(***************************************************************************)
(* The interrupt and the NAPI poll.                                        *)
(***************************************************************************)

\* rtl8101_interrupt: mask and acknowledge, then napi_schedule.  The handler
\* does not look at the mask: on a shared line (IRQF_SHARED) another device may
\* have it called while the NIC's interrupts are masked.
Interrupt ==
  /\ intr.mask \/ SharedLine
  /\ intr.status
  /\ intr' = IntrOff
  /\ napi' = TRUE
  /\ UNCHANGED <<idx, ring, rx, work, carrier, link, nic>>

\* The softirq calls rtl8101_poll.
PollEnter ==
  /\ napi /\ rx["poll"].pc = "idle"
  /\ rx' = [rx EXCEPT !["poll"].pc = "begin"]
  /\ UNCHANGED <<idx, ring, napi, work, intr, carrier, link, nic>>

\* napi_complete, when less than the budget was used.
PollComplete ==
  /\ rx["poll"].pc = "complete"
  /\ napi' = FALSE
  /\ rx' = [rx EXCEPT !["poll"].pc = "unmask"]
  /\ UNCHANGED <<idx, ring, work, intr, carrier, link, nic>>

\* Mutant: what has landed since napi_complete is acknowledged unseen.
PollUnmask_Acks ==
  /\ rx["poll"].pc = "unmask"
  /\ rx' = [rx EXCEPT !["poll"] = Returned]
  /\ intr' = IntrOn
  /\ UNCHANGED <<idx, ring, napi, work, carrier, link, nic>>

\* Mutant: poll forgets to enable the interrupts again.
PollUnmask_Forgotten ==
  /\ rx["poll"].pc = "unmask"
  /\ rx' = [rx EXCEPT !["poll"] = Returned]
  /\ UNCHANGED <<idx, ring, napi, work, intr, carrier, link, nic>>

\* rtl8101_enable_interrupts; poll returns.
PollUnmask ==
  /\ rx["poll"].pc = "unmask"
  /\ rx' = [rx EXCEPT !["poll"] = Returned]
  /\ intr' = [intr EXCEPT !.mask = TRUE]
  /\ UNCHANGED <<idx, ring, napi, work, carrier, link, nic>>

-----------------------------------------------------------------------------
(***************************************************************************)
(* The link timer, the watchdog and the reset task.                        *)
(***************************************************************************)

\* rtl8101_check_link_status, the link came up: rtl8101_hw_init.
LinkUp ==
  /\ link /\ ~carrier
  /\ carrier' = TRUE
  /\ nic' = HwInit
  /\ intr' = IntrOn
  /\ UNCHANGED <<idx, ring, rx, napi, work, link>>

\* The link went down: rtl8101_hw_reset and rtl8101_init_ring_indexes.
LinkDown ==
  /\ ~link /\ carrier
  /\ carrier' = FALSE
  /\ nic' = HwReset
  /\ intr' = IntrOff
  /\ cur_rx' = 0 /\ dirty_rx' = 0
  /\ UNCHANGED <<ring, rx, napi, work, link>>

\* rtl8101_tx_timeout.  The watchdog's period is 6*HZ: unless the reset task
\* is held up for longer, it has ended by the next timeout.
TxTimeout ==
  /\ Watchdog /\ carrier
  /\ SlowTask \/ rx["task"].pc = "idle"
  /\ nic' = HwReset
  /\ intr' = IntrOff
  /\ work' = TRUE
  /\ UNCHANGED <<idx, ring, rx, napi, carrier, link>>

\* Mutant: the task does not wait for the poll.
TaskQuiesce_NoWait ==
  /\ work /\ rx["task"].pc = "idle"
  /\ work' = FALSE
  /\ intr' = IntrOff
  /\ rx' = [rx EXCEPT !["task"].pc = "begin"]
  /\ UNCHANGED <<idx, ring, napi, carrier, link, nic>>

\* rtl8101_reset_task up to rtl8101_rx_interrupt: napi_disable waits until no
\* poll is scheduled, the interrupts are masked and acknowledged.
TaskQuiesce ==
  /\ work /\ rx["task"].pc = "idle"
  /\ ~napi
  /\ work' = FALSE
  /\ intr' = IntrOff
  /\ rx' = [rx EXCEPT !["task"].pc = "begin"]
  /\ UNCHANGED <<idx, ring, napi, carrier, link, nic>>

\* Its locked part: with every buffer in place the ring starts afresh.
TaskRecover ==
  /\ rx["task"].pc = "lock"
  /\ dirty_rx = cur_rx
  /\ cur_rx' = 0 /\ dirty_rx' = 0
  /\ nic' = HwInit
  /\ intr' = IntrOn
  /\ rx' = [rx EXCEPT !["task"] = Returned]
  /\ UNCHANGED <<ring, napi, work, carrier, link>>

\* "Rx buffers shortage": try again later.
TaskRetry ==
  /\ rx["task"].pc = "lock"
  /\ dirty_rx # cur_rx
  /\ work' = TRUE
  /\ rx' = [rx EXCEPT !["task"] = Returned]
  /\ UNCHANGED <<idx, ring, napi, intr, carrier, link, nic>>

-----------------------------------------------------------------------------
(***************************************************************************)
(* The environment: the NIC's receiver and the cable.  A frame with an     *)
(* error raises RxErr, which IntrEnMask leaves masked; a frame that finds  *)
(* no descriptor raises RxDescUnavail and is lost.                         *)
(***************************************************************************)
NicListens ==
  nic.enb /\ nic.pos \in Entries /\ link /\ (carrier \/ EarlyFrames)

NicStore(f) ==
  /\ NicListens
  /\ RxDescArray[nic.pos].own
  /\ RxDescArray' = [RxDescArray EXCEPT ![nic.pos].own = FALSE,
                                        ![nic.pos].frame = f]
  /\ nic' = [nic EXCEPT !.pos = IF RxDescArray[nic.pos].eor THEN 0 ELSE @ + 1]
  /\ intr' = [intr EXCEPT !.status = @ \/ f # Bad]
  /\ UNCHANGED <<idx, rx_skbuff, rx, napi, work, carrier, link>>

NicLose ==
  /\ NicListens
  /\ ~RxDescArray[nic.pos].own
  /\ intr' = [intr EXCEPT !.status = TRUE]
  /\ UNCHANGED <<idx, ring, rx, napi, work, carrier, link, nic>>

Cable ==
  /\ LinkFlaps
  /\ link' = ~link
  /\ UNCHANGED <<idx, ring, rx, napi, work, intr, carrier, nic>>

-----------------------------------------------------------------------------
\* The state rtl8101_open leaves: every entry has its buffer.
Init ==
  /\ cur_rx = 0 /\ dirty_rx = 0
  /\ rx_skbuff = [e \in Entries |-> TRUE]
  /\ RxDescArray = [e \in Entries |->
       [own |-> TRUE, eor |-> e = NUM_RX_DESC - 1, frame |-> NULL]]
  /\ rx = [w \in Contexts |-> Returned]
  /\ napi = FALSE /\ work = FALSE
  /\ intr = IntrOn
  /\ carrier = FALSE /\ link = TRUE
  /\ nic = HwInit

Next ==
  \/ \E w \in Contexts : RxInterrupt(w)
  \/ Interrupt \/ PollEnter \/ PollComplete \/ PollUnmask
  \/ LinkUp \/ LinkDown
  \/ TxTimeout \/ TaskQuiesce \/ TaskRecover \/ TaskRetry
  \/ \E f \in Frames \cup {Bad} : NicStore(f)
  \/ NicLose \/ Cable

Spec == Init /\ [][Next]_vars

\* Interrupts and softirqs are served (nothing obliges another device of the line
\* to have the handler called), work that is queued is done, and the link timer
\* is periodic.  An allocation that is tried again and again
\* succeeds at last, and the wire does not fall silent.
Fairness ==
  /\ \A w \in Contexts : WF_vars(RxInterrupt(w)) /\ SF_vars(RxFill(w))
  /\ WF_vars(intr.mask /\ Interrupt) /\ WF_vars(PollEnter)
  /\ WF_vars(PollComplete) /\ WF_vars(PollUnmask)
  /\ WF_vars(LinkUp)
  /\ WF_vars(TaskQuiesce) /\ WF_vars(TaskRecover) /\ WF_vars(TaskRetry)
  /\ WF_vars(NicLose \/ \E f \in Frames : NicStore(f))

FairSpec == Spec /\ Fairness

-----------------------------------------------------------------------------
(***************************************************************************)
(* Properties.                                                             *)
(***************************************************************************)
RxCall == [pc : {"idle", "begin", "loop", "error", "take", "refill", "fill",
                 "complete", "unmask", "lock"},
           cur : Idx, left : Nat, count : Idx, start : Idx]

\* Every variable has its type; what could be wrong is nic.pos \in Entries: the
\* NIC follows the RingEnd bits rtl8101_mark_to_asic carries over.
TypeOK ==
  /\ cur_rx \in Idx /\ dirty_rx \in Idx
  /\ rx_skbuff \in [Entries -> BOOLEAN]
  /\ RxDescArray \in [Entries -> [own : BOOLEAN, eor : BOOLEAN,
                                  frame : Frames \cup {NULL, Bad}]]
  /\ rx \in [Contexts -> RxCall]
  /\ napi \in BOOLEAN /\ work \in BOOLEAN
  /\ intr \in [mask : BOOLEAN, status : BOOLEAN]
  /\ carrier \in BOOLEAN /\ link \in BOOLEAN
  /\ nic \in [enb : BOOLEAN, pos : Entries]

\* The NIC never stores a frame into memory that was unmapped and given to
\* the stack: a descriptor it owns has a buffer, whatever the link timer and
\* failing allocations do to the ring.
OwnHasBuffer == \A e \in Entries : RxDescArray[e].own => rx_skbuff[e]

\* rtl8101_rx_interrupt never takes a buffer out of an entry that has none
\* (it would dereference a null skb): rx_left leaves out the entries that
\* rtl8101_rx_fill could not refill.
NoNullSkb ==
  \A w \in Contexts :
    rx[w].pc = "take" => rx_skbuff[RxEntry(w)]

\* "Wait for any pending NAPI task to complete": rtl8101_rx_interrupt takes no
\* lock, so while the reset task is in it the poll is not.
InRx(w) == rx[w].pc \in {"begin", "loop", "error", "take", "refill", "fill"}
RxAlone == ~(InRx("task") /\ InRx("poll"))

\* An entry that holds a frame nobody has looked at.
Stored(e) == ~RxDescArray[e].own /\ rx_skbuff[e]
Quiet     == \A w \in Contexts :
  rx[w].pc \notin {"loop", "error", "take", "refill", "fill"}

\* cur_rx is the entry of the next packet to be processed, as the comment of
\* DrvPvt says: while rtl8101_rx_interrupt is not running, a stored frame is
\* at cur_rx or there is none.
NextToProcess ==
  Quiet /\ (\E e \in Entries : Stored(e)) => Stored(cur_rx % NUM_RX_DESC)

\* Every entry without a buffer is between dirty_rx and cur_rx, where the next
\* refill looks for it (an entry whose frame had an error is there as well,
\* with its buffer).
HolesInWindow ==
  Quiet => {e \in Entries : ~rx_skbuff[e]} \subseteq
             {((dirty_rx + k) % IdxMod) % NUM_RX_DESC :
                k \in 0 .. ((cur_rx - dirty_rx) % IdxMod) - 1}

\* No wake-up is lost between napi_complete, the unmasking and the next
\* interrupt: a driver that has gone to sleep on unmasked interrupts has
\* looked at every good frame, or an interrupt is on its way.  (Not on a shared
\* line: the handler acknowledges what has landed in the last moments of a poll,
\* and napi_schedule does nothing.)
NoLostEvent ==
  ~napi /\ intr.mask /\ Quiet
    /\ (\E e \in Entries : Stored(e) /\ RxDescArray[e].frame \in Frames)
  => intr.status

\* Every good frame stored by the NIC is handed to the stack, on a shared line
\* when a later frame raises the interrupt again.
EveryFrameTaken ==
  \A e \in Entries : (Stored(e) /\ RxDescArray[e].frame \in Frames)
                       ~> ~(Stored(e) /\ RxDescArray[e].frame \in Frames)

\* A shortage of buffers does not last: RxDescUnavail keeps the poll coming
\* back, and the poll tries again to refill the ring, although the FIXME at
\* the end of rtl8101_rx_interrupt expects a shortage to kill the receiver.
ShortageEnds ==
  (\A e \in Entries : ~rx_skbuff[e]) ~> (\E e \in Entries : rx_skbuff[e])

\* The ring seen as a queue: the stored frames from the position of the poll,
\* or of the reset task, on; and what the first of them was found to be.
Looping(w) == rx[w].pc \in {"loop", "error", "take"}
RxPos == IF \E w \in Contexts : Looping(w)
           THEN rx[CHOOSE w \in Contexts : Looping(w)].cur ELSE cur_rx
At(k) == (RxPos + k) % NUM_RX_DESC
Run   == {n \in 0 .. NUM_RX_DESC : \A k \in 0 .. n - 1 : Stored(At(k))}
WaitingFrames ==
  [i \in 1 .. Cardinality(Run) - 1 |-> RxDescArray[At(i - 1)].frame]
Verdict ==
  IF \E w \in Contexts : rx[w].pc = "take" THEN "up"
  ELSE IF \E w \in Contexts : rx[w].pc = "error" THEN "drop" ELSE "none"

Fifo == INSTANCE RxFifo WITH
  Capacity <- NUM_RX_DESC, waiting <- WaitingFrames, verdict <- Verdict

\* The frames are disposed of once and in the order the NIC stored them: the
\* good ones are handed up, and only those.
ImplementsFifo == Fifo!FifoSpec

=============================================================================
