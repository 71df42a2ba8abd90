# TLA+ models of the TrainingNanoCell drivers

The repository teaches Linux device drivers on a Realtek RTL8101E/RTL8169
board.  Its finished programs are under `src/Solutions/`: a network driver
(`Rt8169Drv/`) and a character driver that moves packets by DMA
(`expt_drv_with_dma.c`).  `src/NetworkDriver/` and `src/PCIDriverAssn/` hold the
exercises they are the solutions of (the same code with lines left to the
students), the virtual interfaces snull and dummy, and `src/Debugging/` a few
small modules to practise tools on.

Both finished drivers share descriptors in memory with hardware that works on
them at its own pace, and are entered by the network stack or by system calls,
by interrupts, softirqs, timers and work queues.  That is what the models are
about: which orders of these entries are possible, and what each of them may
find.

## The system

| component | state | entered by | shares with |
|---|---|---|---|
| transmit path (`net_stk.c`, `mac.c`) | `cur_tx`, `dirty_tx`, `tx_skb[]`, `TxDescArray`, the stack's queue | `start_xmit` (stack), `tx_interrupt` in the NAPI poll, link timer, `tx_timeout`, `reset_task` | the NIC (descriptors, doorbell, interrupt), the stack (stop, wake, carrier) |
| receive path | `cur_rx`, `dirty_rx`, `rx_skbuff[]`, `RxDescArray` | `rx_interrupt` in the poll *and* in `reset_task`, link timer | the NIC; the allocator |
| life cycle | rings, irq, timer, delayed work, NAPI state | `open`, `close`, `net_register_dev`, `net_deregister_dev` | both paths |
| PCI glue (`pci_net.c`) | regions, mapping, MSI, enable count | `pn_probe`, `pn_remove` | life cycle |
| PHY access (`phy.c`) | PHYAR behind a busy bit | link timer, `open` | the NIC |
| character driver with DMA | `pkt_tx_busy`, `pkt_rx_avail`, `rx_pkt_size`, two descriptors, interrupt mask and status | `expt_write`, `expt_read` (any process), `expt_pci_intr_handler` | the NIC; no lock anywhere |
| character driver over registers (`expt_drv_init_char.c`) | device numbers, mapping | probe, remove, read, write of the MAC address | - |
| exercises of `PCIDriverAssn`, `Debugging/buggy.c` | the same, less what is left out | probe, remove, module init and exit | - |
| snull | packet pool, receive queue, a lock for both | `snull_tx`, the simulated interrupts | its peer interface |

What is hard here:

* `start_xmit` looks up its ring entry before it takes `pvt->lock`;
  the link timer and the reset task rewind the ring under the lock.
* `rtl8101_rx_interrupt` takes no lock and works on private copies of the
  indexes; the link timer resets them meanwhile, and the reset task calls the
  same function.
* interrupts are masked by the handler and unmasked by the poll after
  `napi_complete`: an event between the two must not be lost.
* four places stop, start or wake the stack's queue.
* allocations fail and leave holes in the receive ring.
* indexes are 32-bit and only ever grow; they wrap.
* `close` and `net_deregister_dev` have to stop an interrupt, a poll, a timer and
  a delayed work, and each has its own way of being waited for.
* a probe of a dozen calls has a release list for each that may fail, and the
  interrupt, the NIC and the system calls are live while it runs.
* the packets of an interface of snull travel through the lists of the other
  one and two locks, and come back.
* the character driver guards its transmit buffer by an atomic counter that it
  increments, tests and takes back, and its receive buffer by nothing but the
  order of its steps.

`PROJECT.json` lists every component and, under `hazards`, the lines where
these bite.

## The modules

| module | models |
|---|---|
| `R8101Tx` | the transmit side while the interface is up |
| `TxFifo` | what it promises the stack: a FIFO of accepted packets |
| `R8101Rx` | the receive side while the interface is up |
| `RxFifo` | what it promises: stored frames are looked at once and in order, good ones handed up, bad ones dropped |
| `ExptDma` | `write`, `read` and the interrupt handler of the character driver |
| `R8101Life` | register, open, close, unregister, and the five entries that need no caller |
| `PciLadder` | probe and remove of every driver that has them |
| `SnullPool` | the packet pools and receive queues of snull |
| `MCR8101Tx`, `MCR8101Rx`, `MCExptDma`, `MCR8101Life`, `MCPciLadder`, `MCSnullPool` | instances for TLC (symmetry, one state constraint, the set of resources refused) |
| `R8101Tx_proofs` | the theorems about the transmit side: types and room in the ring; buffers, places in the ring, and the refinement |
| `R8101Rx_proofs`, `R8101RxRing_proofs` | the theorems about the receive side: types, buffers and contexts; places in the ring, wake-ups, and the refinement |
| `ExptDma_proofs`, `R8101Life_proofs`, `PciLadder_proofs`, `SnullPool_proofs` | the theorems about these components |
| `RingIndex` | lemmas on ring indexes that both rings' proofs rest on: modular differences, entries, and segments of a ring |

Definitions whose comment begins with "Mutant:" are altered versions of the
definition that follows them.  No specification uses them; they record the bug
against which a property is known to bite (`mutants` in `PROJECT.json`).

### R8101Tx

Everything between `spin_lock_irqsave` and `spin_unlock_irqrestore` on
`pvt->lock` is one step; what lies outside is a step of its own.  So
`start_xmit` is `XmitEnter` (the stack calls it; `entry` and `txd` are
computed) and then `XmitPost` or `XmitBusy` (the locked part), with anything in
between.  `PollTx` is `tx_interrupt` under the lock, followed by
`PollComplete` (`napi_complete`) and `PollUnmask`
(`enable_interrupts`).  `LinkUp` and `LinkDown` are
the two branches of the link timer; `TxTimeout`, `TaskQuiesce`, `TaskRecover`
and `TaskRetry` the watchdog and the reset task.  The steps of one poll are
serial: NAPI does not run one instance on two CPUs.

Socket buffers are model values; `live` is the ghost set of those the driver
has taken and not freed.  The NIC (`NicFetch`, `NicDone`), the cable and the
stack's linkwatch are the environment, external in the map.  The NIC follows
`RingEnd` to find the end of its ring; `hw_reset` drops the packet in flight;
`hw_init` programs the ring address, after which it starts at descriptor 0.
The stack's queue is attached by linkwatch some time after the carrier came
on, and detached, once no `start_xmit` is running, some time after it
went.  The watchdog fires only with the carrier on and the queue stopped;
how long it has been stopped is not modelled.

`rtl8101_interrupt` does not test the mask.  With MSI the NIC alone brings it
about, and only when unmasked; when MSI is refused (`pci_net.c:82`) the line is
shared (`IRQF_SHARED`, `net_stk.c:565`), and another device's interrupt has the
handler acknowledge what is pending while the poll runs and `napi_schedule` does
nothing.  The constant `SharedLine` says which, here and in `R8101Rx`.  The polls
of one NAPI stay serial in the model up to their unmasking: one that a shared line
schedules between `napi_complete` and the unmasking of the poll before it (on
another CPU) waits for that.

Left out: statistics, log messages, the wording of link changes, the
length of a packet (a `RingInfo` has a length or none), fragments (the
device offers no scatter-gather, so `nr_frags` is 0, and `FirstFrag` and
`LastFrag` are one bit).

### R8101Rx

`rtl8101_rx_interrupt` is cut at each access to the ring: `RxBegin` (private
copies of the indexes), `RxLook`, `RxError`, `RxTake` (one turn of the loop),
`RxCommit` (`cur_rx` is written back), `RxRefill`, `RxFill`, `RxFillEnd`
(`rtl8101_rx_fill` and `dirty_rx += delta`).  It runs in two contexts, the
poll and the reset task.  `RxFill` looks at an entry and puts the new buffer in
it in one step, and so are the accesses to the two indexes that follow each
other (`net_stk.c:322-323`, 374-375, 378).  Only the link timer could come between
them, and the one property checked while it does (`OwnHasBuffer`) does not
depend on the indexes; its proof does not mention them.  A status word is one of a good frame, a frame with an error,
or nothing.  A frame with an error raises `RxErr`, which `IntrEnMask` leaves
masked; a frame that finds no descriptor raises `RxDescUnavail`.  The watchdog
is free to fire whenever the carrier is on: whether the transmit queue is
stopped is not state of this module.  Its period is 6*HZ; `SlowTask` says
whether the reset task may be held up for longer, so that the watchdog fires
again while it runs.

### ExptDma

No lock protects anything, so every access to a shared variable is a step: the
increment, the test, the copy and the hand-over of `expt_write`; the two tests,
the size, the copy, and the four steps that give the buffer back of
`expt_read`; the handler's single look at the status and what it does by that
copy.  The read-modify-write of the interrupt mask needs no split: both sides
change the same single bit and leave the others alone, so the last writer wins.
A length lives in a bit field that the code sets by OR-ing, and so does the
model (`Or`): the sizes are small, the operation is the real one.  Of the
enabled events `INTR_RX_ERR`, `INTR_TX_DESC_UNAVAIL` and `INTR_LINK_CHG`, which the
handler only logs, are left out.

### R8101Life

The two ring models begin with the interface open and never close it; this one
leaves the contents of the rings out and keeps whether they are there.
`rtl8101_open` and `rtl8101_close` run under the RTNL lock, one call at a time
(`rtnl` is its place); between their steps come the interrupt, the poll, the
link timer, the watchdog and the reset task, each guarded by what makes it
possible: the handler by `irq`, an enabled NIC and `netif_running` (a shared
line calls it with the NIC's interrupts masked, too), the poll by NAPI's state,
the timer by being armed, the watchdog by an activated queue with a carrier.  What the network core does
around the driver (it sets `netif_running` before `ndo_open` and takes it back
when that fails; it clears it and deactivates the queue before `ndo_stop`) is
part of the step that calls the driver.  The poll ends in two steps,
`napi_complete` and the unmasking, because `napi_disable` waits for the first
only; `CloseHw` waits for the second, which is what `synchronize_sched` does
for a softirq.  `flush_scheduled_work` waits for a queued and for a running
work, not for a delayed one.

`net_register_dev` is two steps: `Register`, up to a `register_netdev` that may
fail, and `CarrierOff`; in between the interface can be opened with its carrier
on.  (`pci_set_drvdata`, which follows, is read by the remove only, and a remove
waits for the probe.)

Two history variables name what the code does not undo, and the properties
except by them what is disturbed, and nothing else:

* `refused`: a `request_irq` that failed.  From then on the NIC runs on rings that
  `shut_buffers` has freed, NAPI stays enabled and the receive buffers are lost
  (`net_stk.c:567-571`).
* `overlapped`: an interface closed while a reset was pending or running, which no
  lock prevents: `rtl8101_close` does not cancel `pvt->task`.  A task past its test
  of `netif_running` restarts the NIC on rings that are freed, or waits for a NAPI
  that nobody enables before the next open; a delayed one outlives
  `flush_scheduled_work` and `free_netdev`, or is forgotten by the
  `INIT_DELAYED_WORK` of the next open.  The poll, the link timer, the interrupt
  handler and the rings are not disturbed even so, and `close` gets through.

### PciLadder

A driver is four pieces of data, transcribed from its source: the rungs of its
probe, each with the list of releases its error branch makes; the releases of
its remove; what its interrupt handler touches and what its system calls touch.
The actions walk these lists one call at a time.  A rung that fails unwinds
(`Try`), or goes on after its list (`Slip`): that is how MSI is optional, and it
is also what the missing `return`s of `setup_buffers` amount to.  Two calls of
one function share its rungs (`NetRegister` in `pn_probe`, `SetupBuffers` and
`CharRegister` in `expt_probe`), extended by what the caller undoes (`Within`).
The exercises are transcribed as they stand, without what the students are to
write: `NetworkDriver/Rt8169Drv` never gets a netdev and undoes every probe (the
call it lacks asks for `"left_out"`).

### SnullPool

The six functions that keep the pools and the queues are complete; the callers
are exercises.  So the functions are the actions, one step each, and
the callers are the environment: a sender holds what it got from its pool and
queues it at the twin, a receiver holds what it took and releases it.  The
empty pool is an action of its own, as that path returns with the lock held:
`lock` is then "lost", and nothing that needs it happens again.  The four functions
that move a packet are one critical section of a `priv->lock` each.
`snull_setup_pool` and `snull_teardown_pool` take no lock and loop; they are one
step, which is harmless only as nobody sends while the device is set up (once) or
torn down.

## The runs

Passing:

| run | shows |
|---|---|
| `tx_steady` | with a steady cable, no timeout and MSI, the entries in use are exactly those between the indexes (`BuffersFillWindow`), the NIC stands among them (`NicInWindow`), the ring implements `TxFifo`, every accepted packet is sent and freed, a stopped queue is woken |
| `tx_flaps` | while the cable is pulled and plugged, on a shared line, no buffer is lost or held twice, the NIC reads no freed buffer, descriptors and `RingInfo` agree |
| `tx_watchdog` | with timeouts and resets, on a shared line, the NIC stays in the ring and the queue is awake only when the ring has room |
| `rx_steady` | with a steady link, failing allocations and MSI no wake-up is lost between the end of a poll, the unmasking and the next interrupt |
| `rx_reset` | with failing allocations, a shared line and resets that end before the next timeout: poll and task never meet in `rx_interrupt`, no null buffer is touched, `cur_rx` is the next frame, the holes are where the refill looks, frames are looked at once and in order (`RxFifo`), every good frame reaches the stack, a shortage of buffers ends |
| `rx_flaps` | whatever the link timer does to the indexes, on a shared line, a descriptor of the NIC has a buffer |
| `expt_faults` | with failing copies and transmissions the transmit buffer has one user, and the reader gets whole packets out of a buffer that does not change under it |
| `expt_live` | without faults `pkt_tx_busy` counts exactly its holders; a packet written is sent and counted; the receive buffer always gets back to the NIC |
| `life` | with memory and the interrupt refused at any open and a close at any time: the poll and the link timer never work on freed rings, an interface that is down has no handler, no timer, no rings and no poll that has yet to unmask, and `close` gets through its waits; the NIC, the reset task and NAPI keep to the rings as well, but for what `refused` and `overlapped` except |
| `ladder` | in six of the eight drivers, whichever call of a probe fails but the two `kmalloc` of `setup_buffers`, the releases are newest first, none of them twice, and nothing is left; at every step the handler, the system calls and the NIC find what they use |
| `snull` | no packet is lost or in two places, each comes back to the pool of its own device, and an empty pool fills again unless somebody asked it for a packet |

Two disagreements between the code and its own comments are listed under
`findings`.  In the run `expt_rx_size`, which ends in a violation, the received
length stays in `opts1` when `RX_PKT_SIZE` is OR-ed in, and the NIC is told of a
buffer larger than it is.  And the FIXME at `net_stk.c:383` fears that a temporary
shortage of buffers kills the receive process; `ShortageEnds` in `rx_reset` passes:
a frame that finds no descriptor raises `RxDescUnavail`, which is enabled, and
brings the poll back, which tries to refill the ring even when it took nothing.
(Should no frame arrive any more, nothing is refilled, and nothing is missed.)

Every passing run fixes an environment, and some of its properties do not
survive a harsher one.  These do not have a run of their own; each shows when
the constants of a run are changed as said:

* `tx_steady` with `LinkFlaps = TRUE` breaks `BuffersFillWindow`: the link timer
  rewinds the ring between `start_xmit`'s look at `cur_tx` (`net_stk.c:616`) and
  its lock (627), and the packet lands outside the window.
* `rx_reset` with `LinkFlaps = TRUE` breaks `HolesInWindow`: link-down resets the
  indexes (`net_stk.c:268`) over entries that wait to be refilled, without the
  test that the reset task makes (528).
* `rx_reset` with `SlowTask = TRUE` breaks `RxAlone`: a second timeout while the
  reset task runs makes it run again over a NIC the first run restarted; the
  poll unmasks the interrupts behind the task's `napi_disable`
  (`net_stk.c:471`, 522) and enters `rx_interrupt` beside it.
* `tx_steady` with `SharedLine = TRUE` breaks `EveryBufferFreed` and `QueueWakes`:
  the handler, called for another device after `tx_interrupt` has looked and
  before `napi_complete`, acknowledges the last `TxOK`, and `napi_schedule` does
  nothing (`net_stk.c:498-500`).  A buffer is not freed, and a queue that was
  stopped stays so, before the next event or the watchdog.  (With finitely many
  buffers the system may stop there.)
* `rx_steady` with `SharedLine = TRUE` breaks `NoLostEvent` in the same way.
  `EveryFrameTaken` is not broken: the next frame raises the interrupt again.
* `life` without the exceptions breaks `NicOnRings`, `RingsInUse`, `DownIsQuiet` and
  the second part of `WaitsEnd`, as described for `refused` and `overlapped` above.
* `ladder` with `Refused` including `"pkt_tx"` breaks `Grounded`, with `"pkt_rx"`
  `LastFirst`: `setup_buffers` frees the descriptors and goes on to use them
  (`expt_drv_with_dma.c:123`, 132).
* `ladder` with the driver `"init_char"` breaks `NothingLeft`: its remove only
  says that it deregisters the character device
  (`Solutions/expt_drv_init_char.c:216`).  With `"assn_dma"` it breaks `Grounded`
  and `LastFirst`: drvdata is cleared before `free_irq`
  (`PCIDriverAssn/expt_drv_dma.c:513`).
* `snull` with `Drained = FALSE` breaks `PacketsAccounted`: packets in flight when
  a pool is torn down are freed by nobody.
* in `snull` a packet need not ever leave the queue: the queue is pushed and
  popped at the same end (`snull.c:137`), and one at the bottom waits for as
  long as others come.  The pool recovers all the same, by those others.
* `tx_watchdog` with `LinkFlaps = TRUE` breaks `QueueAwakeHasRoom`: the reset
  task leaves the queue awake without a carrier, the ring fills, and
  `rtl8101_hw_init` at link-up starts the queue again (`mac.c:128`).
* `tx_steady` with `Watchdog = TRUE` breaks `NicInWindow`: a second timeout
  queues the reset task while it runs, and the second run clears the ring of a
  NIC that the first has restarted (`net_stk.c:527`).
* `tx_flaps` without `BeforeWrap` breaks `BuffersAccounted`: in the last 1024
  values of `dirty_tx` the loop of `tx_clear` (`net_stk.c:66`) does nothing.
* `rx_reset` with `EarlyFrames = TRUE` breaks `NextToProcess`: the first link-up
  restarts the NIC at descriptor 0 and leaves `cur_rx` (`net_stk.c:259`).
* `rx_steady` with `Watchdog = TRUE` breaks `NoLostEvent`: the timeout
  acknowledges a pending interrupt, and until the reset task has run nobody
  looks at the ring.  Even when the pending task is counted as a wake-up it
  breaks on a kernel whose `napi_schedule` during a poll is not remembered:
  the poll's late unmask, after a whole reset, leaves the interrupts enabled
  during the next poll, and the handler acknowledges what that poll does not
  see.
* `expt_live` with `CopyFaults = TRUE` breaks `BusyCounts`: a failed
  `copy_from_user` leaves `pkt_tx_busy` incremented (`expt_drv_with_dma.c:481`),
  and every later write is refused.
* `expt_faults` with two readers breaks `WholePacket`: one goes on in the middle
  of, or gives away, a packet the other has not read.

### Bounds

* `NUM_TX_DESC`, `NUM_RX_DESC`: 3 to 5.  Three is the least with a first, an
  inner and a last entry; the transmit queue must both fill and have room for
  a wake-up, which takes `MAX_SKB_FRAGS` 1 or 2 below the size.
* `IdxMod` stands for 2^32.  It is twice the ring size, so that the indexes
  wrap at another place than the ring and runs go several times round both.  As
  2^32 is a multiple of 1024, `IdxMod` is a multiple of the ring size.
  `tx_flaps` has 20 with the constraint `BeforeWrap`; what happens past it is
  said above.
* `Budget` is below the ring size, so that a poll ends for either reason.
* `Skbs`: as many as descriptors, so that the ring can fill.
* `SizeBit` = 1: lengths 1 and 2 in a field of two bits, the least with a length
  that is neither 0 nor the whole buffer.  `expt_live` has 0: its properties do
  not depend on the lengths.
* two writers: a third adds nothing to the counter's protocol that two and the
  packet in flight do not show, and the theorem covers any number.
* the flags (`LinkFlaps`, `Watchdog`, `SlowTask`, `EarlyFrames`, `AllocFails`,
  `SharedLine`, `CopyFaults`, `TxErrors`) switch an environment event on or off.
* `R8101Life` has no bound: its state is finite.  `NoMemory` is on, so that an
  open and a refill may fail at any time.
* `PciLadder` has one device and its data are finite; a driver may be bound and
  unbound for ever.
* `pool_size` = 2 in `snull`: a pool that is full, in part out, and empty, and
  two packets in one queue.
* `snull` does not check deadlock: after the path that keeps the lock everybody
  may be waiting for it.
* `tx_watchdog` does not check deadlock: the double reset described above
  loses buffers, and a finite set of them runs out.

### Fairness

Weak fairness for what the kernel runs once it is enabled: a pending unmasked
interrupt, a scheduled poll, the periodic link timer, a queued work, a call that
has begun.  Weak fairness for the NIC to transmit what it was told of.  On a
shared line nothing obliges the other device: the handler has to run only when the
NIC's own interrupt is unmasked.  Beyond that:

* `tx_steady` assumes the poll comes to `napi_complete` in the end, that is,
  receive does not use up the budget for ever.
* `rx_reset` assumes that an allocation tried again and again succeeds, and that
  frames go on arriving: the retry of a refill is driven by
  `RxDescUnavail`.
* `expt_live` assumes a reader that goes on reading.
* `life` has strong fairness for `napi_disable` in `close` and in the reset
  task: it sets `NAPI_STATE_DISABLE` first, after which no new poll is
  scheduled, so it is not passed over for ever by polls that come one after the
  other.  A delay ends, a call under the RTNL lock goes on; nobody has to open
  or close.
* `snull` assumes a sender that queues what it got and a receiver that looks at
  its queue and releases what it took.

Nothing obliges the stack or a writer to send.

## The proofs

All are checked by TLAPS for every value of the constants that satisfies the
assumptions of the modules (ring and index sizes as above, the index modulus a
multiple of the ring size; `MAX_SKB_FRAGS` at most the ring size less 2).  A
theorem that does not hold in every environment names the one it holds in as a
hypothesis on the flags; the list of harsher environments above shows that the
hypothesis is needed.  A theorem that says nothing of `SharedLine` holds on a shared
line, too.  Every hypothesis on the flags is met by the constants of
a passing run.

### The transmit ring

| theorem | states | inductive invariant |
|---|---|---|
| `R8101Tx_proofs!TypeCorrect` | `TypeOK` | `TypeInv`: typing alone does not bound `nic.cur`; that the NIC turns round at the end needs every owned descriptor's `RingEnd` right (`RingIsClosed`), the fetched copy of it (`NicFollowsRing`) and a packet in every `start_xmit` (`XmitHasSkb`) |
| `R8101Tx_proofs!AwakeQueueHasRoom` | `~LinkFlaps => QueueAwakeHasRoom` | `RoomInv`: the number of entries in use stays below the ring size, and the queue, when awake, has more room than the threshold |
| `R8101Tx_proofs!DescriptorsMatch` | `DescMatchesInfo`, in every environment | `OwnerInv`: in addition what the ring holds is live, each buffer in one entry, and the stack does not offer a buffer the driver has (`HeldLive`) |
| `R8101Tx_proofs!DmaReadsLive` | `~Watchdog => DmaFromLiveBuffer` | `DmaInv` with `OwnerInv`: a packet in flight is that of the descriptor the enabled NIC stands at, which it still owns, so that the poll does not reap it, and a reset of the NIC comes before any clearing of the ring; where in the ring that is does not matter, so the cable may flap |
| `R8101Tx_proofs!WindowFilled`, `NicAtWindow` | `~LinkFlaps /\ ~Watchdog => BuffersFillWindow`, `NicInWindow` | `FirmInv`: for some `s`, the first `s` entries from `dirty_tx` are sent and no longer owned, the NIC stands behind them, the rest up to `cur_tx` is owned, and nothing else has a buffer (`Normal(s)`); an outdated `entry` in `start_xmit` does not exist |
| `R8101Tx_proofs!NoBufferLost` | `~Watchdog => BuffersAccounted`, as long as `ClearReaches` | `FlapInv`: every live buffer is held by an entry, and the ring is `Normal(s)` or `Stuck(e)`: a `start_xmit` that read its entry before the link timer rewound the ring has posted it where the NIC and the poll will not come until the ring is cleared again.  In this state the next `LinkDown` still finds the buffer, provided its loop runs |
| `R8101Tx_proofs!NoBufferLostWhileUp` | `~LinkFlaps /\ ~Watchdog => BuffersAccounted` | `FirmInv`; no condition on the indexes |
| `R8101Tx_proofs!RingIsFifo` | `~LinkFlaps /\ ~Watchdog => ImplementsFifo` | `FirmInv` as well: under it `XmitPost` is `Accept`, `NicDone` is `Send`, a `PollTx` that reaps `n > 0` entries is `GiveBack(n)`, and every other step leaves the queue of `TxFifo` as it is.  The number of packets sent and not given back is the `s` of `Normal(s)` |

`ClearReaches` says that when the link is lost `dirty_tx` is not in its last
`NUM_TX_DESC` values, where the loop of `tx_clear` does nothing
(`net_stk.c:66`).  It is weaker than the constraint `BeforeWrap` of `tx_flaps`,
which keeps the index below that mark at all times: the proof shows that the
moment of `LinkDown` is the only one that matters.

### The receive ring

`Steady` is `~LinkFlaps /\ ~EarlyFrames` and a reset task that ends before the
next timeout (`TaskInTime`, that is, not both `Watchdog` and `SlowTask`).
Allocations may fail.

| theorem | states | inductive invariant |
|---|---|---|
| `R8101Rx_proofs!TypeCorrect` | `TypeOK` | `TypeInv`: a context in the loop has entries left (`LeftPositive`), and `RingEnd` stays on the last descriptor only (`RingEndKept`), through two contexts that write the same descriptors |
| `R8101Rx_proofs!OwnedHasBuffer` | `~Watchdog => OwnHasBuffer` | `OwnInv`: only the poll is in `rx_interrupt`, what it looked at is still the driver's and, if it is about to be recycled, has its buffer; the indexes are *not* part of it, so the link timer may do with them what it likes |
| `R8101Rx_proofs!OneContextAtATime` | `~LinkFlaps /\ TaskInTime => RxAlone` | `AloneInv`: from the timeout to the end of the task the NIC is off, and once the task is past `napi_disable` no interrupt is pending: the one thing a poll may still do is to unmask (`net_stk.c:471`), which schedules nothing |
| `R8101RxRing_proofs!BufferWhenTaken`, `RefillFindsHoles`, `FrameIsAtCur`, `OwnedKeepsBuffer` | `Steady => NoNullSkb`, `HolesInWindow`, `NextToProcess`, `OwnHasBuffer` | `RingInv`: from the refill's place to the loop's place are the entries to be refilled, and all entries without a buffer (`WindowInv`, `GapInv`); then a run of frames stored and not looked at, up to the NIC (`RunInv`).  The places are `dirty_rx` and `cur_rx`, or the private copies of the call in progress (`CallInv`), which is where `RxAlone` is needed: with two calls there would be two copies.  `OffInv` covers the time in which the reset task has the NIC off |
| `R8101RxRing_proofs!NoWakeUpLost` | `Steady /\ ~Watchdog /\ ~SharedLine => NoLostEvent` | `EventInv`: with no interrupt pending, a poll that is not coming back leaves no good frame behind, and one in the loop still has every good frame before it, or will use up its budget and come again; interrupts are unmasked only while no poll is scheduled or running |
| `R8101RxRing_proofs!FramesInOrder` | `Steady => ImplementsFifo` | `RingInv` as well: what is waiting are the `s` entries of the run behind the loop's place, the one being looked at included.  `NicStore` is `Store`, `RxLook` of a descriptor the NIC has given back is `Look`, `RxTake` is `HandUp`, `RxError` is `Drop`, and every other step leaves the run where it is, the reset task's among them, which empties the ring through the same loop before it rewinds the indexes |

### The other components

| theorem | states | inductive invariant |
|---|---|---|
| `ExptDma_proofs!BufferExclusive` | `TxExclusive` for any finite set of writers, with any faults | `ExclusiveInv`: `pkt_tx_busy` is *at least* the writers between increment and decrement plus the packet in flight (a fault only makes it larger), and at most one completion is on its way |
| `ExptDma_proofs!BusyExact` | `BusyCounts` for any finite set of writers, with `~CopyFaults /\ ~TxErrors` | `ExclusiveInv /\ BusyCounts`: that the counter is exact does not say that one completion is counted once; that comes from the exclusion |
| `ExptDma_proofs!PacketsWhole`, `CopySteady` | `WholePacket`, `RxBufferSteady` when there is at most one reader | `RxInv`: the buffer belongs to the NIC, to an `RX_OK` on its way (in the status, in the handler's copy, or in both), to the available packet or to the reader that gives it back, and to one of them only |
| `ExptDma_proofs!TypeCorrect` | `TypeOK` for any finite set of writers and any readers, with any faults, given `SizesClosed` | `ExclusiveInv` with the types: that `pkt_tx_busy` stays a natural number is its bound by the holders.  `SizesClosed`, that the OR of two lengths fits the length field, is plain arithmetic, but needs an induction over the bits; TLC evaluates it at the sizes of the runs (`MCExptDma`) |
| `R8101Life_proofs!RingsUnderNic`, `UsersHaveRings`, `FailureUndone` | `NicOnRings`, `RingsInUse`, `DownIsQuiet`, whatever is refused and whenever the interface is closed | `LifeInv`: what is held at each place of `open` and `close`.  Its parts differ in what they except: nothing disturbs the rings, the interrupt and the timer (`HeldInv`); a refused `request_irq` the receive buffers, the PHY and NAPI, and a close over a reset in addition the NIC (`LeftInv`) and the rule that work and task belong to an interface that is up (`WorkInv`).  That the poll is not disturbed is `NapiInv`: a disabled NAPI is a lock that the task or the close holds, so that the one waits for the other |
| `SnullPool_proofs!PacketInOnePlace`, `NoPacketLost` | `Drained => OnePlace`, `PacketsAccounted`, for every pool size | the two together with the types: each is needed for the other, as a packet released twice would be in two places before one is lost |

### The ladders

A ladder is `WellBuilt` if there is a list `R`, its remove, such that every rung
of the probe acquires the next resource of `R` from the end, or none; the undo list
of a rung that may be refused is the tail of `R` that takes back what is below it,
except that MSI may be passed over; and `R` has each resource once, before
everything it stands on (`Rests`, the handler's and the calls' sets), none of
which is MSI.  This looks at one rung and one list at a time, with no
behaviour in it.

| theorem | states | argument |
|---|---|---|
| `PciLadder_proofs!WellBuiltLadders` | if every driver's ladder is well built, `LastFirst`, `NothingLeft` and `Grounded`, whatever is refused | `LadderInv`: what is held is a stack, the first `d` resources of the ladder or those without MSI, where `d` is the depth of the rung the probe is at, or the number of releases still to be made, and these are the list that takes back `d` |
| `PciLadder_proofs!LastAcquiredFirst`, `NothingLeftBehind`, `AlwaysGrounded` | the three properties for the drivers of the run `ladder`, for every set `Refused` (without `"pkt_tx"` and `"pkt_rx"` if `expt_dma` is among the drivers: `Buffered`) | each of the six ladders is well built.  The source builds them from functions that call functions, and so does the proof: a `Part` fits from one depth to another and undoes what is above a third; parts follow each other (`PartConcat`), and a caller's undo list goes after the callee's (`PartWithin`) |

The drivers left out (`init_char`, `assn_dma`) and the two refusals excluded are
those that the list of harsher environments shows to break the properties.
A driver to be added is covered by the first theorem once its lists are shown to
be well built.

### Only model-checked

* The liveness properties: fairness and ENABLED are beyond the prover.
* `SizesClosed`, the hypothesis on the OR of two lengths in `TypeCorrect` of
  `ExptDma_proofs`: the prover knows nothing of powers of two, and what the bits
  of a number are takes an induction over data.

Every safety invariant and both refinements that a passing run checks are
stated by a theorem.

## Plan

1. done: transmit path, receive path, calls and handler of the character
   driver, first theorems.
2. done: the life cycle (`R8101Life`), the probe and remove ladders
   (`PciLadder`), the pools of snull (`SnullPool`).
3. done: the safety properties of the rings, of the character driver, of the life
   cycle and of snull as theorems; the refinement of `TxFifo`.
4. done: the refinement of `RxFifo`, whose bad frames are dropped by an action of
   their own; the ladders as a theorem about any well-built ladder, and the
   drivers' ladders as instances of it; the types of the character driver.

## Not modelled

* Register I/O: the wait for the busy bit of PHYAR, the configuration the MAC is
  given, the station address (and its increment at every registration,
  `mac.c:33`), `hw_shut`'s polling loop, the EEPROM dump and the reads of the MAC
  address in the character drivers.
* Statistics, log messages, the log of link changes in `expt_pci_intr_handler`.
* Files that stay open over a remove, and a second card on the one static
  `_pvt`: both are hazards of the character drivers, listed as such.
* The body of `NetworkDriver/Rt8169Drv` beyond its probe: the driver of
  `Solutions/` with lines removed; its files `phy.c` and `mac.c` are the same but
  for one line, and nothing of `net_stk.c` is reached.
* `PCIDriverAssn/expt_drv_init.c`, `expt_drv_config.c`, `expt_drv_probe.c`: shells that
  test variables nothing sets.
* snull's transmit path, interrupt and poll, and the dummy drivers: the calls
  that make them work are left to the students.
* Debugging exercises other than the registration of `buggy.c`: a probe, a
  debugfs file, no protocol state.
