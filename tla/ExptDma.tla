------------------------------ MODULE ExptDma ------------------------------
(***************************************************************************)
(* The character driver over one transmit and one receive descriptor       *)
(* (Solutions/expt_drv_with_dma.c): write, read and the interrupt handler, *)
(* with the driver loaded and the device node open, against a NIC that     *)
(* works on the two descriptors by DMA.  No lock protects any of it, so    *)
(* each access to shared state is a step of its own.                       *)
(***************************************************************************)
EXTENDS Integers, FiniteSets

CONSTANTS
  Writers,     \* processes that call write
  Readers,     \* open files that are read, each by one process
  SizeBit,     \* PKT_SIZE is 2^SizeBit
  CopyFaults,  \* copy_from_user and copy_to_user may fail
  TxErrors     \* a transmission may end in an error

ASSUME ExptAssumption ==
  /\ SizeBit \in Nat
  /\ CopyFaults \in BOOLEAN /\ TxErrors \in BOOLEAN

VARIABLES
  pkt_tx_busy, pkt_rx_avail,  \* dev_priv: the atomic counters
  rx_pkt_size,                \* dev_priv: length of the packet in pkt_rx
  desc_tx, desc_rx,           \* DescOwn and the length bits of opts1
  unavail_enb,                \* INTR_RX_DESC_UNAVAIL of INTR_MASK_REG
  status,                     \* INTR_STATUS_REG
  irq,                        \* the interrupt handler
  write, read,                \* the calls in progress
  off,                        \* *off of each file that is read
  npq                         \* NPQ_BIT of TX_POLL_REG

txvars == <<pkt_tx_busy, desc_tx, write, npq>>
rxvars == <<pkt_rx_avail, rx_pkt_size, desc_rx, read, off>>
vars   == <<txvars, rxvars, unavail_enb, status, irq>>

PKT_SIZE == 2 ^ SizeBit

\* The length field of opts1 has one bit more than a size below PKT_SIZE, and
\* the driver sets a length by OR-ing it into the word.
Bits(n)  == {b \in 0 .. SizeBit : (n \div 2 ^ b) % 2 = 1}
Or(m, n) == CHOOSE k \in 0 .. 2 * PKT_SIZE - 1 : Bits(k) = Bits(m) \cup Bits(n)

Free     == [pc |-> "idle", len |-> 0]
\* The events that change something.  The others of INTR_MASK and INTR_ERR_MASK
\* (link change, transmit descriptor unavailable, receive error) are logged and
\* cleared by the handler, and left out.
Enabled  == {"TX_OK", "RX_OK", "TX_ERR"}
            \cup IF unavail_enb THEN {"RX_UNAVAIL"} ELSE {}

-----------------------------------------------------------------------------
(***************************************************************************)
(* expt_write.                                                             *)
(***************************************************************************)
WriteInc(p) ==
  /\ write[p].pc = "idle"
  /\ pkt_tx_busy' = pkt_tx_busy + 1
  /\ write' = [write EXCEPT ![p].pc = "check"]
  /\ UNCHANGED <<desc_tx, npq, rxvars, unavail_enb, status, irq>>

\* Mutant: the counter is off by one.
MayWrite_Two == pkt_tx_busy <= 2

\* atomic_read(&dpv->pkt_tx_busy) == 1
MayWrite == pkt_tx_busy = 1

WriteCheck(p) ==
  /\ write[p].pc = "check"
  /\ write' = [write EXCEPT ![p].pc = IF MayWrite THEN "copy" ELSE "backoff"]
  /\ UNCHANGED <<pkt_tx_busy, desc_tx, npq, rxvars, unavail_enb, status, irq>>

\* -EBUSY
WriteBackoff(p) ==
  /\ write[p].pc = "backoff"
  /\ pkt_tx_busy' = pkt_tx_busy - 1
  /\ write' = [write EXCEPT ![p] = Free]
  /\ UNCHANGED <<desc_tx, npq, rxvars, unavail_enb, status, irq>>

\* copy_from_user ends; to_write is at most PKT_SIZE.
WriteCopy(p) ==
  /\ write[p].pc = "copy"
  /\ \E n \in 0 .. PKT_SIZE : write' = [write EXCEPT ![p] = [pc |-> "post", len |-> n]]
  /\ UNCHANGED <<pkt_tx_busy, desc_tx, npq, rxvars, unavail_enb, status, irq>>

\* -EFAULT: the counter is left as it is.
WriteFault(p) ==
  /\ CopyFaults /\ write[p].pc = "copy"
  /\ write' = [write EXCEPT ![p] = Free]
  /\ UNCHANGED <<pkt_tx_busy, desc_tx, npq, rxvars, unavail_enb, status, irq>>

WritePost(p) ==
  /\ write[p].pc = "post"
  /\ desc_tx' = [own |-> TRUE, len |-> Or(desc_tx.len, write[p].len)]
  /\ write' = [write EXCEPT ![p].pc = "kick"]
  /\ UNCHANGED <<pkt_tx_busy, npq, rxvars, unavail_enb, status, irq>>

\* Mutant: the doorbell is not rung.
WriteKick_Forgotten(p) ==
  /\ write[p].pc = "kick"
  /\ write' = [write EXCEPT ![p] = Free]
  /\ UNCHANGED <<pkt_tx_busy, desc_tx, npq, rxvars, unavail_enb, status, irq>>

WriteKick(p) ==
  /\ write[p].pc = "kick"
  /\ npq' = TRUE
  /\ write' = [write EXCEPT ![p] = Free]
  /\ UNCHANGED <<pkt_tx_busy, desc_tx, rxvars, unavail_enb, status, irq>>

Write(p) ==
  \/ WriteInc(p) \/ WriteCheck(p) \/ WriteBackoff(p) \/ WriteCopy(p)
  \/ WriteFault(p) \/ WritePost(p) \/ WriteKick(p)

-----------------------------------------------------------------------------
(***************************************************************************)
(* expt_read.                                                              *)
(***************************************************************************)

\* A packet is available (otherwise -EAGAIN).
ReadEnter(p) ==
  /\ read[p].pc = "idle"
  /\ pkt_rx_avail # 0
  /\ read' = [read EXCEPT ![p].pc = "check"]
  /\ UNCHANGED <<txvars, pkt_rx_avail, rx_pkt_size, desc_rx, off, unavail_enb,
                 status, irq>>

\* *off >= rx_pkt_size
AtEnd(p) == off[p] >= rx_pkt_size

ReadCheck(p) ==
  /\ read[p].pc = "check"
  /\ read' = [read EXCEPT ![p].pc = IF AtEnd(p) THEN "clear" ELSE "size"]
  /\ UNCHANGED <<txvars, pkt_rx_avail, rx_pkt_size, desc_rx, off, unavail_enb,
                 status, irq>>

\* to_read = min(len, rx_pkt_size - *off), unsigned; len is at most PKT_SIZE.
ReadSize(p) ==
  /\ read[p].pc = "size"
  /\ \E len \in 1 .. PKT_SIZE :
       LET left == rx_pkt_size - off[p]
       IN  read' = [read EXCEPT ![p] =
             [pc |-> "copy", len |-> IF 0 <= left /\ left < len THEN left ELSE len]]
  /\ UNCHANGED <<txvars, pkt_rx_avail, rx_pkt_size, desc_rx, off, unavail_enb,
                 status, irq>>

\* copy_to_user ends: *off advances, or -EFAULT.
ReadCopy(p) ==
  /\ read[p].pc = "copy"
  /\ \/ off' = [off EXCEPT ![p] = @ + read[p].len]
     \/ CopyFaults /\ UNCHANGED off
  /\ read' = [read EXCEPT ![p] = Free]
  /\ UNCHANGED <<txvars, pkt_rx_avail, rx_pkt_size, desc_rx, unavail_enb,
                 status, irq>>

\* Mutant: the packet that was read to its end stays available.
ReadClear_Forgotten(p) ==
  /\ read[p].pc = "clear"
  /\ read' = [read EXCEPT ![p].pc = "give"]
  /\ UNCHANGED <<txvars, pkt_rx_avail, rx_pkt_size, desc_rx, off, unavail_enb,
                 status, irq>>

\* At the end of the packet: it is no longer available.
ReadClear(p) ==
  /\ read[p].pc = "clear"
  /\ pkt_rx_avail' = 0
  /\ read' = [read EXCEPT ![p].pc = "give"]
  /\ UNCHANGED <<txvars, rx_pkt_size, desc_rx, off, unavail_enb, status, irq>>

\* Mutant: the file position is not rewound.
ReadGive_KeepsOff(p) ==
  /\ read[p].pc = "give"
  /\ desc_rx' = [own |-> TRUE, len |-> Or(desc_rx.len, PKT_SIZE)]
  /\ read' = [read EXCEPT ![p].pc = "mask"]
  /\ UNCHANGED <<txvars, pkt_rx_avail, rx_pkt_size, off, unavail_enb, status, irq>>

\* The file is rewound and the buffer made available to the hardware.
ReadGive(p) ==
  /\ read[p].pc = "give"
  /\ off' = [off EXCEPT ![p] = 0]
  /\ desc_rx' = [own |-> TRUE, len |-> Or(desc_rx.len, PKT_SIZE)]
  /\ read' = [read EXCEPT ![p].pc = "mask"]
  /\ UNCHANGED <<txvars, pkt_rx_avail, rx_pkt_size, unavail_enb, status, irq>>

\* hw_enable_intr: whatever it read of the mask, the bit it writes is set.
ReadMask(p) ==
  /\ read[p].pc = "mask"
  /\ unavail_enb' = TRUE
  /\ read' = [read EXCEPT ![p] = Free]
  /\ UNCHANGED <<txvars, pkt_rx_avail, rx_pkt_size, desc_rx, off, status, irq>>

Read(p) ==
  \/ ReadEnter(p) \/ ReadCheck(p) \/ ReadSize(p) \/ ReadCopy(p)
  \/ ReadClear(p) \/ ReadGive(p) \/ ReadMask(p)

-----------------------------------------------------------------------------
(***************************************************************************)
(* expt_pci_intr_handler.  It reads the status once and then works through *)
(* that copy, the masked bits in it included.                              *)
(***************************************************************************)
IrqEnter ==
  /\ irq.pc = "idle"
  /\ status \cap Enabled # {}
  /\ irq' = [pc |-> "tx", status |-> status]
  /\ UNCHANGED <<txvars, rxvars, unavail_enb, status>>

\* Mutant: pkt_tx_busy is decremented whatever the interrupt was about.
IrqTx_Always ==
  /\ irq.pc = "tx"
  /\ status' = status \ (irq.status \cap {"TX_OK"})
  /\ pkt_tx_busy' = pkt_tx_busy - 1
  /\ irq' = [irq EXCEPT !.pc = "rx", !.status = @ \ {"TX_OK"}]
  /\ UNCHANGED <<desc_tx, write, npq, rxvars, unavail_enb>>

\* Mutant: the end of a transmission does not count.
IrqTx_NoDec ==
  /\ irq.pc = "tx"
  /\ status' = status \ (irq.status \cap {"TX_OK"})
  /\ irq' = [irq EXCEPT !.pc = "rx", !.status = @ \ {"TX_OK"}]
  /\ UNCHANGED <<txvars, rxvars, unavail_enb>>

\* TX_OK: clear it off, no longer busy.
IrqTx ==
  /\ irq.pc = "tx"
  /\ status' = status \ (irq.status \cap {"TX_OK"})
  /\ pkt_tx_busy' = IF "TX_OK" \in irq.status THEN pkt_tx_busy - 1 ELSE pkt_tx_busy
  /\ irq' = [irq EXCEPT !.pc = "rx", !.status = @ \ {"TX_OK"}]
  /\ UNCHANGED <<desc_tx, write, npq, rxvars, unavail_enb>>

\* RX_OK: clear it off and note the length; then the packet is available.
IrqRx ==
  /\ irq.pc = "rx"
  /\ status' = status \ (irq.status \cap {"RX_OK"})
  /\ rx_pkt_size' = IF "RX_OK" \in irq.status THEN desc_rx.len ELSE rx_pkt_size
  /\ irq' = [irq EXCEPT !.pc = "avail"]
  /\ UNCHANGED <<txvars, pkt_rx_avail, desc_rx, read, off, unavail_enb>>

IrqAvail ==
  /\ irq.pc = "avail"
  /\ pkt_rx_avail' = IF "RX_OK" \in irq.status THEN pkt_rx_avail + 1 ELSE pkt_rx_avail
  /\ irq' = [irq EXCEPT !.pc = "err", !.status = @ \ {"RX_OK"}]
  /\ UNCHANGED <<txvars, rx_pkt_size, desc_rx, read, off, unavail_enb, status>>

\* RX_DESC_UNAVAIL is disabled.
IrqErr ==
  /\ irq.pc = "err"
  /\ unavail_enb' = (unavail_enb /\ "RX_UNAVAIL" \notin irq.status)
  /\ irq' = [irq EXCEPT !.pc = "ack"]
  /\ UNCHANGED <<txvars, rxvars, status>>

\* Mutant: the whole status is cleared, as rtl8101_interrupt does.
IrqAck_ClearsAll ==
  /\ irq.pc = "ack"
  /\ status' = {}
  /\ irq' = [pc |-> "idle", status |-> {}]
  /\ UNCHANGED <<txvars, rxvars, unavail_enb>>

\* All error bits are cleared if one was seen, those that came since included.
IrqAck ==
  /\ irq.pc = "ack"
  /\ status' = IF irq.status # {} THEN status \ {"TX_ERR", "RX_UNAVAIL"} ELSE status
  /\ irq' = [pc |-> "idle", status |-> {}]
  /\ UNCHANGED <<txvars, rxvars, unavail_enb>>

Irq == IrqEnter \/ IrqTx \/ IrqRx \/ IrqAvail \/ IrqErr \/ IrqAck

-----------------------------------------------------------------------------
(***************************************************************************)
(* The environment: the NIC.  The write-back of a transmit descriptor      *)
(* clears DescOwn and leaves the other bits, on which expt_write relies;   *)
(* that of a receive descriptor puts the length received in the place of   *)
(* the length of the buffer.                                               *)
(***************************************************************************)
NicSend ==
  /\ npq /\ desc_tx.own
  /\ desc_tx' = [desc_tx EXCEPT !.own = FALSE]
  /\ \/ status' = status \cup {"TX_OK"}
     \/ TxErrors /\ status' = status \cup {"TX_ERR"}
  /\ UNCHANGED <<pkt_tx_busy, write, npq, rxvars, unavail_enb, irq>>

NicSleep ==
  /\ npq /\ ~desc_tx.own
  /\ npq' = FALSE
  /\ UNCHANGED <<pkt_tx_busy, write, desc_tx, rxvars, unavail_enb, status, irq>>

NicStore ==
  /\ desc_rx.own
  /\ \E n \in 1 .. desc_rx.len : desc_rx' = [own |-> FALSE, len |-> n]
  /\ status' = status \cup {"RX_OK"}
  /\ UNCHANGED <<txvars, pkt_rx_avail, rx_pkt_size, read, off, unavail_enb, irq>>

NicLose ==
  /\ ~desc_rx.own
  /\ status' = status \cup {"RX_UNAVAIL"}
  /\ UNCHANGED <<txvars, rxvars, unavail_enb, irq>>

-----------------------------------------------------------------------------
\* The state setup_buffers and hw_init leave.
Init ==
  /\ pkt_tx_busy = 0 /\ pkt_rx_avail = 0 /\ rx_pkt_size = 0
  /\ desc_tx = [own |-> FALSE, len |-> 0]
  /\ desc_rx = [own |-> TRUE, len |-> PKT_SIZE]
  /\ unavail_enb = TRUE
  /\ status = {} /\ irq = [pc |-> "idle", status |-> {}]
  /\ write = [p \in Writers |-> Free]
  /\ read = [p \in Readers |-> Free] /\ off = [p \in Readers |-> 0]
  /\ npq = FALSE

Next ==
  \/ \E p \in Writers : Write(p)
  \/ \E p \in Readers : Read(p)
  \/ Irq
  \/ NicSend \/ NicSleep \/ NicStore \/ NicLose

Spec == Init /\ [][Next]_vars

\* Interrupts are served, the NIC sends what it was told of, a call that has
\* begun ends.  The reader is a program that reads until the end of every
\* packet.  Nothing obliges anybody to call write.
Fairness ==
  /\ WF_vars(Irq) /\ WF_vars(NicSend)
  /\ \A p \in Writers : WF_vars(Write(p) /\ write[p].pc # "idle")
  /\ \A p \in Readers : WF_vars(Read(p))

FairSpec == Spec /\ Fairness

-----------------------------------------------------------------------------
(***************************************************************************)
(* Properties.                                                             *)
(***************************************************************************)
Sizes == 0 .. 2 * PKT_SIZE - 1

\* To OR a length into a length gives one that fits the field.
SizesClosed ==
  /\ PKT_SIZE \in Nat \ {0}
  /\ \A m, n \in Sizes : Or(m, n) \in Sizes

Bell  == {"TX_OK", "RX_OK", "TX_ERR", "RX_UNAVAIL"}

TypeOK ==
  /\ pkt_tx_busy \in Nat /\ pkt_rx_avail \in Nat /\ rx_pkt_size \in Sizes
  /\ desc_tx \in [own : BOOLEAN, len : Sizes]
  /\ desc_rx \in [own : BOOLEAN, len : Sizes]
  /\ unavail_enb \in BOOLEAN /\ npq \in BOOLEAN
  /\ status \in SUBSET Bell
  /\ irq \in [pc : {"idle", "tx", "rx", "avail", "err", "ack"}, status : SUBSET Bell]
  /\ write \in [Writers ->
       [pc : {"idle", "check", "backoff", "copy", "post", "kick"}, len : Sizes]]
  /\ read \in [Readers ->
       [pc : {"idle", "check", "size", "copy", "clear", "give", "mask"}, len : Sizes]]
  /\ off \in [Readers -> Nat]

\* A packet has been handed to the NIC and its completion not been counted.
InFlight == desc_tx.own \/ "TX_OK" \in status \cup irq.status

AtPc(S) == {p \in Writers : write[p].pc \in S}

\* pkt_tx_busy protects pkt_tx although it is tested after it was incremented
\* and by no lock: no two calls of write fill the buffer at the same time, and
\* none fills it while the NIC sends from it.
TxExclusive ==
  /\ \A p, q \in AtPc({"copy", "post"}) : p = q
  /\ AtPc({"copy", "post"}) # {} => ~InFlight

\* pkt_tx_busy counts the calls of write that have incremented it and the
\* packet in flight, and nothing else: otherwise every later write would find
\* the buffer busy, or two would find it free.
BusyCounts ==
  pkt_tx_busy = Cardinality(AtPc({"check", "backoff", "copy", "post"}))
                  + (IF InFlight THEN 1 ELSE 0)

\* What is read is one whole packet: expt_read gives the buffer back to the
\* NIC only when the packet in it has been read to its end, and then the next
\* packet is read from its first byte.
WholePacket ==
  \A p \in Readers :
    /\ read[p].pc = "give" => off[p] >= rx_pkt_size
    /\ desc_rx.own => off[p] = 0

\* The NIC does not store a packet into pkt_rx while it is copied to the user.
RxBufferSteady == \A p \in Readers : read[p].pc = "copy" => ~desc_rx.own

\* "Make the buffer available to hardware": the buffer, of RX_PKT_SIZE bytes,
\* and not more than the buffer.
RxDescFits == desc_rx.own => desc_rx.len <= PKT_SIZE

\* A packet handed to the NIC is sent and its end is counted.
TxEnds == desc_tx.own ~> ~InFlight

\* The NIC gets its receive buffer back: the interrupt is not lost between
\* the handler's single look at the status and its clearing of the bits.
RxGoesOn == ~desc_rx.own ~> desc_rx.own

=============================================================================
