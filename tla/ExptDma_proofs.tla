--------------------------- MODULE ExptDma_proofs ---------------------------
(***************************************************************************)
(* Proofs about the character driver with DMA, for every finite set of     *)
(* writers.                                                                *)
(*                                                                         *)
(* pkt_tx_busy excludes: whatever fails, the transmit buffer has one user  *)
(* at a time.  TxExclusive alone is not inductive.  It needs that          *)
(* pkt_tx_busy is never below the number of its holders (a failed copy or  *)
(* transmission leaves it above), and that one TX_OK stands for one packet *)
(* in flight.  Without failures the counter is exact.                      *)
(*                                                                         *)
(* The receive buffer passes from the NIC to the handler, to the reader    *)
(* and back, and is with one of them at a time as long as there is one     *)
(* reader.                                                                 *)
(***************************************************************************)
EXTENDS ExptDma, FiniteSetTheorems, TLAPS

Holding == {"check", "backoff", "copy", "post"}
Holders == AtPc(Holding)
Flight  == IF InFlight THEN 1 ELSE 0

WriteType ==
  write \in [Writers ->
    [pc : {"idle", "check", "backoff", "copy", "post", "kick"}, len : Int]]

\* No holder goes uncounted.
BusyAtLeast ==
  /\ pkt_tx_busy \in Int
  /\ pkt_tx_busy >= Cardinality(Holders) + Flight

\* One TX_OK for one packet: the NIC has given the descriptor back, and the
\* handler has it in its copy only until it has cleared it.
OneTxOk ==
  /\ "TX_OK" \in status => ~desc_tx.own
  /\ "TX_OK" \in irq.status => irq.pc = "tx" /\ "TX_OK" \in status

IrqType == irq = [pc |-> irq.pc, status |-> irq.status]
DescType == desc_tx = [own |-> desc_tx.own, len |-> desc_tx.len] /\ desc_tx.own \in BOOLEAN

ExclusiveInv ==
  /\ WriteType /\ IrqType /\ DescType
  /\ BusyAtLeast
  /\ OneTxOk
  /\ TxExclusive

-----------------------------------------------------------------------------
\* The holders are finitely many, so they can be counted.
LEMMA HoldersFinite ==
  ASSUME IsFiniteSet(Writers)
  PROVE  IsFiniteSet(Holders) /\ Cardinality(Holders) \in Nat
<1>1. Holders \subseteq Writers
  BY DEF Holders, AtPc
<1>2. IsFiniteSet(Holders)
  BY <1>1, FS_Subset
<1>. QED BY <1>2, FS_CardinalityType

\* When nothing the counter counts changes, the invariant is kept.
LEMMA TxUnchanged ==
  ASSUME ExclusiveInv, UNCHANGED <<pkt_tx_busy, desc_tx, write>>,
         ("TX_OK" \in status') <=> ("TX_OK" \in status),
         ("TX_OK" \in irq'.status) <=> ("TX_OK" \in irq.status),
         "TX_OK" \in irq.status => irq'.pc = "tx",
         IrqType'
  PROVE  ExclusiveInv'
<1>1. Holders' = Holders /\ InFlight' = InFlight
  BY DEF ExclusiveInv, Holders, AtPc, InFlight
<1>2. Flight' = Flight
  BY <1>1 DEF Flight
<1>3. BusyAtLeast'
  BY <1>1, <1>2 DEF ExclusiveInv, BusyAtLeast
<1>4. TxExclusive'
  BY <1>1 DEF ExclusiveInv, TxExclusive, AtPc
<1>. QED BY <1>3, <1>4 DEF ExclusiveInv, WriteType, DescType, OneTxOk

\* A process that starts to hold the counter adds one holder.
LEMMA HolderJoins ==
  ASSUME IsFiniteSet(Writers), WriteType,
         NEW p \in Writers, p \notin Holders, NEW c \in Holding,
         write' = [write EXCEPT ![p].pc = c]
  PROVE  Cardinality(Holders') = Cardinality(Holders) + 1
<1>1. Holders' = Holders \cup {p}
  BY DEF Holders, Holding, AtPc, WriteType
<1>. QED BY <1>1, HoldersFinite, FS_AddElement

\* A process that lets go of it takes one away.
LEMMA HolderLeaves ==
  ASSUME IsFiniteSet(Writers), WriteType,
         NEW p \in Writers, p \in Holders,
         \A q \in Writers : q # p => write'[q] = write[q],
         write'[p].pc \notin Holding
  PROVE  Cardinality(Holders') = Cardinality(Holders) - 1
<1>1. Holders' = Holders \ {p}
  BY DEF Holders, AtPc
<1>. QED BY <1>1, HoldersFinite, FS_RemoveElement

\* The test of expt_write: who finds the counter at 1 is alone.
LEMMA AloneAtOne ==
  ASSUME IsFiniteSet(Writers), ExclusiveInv, pkt_tx_busy = 1,
         NEW p \in Holders
  PROVE  Holders = {p} /\ ~InFlight
<1>1. Cardinality(Holders) \in Nat /\ IsFiniteSet(Holders)
  BY HoldersFinite
<1>2. /\ IsFiniteSet(Holders \ {p})
      /\ Cardinality(Holders \ {p}) = Cardinality(Holders) - 1
  BY <1>1, FS_RemoveElement
<1>3. Cardinality(Holders \ {p}) \in Nat
  BY <1>2, FS_CardinalityType
<1>4. Cardinality(Holders \ {p}) = 0 /\ Flight = 0
  BY <1>1, <1>2, <1>3 DEF ExclusiveInv, BusyAtLeast, Flight
<1>5. Holders \ {p} = {}
  BY <1>2, <1>4, FS_EmptySet
<1>. QED BY <1>4, <1>5 DEF Flight

-----------------------------------------------------------------------------
\* Nobody writes and nothing is in flight when the driver starts.
LEMMA ExclusiveInit == Init => ExclusiveInv
<1>. SUFFICES ASSUME Init PROVE ExclusiveInv
  OBVIOUS
<1>1. Holders = {} /\ ~InFlight
  BY DEF Init, Holders, Holding, AtPc, Free, InFlight
<1>2. BusyAtLeast
  BY <1>1, FS_EmptySet DEF Init, BusyAtLeast, Flight
<1>3. TxExclusive
  BY DEF Init, TxExclusive, AtPc, Free
<1>. QED
  BY <1>2, <1>3 DEF Init, ExclusiveInv, WriteType, IrqType, DescType, OneTxOk, Free

\* The steps of expt_write.
LEMMA ExclusiveWrite ==
  ASSUME IsFiniteSet(Writers), ExclusiveInv, NEW p \in Writers, Write(p)
  PROVE  ExclusiveInv'
<1>. USE DEF ExclusiveInv
<1>0. Cardinality(Holders) \in Nat
  BY HoldersFinite
<1>1. CASE WriteInc(p)
  <2>1. write' = [write EXCEPT ![p].pc = "check"] /\ p \notin Holders
    BY <1>1 DEF WriteInc, Holders, Holding, AtPc
  <2>2. Cardinality(Holders') = Cardinality(Holders) + 1
    BY <2>1, HolderJoins DEF Holding
  <2>3. InFlight' = InFlight
    BY <1>1 DEF WriteInc, InFlight
  <2>4. BusyAtLeast'
    BY <1>0, <1>1, <2>2, <2>3 DEF WriteInc, BusyAtLeast, Flight
  <2>5. TxExclusive'
    BY <1>1, <2>1, <2>3 DEF WriteInc, TxExclusive, AtPc, WriteType
  <2>. QED BY <1>1, <2>4, <2>5 DEF WriteInc, WriteType, IrqType, DescType, OneTxOk
<1>2. CASE WriteCheck(p)
  <2>1. p \in Holders /\ WriteType'
    BY <1>2 DEF WriteCheck, Holders, Holding, AtPc, WriteType
  <2>2. Holders' = Holders /\ InFlight' = InFlight
    BY <1>2 DEF WriteCheck, Holders, Holding, AtPc, WriteType, InFlight
  <2>3. BusyAtLeast'
    BY <1>2, <2>2 DEF WriteCheck, BusyAtLeast, Flight
  <2>4. TxExclusive'
    <3>1. CASE MayWrite
      <4>1. Holders = {p} /\ ~InFlight
        BY <2>1, <3>1, AloneAtOne DEF MayWrite
      <4>2. AtPc({"copy", "post"})' \subseteq Holders'
        BY DEF Holders, Holding, AtPc
      <4>. QED BY <2>2, <4>1, <4>2 DEF TxExclusive
    <3>2. CASE ~MayWrite
      <4>1. AtPc({"copy", "post"})' = AtPc({"copy", "post"})
        BY <1>2, <3>2 DEF WriteCheck, AtPc, WriteType
      <4>. QED BY <2>2, <4>1 DEF TxExclusive
    <3>. QED BY <3>1, <3>2
  <2>. QED BY <1>2, <2>1, <2>3, <2>4 DEF WriteCheck, IrqType, DescType, OneTxOk
<1>3. CASE WriteBackoff(p)
  <2>1. p \in Holders /\ WriteType' /\ write'[p].pc \notin Holding
    BY <1>3 DEF WriteBackoff, Holders, Holding, AtPc, WriteType, Free
  <2>2. \A q \in Writers : q # p => write'[q] = write[q]
    BY <1>3 DEF WriteBackoff, WriteType
  <2>3. Cardinality(Holders') = Cardinality(Holders) - 1
    BY <2>1, <2>2, HolderLeaves
  <2>4. InFlight' = InFlight
    BY <1>3 DEF WriteBackoff, InFlight
  <2>5. BusyAtLeast'
    BY <1>0, <1>3, <2>3, <2>4 DEF WriteBackoff, BusyAtLeast, Flight
  <2>6. TxExclusive'
    BY <1>3, <2>1, <2>2, <2>4 DEF TxExclusive, AtPc, Holding
  <2>. QED BY <1>3, <2>1, <2>5, <2>6 DEF WriteBackoff, IrqType, DescType, OneTxOk
<1>4. CASE WriteCopy(p)
  <2>1. PICK n \in 0 .. PKT_SIZE :
          write' = [write EXCEPT ![p] = [pc |-> "post", len |-> n]]
    BY <1>4 DEF WriteCopy
  <2>2. WriteType'
    BY <2>1 DEF WriteType
  <2>3. /\ Holders' = Holders
        /\ AtPc({"copy", "post"})' = AtPc({"copy", "post"})
        /\ InFlight' = InFlight
    BY <1>4, <2>1 DEF WriteCopy, Holders, Holding, AtPc, WriteType, InFlight
  <2>4. BusyAtLeast' /\ TxExclusive'
    BY <1>4, <2>3 DEF WriteCopy, BusyAtLeast, Flight, TxExclusive
  <2>. QED BY <1>4, <2>2, <2>4 DEF WriteCopy, IrqType, DescType, OneTxOk
<1>5. CASE WriteFault(p)
  <2>1. p \in Holders /\ WriteType' /\ write'[p].pc \notin Holding
    BY <1>5 DEF WriteFault, Holders, Holding, AtPc, WriteType, Free
  <2>2. \A q \in Writers : q # p => write'[q] = write[q]
    BY <1>5 DEF WriteFault, WriteType
  <2>3. Cardinality(Holders') = Cardinality(Holders) - 1
    BY <2>1, <2>2, HolderLeaves
  <2>4. InFlight' = InFlight
    BY <1>5 DEF WriteFault, InFlight
  <2>5. BusyAtLeast'
    BY <1>0, <1>5, <2>3, <2>4 DEF WriteFault, BusyAtLeast, Flight
  <2>6. TxExclusive'
    BY <1>5, <2>1, <2>2, <2>4 DEF TxExclusive, AtPc, Holding
  <2>. QED BY <1>5, <2>1, <2>5, <2>6 DEF WriteFault, IrqType, DescType, OneTxOk
<1>6. CASE WritePost(p)
  <2>1. p \in Holders /\ WriteType' /\ write'[p].pc \notin Holding
    BY <1>6 DEF WritePost, Holders, Holding, AtPc, WriteType
  <2>2. \A q \in Writers : q # p => write'[q] = write[q]
    BY <1>6 DEF WritePost, WriteType
  <2>3. Cardinality(Holders') = Cardinality(Holders) - 1
    BY <2>1, <2>2, HolderLeaves
  <2>4. p \in AtPc({"copy", "post"})
    BY <1>6 DEF WritePost, AtPc
  <2>5. ~InFlight /\ \A q \in AtPc({"copy", "post"}) : q = p
    BY <2>4 DEF TxExclusive
  <2>6. BusyAtLeast'
    BY <1>0, <1>6, <2>3, <2>5 DEF WritePost, BusyAtLeast, Flight
  <2>7. AtPc({"copy", "post"})' = {}
    BY <2>1, <2>2, <2>5 DEF AtPc, Holding
  <2>8. TxExclusive'
    BY <2>7 DEF TxExclusive
  <2>9. OneTxOk' /\ DescType'
    BY <1>6, <2>5 DEF WritePost, OneTxOk, InFlight, DescType
  <2>. QED BY <1>6, <2>1, <2>6, <2>8, <2>9 DEF WritePost, IrqType
<1>7. CASE WriteKick(p)
  <2>1. /\ Holders' = Holders
        /\ AtPc({"copy", "post"})' = AtPc({"copy", "post"})
        /\ InFlight' = InFlight
        /\ WriteType'
    BY <1>7 DEF WriteKick, Holders, Holding, AtPc, WriteType, InFlight, Free
  <2>2. BusyAtLeast' /\ TxExclusive'
    BY <1>7, <2>1 DEF WriteKick, BusyAtLeast, Flight, TxExclusive
  <2>. QED BY <1>7, <2>1, <2>2 DEF WriteKick, IrqType, DescType, OneTxOk
<1>. QED BY <1>1, <1>2, <1>3, <1>4, <1>5, <1>6, <1>7 DEF Write

\* The steps of the interrupt handler.
LEMMA ExclusiveIrq ==
  ASSUME IsFiniteSet(Writers), ExclusiveInv, Irq
  PROVE  ExclusiveInv'
<1>. USE DEF ExclusiveInv
<1>0. Cardinality(Holders) \in Nat
  BY HoldersFinite
<1>1. CASE IrqEnter
  <2>1. irq' = [pc |-> "tx", status |-> status] /\ UNCHANGED <<txvars, status>>
    BY <1>1 DEF IrqEnter
  <2>2. Holders' = Holders /\ InFlight' = InFlight
    BY <2>1 DEF Holders, AtPc, txvars, InFlight, OneTxOk
  <2>3. BusyAtLeast' /\ TxExclusive'
    BY <2>1, <2>2 DEF BusyAtLeast, Flight, TxExclusive, AtPc, txvars
  <2>. QED BY <2>1, <2>3 DEF WriteType, IrqType, DescType, OneTxOk, txvars
<1>2. CASE IrqTx
  <2>1. /\ Holders' = Holders
        /\ AtPc({"copy", "post"})' = AtPc({"copy", "post"})
        /\ desc_tx' = desc_tx /\ write' = write
    BY <1>2 DEF IrqTx, Holders, AtPc
  <2>2. /\ irq' = [pc |-> "rx", status |-> irq.status \ {"TX_OK"}]
        /\ status' = status \ (irq.status \cap {"TX_OK"})
    BY <1>2 DEF IrqTx, IrqType
  <2>3. InFlight' => InFlight
    BY <2>1, <2>2 DEF InFlight
  <2>4. TxExclusive'
    BY <2>1, <2>3 DEF TxExclusive
  <2>5. BusyAtLeast'
    <3>1. CASE "TX_OK" \in irq.status
      <4>1. InFlight /\ ~InFlight'
        BY <2>1, <2>2, <3>1 DEF InFlight, OneTxOk
      <4>. QED BY <1>0, <1>2, <2>1, <3>1, <4>1 DEF IrqTx, BusyAtLeast, Flight
    <3>2. CASE "TX_OK" \notin irq.status
      <4>. QED BY <1>0, <1>2, <2>1, <2>3, <3>2 DEF IrqTx, BusyAtLeast, Flight
    <3>. QED BY <3>1, <3>2
  <2>. QED BY <2>1, <2>2, <2>4, <2>5 DEF WriteType, IrqType, DescType, OneTxOk
<1>3. CASE IrqRx
  BY <1>3, TxUnchanged DEF IrqRx, txvars, IrqType, OneTxOk
<1>4. CASE IrqAvail
  BY <1>4, TxUnchanged DEF IrqAvail, txvars, IrqType, OneTxOk
<1>5. CASE IrqErr
  BY <1>5, TxUnchanged DEF IrqErr, txvars, IrqType, OneTxOk
<1>6. CASE IrqAck
  BY <1>6, TxUnchanged DEF IrqAck, txvars, IrqType, OneTxOk
<1>. QED BY <1>1, <1>2, <1>3, <1>4, <1>5, <1>6 DEF Irq

\* Every step keeps the transmit buffer exclusive.
LEMMA ExclusiveNext ==
  ASSUME IsFiniteSet(Writers), ExclusiveInv, [Next]_vars
  PROVE  ExclusiveInv'
<1>. USE DEF ExclusiveInv
<1>0. Cardinality(Holders) \in Nat
  BY HoldersFinite
<1>1. CASE \E p \in Writers : Write(p)
  BY <1>1, ExclusiveWrite
<1>2. CASE \E p \in Readers : Read(p)
  <2>1. UNCHANGED <<txvars, status, irq>>
    BY <1>2 DEF Read, ReadEnter, ReadCheck, ReadSize, ReadCopy, ReadClear,
                ReadGive, ReadMask
  <2>. QED BY <2>1, TxUnchanged DEF txvars, IrqType, OneTxOk
<1>3. CASE Irq
  BY <1>3, ExclusiveIrq
<1>4. CASE NicSend
  <2>1. /\ Holders' = Holders
        /\ AtPc({"copy", "post"})' = AtPc({"copy", "post"})
        /\ InFlight
        /\ pkt_tx_busy' = pkt_tx_busy
    BY <1>4 DEF NicSend, Holders, AtPc, InFlight
  <2>2. BusyAtLeast' /\ TxExclusive'
    BY <1>0, <2>1 DEF BusyAtLeast, Flight, TxExclusive
  <2>. QED BY <1>4, <2>2 DEF NicSend, WriteType, IrqType, DescType, OneTxOk
<1>5. CASE NicSleep
  BY <1>5, TxUnchanged DEF NicSleep, IrqType, OneTxOk
<1>6. CASE NicStore
  BY <1>6, TxUnchanged DEF NicStore, txvars, IrqType, OneTxOk
<1>7. CASE NicLose
  BY <1>7, TxUnchanged DEF NicLose, txvars, IrqType, OneTxOk
<1>8. CASE UNCHANGED vars
  BY <1>8, TxUnchanged DEF vars, txvars, IrqType, OneTxOk
<1>. QED BY <1>1, <1>2, <1>3, <1>4, <1>5, <1>6, <1>7, <1>8 DEF Next

\* For every finite set of writers, with or without copy faults and transmit
\* errors, two calls of expt_write never fill pkt_tx together, and none fills
\* it while the NIC has it.
THEOREM BufferExclusive == IsFiniteSet(Writers) => (Spec => []TxExclusive)
<1>. SUFFICES ASSUME IsFiniteSet(Writers) PROVE Spec => []TxExclusive
  OBVIOUS
<1>1. Init => ExclusiveInv
  BY ExclusiveInit
<1>2. ExclusiveInv /\ [Next]_vars => ExclusiveInv'
  BY ExclusiveNext
<1>3. ExclusiveInv => TxExclusive
  BY DEF ExclusiveInv
<1>. QED BY <1>1, <1>2, <1>3, PTL DEF Spec

-----------------------------------------------------------------------------
(***************************************************************************)
(* The counter is exact when no copy and no transmission fails: the two    *)
(* paths that leave it too high are the only ones.                         *)
(***************************************************************************)

\* When nothing the counter counts changes, it stays exact.
LEMMA CountUnchanged ==
  ASSUME BusyCounts, UNCHANGED <<pkt_tx_busy, write>>, InFlight' = InFlight
  PROVE  BusyCounts'
<1>1. AtPc({"check", "backoff", "copy", "post"})'
        = AtPc({"check", "backoff", "copy", "post"})
  BY DEF AtPc
<1>. QED BY <1>1 DEF BusyCounts

\* The steps of expt_write that do not fail keep the counter exact: it is
\* incremented before its first use, and a packet takes over what its writer
\* held.
LEMMA CountWrite ==
  ASSUME IsFiniteSet(Writers), ~CopyFaults, ExclusiveInv, BusyCounts,
         NEW p \in Writers, Write(p)
  PROVE  BusyCounts'
<1>. USE DEF ExclusiveInv
<1>0. /\ Cardinality(Holders) \in Nat
      /\ pkt_tx_busy = Cardinality(Holders) + Flight
  BY HoldersFinite DEF BusyCounts, Holders, Holding, Flight
<1>. SUFFICES pkt_tx_busy' = Cardinality(Holders') + Flight'
  BY DEF BusyCounts, Holders, Holding, Flight
<1>1. CASE WriteInc(p)
  <2>1. write' = [write EXCEPT ![p].pc = "check"] /\ p \notin Holders
    BY <1>1 DEF WriteInc, Holders, Holding, AtPc
  <2>2. Cardinality(Holders') = Cardinality(Holders) + 1
    BY <2>1, HolderJoins DEF Holding
  <2>3. Flight' = Flight
    BY <1>1 DEF WriteInc, InFlight, Flight
  <2>. QED BY <1>0, <1>1, <2>2, <2>3 DEF WriteInc, Flight
<1>2. CASE WriteCheck(p)
  <2>1. Holders' = Holders /\ Flight' = Flight
    BY <1>2 DEF WriteCheck, Holders, Holding, AtPc, WriteType, InFlight, Flight
  <2>. QED BY <1>0, <1>2, <2>1 DEF WriteCheck
<1>3. CASE WriteBackoff(p)
  <2>1. /\ p \in Holders /\ write'[p].pc \notin Holding
        /\ \A q \in Writers : q # p => write'[q] = write[q]
    BY <1>3 DEF WriteBackoff, Holders, Holding, AtPc, WriteType, Free
  <2>2. Cardinality(Holders') = Cardinality(Holders) - 1
    BY <2>1, HolderLeaves
  <2>3. Flight' = Flight
    BY <1>3 DEF WriteBackoff, InFlight, Flight
  <2>. QED BY <1>0, <1>3, <2>2, <2>3 DEF WriteBackoff, Flight
<1>4. CASE WriteCopy(p)
  <2>1. PICK n \in 0 .. PKT_SIZE :
          write' = [write EXCEPT ![p] = [pc |-> "post", len |-> n]]
    BY <1>4 DEF WriteCopy
  <2>2. Holders' = Holders /\ Flight' = Flight
    BY <1>4, <2>1 DEF WriteCopy, Holders, Holding, AtPc, WriteType, InFlight, Flight
  <2>. QED BY <1>0, <1>4, <2>2 DEF WriteCopy
<1>5. CASE WriteFault(p)
  BY <1>5 DEF WriteFault
<1>6. CASE WritePost(p)
  <2>1. /\ p \in Holders /\ write'[p].pc \notin Holding
        /\ \A q \in Writers : q # p => write'[q] = write[q]
        /\ p \in AtPc({"copy", "post"})
    BY <1>6 DEF WritePost, Holders, Holding, AtPc, WriteType
  <2>2. Cardinality(Holders') = Cardinality(Holders) - 1
    BY <2>1, HolderLeaves
  <2>3. Flight = 0 /\ Flight' = 1
    BY <1>6, <2>1 DEF WritePost, TxExclusive, InFlight, Flight
  <2>. QED BY <1>0, <1>6, <2>2, <2>3 DEF WritePost
<1>7. CASE WriteKick(p)
  <2>1. Holders' = Holders /\ Flight' = Flight
    BY <1>7 DEF WriteKick, Holders, Holding, AtPc, WriteType, InFlight, Free, Flight
  <2>. QED BY <1>0, <1>7, <2>1 DEF WriteKick
<1>. QED BY <1>1, <1>2, <1>3, <1>4, <1>5, <1>6, <1>7 DEF Write

\* So does every other step: the handler takes one off for the one TX_OK of the
\* packet in flight.
LEMMA CountNext ==
  ASSUME IsFiniteSet(Writers), ~CopyFaults, ~TxErrors, ExclusiveInv, BusyCounts,
         [Next]_vars
  PROVE  BusyCounts'
<1>. USE DEF ExclusiveInv
<1>1. CASE \E p \in Writers : Write(p)
  BY <1>1, CountWrite
<1>2. CASE \E p \in Readers : Read(p)
  <2>1. UNCHANGED <<txvars, status, irq>>
    BY <1>2 DEF Read, ReadEnter, ReadCheck, ReadSize, ReadCopy, ReadClear,
                ReadGive, ReadMask
  <2>. QED BY <2>1, CountUnchanged DEF txvars, InFlight
<1>3. CASE IrqEnter
  BY <1>3, CountUnchanged DEF IrqEnter, txvars, InFlight, OneTxOk
<1>4. CASE IrqTx
  <2>1. /\ Cardinality(Holders) \in Nat
        /\ pkt_tx_busy = Cardinality(Holders) + Flight
    BY HoldersFinite DEF BusyCounts, Holders, Holding, Flight
  <2>2. Holders' = Holders /\ desc_tx' = desc_tx
    BY <1>4 DEF IrqTx, Holders, AtPc
  <2>3. /\ irq' = [pc |-> "rx", status |-> irq.status \ {"TX_OK"}]
        /\ status' = status \ (irq.status \cap {"TX_OK"})
    BY <1>4 DEF IrqTx, IrqType
  <2>4. pkt_tx_busy' = Cardinality(Holders') + Flight'
    <3>1. CASE "TX_OK" \in irq.status
      <4>1. Flight = 1 /\ Flight' = 0
        BY <2>2, <2>3, <3>1 DEF InFlight, OneTxOk, Flight
      <4>. QED BY <1>4, <2>1, <2>2, <3>1, <4>1 DEF IrqTx
    <3>2. CASE "TX_OK" \notin irq.status
      <4>1. Flight' = Flight
        BY <2>2, <2>3, <3>2 DEF InFlight, Flight
      <4>. QED BY <1>4, <2>1, <2>2, <3>2, <4>1 DEF IrqTx
    <3>. QED BY <3>1, <3>2
  <2>. QED BY <2>4 DEF BusyCounts, Holders, Holding, Flight
<1>5. CASE IrqRx
  BY <1>5, CountUnchanged DEF IrqRx, txvars, InFlight, IrqType
<1>6. CASE IrqAvail
  BY <1>6, CountUnchanged DEF IrqAvail, txvars, InFlight, IrqType
<1>7. CASE IrqErr
  BY <1>7, CountUnchanged DEF IrqErr, txvars, InFlight, IrqType
<1>8. CASE IrqAck
  BY <1>8, CountUnchanged DEF IrqAck, txvars, InFlight, OneTxOk
<1>9. CASE NicSend
  <2>1. InFlight /\ InFlight'
    BY <1>9 DEF NicSend, InFlight
  <2>. QED BY <1>9, <2>1, CountUnchanged DEF NicSend
<1>10. CASE NicSleep
  BY <1>10, CountUnchanged DEF NicSleep, InFlight
<1>11. CASE NicStore
  BY <1>11, CountUnchanged DEF NicStore, txvars, InFlight
<1>12. CASE NicLose
  BY <1>12, CountUnchanged DEF NicLose, txvars, InFlight
<1>13. CASE UNCHANGED vars
  BY <1>13, CountUnchanged DEF vars, txvars, InFlight
<1>. QED
  BY <1>1, <1>2, <1>3, <1>4, <1>5, <1>6, <1>7, <1>8, <1>9, <1>10, <1>11, <1>12,
     <1>13 DEF Next, Irq

\* For every finite set of writers: as long as copy_from_user succeeds and the
\* NIC reports no transmit error, pkt_tx_busy is the number of its holders, so
\* that the buffer becomes free again after every packet.
THEOREM BusyExact ==
  IsFiniteSet(Writers) /\ ~CopyFaults /\ ~TxErrors => (Spec => []BusyCounts)
<1>. SUFFICES ASSUME IsFiniteSet(Writers), ~CopyFaults, ~TxErrors
              PROVE  Spec => []BusyCounts
  OBVIOUS
<1>1. Init => ExclusiveInv /\ BusyCounts
  <2>. SUFFICES ASSUME Init PROVE BusyCounts
    BY ExclusiveInit
  <2>1. AtPc({"check", "backoff", "copy", "post"}) = {} /\ ~InFlight
    BY DEF Init, AtPc, Free, InFlight
  <2>. QED BY <2>1, FS_EmptySet DEF Init, BusyCounts
<1>2. ExclusiveInv /\ BusyCounts /\ [Next]_vars => (ExclusiveInv /\ BusyCounts)'
  BY ExclusiveNext, CountNext
<1>. QED BY <1>1, <1>2, PTL DEF Spec

-----------------------------------------------------------------------------
(***************************************************************************)
(* The receive buffer has one owner at a time, with one file that is read: *)
(* the NIC, a pending RX_OK, the available packet or the reader that gives *)
(* it back.                                                                *)
(***************************************************************************)
RxDue == "RX_OK" \in status \cup irq.status

\* The parts of the types the argument needs; the lengths are left open, for
\* the length field (Or) is out of the provers' reach.
RxTypes ==
  /\ IrqType
  /\ desc_rx = [own |-> desc_rx.own, len |-> desc_rx.len] /\ desc_rx.own \in BOOLEAN
  /\ read = [p \in Readers |-> [pc |-> read[p].pc, len |-> read[p].len]]
  /\ off = [p \in Readers |-> off[p]]

\* While the NIC has the buffer, or its RX_OK is on the way, the reader is out
\* of it and at the start of the next packet.
NicTurn ==
  desc_rx.own \/ RxDue =>
    /\ pkt_rx_avail = 0
    /\ \A p \in Readers : read[p].pc \in {"idle", "mask"} /\ off[p] = 0

\* One RX_OK stands for one packet: the handler's copy of it outlives the bit in
\* the status only from IrqRx to IrqAvail.
OneRxOk ==
  /\ RxDue => ~desc_rx.own
  /\ "RX_OK" \in irq.status =>
       \/ irq.pc \in {"tx", "rx"} /\ "RX_OK" \in status
       \/ irq.pc = "avail" /\ "RX_OK" \notin status

\* The reader is in the buffer only while the packet is available, and gives it
\* back only when it has come to its end.
ReaderTurn ==
  \A p \in Readers :
    /\ read[p].pc \in {"check", "size", "copy", "clear"} => pkt_rx_avail # 0
    /\ read[p].pc = "give" => pkt_rx_avail = 0 /\ ~desc_rx.own /\ ~RxDue
    /\ read[p].pc \in {"clear", "give"} => off[p] >= rx_pkt_size

RxInv == RxTypes /\ NicTurn /\ OneRxOk /\ ReaderTurn

OneReader == \A p, q \in Readers : p = q

\* The reader's steps.  Only the one reader is there to be disturbed.
LEMMA RxRead ==
  ASSUME OneReader, RxInv, NEW p \in Readers, Read(p)
  PROVE  RxInv'
<1>. USE DEF RxInv, OneReader
<1>0. /\ \A q \in Readers : q = p
      /\ UNCHANGED <<txvars, status, irq>>
  BY DEF Read, ReadEnter, ReadCheck, ReadSize, ReadCopy, ReadClear, ReadGive, ReadMask
<1>1. CASE ReadEnter(p)
  BY <1>0, <1>1 DEF ReadEnter, RxTypes, NicTurn, OneRxOk, ReaderTurn, RxDue, IrqType
<1>2. CASE ReadCheck(p)
  BY <1>0, <1>2 DEF ReadCheck, AtEnd, RxTypes, NicTurn, OneRxOk, ReaderTurn, RxDue,
                    IrqType
<1>3. CASE ReadSize(p)
  BY <1>0, <1>3 DEF ReadSize, RxTypes, NicTurn, OneRxOk, ReaderTurn, RxDue, IrqType
<1>4. CASE ReadCopy(p)
  BY <1>0, <1>4 DEF ReadCopy, Free, RxTypes, NicTurn, OneRxOk, ReaderTurn, RxDue,
                    IrqType
<1>5. CASE ReadClear(p)
  BY <1>0, <1>5 DEF ReadClear, RxTypes, NicTurn, OneRxOk, ReaderTurn, RxDue, IrqType
<1>6. CASE ReadGive(p)
  <2>1. /\ pkt_rx_avail = 0 /\ ~RxDue /\ read[p].pc = "give"
        /\ \E n : desc_rx' = [own |-> TRUE, len |-> n]
        /\ off' = [off EXCEPT ![p] = 0]
        /\ read' = [read EXCEPT ![p].pc = "mask"]
        /\ UNCHANGED <<pkt_rx_avail, rx_pkt_size>>
    BY <1>6 DEF ReadGive, ReaderTurn
  <2>2. RxTypes'
    <3>1. IrqType' /\ off' = [q \in Readers |-> off'[q]]
      BY <1>0, <2>1 DEF RxTypes, IrqType
    <3>2. read' = [q \in Readers |-> [pc |-> read'[q].pc, len |-> read'[q].len]]
      BY <2>1 DEF RxTypes
    <3>3. desc_rx' = [own |-> desc_rx'.own, len |-> desc_rx'.len] /\ desc_rx'.own
      BY <2>1
    <3>. QED BY <3>1, <3>2, <3>3 DEF RxTypes
  <2>3. ~RxDue' /\ read'[p].pc = "mask" /\ off'[p] = 0
    BY <1>0, <2>1 DEF RxTypes, RxDue
  <2>. QED BY <1>0, <2>1, <2>2, <2>3 DEF NicTurn, OneRxOk, ReaderTurn, RxDue
<1>7. CASE ReadMask(p)
  BY <1>0, <1>7 DEF ReadMask, Free, RxTypes, NicTurn, OneRxOk, ReaderTurn, RxDue,
                    IrqType
<1>. QED BY <1>1, <1>2, <1>3, <1>4, <1>5, <1>6, <1>7 DEF Read

\* The steps of the handler and of the NIC, which need no assumption on the
\* readers.
LEMMA RxOthers ==
  ASSUME RxInv, [Next]_vars, ~ \E p \in Readers : Read(p)
  PROVE  RxInv'
<1>. USE DEF RxInv, RxTypes, NicTurn, OneRxOk, ReaderTurn, RxDue, IrqType, rxvars
<1>1. CASE \E p \in Writers : Write(p)
  <2>1. UNCHANGED <<rxvars, status, irq>>
    BY <1>1 DEF Write, WriteInc, WriteCheck, WriteBackoff, WriteCopy, WriteFault,
                WritePost, WriteKick
  <2>. QED BY <2>1
<1>2. CASE IrqEnter
  BY <1>2 DEF IrqEnter
<1>3. CASE IrqTx
  BY <1>3 DEF IrqTx
<1>4. CASE IrqRx
  BY <1>4 DEF IrqRx
<1>5. CASE IrqAvail
  BY <1>5 DEF IrqAvail
<1>6. CASE IrqErr
  BY <1>6 DEF IrqErr
<1>7. CASE IrqAck
  BY <1>7 DEF IrqAck
<1>8. CASE NicSend
  BY <1>8 DEF NicSend
<1>9. CASE NicSleep
  BY <1>9 DEF NicSleep
<1>10. CASE NicStore
  BY <1>10 DEF NicStore
<1>11. CASE NicLose
  BY <1>11 DEF NicLose
<1>12. CASE UNCHANGED vars
  BY <1>12 DEF vars
<1>. QED
  BY <1>1, <1>2, <1>3, <1>4, <1>5, <1>6, <1>7, <1>8, <1>9, <1>10, <1>11, <1>12
     DEF Next, Irq

\* The buffer changes hands, and never has two owners.
LEMMA RxAlways == OneReader => (Spec => []RxInv)
<1>. SUFFICES ASSUME OneReader PROVE Spec => []RxInv
  OBVIOUS
<1>1. Init => RxInv
  BY DEF Init, Free, RxInv, RxTypes, NicTurn, OneRxOk, ReaderTurn, RxDue, IrqType
<1>2. RxInv /\ [Next]_vars => RxInv'
  BY RxRead, RxOthers
<1>. QED BY <1>1, <1>2, PTL DEF Spec

\* With one file that is read, by a program that may be given -EFAULT at any
\* time, every packet is read whole: the buffer goes back to the NIC at the end
\* of the packet and the position to the start.  For every packet size and any
\* writers.
THEOREM PacketsWhole == OneReader => (Spec => []WholePacket)
<1>1. RxInv => WholePacket
  BY DEF RxInv, NicTurn, ReaderTurn, WholePacket
<1>. QED BY <1>1, RxAlways, PTL

\* Nor does the NIC write into pkt_rx while expt_read copies from it.
THEOREM CopySteady == OneReader => (Spec => []RxBufferSteady)
<1>1. RxInv => RxBufferSteady
  BY DEF RxInv, NicTurn, RxBufferSteady
<1>. QED BY <1>1, RxAlways, PTL

-----------------------------------------------------------------------------
(***************************************************************************)
(* Types.  That the OR of two lengths is a length again (SizesClosed) is a *)
(* fact of binary arithmetic that takes an induction over the bits; it is  *)
(* a hypothesis here.  What is left to show is the driver's part: neither  *)
(* the counters nor the file positions ever leave the naturals.            *)
(***************************************************************************)
\* What the typing proofs need of the lengths.
LEMMA SizeFacts ==
  ASSUME SizesClosed
  PROVE  /\ 0 \in Sizes /\ PKT_SIZE \in Sizes /\ Sizes \subseteq Nat
         /\ \A n \in 0 .. PKT_SIZE : n \in Sizes
         /\ \A m \in Sizes : \A n \in 1 .. m : n \in Sizes
<1>. DEFINE s == PKT_SIZE
<1>1. s \in Nat \ {0} /\ Sizes = 0 .. 2 * s - 1
  BY DEF SizesClosed, Sizes
<1>. HIDE DEF s
<1>2. /\ 0 \in Sizes /\ s \in Sizes /\ Sizes \subseteq Nat
      /\ \A n \in 0 .. s : n \in Sizes
      /\ \A m \in Sizes : \A n \in 1 .. m : n \in Sizes
  BY <1>1
<1>. QED BY <1>2 DEF s

\* The parts of TypeOK.
IrqRange  == [pc : {"idle", "tx", "rx", "avail", "err", "ack"}, status : SUBSET Bell]
DescRange == [own : BOOLEAN, len : Sizes]
WriteRange ==
  [Writers -> [pc : {"idle", "check", "backoff", "copy", "post", "kick"}, len : Sizes]]
ReadRange ==
  [Readers ->
    [pc : {"idle", "check", "size", "copy", "clear", "give", "mask"}, len : Sizes]]

\* All of TypeOK but the counter, whose lower bound is that of its holders.
Typed ==
  /\ pkt_rx_avail \in Nat /\ rx_pkt_size \in Sizes
  /\ desc_tx \in DescRange /\ desc_rx \in DescRange
  /\ unavail_enb \in BOOLEAN /\ npq \in BOOLEAN
  /\ status \in SUBSET Bell /\ irq \in IrqRange
  /\ write \in WriteRange /\ read \in ReadRange
  /\ off \in [Readers -> Nat]

\* The state probe leaves is typed.
LEMMA TypedInit ==
  ASSUME SizesClosed, Init
  PROVE  Typed
<1>1. 0 \in Sizes /\ PKT_SIZE \in Sizes
  BY SizeFacts
<1>2. desc_tx \in DescRange /\ desc_rx \in DescRange
  BY <1>1 DEF Init, DescRange
<1>3. write \in WriteRange /\ read \in ReadRange
  BY <1>1 DEF Init, Free, WriteRange, ReadRange
<1>4. status \in SUBSET Bell /\ irq \in IrqRange
  BY DEF Init, IrqRange
<1>. QED BY <1>1, <1>2, <1>3, <1>4 DEF Init, Typed

\* The steps of expt_write keep the types.
LEMMA TypedWrite ==
  ASSUME SizesClosed, Typed, NEW p \in Writers, Write(p)
  PROVE  Typed'
<1>0. UNCHANGED <<rxvars, unavail_enb, status, irq>>
  BY DEF Write, WriteInc, WriteCheck, WriteBackoff, WriteCopy, WriteFault,
         WritePost, WriteKick
<1>1. write' \in WriteRange
  <2>1. 0 \in Sizes /\ \A n \in 0 .. PKT_SIZE : n \in Sizes
    BY SizeFacts
  <2>2. ASSUME NEW c \in {"check", "backoff", "copy", "kick"},
               write' = [write EXCEPT ![p].pc = c]
        PROVE  write' \in WriteRange
    BY <2>2 DEF Typed, WriteRange
  <2>3. ASSUME NEW n \in Sizes, NEW c \in {"idle", "post"},
               write' = [write EXCEPT ![p] = [pc |-> c, len |-> n]]
        PROVE  write' \in WriteRange
    BY <2>3 DEF Typed, WriteRange
  <2>4. CASE WriteCopy(p)
    BY <2>1, <2>3, <2>4 DEF WriteCopy
  <2>. QED BY <2>1, <2>2, <2>3, <2>4 DEF Write, WriteInc, WriteCheck, WriteBackoff,
              WriteFault, WritePost, WriteKick, Free
<1>2. desc_tx' \in DescRange
  <2>1. CASE WritePost(p)
    <3>1. write[p].len \in Sizes /\ desc_tx.len \in Sizes
      BY DEF Typed, WriteRange, DescRange
    <3>2. Or(desc_tx.len, write[p].len) \in Sizes
      BY <3>1 DEF SizesClosed
    <3>. QED BY <2>1, <3>2 DEF WritePost, DescRange
  <2>. QED BY <2>1 DEF Typed, Write, WriteInc, WriteCheck, WriteBackoff, WriteCopy,
              WriteFault, WriteKick
<1>3. npq' \in BOOLEAN
  BY DEF Typed, Write, WriteInc, WriteCheck, WriteBackoff, WriteCopy,
         WriteFault, WritePost, WriteKick
<1>. QED BY <1>0, <1>1, <1>2, <1>3 DEF Typed, rxvars

\* The steps of expt_read keep the types.
LEMMA TypedRead ==
  ASSUME SizesClosed, Typed, NEW p \in Readers, Read(p)
  PROVE  Typed'
<1>0. UNCHANGED <<txvars, rx_pkt_size, status, irq>>
  BY DEF Read, ReadEnter, ReadCheck, ReadSize, ReadCopy, ReadClear, ReadGive,
         ReadMask
<1>1. read' \in ReadRange
  <2>0. 0 \in Sizes /\ \A n \in 0 .. PKT_SIZE : n \in Sizes
    BY SizeFacts
  <2>1. ASSUME NEW c \in {"check", "clear", "size", "give", "mask"},
               read' = [read EXCEPT ![p].pc = c]
        PROVE  read' \in ReadRange
    BY <2>1 DEF Typed, ReadRange
  <2>2. ASSUME NEW n \in Sizes, NEW c \in {"idle", "copy"},
               read' = [read EXCEPT ![p] = [pc |-> c, len |-> n]]
        PROVE  read' \in ReadRange
    BY <2>2 DEF Typed, ReadRange
  <2>3. CASE ReadSize(p)
    <3>. DEFINE left == rx_pkt_size - off[p]
    <3>1. PICK len \in 1 .. PKT_SIZE :
            read' = [read EXCEPT ![p] =
              [pc |-> "copy", len |-> IF 0 <= left /\ left < len THEN left ELSE len]]
      BY <2>3 DEF ReadSize
    <3>2. PKT_SIZE \in Nat /\ rx_pkt_size \in Nat /\ off[p] \in Nat
      BY SizeFacts DEF Typed
    <3>. DEFINE m == IF 0 <= left /\ left < len THEN left ELSE len
    <3>3. m \in 0 .. PKT_SIZE
      BY <3>2
    <3>. HIDE DEF m
    <3>4. m \in Sizes /\ read' = [read EXCEPT ![p] = [pc |-> "copy", len |-> m]]
      BY <2>0, <3>1, <3>3 DEF m
    <3>. QED BY <2>2, <3>4
  <2>. QED BY <2>0, <2>1, <2>2, <2>3 DEF Read, ReadEnter, ReadCheck, ReadCopy,
              ReadClear, ReadGive, ReadMask, Free
<1>2. desc_rx' \in DescRange
  <2>1. CASE ReadGive(p)
    <3>1. desc_rx.len \in Sizes /\ PKT_SIZE \in Sizes
      BY SizeFacts DEF Typed, DescRange
    <3>2. Or(desc_rx.len, PKT_SIZE) \in Sizes
      BY <3>1 DEF SizesClosed
    <3>. QED BY <2>1, <3>2 DEF ReadGive, DescRange
  <2>. QED BY <2>1 DEF Typed, Read, ReadEnter, ReadCheck, ReadSize, ReadCopy,
              ReadClear, ReadMask
<1>3. off' \in [Readers -> Nat]
  <2>1. CASE ReadCopy(p)
    <3>1. read[p].len \in Nat /\ off[p] \in Nat
      <4>1. read[p].len \in Sizes
        BY DEF Typed, ReadRange
      <4>. QED BY <4>1, SizeFacts DEF Typed
    <3>2. off[p] + read[p].len \in Nat
      BY <3>1
    <3>. QED BY <2>1, <3>2 DEF ReadCopy, Typed
  <2>2. CASE ReadGive(p)
    BY <2>2 DEF ReadGive, Typed
  <2>. QED BY <2>1, <2>2 DEF Typed, Read, ReadEnter, ReadCheck, ReadSize,
              ReadClear, ReadMask
<1>4. pkt_rx_avail' \in Nat
  BY DEF Typed, Read, ReadEnter, ReadCheck, ReadSize, ReadCopy, ReadClear,
         ReadGive, ReadMask
<1>5. unavail_enb' \in BOOLEAN
  BY DEF Typed, Read, ReadEnter, ReadCheck, ReadSize, ReadCopy, ReadClear,
         ReadGive, ReadMask
<1>. QED BY <1>0, <1>1, <1>2, <1>3, <1>4, <1>5 DEF Typed, txvars

\* The steps of the interrupt handler keep the types.
LEMMA TypedIrq ==
  ASSUME Typed, Irq
  PROVE  Typed'
<1>0. UNCHANGED <<desc_tx, write, npq, desc_rx, read, off>>
  BY DEF Irq, IrqEnter, IrqTx, IrqRx, IrqAvail, IrqErr, IrqAck, txvars, rxvars
<1>1. irq' \in IrqRange
  <2>1. irq.status \subseteq Bell /\ status \subseteq Bell
    BY DEF Typed, IrqRange
  <2>2. CASE IrqEnter \/ IrqErr \/ IrqAck
    BY <2>1, <2>2 DEF IrqEnter, IrqErr, IrqAck, Typed, IrqRange
  <2>3. CASE IrqTx
    BY <2>1, <2>3 DEF IrqTx, Typed, IrqRange
  <2>4. CASE IrqRx
    BY <2>1, <2>4 DEF IrqRx, Typed, IrqRange
  <2>5. CASE IrqAvail
    BY <2>1, <2>5 DEF IrqAvail, Typed, IrqRange
  <2>. QED BY <2>2, <2>3, <2>4, <2>5 DEF Irq
<1>2. status' \in SUBSET Bell
  BY DEF Irq, IrqEnter, IrqTx, IrqRx, IrqAvail, IrqErr, IrqAck, Typed
<1>3. rx_pkt_size' \in Sizes
  <2>1. desc_rx.len \in Sizes
    BY DEF Typed, DescRange
  <2>. QED BY <2>1 DEF Irq, IrqEnter, IrqTx, IrqRx, IrqAvail, IrqErr, IrqAck, Typed,
              rxvars
<1>4. pkt_rx_avail' \in Nat
  BY DEF Irq, IrqEnter, IrqTx, IrqRx, IrqAvail, IrqErr, IrqAck, Typed, rxvars
<1>5. unavail_enb' \in BOOLEAN
  BY DEF Irq, IrqEnter, IrqTx, IrqRx, IrqAvail, IrqErr, IrqAck, Typed
<1>. QED BY <1>0, <1>1, <1>2, <1>3, <1>4, <1>5 DEF Typed

\* Every step keeps the types.
LEMMA TypedNext ==
  ASSUME SizesClosed, Typed, [Next]_vars
  PROVE  Typed'
<1>1. CASE \E p \in Writers : Write(p)
  BY <1>1, TypedWrite
<1>2. CASE \E p \in Readers : Read(p)
  BY <1>2, TypedRead
<1>3. CASE Irq
  BY <1>3, TypedIrq
<1>4. CASE NicSend
  <2>1. desc_tx' \in DescRange
    BY <1>4 DEF NicSend, Typed, DescRange
  <2>. QED BY <1>4, <2>1 DEF NicSend, Typed, rxvars, Bell
<1>5. CASE NicSleep
  BY <1>5 DEF NicSleep, Typed, rxvars
<1>6. CASE NicStore
  <2>1. desc_rx.len \in Sizes
    BY DEF Typed, DescRange
  <2>2. desc_rx' \in DescRange
    BY <1>6, <2>1, SizeFacts DEF NicStore, DescRange
  <2>. QED BY <1>6, <2>2 DEF NicStore, Typed, txvars, Bell
<1>7. CASE NicLose
  BY <1>7 DEF NicLose, Typed, txvars, rxvars, Bell
<1>8. CASE UNCHANGED vars
  BY <1>8 DEF Typed, vars, txvars, rxvars
<1>. QED BY <1>1, <1>2, <1>3, <1>4, <1>5, <1>6, <1>7, <1>8 DEF Next

\* With any faults and any number of readers, pkt_tx_busy is not decremented
\* below 0 (expt_write and the handler take back what was counted, each once),
\* no file position becomes negative, and every length fits its field.
THEOREM TypeCorrect == IsFiniteSet(Writers) /\ SizesClosed => (Spec => []TypeOK)
<1>. SUFFICES ASSUME IsFiniteSet(Writers), SizesClosed PROVE Spec => []TypeOK
  OBVIOUS
<1>. DEFINE Inv == Typed /\ ExclusiveInv
<1>1. Init => Inv
  BY TypedInit, ExclusiveInit
<1>2. Inv /\ [Next]_vars => Inv'
  BY TypedNext, ExclusiveNext
<1>3. Inv => TypeOK
  <2>. SUFFICES ASSUME Inv PROVE TypeOK
    OBVIOUS
  <2>1. Cardinality(Holders) \in Nat
    BY HoldersFinite
  <2>2. pkt_tx_busy \in Nat
    BY <2>1 DEF ExclusiveInv, BusyAtLeast, Flight
  <2>. QED BY <2>2 DEF Typed, TypeOK, DescRange, IrqRange, WriteRange, ReadRange
<1>. QED BY <1>1, <1>2, <1>3, PTL DEF Spec

=============================================================================
