--------------------------- MODULE R8101Tx_proofs ---------------------------
(***************************************************************************)
(* Proofs about the transmit side of the RTL8101E driver, for every ring   *)
(* size, index width and set of socket buffers: the types and the room in  *)
(* the ring; whose the socket buffers are; and where start_xmit,           *)
(* rtl8101_tx_interrupt and the NIC are in the ring.                       *)
(*                                                                         *)
(* The ring, from dirty_tx on, is                                          *)
(*                                                                         *)
(*    dirty_tx          nic.cur              cur_tx                        *)
(*    | sent, and       | the NIC's,         | free                        *)
(*    | to be reaped    | to be sent         |                             *)
(*                                                                         *)
(* unless a call of start_xmit that read its entry before the link went    *)
(* down posted it after the indexes were reset.                            *)
(***************************************************************************)
EXTENDS R8101Tx, RingIndex, FiniteSetTheorems, SequenceTheorems, TLAPS

\* What the typing proofs need of the constants.
LEMMA Constants ==
  /\ NUM_TX_DESC \in Nat \ {0} /\ IdxMod \in Nat \ {0}
  /\ 0 \in Entries /\ 0 \in Idx
  /\ Entries \subseteq Int /\ Idx \subseteq Int
  /\ NULL \notin Skbs
  BY RingAssumption, EnvAssumption DEF Entries, Idx

\* The check of the last ring entry in start_xmit singles out the
\* last descriptor.
LEMMA RingEndAtLast ==
  ASSUME NEW e \in Entries
  PROVE  (e + 1) % NUM_TX_DESC = 0 <=> e = NUM_TX_DESC - 1
<1>1. CASE e = NUM_TX_DESC - 1
  <2>1. (e + 1) % NUM_TX_DESC = 0
    BY <1>1, ModWrap, RingAssumption DEF Entries
  <2>. QED BY <1>1, <2>1
<1>2. CASE e # NUM_TX_DESC - 1
  <2>1. (e + 1) % NUM_TX_DESC = e + 1
    BY <1>2, ModSmall, RingAssumption DEF Entries
  <2>. QED BY <1>2, <2>1, RingAssumption DEF Entries
<1>. QED BY <1>1, <1>2

-----------------------------------------------------------------------------
(***************************************************************************)
(* Type correctness.  That the NIC stays inside the ring needs the ring to *)
(* be closed and the NIC to have read the RingEnd bit of the entry it is   *)
(* working on; a call of start_xmit in progress has a socket buffer.       *)
(***************************************************************************)
RingIsClosed ==
  \A e \in Entries : TxDescArray[e].own =>
    (TxDescArray[e].eor <=> e = NUM_TX_DESC - 1)

NicFollowsRing ==
  nic.buf # NULL => (nic.eor <=> nic.cur = NUM_TX_DESC - 1)

XmitHasSkb == xmit.pc = "entered" => xmit.skb \in Skbs

TypeInv == TypeOK /\ RingIsClosed /\ NicFollowsRing /\ XmitHasSkb

\* rtl8101_tx_clear keeps the types and the ring closed.
LEMMA TxClearType ==
  ASSUME TypeOK, RingIsClosed, TxClear
  PROVE  /\ tx_skb' \in [Entries -> [skb : Skbs \cup {NULL}, len : {0, 1}]]
         /\ TxDescArray' \in [Entries -> [own : BOOLEAN, last : BOOLEAN,
                                eor : BOOLEAN, addr : Skbs \cup {NULL}]]
         /\ live' \in SUBSET Skbs
         /\ cur_tx' \in Idx /\ dirty_tx' \in Idx
         /\ RingIsClosed'
<1>1. tx_skb' \in [Entries -> [skb : Skbs \cup {NULL}, len : {0, 1}]]
  BY DEF TypeOK, TxClear, EmptyInfo
<1>2. TxDescArray' \in [Entries -> [own : BOOLEAN, last : BOOLEAN,
                          eor : BOOLEAN, addr : Skbs \cup {NULL}]]
  BY DEF TypeOK, TxClear, UnmapDesc, EmptyDesc
<1>3. live' \in SUBSET Skbs
  BY DEF TypeOK, TxClear
<1>4. cur_tx' \in Idx /\ dirty_tx' \in Idx
  BY RingAssumption DEF TxClear, Idx
<1>5. RingIsClosed'
  BY DEF TypeOK, TxClear, UnmapDesc, EmptyDesc, RingIsClosed
<1>. QED BY <1>1, <1>2, <1>3, <1>4, <1>5

\* The initial state is well typed and the ring it leaves is closed.
LEMMA TypeInit == Init => TypeInv
<1>. SUFFICES ASSUME Init PROVE TypeInv
  OBVIOUS
<1>. USE Constants
<1>1. TypeOK
  BY DEF Init, TypeOK, EmptyInfo, EmptyDesc, Idle, HwInit, HwReset, IntrOn
<1>2. RingIsClosed
  BY DEF Init, RingIsClosed, EmptyDesc
<1>3. NicFollowsRing
  BY DEF Init, NicFollowsRing, HwInit, HwReset
<1>4. XmitHasSkb
  BY DEF Init, XmitHasSkb, Idle
<1>. QED BY <1>1, <1>2, <1>3, <1>4 DEF TypeInv

\* Every step keeps the types, the ring closed and the NIC inside it.
LEMMA TypeNext == TypeInv /\ [Next]_vars => TypeInv'
<1>. SUFFICES ASSUME TypeInv, [Next]_vars PROVE TypeInv'
  OBVIOUS
<1>. USE DEF TypeInv
<1>. USE Constants
<1>1. CASE XmitEnter
  <2>1. cur_tx % NUM_TX_DESC \in Entries
    BY ModType DEF TypeOK, Entries, Idx
  <2>2. TypeOK'
    BY <1>1, <2>1 DEF XmitEnter, TypeOK, ring, net
  <2>. QED
    BY <1>1, <2>2 DEF XmitEnter, RingIsClosed, NicFollowsRing, XmitHasSkb, ring
<1>2. CASE XmitBusy
  <2>1. TypeOK'
    BY <1>2 DEF XmitBusy, TypeOK, ring, Idle
  <2>. QED
    BY <1>2, <2>1
       DEF XmitBusy, RingIsClosed, NicFollowsRing, XmitHasSkb, ring, Idle
<1>3. CASE XmitPost
  <2>1. xmit.entry \in Entries
    BY DEF TypeOK
  <2>2. (cur_tx + 1) % IdxMod \in Idx
    BY ModType DEF TypeOK, Idx
  <2>3. TypeOK'
    <3>1. xmit.skb \in Skbs \cup {NULL}
      BY DEF TypeOK
    <3>2. tx_skb' \in [Entries -> [skb : Skbs \cup {NULL}, len : {0, 1}]]
      BY <1>3, <2>1, <3>1 DEF XmitPost, TypeOK
    <3>3. TxWord(xmit.entry, xmit.skb) \in
            [own : BOOLEAN, last : BOOLEAN, eor : BOOLEAN, addr : Skbs \cup {NULL}]
      BY <3>1 DEF TxWord
    <3>4. TxDescArray' \in [Entries -> [own : BOOLEAN, last : BOOLEAN,
                              eor : BOOLEAN, addr : Skbs \cup {NULL}]]
      BY <1>3, <2>1, <3>3 DEF XmitPost, TypeOK
    <3>5. live' \in SUBSET Skbs
      BY <1>3 DEF XmitPost, TypeOK, XmitHasSkb
    <3>6. nic' \in [enb : BOOLEAN, cur : Entries, npq : BOOLEAN,
                    buf : Skbs \cup {NULL}, eor : BOOLEAN]
      BY <1>3 DEF XmitPost, TypeOK, Notify
    <3>. QED
      BY <1>3, <2>2, <3>2, <3>4, <3>5, <3>6 DEF XmitPost, TypeOK, Idle, RoomLow
  <2>4. RingIsClosed'
    BY <1>3, <2>1, RingEndAtLast DEF XmitPost, TypeOK, TxWord, RingIsClosed
  <2>5. NicFollowsRing'
    BY <1>3 DEF XmitPost, NicFollowsRing, Notify, TypeOK
  <2>6. XmitHasSkb'
    BY <1>3 DEF XmitPost, XmitHasSkb, Idle
  <2>. QED BY <2>3, <2>4, <2>5, <2>6
<1>4. CASE Interrupt
  <2>1. napi' \in [sched : BOOLEAN, pc : {"idle", "complete", "unmask"}]
    BY <1>4 DEF Interrupt, TypeOK
  <2>2. TypeOK'
    BY <1>4, <2>1 DEF Interrupt, TypeOK, ring, net, IntrOff
  <2>. QED
    BY <1>4, <2>2 DEF Interrupt, RingIsClosed, NicFollowsRing, XmitHasSkb, ring
<1>5. CASE PollTx
  <2>1. PICK n \in 0 .. TxLeft : TxInterrupt(n)
    BY <1>5 DEF PollTx
  <2>2. n \in Int
    OBVIOUS
  <2>3. dirty_tx' \in Idx
    BY <2>1, <2>2, ModType DEF TxInterrupt, TypeOK, Idx
  <2>4. tx_skb' \in [Entries -> [skb : Skbs \cup {NULL}, len : {0, 1}]]
    BY <2>1 DEF TxInterrupt, ReapInfo, EmptyInfo, TypeOK
  <2>5. TxDescArray' \in [Entries -> [own : BOOLEAN, last : BOOLEAN,
                            eor : BOOLEAN, addr : Skbs \cup {NULL}]]
    BY <2>1 DEF TxInterrupt, UnmapDesc, EmptyDesc, TypeOK
  <2>6. live' \in SUBSET Skbs
    BY <2>1 DEF TxInterrupt, TypeOK
  <2>7. queue_stopped' \in BOOLEAN
    BY <2>1 DEF TxInterrupt, StaysStopped, TypeOK
  <2>8. nic' \in [enb : BOOLEAN, cur : Entries, npq : BOOLEAN,
                  buf : Skbs \cup {NULL}, eor : BOOLEAN] /\ NicFollowsRing'
    BY <2>1 DEF TxInterrupt, Notify, TypeOK, NicFollowsRing
  <2>9. TypeOK'
    BY <1>5, <2>3, <2>4, <2>5, <2>6, <2>7, <2>8 DEF PollTx, TypeOK
  <2>10. RingIsClosed'
    BY <2>1 DEF TxInterrupt, UnmapDesc, EmptyDesc, RingIsClosed, TypeOK
  <2>. QED BY <1>5, <2>8, <2>9, <2>10 DEF PollTx, XmitHasSkb
<1>6. CASE PollComplete
  BY <1>6 DEF PollComplete, TypeOK, RingIsClosed, NicFollowsRing, XmitHasSkb, ring, net
<1>7. CASE PollUnmask
  <2>1. /\ napi' \in [sched : BOOLEAN, pc : {"idle", "complete", "unmask"}]
        /\ intr' \in [mask : BOOLEAN, txok : BOOLEAN]
    BY <1>7 DEF PollUnmask, TypeOK
  <2>2. TypeOK'
    BY <1>7, <2>1 DEF PollUnmask, TypeOK, ring, net
  <2>. QED
    BY <1>7, <2>2 DEF PollUnmask, RingIsClosed, NicFollowsRing, XmitHasSkb, ring
<1>8. CASE LinkUp
  BY <1>8 DEF LinkUp, TypeOK, RingIsClosed, NicFollowsRing, XmitHasSkb, ring, IntrOn,
              HwInit, HwReset
<1>9. CASE LinkDown
  <2>1. TxClear
    BY <1>9 DEF LinkDown
  <2>2. nic' = HwReset /\ intr' = IntrOff /\ carrier' = FALSE
        /\ queue_stopped' = TRUE
        /\ UNCHANGED <<qdisc, xmit, napi, work, link>>
    BY <1>9 DEF LinkDown
  <2>3. TypeOK'
    BY <2>1, <2>2, TxClearType DEF TypeOK, HwReset, IntrOff
  <2>. QED BY <2>1, <2>2, <2>3, TxClearType DEF NicFollowsRing, XmitHasSkb, HwReset
<1>10. CASE TxTimeout
  BY <1>10 DEF TxTimeout, TypeOK, RingIsClosed, NicFollowsRing, XmitHasSkb, ring, net,
               HwReset, IntrOff
<1>11. CASE TaskQuiesce
  BY <1>11 DEF TaskQuiesce, TypeOK, RingIsClosed, NicFollowsRing, XmitHasSkb, ring, net,
               IntrOff
<1>12. CASE TaskRecover
  <2>1. TxClear
    BY <1>12 DEF TaskRecover
  <2>2. nic' = HwInit /\ intr' = IntrOn /\ queue_stopped' = FALSE
        /\ work' = [work EXCEPT !.pc = "idle"]
        /\ UNCHANGED <<carrier, qdisc, xmit, napi, link>>
    BY <1>12 DEF TaskRecover
  <2>3. TypeOK'
    BY <2>1, <2>2, TxClearType DEF TypeOK, HwInit, HwReset, IntrOn
  <2>. QED
    BY <2>1, <2>2, <2>3, TxClearType
       DEF NicFollowsRing, XmitHasSkb, HwInit, HwReset
<1>13. CASE TaskRetry
  <2>1. TxClear
    BY <1>13 DEF TaskRetry
  <2>2. work' = [pending |-> TRUE, pc |-> "idle"]
        /\ UNCHANGED <<net, xmit, napi, intr, nic, link>>
    BY <1>13 DEF TaskRetry
  <2>3. TypeOK'
    BY <2>1, <2>2, TxClearType DEF TypeOK, net
  <2>. QED BY <2>1, <2>2, <2>3, TxClearType DEF NicFollowsRing, XmitHasSkb
<1>14. CASE NicFetch
  <2>1. nic.cur \in Entries
    BY DEF TypeOK
  <2>2. TxDescArray[nic.cur] \in [own : BOOLEAN, last : BOOLEAN,
                                  eor : BOOLEAN, addr : Skbs \cup {NULL}]
    BY <2>1 DEF TypeOK
  <2>. DEFINE NicType == [enb : BOOLEAN, cur : Entries, npq : BOOLEAN,
                          buf : Skbs \cup {NULL}, eor : BOOLEAN]
  <2>3. ASSUME TxDescArray[nic.cur].own
        PROVE  nic' \in NicType /\ NicFollowsRing'
    <3>1. nic' = [nic EXCEPT !.buf = TxDescArray[nic.cur].addr,
                             !.eor = TxDescArray[nic.cur].eor]
      BY <1>14, <2>3 DEF NicFetch
    <3>2. nic' \in NicType
      BY <2>2, <3>1 DEF TypeOK
    <3>3. nic'.eor = TxDescArray[nic.cur].eor /\ nic'.cur = nic.cur
      BY <3>1 DEF TypeOK
    <3>4. NicFollowsRing'
      BY <2>1, <2>3, <3>3 DEF NicFollowsRing, RingIsClosed
    <3>. QED BY <3>2, <3>4
  <2>4. ASSUME ~TxDescArray[nic.cur].own
        PROVE  nic' \in NicType /\ NicFollowsRing'
    <3>1. nic' = [nic EXCEPT !.npq = FALSE] /\ nic.buf = NULL
      BY <1>14, <2>4 DEF NicFetch
    <3>. QED BY <3>1 DEF TypeOK, NicFollowsRing
  <2>5. nic' \in NicType /\ NicFollowsRing'
    BY <2>3, <2>4
  <2>6. TypeOK'
    BY <1>14, <2>5 DEF NicFetch, TypeOK, ring, net
  <2>. QED BY <1>14, <2>5, <2>6 DEF NicFetch, RingIsClosed, XmitHasSkb, ring
<1>15. CASE NicDone
  <2>1. (IF nic.eor THEN 0 ELSE nic.cur + 1) \in Entries
    BY <1>15 DEF NicDone, TypeOK, NicFollowsRing, Entries
  <2>2. nic' \in [enb : BOOLEAN, cur : Entries, npq : BOOLEAN,
                  buf : Skbs \cup {NULL}, eor : BOOLEAN]
    BY <1>15, <2>1 DEF NicDone, TypeOK
  <2>3. TxDescArray' \in [Entries -> [own : BOOLEAN, last : BOOLEAN,
                            eor : BOOLEAN, addr : Skbs \cup {NULL}]]
    <3>1. TxDescArray \in [Entries -> [own : BOOLEAN, last : BOOLEAN,
                             eor : BOOLEAN, addr : Skbs \cup {NULL}]]
      BY DEF TypeOK
    <3>2. TxDescArray' = [TxDescArray EXCEPT ![nic.cur].own = FALSE]
      BY <1>15 DEF NicDone
    <3>. QED BY ONLY <3>1, <3>2
  <2>4. intr' \in [mask : BOOLEAN, txok : BOOLEAN]
    BY <1>15 DEF NicDone, TypeOK
  <2>5. TypeOK'
    BY <1>15, <2>2, <2>3, <2>4 DEF NicDone, TypeOK, net
  <2>6. NicFollowsRing'
    BY <1>15 DEF NicDone, TypeOK, NicFollowsRing
  <2>7. RingIsClosed'
    BY <1>15 DEF NicDone, TypeOK, RingIsClosed
  <2>. QED BY <1>15, <2>5, <2>6, <2>7 DEF NicDone, XmitHasSkb
<1>16. CASE Cable
  BY <1>16 DEF Cable, TypeOK, RingIsClosed, NicFollowsRing, XmitHasSkb, ring, net
<1>17. CASE LinkWatch
  BY <1>17 DEF LinkWatch, TypeOK, RingIsClosed, NicFollowsRing, XmitHasSkb, ring
<1>18. CASE UNCHANGED vars
  BY <1>18 DEF vars, TypeOK, RingIsClosed, NicFollowsRing, XmitHasSkb, ring, net
<1>. QED
  BY <1>1, <1>2, <1>3, <1>4, <1>5, <1>6, <1>7, <1>8, <1>9, <1>10, <1>11,
     <1>12, <1>13, <1>14, <1>15, <1>16, <1>17, <1>18 DEF Next

\* Every variable keeps its type; in particular the NIC, which follows the
\* RingEnd bits start_xmit writes, never walks off the end of the ring, with
\* every ring size and whatever the link and the watchdog do.
THEOREM TypeCorrect == Spec => []TypeOK
<1>1. TypeInv => TypeOK
  BY DEF TypeInv
<1>. QED BY TypeInit, TypeNext, <1>1, PTL DEF Spec

-----------------------------------------------------------------------------
(***************************************************************************)
(* The room in the ring.  While the link stays up every wake-up of the     *)
(* queue leaves room for one more packet, although the ring indexes wrap   *)
(* and although the reset task and the poll both wake the queue.           *)
(***************************************************************************)

\* The packets between the indexes, as a number between 0 and IdxMod - 1.
LEMMA TxLeftType == TypeOK => TxLeft \in 0 .. IdxMod - 1
  BY ModType, Constants DEF TypeOK, TxLeft, Idx

\* TX_BUFFS_AVAIL does not underflow while one entry of the ring is free.
LEMMA RoomIsComplement ==
  ASSUME NEW d \in Idx, NEW c \in Idx, (c - d) % IdxMod < NUM_TX_DESC
  PROVE  TX_BUFFS_AVAIL(d, c) = NUM_TX_DESC - 1 - ((c - d) % IdxMod)
<1>. DEFINE n == NUM_TX_DESC - 1
            x == (c - d) % IdxMod
<1>1. n \in 0 .. IdxMod - 1 /\ c - d \in Int
  BY RingAssumption DEF Idx
<1>2. x \in Int
  BY <1>1, Constants, ModType
<1>3. (n + d - c) % IdxMod = n - x
  BY <1>1, <1>2, Constants, WindowRest DEF Idx
<1>4. n + d - c = d + NUM_TX_DESC - c - 1
  BY Constants DEF Idx
<1>. QED BY <1>3, <1>4 DEF TX_BUFFS_AVAIL

\* Advancing cur_tx by one puts one more packet into the ring.
LEMMA PostAddsOne ==
  ASSUME NEW d \in Idx, NEW c \in Idx, (c - d) % IdxMod < IdxMod - 1
  PROVE  (((c + 1) % IdxMod) - d) % IdxMod = ((c - d) % IdxMod) + 1
  BY Constants, WindowGrows DEF Idx

\* Advancing dirty_tx by n takes n packets out of the ring.
LEMMA ReapTakesN ==
  ASSUME NEW d \in Idx, NEW c \in Idx, NEW n \in 0 .. (c - d) % IdxMod
  PROVE  (c - ((d + n) % IdxMod)) % IdxMod = ((c - d) % IdxMod) - n
  BY Constants, WindowShrinks DEF Idx

\* The inductive invariant: a call of start_xmit that has passed the test of
\* the queue keeps the room that was there, because nobody else fills the
\* ring; before the first link-up nothing was handed to the driver.
RoomInv ==
  /\ link
  /\ TxLeft <= NUM_TX_DESC - MAX_SKB_FRAGS
  /\ ~queue_stopped => TxLeft < NUM_TX_DESC - MAX_SKB_FRAGS
  /\ xmit.pc = "entered" => TxLeft < NUM_TX_DESC - MAX_SKB_FRAGS
  /\ ~carrier => TxLeft = 0 /\ ~qdisc /\ xmit.pc = "idle"

\* The room threshold and the ring occupancy say the same.
LEMMA RoomLowIsFull ==
  ASSUME NEW d \in Idx, NEW c \in Idx,
         (c - d) % IdxMod <= NUM_TX_DESC - MAX_SKB_FRAGS
  PROVE  RoomLow(d, c) <=> (c - d) % IdxMod = NUM_TX_DESC - MAX_SKB_FRAGS
<1>1. MAX_SKB_FRAGS \in 1 .. NUM_TX_DESC - 2
  BY RingAssumption
<1>2. (c - d) % IdxMod \in Nat
  BY ModType, Constants DEF Idx
<1>3. (c - d) % IdxMod < NUM_TX_DESC
  BY <1>1, <1>2, Constants
<1>4. TX_BUFFS_AVAIL(d, c) = NUM_TX_DESC - 1 - ((c - d) % IdxMod)
  BY <1>3, RoomIsComplement
<1>. DEFINE occ == (c - d) % IdxMod
<1>5. /\ occ \in Nat /\ occ <= NUM_TX_DESC - MAX_SKB_FRAGS
      /\ TX_BUFFS_AVAIL(d, c) = NUM_TX_DESC - 1 - occ
  BY <1>2, <1>4
<1>. HIDE DEF occ
<1>6. TX_BUFFS_AVAIL(d, c) < MAX_SKB_FRAGS <=> occ = NUM_TX_DESC - MAX_SKB_FRAGS
  BY <1>1, <1>5, Constants
<1>. QED BY <1>6 DEF RoomLow, occ

\* rtl8101_open leaves an empty ring.
LEMMA RoomInit == Init => RoomInv
<1>. SUFFICES ASSUME Init PROVE RoomInv
  OBVIOUS
<1>1. TxLeft = 0
  BY ModSmall, Constants DEF Init, TxLeft
<1>2. MAX_SKB_FRAGS \in 1 .. NUM_TX_DESC - 2
  BY RingAssumption
<1>. QED BY <1>1, <1>2, Constants DEF Init, RoomInv, Idle

\* Without link flaps every step keeps the room the invariant promises.
LEMMA RoomNext ==
  ASSUME ~LinkFlaps, TypeOK, TypeOK', RoomInv, [Next]_vars
  PROVE  RoomInv'
<1>. USE Constants
<1>. DEFINE Full == NUM_TX_DESC - MAX_SKB_FRAGS
<1>0. /\ MAX_SKB_FRAGS \in 1 .. NUM_TX_DESC - 2 /\ NUM_TX_DESC < IdxMod
      /\ Full \in 2 .. NUM_TX_DESC - 1
  BY RingAssumption
<1>a. cur_tx \in Idx /\ dirty_tx \in Idx /\ TxLeft \in 0 .. IdxMod - 1
  BY TxLeftType DEF TypeOK
<1>b. ASSUME TxClear PROVE TxLeft' = 0
  BY <1>b, ModSmall DEF TxClear, TxLeft
<1>c. ASSUME UNCHANGED <<cur_tx, dirty_tx>> PROVE TxLeft' = TxLeft
  BY <1>c DEF TxLeft
<1>1. CASE XmitEnter
  BY <1>1, <1>c DEF XmitEnter, RoomInv, ring, net
<1>2. CASE XmitBusy
  BY <1>2, <1>c DEF XmitBusy, RoomInv, ring, Idle
<1>3. CASE XmitPost
  <2>1. TxLeft < Full /\ carrier
    BY <1>3 DEF XmitPost, RoomInv
  <2>2. /\ cur_tx' = (cur_tx + 1) % IdxMod /\ dirty_tx' = dirty_tx
        /\ queue_stopped' = (queue_stopped \/ RoomLow(dirty_tx, cur_tx'))
        /\ xmit' = Idle /\ UNCHANGED <<carrier, link>>
    BY <1>3 DEF XmitPost
  <2>3. TxLeft' = TxLeft + 1
    BY <1>0, <1>a, <2>1, <2>2, PostAddsOne DEF TxLeft
  <2>4. cur_tx' \in Idx
    BY DEF TypeOK
  <2>5. TxLeft' <= Full
    BY <1>0, <1>a, <2>1, <2>3
  <2>6. RoomLow(dirty_tx, cur_tx') <=> TxLeft' = Full
    BY <1>a, <2>2, <2>4, <2>5, RoomLowIsFull DEF TxLeft
  <2>7. ~queue_stopped' => TxLeft' < Full
    <3>1. ~queue_stopped' => TxLeft' # Full
      BY <2>2, <2>6
    <3>. QED BY <1>0, <1>a, <2>3, <2>5, <3>1
  <2>. QED BY <2>1, <2>2, <2>5, <2>7 DEF RoomInv, Idle
<1>4. CASE Interrupt
  BY <1>4, <1>c DEF Interrupt, RoomInv, ring, net
<1>5. CASE PollTx
  <2>1. PICK n \in 0 .. TxLeft : TxInterrupt(n)
    BY <1>5 DEF PollTx
  <2>2. /\ cur_tx' = cur_tx /\ dirty_tx' = (dirty_tx + n) % IdxMod
        /\ queue_stopped' = StaysStopped(n, dirty_tx')
        /\ UNCHANGED <<carrier, qdisc, xmit, link>>
    BY <1>5, <2>1 DEF PollTx, TxInterrupt
  <2>3. TxLeft' = TxLeft - n
    <3>1. n \in 0 .. (cur_tx - dirty_tx) % IdxMod
      BY DEF TxLeft
    <3>2. (cur_tx - ((dirty_tx + n) % IdxMod)) % IdxMod
            = ((cur_tx - dirty_tx) % IdxMod) - n
      BY <1>a, <3>1, ReapTakesN
    <3>3. TxLeft' = (cur_tx' - dirty_tx') % IdxMod
      BY DEF TxLeft
    <3>4. TxLeft = (cur_tx - dirty_tx) % IdxMod
      BY DEF TxLeft
    <3>. QED BY <2>2, <3>2, <3>3, <3>4, Zenon
  <2>4. TxLeft' \in Int /\ TxLeft' <= TxLeft /\ TxLeft' >= 0
    BY <1>a, <2>3
  <2>5. dirty_tx' \in Idx
    BY DEF TypeOK
  <2>6. RoomLow(dirty_tx', cur_tx) <=> TxLeft' = Full
    <3>1. (cur_tx - dirty_tx') % IdxMod = TxLeft'
      BY <2>2 DEF TxLeft
    <3>2. TxLeft' <= Full
      BY <1>0, <1>a, <2>4 DEF RoomInv
    <3>. QED BY <1>a, <2>5, <3>1, <3>2, RoomLowIsFull
  <2>7. ~queue_stopped' => TxLeft' < Full
    <3>1. CASE ~queue_stopped
      BY <1>0, <1>a, <2>4, <3>1 DEF RoomInv
    <3>2. CASE queue_stopped
      <4>1. ~queue_stopped' => ~RoomLow(dirty_tx', cur_tx)
        BY <2>2, <3>2 DEF StaysStopped
      <4>2. ~queue_stopped' => TxLeft' # Full
        BY <2>6, <4>1
      <4>3. TxLeft' <= Full
        BY <1>0, <1>a, <2>4 DEF RoomInv
      <4>. QED BY <1>0, <2>4, <4>2, <4>3
    <3>. QED BY <3>1, <3>2
  <2>. QED BY <1>0, <1>a, <2>2, <2>4, <2>7 DEF RoomInv
<1>6. CASE PollComplete
  BY <1>6, <1>c DEF PollComplete, RoomInv, ring, net
<1>7. CASE PollUnmask
  BY <1>7, <1>c DEF PollUnmask, RoomInv, ring, net
<1>8. CASE LinkUp
  BY <1>8, <1>c, <1>0 DEF LinkUp, RoomInv, ring
<1>9. CASE LinkDown
  BY <1>9 DEF LinkDown, RoomInv
<1>10. CASE TxTimeout
  BY <1>10, <1>c DEF TxTimeout, RoomInv, ring, net
<1>11. CASE TaskQuiesce
  BY <1>11, <1>c DEF TaskQuiesce, RoomInv, ring, net
<1>12. CASE TaskRecover
  BY <1>12, <1>b, <1>0 DEF TaskRecover, RoomInv
<1>13. CASE TaskRetry
  BY <1>13, <1>b, <1>0 DEF TaskRetry, RoomInv, net
<1>14. CASE NicFetch
  BY <1>14, <1>c DEF NicFetch, RoomInv, ring, net
<1>15. CASE NicDone
  BY <1>15, <1>c DEF NicDone, RoomInv, net
<1>16. CASE Cable
  BY <1>16 DEF Cable
<1>17. CASE LinkWatch
  BY <1>17, <1>c DEF LinkWatch, RoomInv, ring
<1>18. CASE UNCHANGED vars
  BY <1>18, <1>c DEF vars, RoomInv, ring, net
<1>. QED
  BY <1>1, <1>2, <1>3, <1>4, <1>5, <1>6, <1>7, <1>8, <1>9, <1>10, <1>11,
     <1>12, <1>13, <1>14, <1>15, <1>16, <1>17, <1>18 DEF Next

\* While the link does not flap, start_xmit is never called with less room
\* than MAX_SKB_FRAGS descriptors: neither rtl8101_tx_interrupt, nor
\* rtl8101_hw_init, nor rtl8101_reset_task wakes the queue too early, for
\* every ring size and across the wrap of the 32-bit indexes.
THEOREM AwakeQueueHasRoom == ~LinkFlaps => (Spec => []QueueAwakeHasRoom)
<1>. SUFFICES ASSUME ~LinkFlaps PROVE Spec => []QueueAwakeHasRoom
  OBVIOUS
<1>1. TypeOK /\ RoomInv => QueueAwakeHasRoom
  <2>. SUFFICES ASSUME TypeOK, RoomInv, ~queue_stopped
                PROVE  TX_BUFFS_AVAIL(dirty_tx, cur_tx) >= MAX_SKB_FRAGS
    BY DEF QueueAwakeHasRoom
  <2>1. MAX_SKB_FRAGS \in 1 .. NUM_TX_DESC - 2
    BY RingAssumption
  <2>2. cur_tx \in Idx /\ dirty_tx \in Idx /\ TxLeft \in Nat
    BY TxLeftType, Constants DEF TypeOK
  <2>3. TxLeft < NUM_TX_DESC - MAX_SKB_FRAGS
    BY DEF RoomInv
  <2>4. TX_BUFFS_AVAIL(dirty_tx, cur_tx) = NUM_TX_DESC - 1 - TxLeft
    <3>1. (cur_tx - dirty_tx) % IdxMod < NUM_TX_DESC
      BY <2>1, <2>2, <2>3, Constants DEF TxLeft
    <3>2. TX_BUFFS_AVAIL(dirty_tx, cur_tx)
            = NUM_TX_DESC - 1 - ((cur_tx - dirty_tx) % IdxMod)
      BY <2>2, <3>1, RoomIsComplement
    <3>. QED BY <3>2, Zenon DEF TxLeft
  <2>. QED BY <2>1, <2>2, <2>3, <2>4, Constants
<1>2. TypeOK /\ TypeOK' /\ RoomInv /\ [Next]_vars => RoomInv'
  BY RoomNext
<1>. QED BY RoomInit, <1>1, <1>2, TypeCorrect, PTL DEF Spec

-----------------------------------------------------------------------------
(***************************************************************************)
(* The buffers.  None of this depends on where the entries are in the      *)
(* ring, so it holds across link flaps and resets.                         *)
(***************************************************************************)

\* What the ring holds is live, each buffer in one entry, and the stack does
\* not offer a buffer the driver has.
HeldLive ==
  /\ \A e \in Entries : tx_skb[e].skb # NULL => tx_skb[e].skb \in live
  /\ \A e, f \in Entries :
       e # f /\ tx_skb[e].skb # NULL => tx_skb[e].skb # tx_skb[f].skb
  /\ xmit.skb \notin live

OwnerInv == DescMatchesInfo /\ HeldLive

\* What rtl8101_tx_clear and rtl8101_tx_interrupt do to a set of entries:
\* unmap them, free their buffers and forget them.
Emptied(R) ==
  /\ \A e \in R : /\ tx_skb'[e].skb = NULL /\ tx_skb'[e].len = 0
                  /\ ~TxDescArray'[e].own /\ ~TxDescArray'[e].last
  /\ \A e \in Entries \ R : /\ tx_skb'[e] = tx_skb[e]
                            /\ TxDescArray'[e] = TxDescArray[e]
  /\ \A s \in Skbs : s \in live' <=>
       s \in live /\ \A e \in R : tx_skb[e].skb # s

\* rtl8101_tx_clear empties the entries with a length.
LEMMA ClearEmpties ==
  ASSUME TypeOK, TxClear
  PROVE  Cleared \subseteq Entries /\ Emptied(Cleared)
<1>1. Cleared \subseteq Entries
  BY DEF Cleared
<1>2. \A e \in Cleared : /\ tx_skb'[e].skb = NULL /\ tx_skb'[e].len = 0
                         /\ ~TxDescArray'[e].own /\ ~TxDescArray'[e].last
  BY <1>1 DEF TxClear, EmptyInfo, UnmapDesc, EmptyDesc
<1>3. \A e \in Entries \ Cleared : /\ tx_skb'[e] = tx_skb[e]
                                   /\ TxDescArray'[e] = TxDescArray[e]
  BY DEF TxClear
<1>4. \A s \in Skbs : s \in live' <=>
        s \in live /\ \A e \in Cleared : tx_skb[e].skb # s
  BY DEF TxClear
<1>. QED BY <1>1, <1>2, <1>3, <1>4 DEF Emptied

\* The entries rtl8101_tx_interrupt reaps are entries of the ring.
LEMMA ReapedEntries ==
  ASSUME TypeOK, NEW n \in 0 .. TxLeft
  PROVE  Reaped(n) \subseteq Entries
<1>1. ASSUME NEW k \in 0 .. n - 1 PROVE EntryAt(k) \in Entries
  <2>1. dirty_tx + k \in Int
    BY Constants, TxLeftType DEF TypeOK, Idx
  <2>2. (dirty_tx + k) % IdxMod \in Int
    BY <2>1, Constants, ModType
  <2>. QED BY <2>2, Constants, ModType DEF EntryAt, Entries
<1>. QED BY <1>1 DEF Reaped

\* rtl8101_tx_interrupt empties the entries it reaps: an entry whose status
\* has no LastFrag has no buffer.
LEMMA ReapEmpties ==
  ASSUME TypeOK, DescMatchesInfo, NEW n \in 0 .. TxLeft, TxInterrupt(n)
  PROVE  /\ Reaped(n) \subseteq Entries /\ Emptied(Reaped(n))
         /\ \A e \in Reaped(n) : ~TxDescArray[e].own
<1>1. Reaped(n) \subseteq Entries
  BY ReapedEntries
<1>2. \A e \in Entries : TxDescArray[e].last <=> tx_skb[e].skb # NULL
  BY DEF DescMatchesInfo
<1>3. \A e \in Reaped(n) : /\ tx_skb'[e].skb = NULL /\ tx_skb'[e].len = 0
                           /\ ~TxDescArray'[e].own /\ ~TxDescArray'[e].last
  BY <1>1, <1>2 DEF TypeOK, TxInterrupt, ReapInfo, EmptyInfo, UnmapDesc, EmptyDesc
<1>4. \A e \in Entries \ Reaped(n) : /\ tx_skb'[e] = tx_skb[e]
                                     /\ TxDescArray'[e] = TxDescArray[e]
  BY DEF TxInterrupt
<1>5. \A s \in Skbs : s \in live' <=>
        s \in live /\ \A e \in Reaped(n) : tx_skb[e].skb # s
  <2>1. live' = live \ {tx_skb[e].skb : e \in {f \in Reaped(n) : TxDescArray[f].last}}
    BY DEF TxInterrupt
  <2>2. \A s \in Skbs : s # NULL
    BY Constants
  <2>. QED BY <1>1, <1>2, <2>1, <2>2
<1>6. \A e \in Reaped(n) : ~TxDescArray[e].own
  BY DEF TxInterrupt, Reapable, Reaped
<1>. QED BY <1>1, <1>3, <1>4, <1>5, <1>6 DEF Emptied

\* Emptying entries keeps the descriptors and the books in agreement.
LEMMA EmptyOwner ==
  ASSUME TypeOK, TypeOK', OwnerInv, NEW R \in SUBSET Entries, Emptied(R),
         UNCHANGED xmit
  PROVE  OwnerInv'
<1>1. DescMatchesInfo'
  BY DEF OwnerInv, DescMatchesInfo, Emptied, TypeOK
<1>2. \A e \in Entries : tx_skb'[e].skb # NULL => e \notin R /\ tx_skb'[e] = tx_skb[e]
  BY DEF Emptied
<1>3. \A e \in Entries : tx_skb[e].skb # NULL =>
        tx_skb[e].skb \in live /\ tx_skb[e].skb \in Skbs
  BY DEF OwnerInv, HeldLive, TypeOK
<1>4. \A e \in Entries : tx_skb'[e].skb # NULL => tx_skb'[e].skb \in live'
  BY <1>2, <1>3 DEF OwnerInv, HeldLive, Emptied
<1>5. \A e, f \in Entries :
        e # f /\ tx_skb'[e].skb # NULL => tx_skb'[e].skb # tx_skb'[f].skb
  BY <1>2 DEF OwnerInv, HeldLive
<1>6. xmit'.skb \notin live'
  BY DEF OwnerInv, HeldLive, Emptied, TypeOK
<1>. QED BY <1>1, <1>4, <1>5, <1>6 DEF OwnerInv, HeldLive

\* rtl8101_open leaves no buffer in the ring.
LEMMA OwnerInit == Init => OwnerInv
  BY Constants DEF Init, OwnerInv, DescMatchesInfo, HeldLive, EmptyInfo, EmptyDesc, Idle

\* Steps that leave the ring and the buffers alone.
LEMMA OwnerFrame ==
  ASSUME OwnerInv, UNCHANGED <<tx_skb, TxDescArray, live, xmit>>
  PROVE  OwnerInv'
  BY DEF OwnerInv, DescMatchesInfo, HeldLive

\* Every step keeps the descriptors and the books in agreement.
LEMMA OwnerNext == TypeInv /\ TypeInv' /\ OwnerInv /\ [Next]_vars => OwnerInv'
<1>. SUFFICES ASSUME TypeOK, TypeOK', XmitHasSkb, OwnerInv, [Next]_vars
              PROVE  OwnerInv'
  BY DEF TypeInv
<1>1. CASE XmitEnter
  <2>1. UNCHANGED <<tx_skb, TxDescArray, live>> /\ xmit'.skb \notin live
    BY <1>1 DEF XmitEnter, ring
  <2>. QED BY <2>1 DEF OwnerInv, DescMatchesInfo, HeldLive
<1>2. CASE XmitBusy
  <2>1. UNCHANGED <<tx_skb, TxDescArray, live>> /\ xmit'.skb = NULL
    BY <1>2 DEF XmitBusy, ring, Idle
  <2>2. NULL \notin live
    BY Constants DEF TypeOK
  <2>. QED BY <2>1, <2>2 DEF OwnerInv, DescMatchesInfo, HeldLive
<1>3. CASE XmitPost
  <2>. DEFINE p == xmit.entry
  <2>1. p \in Entries /\ xmit.skb \in Skbs /\ xmit.skb # NULL /\ xmit.skb \notin live
    BY <1>3, Constants DEF XmitPost, TypeOK, XmitHasSkb, OwnerInv, HeldLive
  <2>2. /\ tx_skb' = [tx_skb EXCEPT ![p] = [skb |-> xmit.skb, len |-> 1]]
        /\ TxDescArray' = [TxDescArray EXCEPT ![p] = TxWord(p, xmit.skb)]
        /\ live' = live \cup {xmit.skb} /\ xmit' = Idle
    BY <1>3 DEF XmitPost
  <2>. HIDE DEF p
  <2>3. DescMatchesInfo'
    BY <2>1, <2>2 DEF OwnerInv, DescMatchesInfo, TypeOK, TxWord
  <2>4. /\ tx_skb'[p].skb = xmit.skb
        /\ \A e \in Entries \ {p} : tx_skb'[e] = tx_skb[e]
    BY <2>1, <2>2 DEF TypeOK
  <2>5. \A e \in Entries : tx_skb'[e].skb # NULL => tx_skb'[e].skb \in live'
    BY <2>2, <2>4 DEF OwnerInv, HeldLive
  <2>6. \A e, f \in Entries :
          e # f /\ tx_skb'[e].skb # NULL => tx_skb'[e].skb # tx_skb'[f].skb
    BY <2>1, <2>4 DEF OwnerInv, HeldLive
  <2>7. xmit'.skb \notin live'
    BY <2>1, <2>2, Constants DEF Idle, TypeOK
  <2>. QED BY <2>3, <2>5, <2>6, <2>7 DEF OwnerInv, HeldLive
<1>5. CASE PollTx
  <2>1. PICK n \in 0 .. TxLeft : TxInterrupt(n)
    BY <1>5 DEF PollTx
  <2>2. UNCHANGED xmit
    BY <1>5 DEF PollTx
  <2>. QED BY <2>1, <2>2, ReapEmpties, EmptyOwner DEF OwnerInv
<1>9. CASE LinkDown \/ TaskRecover \/ TaskRetry
  <2>1. TxClear /\ UNCHANGED xmit
    BY <1>9 DEF LinkDown, TaskRecover, TaskRetry
  <2>. QED BY <2>1, ClearEmpties, EmptyOwner
<1>15. CASE NicDone
  <2>1. UNCHANGED <<tx_skb, live, xmit>>
    BY <1>15 DEF NicDone
  <2>2. \A e \in Entries : /\ TxDescArray'[e].last = TxDescArray[e].last
                           /\ TxDescArray'[e].addr = TxDescArray[e].addr
                           /\ TxDescArray'[e].own => TxDescArray[e].own
    <3>1. TxDescArray' = [TxDescArray EXCEPT ![nic.cur] =
                            [TxDescArray[nic.cur] EXCEPT !.own = FALSE]]
      BY <1>15 DEF NicDone
    <3>. QED BY <3>1 DEF TypeOK
  <2>. QED BY <2>1, <2>2 DEF OwnerInv, DescMatchesInfo, HeldLive
<1>18. CASE \/ Interrupt \/ PollComplete \/ PollUnmask \/ LinkUp \/ TxTimeout
            \/ TaskQuiesce \/ NicFetch \/ Cable \/ LinkWatch \/ UNCHANGED vars
  <2>1. UNCHANGED <<tx_skb, TxDescArray, live, xmit>>
    BY <1>18 DEF Interrupt, PollComplete, PollUnmask, LinkUp, TxTimeout,
                 TaskQuiesce, NicFetch, Cable, LinkWatch, vars, ring
  <2>. QED BY <2>1, OwnerFrame
<1>. QED BY <1>1, <1>2, <1>3, <1>5, <1>9, <1>15, <1>18 DEF Next

\* The invariant of the buffers holds in every state.
LEMMA OwnerAlways == Spec => [](TypeInv /\ OwnerInv)
  BY TypeInit, TypeNext, OwnerInit, OwnerNext, PTL DEF Spec

\* A descriptor and its RingInfo agree in every state: what tx_clear finds by
\* its length and what tx_interrupt frees by LastFrag is the same, whatever
\* the link, the watchdog and the reset task do, and whatever entry a
\* start_xmit in progress has read.
THEOREM DescriptorsMatch == Spec => []DescMatchesInfo
<1>1. OwnerInv => DescMatchesInfo
  BY DEF OwnerInv
<1>. QED BY <1>1, OwnerAlways, PTL

-----------------------------------------------------------------------------
(***************************************************************************)
(* The packet in flight, while the watchdog does not fire: the NIC works   *)
(* on a descriptor it owns, which neither poll nor start_xmit touches, and *)
(* LinkDown resets it before the ring is cleared.                          *)
(***************************************************************************)
DmaInv ==
  /\ ~work.pending /\ work.pc = "idle"
  /\ nic.buf # NULL => /\ nic.enb /\ TxDescArray[nic.cur].own
                       /\ nic.buf = TxDescArray[nic.cur].addr

\* Nothing is in flight after rtl8101_open.
LEMMA DmaInit == Init => DmaInv
  BY DEF Init, DmaInv, HwInit, HwReset

\* Steps that leave the descriptors, the reset task and the packet in flight
\* alone.
LEMMA DmaFrame ==
  ASSUME DmaInv, UNCHANGED <<TxDescArray, work>>,
         UNCHANGED nic.buf, UNCHANGED nic.enb, UNCHANGED nic.cur
  PROVE  DmaInv'
  BY DEF DmaInv

\* Every step keeps the NIC on a descriptor it owns.
LEMMA DmaNext ==
  ASSUME ~Watchdog, TypeInv, TypeInv', OwnerInv, DmaInv, [Next]_vars
  PROVE  DmaInv'
<1>. USE DEF TypeInv
<1>0. nic.cur \in Entries
  BY DEF TypeOK
<1>n. ASSUME nic' = Notify(nic) \/ nic' = nic
      PROVE  nic'.buf = nic.buf /\ nic'.enb = nic.enb /\ nic'.cur = nic.cur
  BY <1>n DEF Notify, TypeOK
<1>3. CASE XmitPost
  <2>1. UNCHANGED work /\ nic' = Notify(nic)
    BY <1>3 DEF XmitPost
  <2>2. nic.buf # NULL => nic.cur # xmit.entry
    BY <1>3 DEF XmitPost, XmitMustStop, DmaInv
  <2>3. nic.buf # NULL => TxDescArray'[nic.cur] = TxDescArray[nic.cur]
    BY <1>0, <1>3, <2>2 DEF XmitPost, TypeOK
  <2>. QED BY <1>n, <2>1, <2>3 DEF DmaInv
<1>5. CASE PollTx
  <2>1. PICK n \in 0 .. TxLeft : TxInterrupt(n)
    BY <1>5 DEF PollTx
  <2>2. UNCHANGED work /\ (nic' = Notify(nic) \/ nic' = nic)
    BY <1>5, <2>1 DEF PollTx, TxInterrupt
  <2>3. nic.buf # NULL => TxDescArray'[nic.cur] = TxDescArray[nic.cur]
    BY <1>0, <2>1, ReapEmpties DEF OwnerInv, DmaInv, Emptied
  <2>. QED BY <1>n, <2>2, <2>3 DEF DmaInv
<1>8. CASE LinkUp \/ LinkDown
  <2>1. UNCHANGED work /\ nic'.buf = NULL
    BY <1>8 DEF LinkUp, LinkDown, HwInit, HwReset
  <2>. QED BY <2>1 DEF DmaInv
<1>10. CASE TxTimeout \/ TaskQuiesce \/ TaskRecover \/ TaskRetry
  BY <1>10 DEF TxTimeout, TaskQuiesce, TaskRecover, TaskRetry, DmaInv
<1>14. CASE NicFetch
  <2>1. UNCHANGED <<TxDescArray, work>> /\ nic.buf = NULL /\ nic.enb
    BY <1>14 DEF NicFetch, ring
  <2>2. CASE TxDescArray[nic.cur].own
    <3>1. nic' = [nic EXCEPT !.buf = TxDescArray[nic.cur].addr,
                             !.eor = TxDescArray[nic.cur].eor]
      BY <1>14, <2>2 DEF NicFetch
    <3>2. nic'.buf = TxDescArray[nic.cur].addr /\ nic'.enb /\ nic'.cur = nic.cur
      BY <2>1, <3>1 DEF TypeOK
    <3>. QED BY <2>1, <2>2, <3>2 DEF DmaInv
  <2>3. CASE ~TxDescArray[nic.cur].own
    <3>1. nic' = [nic EXCEPT !.npq = FALSE]
      BY <1>14, <2>3 DEF NicFetch
    <3>2. nic'.buf = NULL
      BY <2>1, <3>1 DEF TypeOK
    <3>. QED BY <2>1, <3>2 DEF DmaInv
  <2>. QED BY <2>2, <2>3
<1>15. CASE NicDone
  <2>1. UNCHANGED work /\ nic'.buf = NULL
    BY <1>15 DEF NicDone, TypeOK
  <2>. QED BY <2>1 DEF DmaInv
<1>18. CASE \/ XmitEnter \/ XmitBusy \/ Interrupt \/ PollComplete \/ PollUnmask
            \/ Cable \/ LinkWatch \/ UNCHANGED vars
  <2>1. UNCHANGED <<TxDescArray, work, nic>>
    BY <1>18 DEF XmitEnter, XmitBusy, Interrupt, PollComplete, PollUnmask,
                 Cable, LinkWatch, vars, ring
  <2>. QED BY <2>1, DmaFrame
<1>. QED BY <1>3, <1>5, <1>8, <1>10, <1>14, <1>15, <1>18 DEF Next

\* Without the watchdog the NIC is on a descriptor it owns in every state.
LEMMA DmaAlways == ~Watchdog => (Spec => []DmaInv)
<1>. SUFFICES ASSUME ~Watchdog PROVE Spec => []DmaInv
  OBVIOUS
<1>1. TypeInv /\ TypeInv' /\ OwnerInv /\ DmaInv /\ [Next]_vars => DmaInv'
  BY DmaNext
<1>. QED BY <1>1, DmaInit, OwnerAlways, PTL DEF Spec

\* While the watchdog does not fire the NIC never reads a buffer that was
\* freed: neither the poll, nor the tx_clear of the link timer, nor a
\* start_xmit with an outdated entry takes the packet in flight away from it,
\* however often the link flaps and wherever the indexes wrap.
THEOREM DmaReadsLive == ~Watchdog => (Spec => []DmaFromLiveBuffer)
<1>. SUFFICES ASSUME ~Watchdog PROVE Spec => []DmaFromLiveBuffer
  OBVIOUS
<1>1. TypeInv /\ OwnerInv /\ DmaInv => DmaFromLiveBuffer
  BY DEF TypeInv, TypeOK, OwnerInv, DescMatchesInfo, HeldLive, DmaInv,
         DmaFromLiveBuffer
<1>. QED BY <1>1, OwnerAlways, DmaAlways, PTL

-----------------------------------------------------------------------------
(***************************************************************************)
(* The lemmas on ring indexes, for the transmit ring.                      *)
(***************************************************************************)
Seg(d, l) == Segment(NUM_TX_DESC, d, l)

\* How many packets the ring takes before the queue is stopped.
Full == NUM_TX_DESC - MAX_SKB_FRAGS

\* The constants of the ring.
LEMMA RingConstants ==
  /\ NUM_TX_DESC \in Nat \ {0} /\ IdxMod \in Nat \ {0} /\ NUM_TX_DESC < IdxMod
  /\ Full \in 2 .. NUM_TX_DESC - 1
  /\ Divides(NUM_TX_DESC, IdxMod)
  /\ Entries = 0 .. NUM_TX_DESC - 1 /\ Idx = 0 .. IdxMod - 1
<1>1. \E k \in Int : IdxMod = NUM_TX_DESC * k
  <2>1. PICK k \in 1 .. IdxMod : IdxMod = NUM_TX_DESC * k
    BY RingAssumption
  <2>2. k \in Int
    OBVIOUS
  <2>. QED BY <2>1, <2>2
<1>. QED BY <1>1, RingAssumption DEF Entries, Idx, Divides, Full

\* The wrap of an index does not change its entry, nor the entries after it.
LEMMA IdxWrap ==
  ASSUME NEW a \in Int, NEW l \in Nat
  PROVE  /\ (a % IdxMod) % NUM_TX_DESC = a % NUM_TX_DESC
         /\ Seg(a % IdxMod, l) = Seg(a, l)
         /\ a % IdxMod \in Idx
<1>1. (a % IdxMod) % NUM_TX_DESC = a % NUM_TX_DESC
  BY RingConstants, ModMod
<1>2. Seg(a % IdxMod, l) = Seg(a, l)
  BY RingConstants, SegWrap DEF Seg
<1>3. a % IdxMod \in Idx
  BY RingConstants, ModType
<1>. QED BY <1>1, <1>2, <1>3

\* The length of a window is a natural number.
LEMMA WinType ==
  ASSUME NEW c \in Idx, NEW d \in Idx
  PROVE  (c - d) % IdxMod \in Nat /\ c \in Int /\ d \in Int
<1>1. c - d \in Int /\ c \in Int /\ d \in Int
  BY RingConstants
<1>. QED BY <1>1, RingConstants, ModType

\* cur_tx is the entry after the window.
LEMMA CurAtEnd ==
  ASSUME NEW c \in Idx, NEW d \in Idx
  PROVE  c % NUM_TX_DESC = (d + ((c - d) % IdxMod)) % NUM_TX_DESC
<1>. DEFINE L == (c - d) % IdxMod
<1>1. L \in Nat /\ c \in Int /\ d \in Int /\ 0 \in Int
  BY WinType
<1>2. (c + 0) % NUM_TX_DESC = (d + L + 0) % NUM_TX_DESC
  BY <1>1, RingConstants, WindowEnd
<1>. HIDE DEF L
<1>3. c + 0 = c /\ d + L + 0 = d + L
  BY <1>1
<1>. QED BY <1>2, <1>3 DEF L

\* start_xmit posts: the entry at cur_tx joins the window and the NIC's part.
LEMMA WinPost ==
  ASSUME NEW c \in Idx, NEW d \in Idx, NEW L, L = (c - d) % IdxMod,
         L < NUM_TX_DESC, NEW s \in 0 .. L
  PROVE  /\ (((c + 1) % IdxMod) - d) % IdxMod = L + 1
         /\ Seg(d, L + 1) = Seg(d, L) \cup {c % NUM_TX_DESC}
         /\ Seg(d + s, (L + 1) - s) = Seg(d + s, L - s) \cup {c % NUM_TX_DESC}
         /\ c % NUM_TX_DESC \notin Seg(d, L)
<1>1. L \in Nat /\ c \in Int /\ d \in Int
  BY WinType
<1>2. L \in 0 .. NUM_TX_DESC - 1 /\ d + s \in Int /\ L - s \in Nat
  BY <1>1, RingConstants
<1>3. (((c + 1) % IdxMod) - d) % IdxMod = L + 1
  BY <1>2, RingConstants, WindowGrows
<1>4. c % NUM_TX_DESC = (d + L) % NUM_TX_DESC
  BY CurAtEnd
<1>5. Seg(d, L + 1) = Seg(d, L) \cup {(d + L) % NUM_TX_DESC}
  BY <1>1, RingConstants, SegGrow DEF Seg
<1>6. (d + L) % NUM_TX_DESC \notin Seg(d, L)
  BY <1>1, <1>2, RingConstants, SegEnd DEF Seg
<1>7. Seg(d + s, (L - s) + 1)
        = Seg(d + s, L - s) \cup {((d + s) + (L - s)) % NUM_TX_DESC}
  <2>1. NUM_TX_DESC \in Nat \ {0} /\ d + s \in Int /\ L - s \in Nat
    BY <1>2, RingConstants
  <2>2. Segment(NUM_TX_DESC, d + s, (L - s) + 1)
          = Segment(NUM_TX_DESC, d + s, L - s)
              \cup {((d + s) + (L - s)) % NUM_TX_DESC}
    BY ONLY <2>1, SegGrow
  <2>. QED BY <2>2, Zenon DEF Seg
<1>8. (d + s) + (L - s) = d + L /\ (L - s) + 1 = (L + 1) - s
  BY <1>1, <1>2
<1>. QED BY <1>3, <1>4, <1>5, <1>6, <1>7, <1>8

\* tx_interrupt reaps n entries: they leave the window, the NIC's part stays.
LEMMA WinReap ==
  ASSUME NEW c \in Idx, NEW d \in Idx, NEW L, L = (c - d) % IdxMod,
         L <= NUM_TX_DESC, NEW s \in 0 .. L, NEW n \in 0 .. s,
         NEW f, f = (d + n) % IdxMod
  PROVE  /\ (c - f) % IdxMod = L - n
         /\ Seg(f, L - n) = Seg(d, L) \ Seg(d, n)
         /\ Seg(f + (s - n), (L - n) - (s - n)) = Seg(d + s, L - s)
         /\ (f + (s - n)) % NUM_TX_DESC = (d + s) % NUM_TX_DESC
<1>1. L \in Nat /\ c \in Int /\ d \in Int
  BY WinType
<1>2. /\ L \in 0 .. NUM_TX_DESC /\ n \in 0 .. L /\ d + n \in Int /\ L - n \in Nat
      /\ L - s \in Nat /\ s - n \in Int /\ d + s \in Int
  BY <1>1, RingConstants
<1>3. (c - f) % IdxMod = L - n
  BY <1>2, RingConstants, WindowShrinks
<1>4. Seg(f, L - n) = Seg(d + n, L - n)
  BY <1>2, IdxWrap
<1>5. Seg(d, L) = Seg(d, n) \cup Seg(d + n, L - n)
  <2>1. NUM_TX_DESC \in Nat \ {0} /\ d \in Int /\ L \in Nat /\ n \in 0 .. L
    BY <1>1, <1>2, RingConstants
  <2>2. Segment(NUM_TX_DESC, d, L)
          = Segment(NUM_TX_DESC, d, n) \cup Segment(NUM_TX_DESC, d + n, L - n)
    BY ONLY <2>1, SegSplit, SMTT(30)
  <2>. QED BY <2>2, Zenon DEF Seg
<1>6. Seg(d, n) \cap Seg(d + n, L - n) = {}
  <2>1. NUM_TX_DESC \in Nat \ {0}
    BY RingConstants
  <2>2. Segment(NUM_TX_DESC, d, n) \cap Segment(NUM_TX_DESC, d + n, L - n) = {}
    BY ONLY <1>1, <1>2, <2>1, SegApart
  <2>. QED BY <2>2, Zenon DEF Seg
<1>7. f \in Int /\ f + (s - n) \in Int
  BY <1>2, RingConstants, IdxWrap
<1>8. (f + (s - n)) % IdxMod = (d + s) % IdxMod
  <2>1. (((d + n) % IdxMod) + (s - n)) % IdxMod = ((d + n) + (s - n)) % IdxMod
    BY <1>2, RingConstants, ModAdd
  <2>2. (d + n) + (s - n) = d + s
    BY <1>1, <1>2
  <2>. QED BY <2>1, <2>2
<1>9. (L - n) - (s - n) = L - s
  BY <1>1, <1>2
<1>10. /\ Seg(f + (s - n), L - s) = Seg((f + (s - n)) % IdxMod, L - s)
       /\ Seg(d + s, L - s) = Seg((d + s) % IdxMod, L - s)
       /\ (f + (s - n)) % NUM_TX_DESC = ((f + (s - n)) % IdxMod) % NUM_TX_DESC
       /\ (d + s) % NUM_TX_DESC = ((d + s) % IdxMod) % NUM_TX_DESC
  BY <1>2, <1>7, IdxWrap
<1>11. Seg(f, L - n) = Seg(d, L) \ Seg(d, n)
  BY <1>4, <1>5, <1>6
<1>. QED BY <1>3, <1>8, <1>9, <1>10, <1>11

\* The NIC writes back the first entry of its part and goes to the next one.
LEMMA WinSend ==
  ASSUME NEW d \in Idx, NEW L \in 0 .. NUM_TX_DESC, NEW s \in 0 .. L - 1,
         NEW p, p = (d + s) % NUM_TX_DESC
  PROVE  /\ p \in Seg(d + s, L - s)
         /\ Seg(d + (s + 1), L - (s + 1)) = Seg(d + s, L - s) \ {p}
         /\ (d + (s + 1)) % NUM_TX_DESC = IF p = NUM_TX_DESC - 1 THEN 0 ELSE p + 1
<1>1. /\ d + s \in Int /\ L - s \in Nat /\ L - s > 0 /\ L - s \in 1 .. NUM_TX_DESC
      /\ (d + s) + 1 = d + (s + 1) /\ (L - s) - 1 = L - (s + 1) /\ 1 \in Int
      /\ NUM_TX_DESC \in Nat \ {0}
  BY RingConstants
<1>2. Seg(d + s, L - s) = {p} \cup Seg((d + s) + 1, (L - s) - 1)
  <2>1. Segment(NUM_TX_DESC, d + s, L - s) = {(d + s) % NUM_TX_DESC}
          \cup Segment(NUM_TX_DESC, (d + s) + 1, (L - s) - 1)
    BY ONLY <1>1, SegFirst
  <2>. QED BY <2>1, Zenon DEF Seg
<1>3. p \notin Seg((d + s) + 1, (L - s) - 1)
  <2>1. (d + s) % NUM_TX_DESC
          \notin Segment(NUM_TX_DESC, (d + s) + 1, (L - s) - 1)
    BY ONLY <1>1, SegOnce
  <2>. QED BY <2>1, Zenon DEF Seg
<1>4. (p + 1) % NUM_TX_DESC = (d + (s + 1)) % NUM_TX_DESC
  <2>1. (((d + s) % NUM_TX_DESC) + 1) % NUM_TX_DESC = ((d + s) + 1) % NUM_TX_DESC
    BY ONLY <1>1, ModAdd
  <2>. QED BY <1>1, <2>1
<1>5. p \in 0 .. NUM_TX_DESC - 1
  BY <1>1, ModType
<1>6. (p + 1) % NUM_TX_DESC = IF p = NUM_TX_DESC - 1 THEN 0 ELSE p + 1
  <2>1. CASE p = NUM_TX_DESC - 1
    <3>1. p + 1 \in NUM_TX_DESC .. 2 * NUM_TX_DESC - 1 /\ (p + 1) - NUM_TX_DESC = 0
      BY <1>1, <2>1
    <3>. QED BY <1>1, <2>1, <3>1, ModWrap
  <2>2. CASE p # NUM_TX_DESC - 1
    <3>1. p + 1 \in 0 .. NUM_TX_DESC - 1
      BY <1>1, <1>5, <2>2
    <3>. QED BY <1>1, <2>2, <3>1, ModSmall
  <2>. QED BY <2>1, <2>2
<1>. QED BY <1>1, <1>2, <1>3, <1>4, <1>6

\* The NIC's part of a window begins s entries after its beginning.
LEMMA OwnedFrom ==
  ASSUME NEW d \in Idx, NEW L \in 0 .. NUM_TX_DESC, NEW s \in 0 .. L,
         NEW k \in 0 .. L - 1
  PROVE  (d + k) % NUM_TX_DESC \in Seg(d + s, L - s) <=> k >= s
<1>1. d \in Int /\ NUM_TX_DESC \in Nat \ {0} /\ L \in Nat
  BY RingConstants
<1>2. CASE k >= s
  <2>1. k - s \in 0 .. (L - s) - 1 /\ (d + s) + (k - s) = d + k
    BY <1>1, <1>2
  <2>2. (d + k) % NUM_TX_DESC = ((d + s) + (k - s)) % NUM_TX_DESC
    BY <2>1
  <2>. QED BY <1>2, <2>1, <2>2 DEF Seg, Segment
<1>3. CASE k < s
  <2>1. k \in 0 .. s - 1
    BY <1>1, <1>3
  <2>2. (d + k) % NUM_TX_DESC \in Segment(NUM_TX_DESC, d, s)
    BY <2>1 DEF Segment
  <2>3. Segment(NUM_TX_DESC, d, s) \cap Segment(NUM_TX_DESC, d + s, L - s) = {}
    BY <1>1, SegApart
  <2>4. ~(k >= s)
    BY <1>3
  <2>. QED BY <2>2, <2>3, <2>4 DEF Seg
<1>. QED BY <1>1, <1>2, <1>3

\* The entry k places after dirty_tx.
LEMMA EntryAtIs ==
  ASSUME NEW d \in Idx, NEW k \in Int
  PROVE  ((d + k) % IdxMod) % NUM_TX_DESC = (d + k) % NUM_TX_DESC
<1>1. d + k \in Int /\ 0 \in Nat
  BY RingConstants
<1>. QED BY <1>1, IdxWrap

-----------------------------------------------------------------------------
(***************************************************************************)
(* Where everybody is in the ring.  The watchdog does not fire; the link   *)
(* may flap.  s is the number of packets sent and not yet reaped.          *)
(***************************************************************************)
SkbSet == {e \in Entries : tx_skb[e].skb # NULL}
OwnSet == {e \in Entries : TxDescArray[e].own}

PlaceAt(s) ==
  /\ s \in 0 .. TxLeft
  /\ SkbSet = Seg(dirty_tx, TxLeft)
  /\ OwnSet = Seg(dirty_tx + s, TxLeft - s)
  /\ nic.cur = (dirty_tx + s) % NUM_TX_DESC

\* The call of start_xmit in progress still has the entry at cur_tx.
EntryIsCur == xmit.entry = cur_tx % NUM_TX_DESC /\ TxLeft < Full

\* A call that read its entry before the indexes were reset finds both at 0.
RoomAt ==
  /\ TxLeft <= Full
  /\ ~queue_stopped => TxLeft < Full
  /\ xmit.pc = "entered" => EntryIsCur \/ (cur_tx = 0 /\ dirty_tx = 0)

\* While the carrier is off, the ring is empty but for what a call of
\* start_xmit posted that was in progress when the link went down.
DownAt(s) ==
  /\ ~nic.enb => ~carrier
  /\ ~carrier => /\ dirty_tx = 0 /\ s = 0 /\ cur_tx \in {0, 1}
                 /\ queue_stopped \/ ~qdisc
                 /\ cur_tx = 1 => xmit.pc = "idle"
                 /\ nic.enb => cur_tx = 0 /\ xmit.pc = "idle"

Normal(s) == PlaceAt(s) /\ RoomAt /\ DownAt(s)

\* rtl8101_open leaves an empty ring.
LEMMA NormalInit == Init => Normal(0)
<1>. SUFFICES ASSUME Init PROVE Normal(0)
  OBVIOUS
<1>1. TxLeft = 0 /\ dirty_tx + 0 = 0 /\ 0 % NUM_TX_DESC = 0 /\ 0 - 0 = 0
  BY ModSmall, RingConstants DEF Init, TxLeft
<1>2. SkbSet = {} /\ OwnSet = {} /\ nic.cur = 0
  BY DEF Init, SkbSet, OwnSet, EmptyInfo, EmptyDesc, HwInit, HwReset
<1>3. Seg(0, 0) = {}
  BY DEF Seg, Segment
<1>4. PlaceAt(0)
  BY <1>1, <1>2, <1>3 DEF Init, PlaceAt
<1>. QED BY <1>1, <1>4, RingConstants DEF Init, Normal, RoomAt, DownAt, Idle, HwInit, HwReset

\* What Normal reads of the state.
LEMMA NormalFrame ==
  ASSUME NEW s, Normal(s), UNCHANGED <<ring, net, xmit>>,
         UNCHANGED nic.cur, UNCHANGED nic.enb
  PROVE  Normal(s)'
<1>1. TxLeft' = TxLeft /\ SkbSet' = SkbSet /\ OwnSet' = OwnSet /\ EntryIsCur' = EntryIsCur
  BY DEF TxLeft, SkbSet, OwnSet, EntryIsCur, ring
<1>. QED BY <1>1 DEF Normal, PlaceAt, RoomAt, DownAt, ring, net

\* The types the ring lemmas need.
LEMMA RingTypes ==
  ASSUME TypeInv
  PROVE  /\ cur_tx \in Idx /\ dirty_tx \in Idx /\ TxLeft \in Nat
         /\ nic.cur \in Entries /\ xmit.entry \in Entries
<1>1. TypeOK
  BY DEF TypeInv
<1>2. TxLeft \in Nat
  BY <1>1, TxLeftType, RingConstants
<1>. QED BY <1>1, <1>2 DEF TypeOK

\* start_xmit posts the entry at cur_tx.
LEMMA PostNormal ==
  ASSUME TypeInv, TypeInv', NEW s, Normal(s), XmitPost, EntryIsCur
  PROVE  Normal(s)' /\ TxLeft' = TxLeft + 1 /\ cur_tx % NUM_TX_DESC \notin SkbSet
<1>. DEFINE p == cur_tx % NUM_TX_DESC
<1>1. /\ cur_tx \in Idx /\ dirty_tx \in Idx /\ cur_tx' \in Idx
      /\ xmit.entry = p /\ TxLeft \in Nat /\ TxLeft < Full /\ s \in 0 .. TxLeft
  <2>1. cur_tx \in Idx /\ dirty_tx \in Idx /\ TxLeft \in Nat
    BY RingTypes
  <2>2. cur_tx' \in Idx
    BY DEF TypeInv, TypeOK
  <2>. QED BY <2>1, <2>2 DEF EntryIsCur, Normal, PlaceAt
<1>2. /\ tx_skb' = [tx_skb EXCEPT ![p] = [skb |-> xmit.skb, len |-> 1]]
      /\ TxDescArray' = [TxDescArray EXCEPT ![p] = TxWord(p, xmit.skb)]
      /\ cur_tx' = (cur_tx + 1) % IdxMod /\ dirty_tx' = dirty_tx
      /\ nic' = Notify(nic) /\ xmit' = Idle /\ UNCHANGED <<carrier, qdisc>>
      /\ queue_stopped' = (queue_stopped \/ RoomLow(dirty_tx, cur_tx'))
      /\ xmit.pc = "entered"
  BY <1>1 DEF XmitPost
<1>3. p \in Entries /\ xmit.skb # NULL
  BY <1>1, <1>2, Constants DEF TypeInv, TypeOK, XmitHasSkb
<1>4. nic'.cur = nic.cur /\ nic'.enb = nic.enb
  BY <1>2 DEF Notify, TypeInv, TypeOK
<1>. HIDE DEF p
<1>5. SkbSet' = SkbSet \cup {p}
  BY <1>2, <1>3 DEF SkbSet, TypeInv, TypeOK
<1>6. OwnSet' = OwnSet \cup {p}
  BY <1>2, <1>3 DEF OwnSet, TypeInv, TypeOK, TxWord
<1>7. /\ TxLeft' = TxLeft + 1
      /\ Seg(dirty_tx, TxLeft + 1) = Seg(dirty_tx, TxLeft) \cup {p}
      /\ Seg(dirty_tx + s, (TxLeft + 1) - s) = Seg(dirty_tx + s, TxLeft - s) \cup {p}
      /\ p \notin Seg(dirty_tx, TxLeft)
  <2>. DEFINE L == TxLeft
  <2>1. L = (cur_tx - dirty_tx) % IdxMod /\ L < NUM_TX_DESC /\ s \in 0 .. L
    BY <1>1, RingConstants DEF TxLeft
  <2>. HIDE DEF L
  <2>2. /\ (((cur_tx + 1) % IdxMod) - dirty_tx) % IdxMod = L + 1
        /\ Seg(dirty_tx, L + 1) = Seg(dirty_tx, L) \cup {cur_tx % NUM_TX_DESC}
        /\ Seg(dirty_tx + s, (L + 1) - s)
             = Seg(dirty_tx + s, L - s) \cup {cur_tx % NUM_TX_DESC}
        /\ cur_tx % NUM_TX_DESC \notin Seg(dirty_tx, L)
    BY <1>1, <2>1, WinPost
  <2>3. TxLeft' = L + 1
    BY <1>2, <2>2 DEF TxLeft
  <2>. QED BY <2>2, <2>3 DEF L, p
<1>8. PlaceAt(s)'
  <2>1. s \in 0 .. TxLeft + 1
    BY <1>1
  <2>. QED BY <1>2, <1>4, <1>5, <1>6, <1>7, <2>1 DEF Normal, PlaceAt
<1>9. RoomAt'
  <2>1. TxLeft' <= Full /\ TxLeft' \in Nat
    BY <1>1, <1>7, RingConstants
  <2>2. RoomLow(dirty_tx, cur_tx') <=> TxLeft' = Full
    <3>1. TxLeft' = (cur_tx' - dirty_tx) % IdxMod
      BY <1>2 DEF TxLeft
    <3>. QED BY <1>1, <2>1, <3>1, RoomLowIsFull DEF Full
  <2>3. ~queue_stopped' => TxLeft' # Full
    BY <1>2, <2>2
  <2>4. xmit'.pc = "idle"
    BY <1>2 DEF Idle
  <2>. QED BY <2>1, <2>3, <2>4, RingConstants DEF RoomAt
<1>10. DownAt(s)'
  <2>1. ASSUME ~carrier PROVE cur_tx' = 1 /\ ~nic.enb
    <3>1. cur_tx = 0 /\ ~nic.enb
      BY <1>2, <2>1 DEF Normal, DownAt
    <3>2. 0 + 1 = 1 /\ 1 % IdxMod = 1
      BY RingConstants, ModSmall
    <3>. QED BY <1>2, <3>1, <3>2
  <2>2. xmit'.pc = "idle"
    BY <1>2 DEF Idle
  <2>. QED BY <1>2, <1>4, <2>1, <2>2 DEF Normal, DownAt
<1>. QED BY <1>7, <1>8, <1>9, <1>10 DEF Normal, PlaceAt, p

\* The NIC has sent the packet at its place.
LEMMA DoneNormal ==
  ASSUME TypeInv, TypeInv', DmaInv, NEW s, Normal(s), NicDone
  PROVE  Normal(s + 1)' /\ s < TxLeft /\ TxLeft' = TxLeft
<1>. DEFINE p == nic.cur
<1>1. /\ cur_tx \in Idx /\ dirty_tx \in Idx /\ TxLeft \in Nat /\ TxLeft <= Full
      /\ s \in 0 .. TxLeft /\ p \in Entries /\ p = (dirty_tx + s) % NUM_TX_DESC
  BY RingTypes DEF Normal, PlaceAt, RoomAt
<1>2. /\ nic.buf # NULL /\ nic.enb /\ p \in OwnSet
      /\ UNCHANGED <<cur_tx, dirty_tx, tx_skb, net, xmit>>
  BY <1>1 DEF NicDone, DmaInv, OwnSet
<1>3. /\ TxDescArray' = [TxDescArray EXCEPT ![p] =
                           [TxDescArray[p] EXCEPT !.own = FALSE]]
      /\ nic'.enb = nic.enb
      /\ nic'.cur = IF p = NUM_TX_DESC - 1 THEN 0 ELSE p + 1
  BY <1>2 DEF NicDone, TypeInv, TypeOK, NicFollowsRing
<1>. HIDE DEF p
<1>4. TxLeft' = TxLeft /\ SkbSet' = SkbSet /\ EntryIsCur' = EntryIsCur
  BY <1>2 DEF TxLeft, SkbSet, EntryIsCur
<1>5. OwnSet' = OwnSet \ {p}
  BY <1>1, <1>3 DEF OwnSet, TypeInv, TypeOK
<1>6. s < TxLeft
  <2>1. SUFFICES ASSUME s = TxLeft PROVE FALSE
    BY <1>1
  <2>2. TxLeft - s = 0 /\ 0 .. 0 - 1 = {}
    BY <1>1, <2>1
  <2>3. OwnSet = {}
    BY <2>2 DEF Normal, PlaceAt, Seg, Segment
  <2>. QED BY <1>2, <2>3
<1>7. /\ Seg(dirty_tx + (s + 1), TxLeft - (s + 1)) = Seg(dirty_tx + s, TxLeft - s) \ {p}
      /\ (dirty_tx + (s + 1)) % NUM_TX_DESC = IF p = NUM_TX_DESC - 1 THEN 0 ELSE p + 1
  <2>. DEFINE L == TxLeft
  <2>1. L \in 0 .. NUM_TX_DESC /\ s \in 0 .. L - 1
    BY <1>1, <1>6, RingConstants
  <2>. HIDE DEF L
  <2>2. /\ Seg(dirty_tx + (s + 1), L - (s + 1)) = Seg(dirty_tx + s, L - s) \ {p}
        /\ (dirty_tx + (s + 1)) % NUM_TX_DESC = IF p = NUM_TX_DESC - 1 THEN 0 ELSE p + 1
    BY <1>1, <2>1, WinSend
  <2>. QED BY <2>2 DEF L
<1>8. PlaceAt(s + 1)'
  <2>1. s + 1 \in 0 .. TxLeft
    BY <1>1, <1>6
  <2>. QED BY <1>2, <1>3, <1>4, <1>5, <1>7, <2>1 DEF Normal, PlaceAt
<1>9. RoomAt'
  BY <1>2, <1>4 DEF Normal, RoomAt, net
<1>10. DownAt(s + 1)'
  <2>1. carrier
    <3>1. SUFFICES ASSUME ~carrier PROVE FALSE
      OBVIOUS
    <3>2. cur_tx = 0 /\ dirty_tx = 0
      BY <1>2, <3>1 DEF Normal, DownAt
    <3>3. TxLeft = 0
      BY <3>2, RingConstants, ModSmall DEF TxLeft
    <3>. QED BY <1>1, <1>6, <3>3
  <2>. QED BY <1>2, <1>3, <2>1 DEF DownAt, net
<1>. QED BY <1>4, <1>6, <1>8, <1>9, <1>10 DEF Normal

\* The entries reaped are the first ones of the window.
LEMMA ReapedIsSeg ==
  ASSUME TypeOK, NEW n \in 0 .. TxLeft
  PROVE  /\ Reaped(n) = Seg(dirty_tx, n)
         /\ \A k \in 0 .. n - 1 : EntryAt(k) = (dirty_tx + k) % NUM_TX_DESC
<1>1. dirty_tx \in Idx /\ n \in Nat
  BY TxLeftType DEF TypeOK
<1>2. \A k \in 0 .. n - 1 : EntryAt(k) = (dirty_tx + k) % NUM_TX_DESC
  BY <1>1, EntryAtIs DEF EntryAt
<1>. QED BY <1>2 DEF Reaped, Seg, Segment

\* rtl8101_tx_interrupt reaps n of the packets sent.
LEMMA PollNormal ==
  ASSUME TypeInv, TypeInv', OwnerInv, NEW s, Normal(s), PollTx,
         NEW n \in 0 .. TxLeft, TxInterrupt(n)
  PROVE  Normal(s - n)' /\ n <= s /\ TxLeft' = TxLeft - n
<1>1. /\ cur_tx \in Idx /\ dirty_tx \in Idx /\ TxLeft \in Nat /\ TxLeft <= Full
      /\ s \in 0 .. TxLeft /\ dirty_tx' \in Idx
  <2>1. cur_tx \in Idx /\ dirty_tx \in Idx /\ TxLeft \in Nat
    BY RingTypes
  <2>2. dirty_tx' \in Idx
    BY DEF TypeInv, TypeOK
  <2>. QED BY <2>1, <2>2 DEF Normal, PlaceAt, RoomAt
<1>2. /\ dirty_tx' = (dirty_tx + n) % IdxMod
      /\ UNCHANGED <<cur_tx, carrier, qdisc, xmit>>
      /\ queue_stopped' = StaysStopped(n, dirty_tx')
      /\ nic'.cur = nic.cur /\ nic'.enb = nic.enb
  BY DEF PollTx, TxInterrupt, Notify, TypeInv, TypeOK
<1>3. n <= s
  <2>1. SUFFICES ASSUME s < n PROVE FALSE
    BY <1>1
  <2>2. s \in 0 .. n - 1 /\ TxLeft - s \in Nat /\ s \in 0 .. TxLeft - 1
        /\ TxLeft \in 0 .. NUM_TX_DESC
    BY <1>1, <2>1, RingConstants
  <2>3. EntryAt(s) = (dirty_tx + s) % NUM_TX_DESC
    BY <2>2, ReapedIsSeg DEF TypeInv
  <2>4. (dirty_tx + s) % NUM_TX_DESC \in OwnSet
    BY <1>1, <2>2, WinSend DEF Normal, PlaceAt
  <2>5. ~TxDescArray[EntryAt(s)].own
    BY <2>2 DEF TxInterrupt, Reapable
  <2>. QED BY <2>3, <2>4, <2>5 DEF OwnSet
<1>4. /\ Reaped(n) \subseteq Entries /\ Emptied(Reaped(n))
      /\ \A e \in Reaped(n) : ~TxDescArray[e].own
  BY ReapEmpties DEF TypeInv, OwnerInv
<1>5. Reaped(n) = Seg(dirty_tx, n)
  BY ReapedIsSeg DEF TypeInv
<1>6. SkbSet' = SkbSet \ Reaped(n)
  BY <1>4 DEF SkbSet, Emptied
<1>7. OwnSet' = OwnSet
  BY <1>4 DEF OwnSet, Emptied
<1>8. /\ TxLeft' = TxLeft - n
      /\ Seg(dirty_tx', TxLeft - n) = Seg(dirty_tx, TxLeft) \ Seg(dirty_tx, n)
      /\ Seg(dirty_tx' + (s - n), (TxLeft - n) - (s - n)) = Seg(dirty_tx + s, TxLeft - s)
      /\ (dirty_tx' + (s - n)) % NUM_TX_DESC = (dirty_tx + s) % NUM_TX_DESC
  <2>. DEFINE L == TxLeft
              f == dirty_tx'
  <2>1. L = (cur_tx - dirty_tx) % IdxMod /\ L <= NUM_TX_DESC /\ s \in 0 .. L
        /\ n \in 0 .. s /\ f = (dirty_tx + n) % IdxMod
    BY <1>1, <1>2, <1>3, RingConstants DEF TxLeft
  <2>. HIDE DEF L, f
  <2>2. /\ (cur_tx - f) % IdxMod = L - n
        /\ Seg(f, L - n) = Seg(dirty_tx, L) \ Seg(dirty_tx, n)
        /\ Seg(f + (s - n), (L - n) - (s - n)) = Seg(dirty_tx + s, L - s)
        /\ (f + (s - n)) % NUM_TX_DESC = (dirty_tx + s) % NUM_TX_DESC
    BY <1>1, <2>1, WinReap
  <2>3. TxLeft' = (cur_tx - f) % IdxMod
    BY <1>2 DEF TxLeft, f
  <2>. QED BY <2>2, <2>3 DEF L, f
<1>9. PlaceAt(s - n)'
  <2>1. s - n \in 0 .. TxLeft - n
    BY <1>1, <1>3
  <2>. QED BY <1>2, <1>5, <1>6, <1>7, <1>8, <2>1 DEF Normal, PlaceAt
<1>10. TxLeft' \in Nat /\ TxLeft' <= TxLeft /\ (n > 0 => TxLeft' < TxLeft)
  BY <1>1, <1>8
<1>11. RoomAt'
  <2>1. TxLeft' <= Full
    BY <1>1, <1>10, RingConstants
  <2>2. ~queue_stopped' => TxLeft' < Full
    <3>1. CASE n = 0
      <4>1. ~queue_stopped' => ~queue_stopped
        BY <1>2, <3>1 DEF StaysStopped
      <4>. QED BY <1>1, <1>10, <4>1, RingConstants DEF Normal, RoomAt
    <3>2. CASE n # 0
      BY <1>1, <1>10, <3>2, RingConstants
    <3>. QED BY <3>1, <3>2
  <2>3. EntryIsCur => EntryIsCur'
    BY <1>1, <1>2, <1>10, RingConstants DEF EntryIsCur
  <2>4. cur_tx = 0 /\ dirty_tx = 0 => cur_tx' = 0 /\ dirty_tx' = 0
    <3>1. SUFFICES ASSUME cur_tx = 0, dirty_tx = 0 PROVE dirty_tx' = 0
      BY <1>2
    <3>2. TxLeft = 0
      BY <3>1, RingConstants, ModSmall DEF TxLeft
    <3>3. n = 0 /\ dirty_tx + n = 0
      BY <3>1, <3>2
    <3>. QED BY <1>2, <3>3, RingConstants, ModSmall
  <2>. QED BY <1>2, <2>1, <2>2, <2>3, <2>4 DEF Normal, RoomAt
<1>12. DownAt(s - n)'
  <2>1. ASSUME ~carrier PROVE dirty_tx' = 0 /\ s - n = 0 /\ queue_stopped' = queue_stopped
    <3>1. dirty_tx = 0 /\ s = 0
      BY <2>1 DEF Normal, DownAt
    <3>2. n = 0 /\ dirty_tx + n = 0 /\ s - n = 0
      BY <1>1, <1>3, <3>1
    <3>3. queue_stopped' = queue_stopped
      BY <1>2, <3>2 DEF StaysStopped, TypeInv, TypeOK
    <3>. QED BY <1>2, <3>2, <3>3, RingConstants, ModSmall
  <2>. QED BY <1>2, <2>1 DEF Normal, DownAt
<1>. QED BY <1>3, <1>8, <1>9, <1>11, <1>12 DEF Normal

\* The actions that leave the ring alone.
QuietStep ==
  \/ XmitEnter \/ XmitBusy \/ Interrupt \/ PollComplete \/ PollUnmask \/ LinkUp
  \/ NicFetch \/ Cable \/ LinkWatch \/ UNCHANGED vars

\* They leave everybody at his place.
LEMMA QuietNormal ==
  ASSUME TypeInv, NEW s, Normal(s), QuietStep
  PROVE  /\ Normal(s)' /\ UNCHANGED ring
         /\ xmit'.pc = "entered" => EntryIsCur' \/ xmit' = xmit
<1>1. /\ cur_tx \in Idx /\ dirty_tx \in Idx /\ TxLeft \in Nat /\ s \in 0 .. TxLeft
  BY RingTypes DEF Normal, PlaceAt
<1>2. UNCHANGED ring
  BY DEF QuietStep, XmitEnter, XmitBusy, Interrupt, PollComplete, PollUnmask,
         LinkUp, NicFetch, Cable, LinkWatch, vars
<1>3. TxLeft' = TxLeft /\ SkbSet' = SkbSet /\ OwnSet' = OwnSet
  BY <1>2 DEF TxLeft, SkbSet, OwnSet, ring
<1>4. CASE XmitEnter
  <2>1. /\ qdisc /\ ~queue_stopped /\ xmit'.pc = "entered"
        /\ xmit'.entry = cur_tx % NUM_TX_DESC /\ UNCHANGED <<net, nic>>
    BY <1>4 DEF XmitEnter
  <2>2. EntryIsCur'
    BY <1>2, <1>3, <2>1 DEF EntryIsCur, Normal, RoomAt, ring
  <2>3. PlaceAt(s)'
    BY <1>2, <1>3, <2>1 DEF Normal, PlaceAt, ring
  <2>4. RoomAt'
    BY <1>2, <1>3, <2>1, <2>2 DEF Normal, RoomAt, net
  <2>5. carrier
    BY <2>1 DEF Normal, DownAt
  <2>6. DownAt(s)'
    BY <2>1, <2>5 DEF Normal, DownAt, net
  <2>. QED BY <1>2, <2>2, <2>3, <2>4, <2>6 DEF Normal
<1>5. CASE XmitBusy
  <2>1. /\ queue_stopped' /\ xmit'.pc = "idle" /\ UNCHANGED <<carrier, qdisc, nic>>
    BY <1>5 DEF XmitBusy, Idle
  <2>2. PlaceAt(s)'
    BY <1>2, <1>3, <2>1 DEF Normal, PlaceAt, ring
  <2>3. RoomAt'
    BY <1>3, <2>1 DEF Normal, RoomAt
  <2>4. DownAt(s)'
    BY <1>2, <2>1 DEF Normal, DownAt, ring
  <2>. QED BY <1>2, <2>1, <2>2, <2>3, <2>4 DEF Normal
<1>6. CASE LinkUp
  <2>1. /\ ~carrier /\ carrier' /\ ~queue_stopped' /\ UNCHANGED xmit
        /\ nic'.cur = 0 /\ nic'.enb
    BY <1>6 DEF LinkUp, HwInit, HwReset
  <2>2. dirty_tx = 0 /\ s = 0 /\ cur_tx \in {0, 1}
    BY <2>1 DEF Normal, DownAt
  <2>3. TxLeft < Full
    <3>1. 0 - 0 = 0 /\ 1 - 0 = 1 /\ 0 % IdxMod = 0 /\ 1 % IdxMod = 1
      BY RingConstants, ModSmall
    <3>2. TxLeft \in {0, 1}
      BY <2>2, <3>1 DEF TxLeft
    <3>. QED BY <3>2, RingConstants
  <2>4. (dirty_tx + s) % NUM_TX_DESC = 0
    <3>1. dirty_tx + s = 0
      BY <2>2
    <3>. QED BY <3>1, RingConstants, ModSmall
  <2>5. PlaceAt(s)'
    BY <1>2, <1>3, <2>1, <2>4 DEF Normal, PlaceAt, ring
  <2>6. EntryIsCur' = EntryIsCur
    BY <1>2, <1>3, <2>1 DEF EntryIsCur, ring
  <2>7. RoomAt'
    BY <1>2, <1>3, <2>1, <2>3, <2>6 DEF Normal, RoomAt, ring
  <2>8. DownAt(s)'
    BY <2>1 DEF DownAt
  <2>. QED BY <1>2, <2>1, <2>5, <2>7, <2>8 DEF Normal
<1>7. CASE LinkWatch
  <2>1. /\ qdisc' = carrier /\ UNCHANGED <<queue_stopped, carrier, xmit, nic>>
    BY <1>7 DEF LinkWatch
  <2>2. PlaceAt(s)'
    BY <1>2, <1>3, <2>1 DEF Normal, PlaceAt, ring
  <2>3. EntryIsCur' = EntryIsCur
    BY <1>2, <1>3, <2>1 DEF EntryIsCur, ring
  <2>4. RoomAt'
    BY <1>2, <1>3, <2>1, <2>3 DEF Normal, RoomAt, ring
  <2>5. DownAt(s)'
    BY <1>2, <2>1 DEF Normal, DownAt, ring
  <2>. QED BY <1>2, <2>1, <2>2, <2>4, <2>5 DEF Normal
<1>8. CASE NicFetch
  <2>1. nic'.cur = nic.cur /\ nic'.enb = nic.enb
    BY <1>8 DEF NicFetch, TypeInv, TypeOK
  <2>2. UNCHANGED <<net, xmit>>
    BY <1>8 DEF NicFetch
  <2>. QED BY <1>2, <2>1, <2>2, NormalFrame
<1>9. CASE Interrupt \/ PollComplete \/ PollUnmask \/ Cable \/ UNCHANGED vars
  <2>1. UNCHANGED <<net, xmit, nic>>
    BY <1>9 DEF Interrupt, PollComplete, PollUnmask, Cable, vars
  <2>. QED BY <1>2, <2>1, NormalFrame
<1>. QED BY <1>4, <1>5, <1>6, <1>7, <1>8, <1>9 DEF QuietStep

-----------------------------------------------------------------------------
(***************************************************************************)
(* The ring while the link does not flap: no call of start_xmit has an     *)
(* outdated entry, so the window is always in one piece.                   *)
(***************************************************************************)
FirmInv == /\ link
           /\ xmit.pc = "entered" => EntryIsCur
           /\ \E s : Normal(s)

Sound == TypeInv /\ OwnerInv /\ DmaInv

\* Without link flaps and watchdog these are the steps there are.
LEMMA SteadySteps ==
  ASSUME ~LinkFlaps, ~Watchdog, Sound, link, [Next]_vars
  PROVE  /\ link'
         /\ XmitPost \/ NicDone \/ PollTx \/ QuietStep
<1>1. ~LinkDown /\ ~TxTimeout /\ ~TaskQuiesce /\ ~TaskRecover /\ ~TaskRetry /\ ~Cable
  BY DEF LinkDown, TxTimeout, TaskQuiesce, TaskRecover, TaskRetry, Cable, Sound, DmaInv
<1>2. XmitPost \/ NicDone \/ PollTx \/ QuietStep
  BY <1>1 DEF Next, QuietStep
<1>3. XmitPost \/ NicDone \/ PollTx => UNCHANGED link
  BY DEF XmitPost, NicDone, PollTx
<1>4. QuietStep => link'
  BY <1>1 DEF QuietStep, XmitEnter, XmitBusy, Interrupt, PollComplete, PollUnmask,
              LinkUp, NicFetch, LinkWatch, vars
<1>. QED BY <1>2, <1>3, <1>4

\* Every step of them keeps the window in one piece.
LEMMA FirmNext ==
  ASSUME ~LinkFlaps, ~Watchdog, Sound, Sound', FirmInv, [Next]_vars
  PROVE  FirmInv'
<1>1. link'
  BY SteadySteps DEF FirmInv
<1>2. PICK s : Normal(s)
  BY DEF FirmInv
<1>3. CASE XmitPost
  <2>1. EntryIsCur /\ xmit'.pc = "idle"
    BY <1>3 DEF FirmInv, XmitPost, Idle
  <2>2. Normal(s)'
    BY <1>2, <1>3, <2>1, PostNormal DEF Sound
  <2>. QED BY <1>1, <2>1, <2>2 DEF FirmInv
<1>4. CASE NicDone
  <2>1. Normal(s + 1)' /\ TxLeft' = TxLeft
    BY <1>2, <1>4, DoneNormal DEF Sound
  <2>2. UNCHANGED <<cur_tx, dirty_tx, xmit>>
    BY <1>4 DEF NicDone
  <2>3. EntryIsCur' = EntryIsCur
    BY <2>1, <2>2 DEF EntryIsCur
  <2>. QED BY <1>1, <2>1, <2>2, <2>3 DEF FirmInv
<1>5. CASE PollTx
  <2>1. PICK n \in 0 .. TxLeft : TxInterrupt(n)
    BY <1>5 DEF PollTx
  <2>2. Normal(s - n)' /\ TxLeft' = TxLeft - n
    BY <1>2, <1>5, <2>1, PollNormal DEF Sound
  <2>3. UNCHANGED <<cur_tx, xmit>>
    BY <1>5 DEF PollTx
  <2>4. TxLeft \in Nat
    BY RingTypes DEF Sound
  <2>5. EntryIsCur => EntryIsCur'
    BY <2>2, <2>3, <2>4, RingConstants DEF EntryIsCur
  <2>. QED BY <1>1, <2>2, <2>3, <2>5 DEF FirmInv
<1>6. CASE QuietStep
  <2>1. /\ Normal(s)' /\ UNCHANGED ring
        /\ xmit'.pc = "entered" => EntryIsCur' \/ xmit' = xmit
    BY <1>2, <1>6, QuietNormal DEF Sound
  <2>2. xmit' = xmit => EntryIsCur' = EntryIsCur
    BY <2>1 DEF EntryIsCur, TxLeft, ring
  <2>. QED BY <1>1, <2>1, <2>2 DEF FirmInv
<1>. QED BY <1>3, <1>4, <1>5, <1>6, SteadySteps DEF FirmInv

\* The window is in one piece in every state.
LEMMA FirmAlways == ~LinkFlaps /\ ~Watchdog => (Spec => [](Sound /\ FirmInv))
<1>. SUFFICES ASSUME ~LinkFlaps, ~Watchdog PROVE Spec => [](Sound /\ FirmInv)
  OBVIOUS
<1>1. Sound /\ Sound' /\ FirmInv /\ [Next]_vars => FirmInv'
  BY FirmNext
<1>2. Init => FirmInv
  BY NormalInit DEF Init, FirmInv, Idle
<1>3. Spec => []Sound
  BY OwnerAlways, DmaAlways, PTL DEF Sound
<1>. QED BY <1>1, <1>2, <1>3, PTL DEF Spec

\* The window as the model states it.
LEMMA WindowIsSeg ==
  ASSUME TypeInv
  PROVE  Window = Seg(dirty_tx, TxLeft)
<1>1. TxLeft \in 0 .. TxLeft
  BY RingTypes
<1>2. Reaped(TxLeft) = Seg(dirty_tx, TxLeft)
  BY <1>1, ReapedIsSeg DEF TypeInv
<1>. QED BY <1>2 DEF Reaped, Window

\* While the link does not flap and the watchdog does not fire, the entries
\* with a buffer are exactly those from dirty_tx up to cur_tx, as the comments
\* of DrvPvt say, for every ring size and across every wrap of the indexes.
THEOREM WindowFilled ==
  ~LinkFlaps /\ ~Watchdog => (Spec => []BuffersFillWindow)
<1>. SUFFICES ASSUME ~LinkFlaps, ~Watchdog PROVE Spec => []BuffersFillWindow
  OBVIOUS
<1>1. Sound /\ FirmInv => BuffersFillWindow
  BY WindowIsSeg DEF Sound, FirmInv, Normal, PlaceAt, BuffersFillWindow, SkbSet
<1>. QED BY <1>1, FirmAlways, PTL

\* Under the same conditions the NIC never stands outside the window: the
\* packet start_xmit posts next is the next one it comes to.
THEOREM NicAtWindow ==
  ~LinkFlaps /\ ~Watchdog => (Spec => []NicInWindow)
<1>. SUFFICES ASSUME ~LinkFlaps, ~Watchdog PROVE Spec => []NicInWindow
  OBVIOUS
<1>1. ASSUME Sound, FirmInv PROVE NicInWindow
  <2>1. PICK s : Normal(s)
    BY <1>1 DEF FirmInv
  <2>2. /\ cur_tx \in Idx /\ dirty_tx \in Idx /\ TxLeft \in Nat /\ s \in 0 .. TxLeft
        /\ nic.cur = (dirty_tx + s) % NUM_TX_DESC
    BY <1>1, <2>1, RingTypes DEF Sound, Normal, PlaceAt
  <2>3. CASE s = TxLeft
    <3>1. nic.cur = cur_tx % NUM_TX_DESC
      BY <2>2, <2>3, CurAtEnd DEF TxLeft
    <3>. QED BY <3>1 DEF NicInWindow
  <2>4. CASE s # TxLeft
    <3>1. s \in 0 .. TxLeft - 1
      BY <2>2, <2>4
    <3>2. nic.cur \in Seg(dirty_tx, TxLeft)
      BY <2>2, <3>1 DEF Seg, Segment
    <3>. QED BY <1>1, <3>2, WindowIsSeg DEF NicInWindow, Sound
  <2>. QED BY <2>3, <2>4
<1>. QED BY <1>1, FirmAlways, PTL

-----------------------------------------------------------------------------
(***************************************************************************)
(* The ring across link flaps.  A call of start_xmit that read its entry   *)
(* before tx_clear reset the indexes may post it behind the NIC, which     *)
(* starts again at entry 0: then the queue fills up from entry 1 to that   *)
(* entry, nothing is sent and nothing reaped, until the next tx_clear.     *)
(***************************************************************************)
Stuck(e) ==
  /\ e \in Entries
  /\ dirty_tx <= cur_tx /\ 1 <= cur_tx /\ cur_tx <= e
  /\ OwnSet = SkbSet /\ e \in OwnSet /\ 0 \notin OwnSet
  /\ nic.cur = 0 /\ nic.buf = NULL
  /\ xmit.pc = "entered" => xmit.entry = cur_tx

\* Every live buffer is in the ring.
AllHeld == \A b \in live : \E e \in Entries : tx_skb[e].skb = b

FlapInv == AllHeld /\ ((\E s : Normal(s)) \/ (\E e : Stuck(e)))

\* When the link goes down the loop of tx_clear runs: dirty_tx + NUM_TX_DESC
\* does not wrap round.  It is below the wrap for the first
\* 2^32 - NUM_TX_DESC packets after every reset of the indexes.
ClearReaches == carrier /\ ~link => dirty_tx + NUM_TX_DESC < IdxMod

\* Emptied entries take their buffers with them.
LEMMA EmptyHeld ==
  ASSUME TypeOK', AllHeld, NEW R \in SUBSET Entries, Emptied(R)
  PROVE  AllHeld'
<1>. SUFFICES ASSUME NEW b \in live' PROVE \E e \in Entries : tx_skb'[e].skb = b
  BY DEF AllHeld
<1>1. b \in Skbs
  BY DEF TypeOK
<1>2. b \in live /\ \A e \in R : tx_skb[e].skb # b
  BY <1>1 DEF Emptied
<1>3. PICK e \in Entries : tx_skb[e].skb = b
  BY <1>2 DEF AllHeld
<1>4. e \in Entries \ R
  BY <1>2, <1>3
<1>. QED BY <1>3, <1>4 DEF Emptied

\* A packet posted into an entry without a buffer drives none out.
LEMMA PostHeld ==
  ASSUME TypeInv, AllHeld, XmitPost, xmit.entry \notin SkbSet
  PROVE  AllHeld'
<1>. DEFINE p == xmit.entry
<1>1. /\ tx_skb' = [tx_skb EXCEPT ![p] = [skb |-> xmit.skb, len |-> 1]]
      /\ live' = live \cup {xmit.skb} /\ p \in Entries /\ tx_skb[p].skb = NULL
      /\ \A b \in live : b # NULL
  BY Constants DEF XmitPost, SkbSet, TypeInv, TypeOK
<1>. HIDE DEF p
<1>2. /\ tx_skb'[p].skb = xmit.skb
      /\ \A e \in Entries \ {p} : tx_skb'[e] = tx_skb[e]
  BY <1>1 DEF TypeInv, TypeOK
<1>. SUFFICES ASSUME NEW b \in live' PROVE \E e \in Entries : tx_skb'[e].skb = b
  BY DEF AllHeld
<1>3. CASE b = xmit.skb
  BY <1>1, <1>2, <1>3
<1>4. CASE b \in live
  <2>1. PICK e \in Entries : tx_skb[e].skb = b
    BY <1>4 DEF AllHeld
  <2>2. e # p
    BY <1>1, <1>4, <2>1
  <2>. QED BY <1>2, <2>1, <2>2
<1>. QED BY <1>1, <1>3, <1>4

\* The link went down and tx_clear reached every entry.
LEMMA DownNormal ==
  ASSUME Sound, Sound', ClearReaches, LinkDown
  PROVE  Normal(0)'
<1>1. TypeOK /\ OwnerInv /\ TxClear
  BY DEF Sound, TypeInv, LinkDown
<1>2. /\ carrier' = FALSE /\ queue_stopped' = TRUE /\ nic' = HwReset
      /\ cur_tx' = 0 /\ dirty_tx' = 0
  BY DEF LinkDown, TxClear
<1>3. Cleared = SkbSet
  <2>1. dirty_tx + NUM_TX_DESC < IdxMod
    BY DEF ClearReaches, LinkDown
  <2>. QED BY <1>1, <2>1 DEF Cleared, SkbSet, OwnerInv, DescMatchesInfo
<1>4. Emptied(SkbSet)
  BY <1>1, <1>3, ClearEmpties
<1>5. SkbSet' = {}
  BY <1>4 DEF SkbSet, Emptied
<1>6. OwnSet' = {}
  BY <1>1, <1>4 DEF OwnSet, SkbSet, Emptied, OwnerInv, DescMatchesInfo
<1>7. /\ TxLeft' = 0 /\ 0 + 0 = 0 /\ 0 - 0 = 0 /\ 0 % NUM_TX_DESC = 0
      /\ Seg(0, 0) = {}
  <2>1. 0 - 0 = 0 /\ 0 % IdxMod = 0 /\ 0 % NUM_TX_DESC = 0
    BY RingConstants, ModSmall
  <2>2. TxLeft' = 0
    BY <1>2, <2>1 DEF TxLeft
  <2>. QED BY <2>1, <2>2 DEF Seg, Segment
<1>8. PlaceAt(0)'
  BY <1>2, <1>5, <1>6, <1>7 DEF PlaceAt, HwReset
<1>9. RoomAt'
  BY <1>2, <1>7, RingConstants DEF RoomAt
<1>10. DownAt(0)'
  BY <1>2 DEF DownAt, HwReset
<1>. QED BY <1>8, <1>9, <1>10 DEF Normal

\* An outdated entry is posted into an empty ring, behind the NIC.
LEMMA StalePost ==
  ASSUME Sound, NEW s, Normal(s), XmitPost, ~EntryIsCur, NEW p, p = xmit.entry
  PROVE  Stuck(p)' /\ p \notin SkbSet
<1>1. /\ cur_tx = 0 /\ dirty_tx = 0 /\ p \in Entries
  <2>1. xmit.pc = "entered" /\ p \in Entries
    BY DEF XmitPost, Sound, TypeInv, TypeOK
  <2>. QED BY <2>1 DEF Normal, RoomAt
<1>2. TxLeft = 0 /\ 0 % NUM_TX_DESC = 0 /\ 1 % IdxMod = 1
  <2>1. 0 - 0 = 0 /\ 0 % IdxMod = 0 /\ 0 % NUM_TX_DESC = 0 /\ 1 % IdxMod = 1
    BY RingConstants, ModSmall
  <2>. QED BY <1>1, <2>1 DEF TxLeft
<1>3. p # 0
  BY <1>1, <1>2, RingConstants DEF EntryIsCur
<1>4. s = 0
  BY <1>2 DEF Normal, PlaceAt
<1>5. SkbSet = {} /\ OwnSet = {} /\ nic.cur = 0
  <2>1. 0 - 0 = 0 /\ 0 + 0 = 0 /\ 0 .. 0 - 1 = {}
    OBVIOUS
  <2>. QED BY <1>1, <1>2, <1>4, <2>1 DEF Normal, PlaceAt, Seg, Segment
<1>6. nic.buf = NULL
  BY <1>5 DEF Sound, DmaInv, TypeInv, TypeOK, OwnSet
<1>7. /\ tx_skb' = [tx_skb EXCEPT ![p] = [skb |-> xmit.skb, len |-> 1]]
      /\ TxDescArray' = [TxDescArray EXCEPT ![p] = TxWord(p, xmit.skb)]
      /\ cur_tx' = (cur_tx + 1) % IdxMod /\ dirty_tx' = dirty_tx
      /\ nic' = Notify(nic) /\ xmit' = Idle
      /\ xmit.skb # NULL
  BY Constants DEF XmitPost, Sound, TypeInv, XmitHasSkb
<1>8. nic'.cur = 0 /\ nic'.buf = NULL
  BY <1>5, <1>6, <1>7 DEF Notify, Sound, TypeInv, TypeOK
<1>9. SkbSet' = {p}
  BY <1>1, <1>5, <1>7 DEF SkbSet, Sound, TypeInv, TypeOK
<1>10. OwnSet' = {p}
  BY <1>1, <1>5, <1>7 DEF OwnSet, Sound, TypeInv, TypeOK, TxWord
<1>11. cur_tx' = 1 /\ dirty_tx' = 0 /\ 1 <= p
  <2>1. 0 + 1 = 1
    OBVIOUS
  <2>2. 1 <= p
    BY <1>1, <1>3, RingConstants
  <2>. QED BY <1>1, <1>2, <1>7, <2>1, <2>2
<1>12. Stuck(p)'
  BY <1>1, <1>3, <1>7, <1>8, <1>9, <1>10, <1>11 DEF Stuck, Idle
<1>. QED BY <1>5, <1>12

\* Until the next tx_clear nothing is sent and nothing reaped, and the queue
\* fills up to the entry posted behind the NIC.
LEMMA StuckNext ==
  ASSUME Sound, NEW e, Stuck(e), XmitPost \/ NicDone \/ PollTx \/ QuietStep
  PROVE  Stuck(e)' /\ (XmitPost => xmit.entry \notin SkbSet)
<1>1. /\ cur_tx \in Idx /\ dirty_tx \in Idx /\ e \in 1 .. NUM_TX_DESC - 1
      /\ cur_tx \in 1 .. e /\ dirty_tx \in 0 .. cur_tx
  BY RingTypes, RingConstants DEF Sound, Stuck
<1>2. CASE XmitPost
  <2>. DEFINE p == xmit.entry
  <2>1. p = cur_tx /\ p \in Entries /\ p \notin OwnSet
    <3>1. p \in Entries /\ xmit.pc = "entered" /\ ~TxDescArray[p].own
      BY <1>2 DEF XmitPost, XmitMustStop, Sound, TypeInv, TypeOK
    <3>. QED BY <3>1 DEF Stuck, OwnSet
  <2>2. /\ tx_skb' = [tx_skb EXCEPT ![p] = [skb |-> xmit.skb, len |-> 1]]
        /\ TxDescArray' = [TxDescArray EXCEPT ![p] = TxWord(p, xmit.skb)]
        /\ cur_tx' = (cur_tx + 1) % IdxMod /\ dirty_tx' = dirty_tx
        /\ nic' = Notify(nic) /\ xmit' = Idle
        /\ xmit.skb # NULL
    BY <1>2, Constants DEF XmitPost, Sound, TypeInv, XmitHasSkb
  <2>3. nic'.cur = 0 /\ nic'.buf = NULL
    BY <2>2 DEF Notify, Sound, TypeInv, TypeOK, Stuck
  <2>. HIDE DEF p
  <2>4. SkbSet' = SkbSet \cup {p}
    BY <2>1, <2>2 DEF SkbSet, Sound, TypeInv, TypeOK
  <2>5. OwnSet' = OwnSet \cup {p}
    BY <2>1, <2>2 DEF OwnSet, Sound, TypeInv, TypeOK, TxWord
  <2>6. cur_tx + 1 \in 0 .. IdxMod - 1 /\ cur_tx + 1 \in 1 .. e /\ p # 0
    <3>1. p # e
      BY <2>1 DEF Stuck
    <3>. QED BY <1>1, <2>1, <3>1, RingConstants
  <2>7. cur_tx' = cur_tx + 1
    BY <2>2, <2>6, RingConstants, ModSmall
  <2>8. dirty_tx' <= cur_tx' /\ 1 <= cur_tx' /\ cur_tx' <= e
    BY <1>1, <2>2, <2>6, <2>7
  <2>9. Stuck(e)'
    BY <2>2, <2>3, <2>4, <2>5, <2>6, <2>8 DEF Stuck, Idle
  <2>. QED BY <2>1, <2>9 DEF Stuck, p
<1>3. CASE NicDone
  BY <1>3 DEF NicDone, Stuck
<1>4. CASE PollTx
  <2>1. PICK n \in 0 .. TxLeft : TxInterrupt(n)
    BY <1>4 DEF PollTx
  <2>2. TxLeft = cur_tx - dirty_tx
    <3>1. cur_tx - dirty_tx \in 0 .. IdxMod - 1
      BY <1>1, RingConstants
    <3>. QED BY <3>1, RingConstants, ModSmall DEF TxLeft
  <2>3. dirty_tx + n \in 0 .. cur_tx /\ dirty_tx + n \in 0 .. IdxMod - 1
    BY <1>1, <2>2, RingConstants
  <2>4. dirty_tx' = dirty_tx + n
    <3>1. (dirty_tx + n) % IdxMod = dirty_tx + n
      BY <2>3, RingConstants, ModSmall
    <3>. QED BY <2>1, <3>1 DEF TxInterrupt
  <2>5. /\ Reaped(n) \subseteq Entries /\ Emptied(Reaped(n))
        /\ \A f \in Reaped(n) : ~TxDescArray[f].own
    BY <2>1, ReapEmpties DEF Sound, TypeInv, OwnerInv
  <2>6. OwnSet' = OwnSet
    BY <2>5 DEF OwnSet, Emptied
  <2>7. SkbSet' = SkbSet
    <3>1. SkbSet' = SkbSet \ Reaped(n)
      BY <2>5 DEF SkbSet, Emptied
    <3>2. \A f \in Reaped(n) : f \notin OwnSet
      BY <2>5 DEF OwnSet
    <3>. QED BY <3>1, <3>2 DEF Stuck
  <2>8. /\ UNCHANGED <<cur_tx, xmit>> /\ nic'.cur = nic.cur /\ nic'.buf = nic.buf
    BY <1>4, <2>1 DEF PollTx, TxInterrupt, Notify, Sound, TypeInv, TypeOK
  <2>9. dirty_tx' <= cur_tx
    BY <2>3, <2>4
  <2>10. ~XmitPost
    BY <2>8 DEF XmitPost, Idle
  <2>. QED BY <2>6, <2>7, <2>8, <2>9, <2>10 DEF Stuck
<1>5. CASE QuietStep
  <2>1. UNCHANGED ring
    BY <1>5 DEF QuietStep, XmitEnter, XmitBusy, Interrupt, PollComplete, PollUnmask,
                LinkUp, NicFetch, Cable, LinkWatch, vars
  <2>2. SkbSet' = SkbSet /\ OwnSet' = OwnSet
    BY <2>1 DEF SkbSet, OwnSet, ring
  <2>3. nic'.cur = 0 /\ nic'.buf = NULL
    <3>1. CASE NicFetch
      <4>1. ~TxDescArray[nic.cur].own
        BY RingTypes DEF Sound, Stuck, OwnSet
      <4>2. nic' = [nic EXCEPT !.npq = FALSE]
        BY <3>1, <4>1 DEF NicFetch
      <4>. QED BY <4>2 DEF Sound, TypeInv, TypeOK, Stuck
    <3>2. CASE LinkUp
      BY <3>2 DEF LinkUp, HwInit, HwReset
    <3>3. CASE ~NicFetch /\ ~LinkUp
      <4>1. UNCHANGED nic
        BY <1>5, <3>3 DEF QuietStep, XmitEnter, XmitBusy, Interrupt, PollComplete,
                          PollUnmask, Cable, LinkWatch, vars
      <4>. QED BY <4>1 DEF Stuck
    <3>. QED BY <3>1, <3>2, <3>3
  <2>4. xmit'.pc = "entered" => xmit'.entry = cur_tx
    <3>1. CASE XmitEnter
      <4>1. cur_tx % NUM_TX_DESC = cur_tx
        BY <1>1, RingConstants, ModSmall
      <4>. QED BY <3>1, <4>1 DEF XmitEnter
    <3>2. CASE XmitBusy
      BY <3>2 DEF XmitBusy, Idle
    <3>3. CASE ~XmitEnter /\ ~XmitBusy
      <4>1. UNCHANGED xmit
        BY <1>5, <3>3 DEF QuietStep, Interrupt, PollComplete, PollUnmask, LinkUp,
                          NicFetch, Cable, LinkWatch, vars
      <4>. QED BY <4>1 DEF Stuck
    <3>. QED BY <3>1, <3>2, <3>3
  <2>5. ~XmitPost
    <3>1. ASSUME XmitPost PROVE FALSE
      <4>1. cur_tx' = (cur_tx + 1) % IdxMod /\ cur_tx' = cur_tx
        BY <2>1, <3>1 DEF XmitPost, ring
      <4>2. cur_tx + 1 \in 0 .. IdxMod - 1
        BY <1>1, RingConstants
      <4>3. (cur_tx + 1) % IdxMod = cur_tx + 1
        BY <4>2, RingConstants, ModSmall
      <4>. QED BY <1>1, <4>1, <4>3
    <3>. QED BY <3>1
  <2>. QED BY <2>1, <2>2, <2>3, <2>4, <2>5 DEF Stuck, ring
<1>. QED BY <1>2, <1>3, <1>4, <1>5

\* Every step keeps every live buffer in the ring.
LEMMA FlapNext ==
  ASSUME ~Watchdog, Sound, Sound', FlapInv, ClearReaches, [Next]_vars
  PROVE  FlapInv'
<1>0. /\ TypeInv /\ TypeInv' /\ TypeOK /\ TypeOK' /\ OwnerInv /\ DescMatchesInfo
      /\ DmaInv /\ AllHeld
  BY DEF Sound, TypeInv, OwnerInv, FlapInv
<1>1. CASE LinkDown
  <2>1. Normal(0)'
    BY <1>1, DownNormal
  <2>2. AllHeld'
    BY <1>0, <1>1, ClearEmpties, EmptyHeld DEF LinkDown
  <2>. QED BY <2>1, <2>2 DEF FlapInv
<1>2. CASE XmitPost
  <2>1. AllHeld' /\ ((\E s : Normal(s)') \/ (\E e : Stuck(e)'))
    <3>1. CASE \E e : Stuck(e)
      <4>1. PICK e : Stuck(e)
        BY <3>1
      <4>2. Stuck(e)' /\ xmit.entry \notin SkbSet
        BY <1>2, <4>1, StuckNext
      <4>. QED BY <1>0, <1>2, <4>2, PostHeld
    <3>2. CASE \E s : Normal(s)
      <4>1. PICK s : Normal(s)
        BY <3>2
      <4>2. CASE EntryIsCur
        <5>1. Normal(s)' /\ xmit.entry \notin SkbSet
          BY <1>0, <1>2, <4>1, <4>2, PostNormal DEF EntryIsCur
        <5>. QED BY <1>0, <1>2, <5>1, PostHeld
      <4>3. CASE ~EntryIsCur
        <5>1. PICK p : p = xmit.entry
          OBVIOUS
        <5>2. Stuck(p)' /\ xmit.entry \notin SkbSet
          BY <1>2, <4>1, <4>3, <5>1, StalePost
        <5>. QED BY <1>0, <1>2, <5>2, PostHeld
      <4>. QED BY <4>2, <4>3
    <3>. QED BY <3>1, <3>2 DEF FlapInv
  <2>. QED BY <2>1 DEF FlapInv
<1>3. CASE NicDone \/ PollTx \/ QuietStep
  <2>1. (\E s : Normal(s)') \/ (\E e : Stuck(e)')
    <3>1. CASE \E e : Stuck(e)
      BY <1>3, <3>1, StuckNext
    <3>2. CASE \E s : Normal(s)
      <4>1. PICK s : Normal(s)
        BY <3>2
      <4>2. CASE NicDone
        BY <1>0, <4>1, <4>2, DoneNormal
      <4>3. CASE PollTx
        <5>1. PICK n \in 0 .. TxLeft : TxInterrupt(n)
          BY <4>3 DEF PollTx
        <5>2. Normal(s - n)'
          BY <1>0, <4>1, <4>3, <5>1, PollNormal
        <5>. QED BY <5>2
      <4>4. CASE QuietStep
        BY <1>0, <4>1, <4>4, QuietNormal
      <4>. QED BY <1>3, <4>2, <4>3, <4>4
    <3>. QED BY <3>1, <3>2 DEF FlapInv
  <2>2. AllHeld'
    <3>1. CASE PollTx
      <4>1. PICK n \in 0 .. TxLeft : TxInterrupt(n)
        BY <3>1 DEF PollTx
      <4>. QED BY <1>0, <4>1, ReapEmpties, EmptyHeld
    <3>2. CASE NicDone \/ QuietStep
      <4>1. UNCHANGED <<tx_skb, live>>
        BY <3>2 DEF NicDone, QuietStep, XmitEnter, XmitBusy, Interrupt, PollComplete,
                    PollUnmask, LinkUp, NicFetch, Cable, LinkWatch, vars, ring
      <4>. QED BY <1>0, <4>1 DEF AllHeld
    <3>. QED BY <1>3, <3>1, <3>2
  <2>. QED BY <2>1, <2>2 DEF FlapInv
<1>4. ~TxTimeout /\ ~TaskQuiesce /\ ~TaskRecover /\ ~TaskRetry
  BY <1>0 DEF TxTimeout, TaskQuiesce, TaskRecover, TaskRetry, DmaInv
<1>. QED BY <1>1, <1>2, <1>3, <1>4 DEF Next, QuietStep

\* What the driver took and has not freed is what the ring holds.
LEMMA HeldIsAccounted == Sound /\ AllHeld => BuffersAccounted
<1>. SUFFICES ASSUME Sound, AllHeld PROVE BuffersAccounted
  OBVIOUS
<1>1. HeldLive /\ NULL \notin live
  BY Constants DEF Sound, OwnerInv, TypeInv, TypeOK
<1>2. live = {tx_skb[e].skb : e \in Entries} \ {NULL}
  BY <1>1 DEF HeldLive, AllHeld
<1>. QED BY <1>1, <1>2 DEF HeldLive, BuffersAccounted

\* While the watchdog does not fire no buffer is lost or held twice, however
\* often the link flaps and whatever a start_xmit does that the loss of the
\* link overtook, as long as tx_clear is not called with dirty_tx so close to
\* the wrap that its loop is empty.
THEOREM NoBufferLost ==
  ~Watchdog => (Spec /\ []ClearReaches => []BuffersAccounted)
<1>. SUFFICES ASSUME ~Watchdog PROVE Spec /\ []ClearReaches => []BuffersAccounted
  OBVIOUS
<1>1. Sound /\ Sound' /\ FlapInv /\ ClearReaches /\ [Next]_vars => FlapInv'
  BY FlapNext
<1>2. Init => FlapInv
  BY NormalInit DEF Init, FlapInv, AllHeld
<1>3. Spec => []Sound
  BY OwnerAlways, DmaAlways, PTL DEF Sound
<1>4. Sound /\ FlapInv => BuffersAccounted
  BY HeldIsAccounted DEF FlapInv
<1>. QED BY <1>1, <1>2, <1>3, <1>4, PTL DEF Spec

\* While the link does not flap either, no buffer is lost or held twice
\* without any condition on the indexes: they may wrap.
THEOREM NoBufferLostWhileUp ==
  ~LinkFlaps /\ ~Watchdog => (Spec => []BuffersAccounted)
<1>. SUFFICES ASSUME ~LinkFlaps, ~Watchdog PROVE Spec => []BuffersAccounted
  OBVIOUS
<1>1. FirmInv => ClearReaches
  BY DEF FirmInv, ClearReaches
<1>2. Spec /\ []ClearReaches => []BuffersAccounted
  BY NoBufferLost
<1>. QED BY <1>1, <1>2, FirmAlways, PTL

-----------------------------------------------------------------------------
(***************************************************************************)
(* The refinement: with the packets between the indexes as the queue and   *)
(* the number s of those sent as the mark in it, start_xmit accepts, the   *)
(* NIC sends, rtl8101_tx_interrupt gives back, and nothing else counts.    *)
(***************************************************************************)

\* A function on 1 .. n is a sequence.
LEMMA FunIsSeq ==
  ASSUME NEW S, NEW n \in Nat, NEW f \in [1 .. n -> S]
  PROVE  f \in Seq(S) /\ Len(f) = n
  OBVIOUS

\* The queue is a sequence of buffers, in the order of the ring.
LEMMA HeldIs ==
  TypeInv => /\ HeldPackets \in Seq(Skbs \cup {NULL}) /\ Len(HeldPackets) = TxLeft
             /\ \A i \in 1 .. TxLeft :
                  HeldPackets[i] = tx_skb[(dirty_tx + (i - 1)) % NUM_TX_DESC].skb
<1>. SUFFICES ASSUME TypeInv
     PROVE  /\ HeldPackets \in Seq(Skbs \cup {NULL}) /\ Len(HeldPackets) = TxLeft
            /\ \A i \in 1 .. TxLeft :
                 HeldPackets[i] = tx_skb[(dirty_tx + (i - 1)) % NUM_TX_DESC].skb
  OBVIOUS
<1>1. dirty_tx \in Idx /\ TxLeft \in Nat
  BY RingTypes
<1>2. ASSUME NEW i \in 1 .. TxLeft
      PROVE  /\ EntryAt(i - 1) = (dirty_tx + (i - 1)) % NUM_TX_DESC
             /\ tx_skb[EntryAt(i - 1)].skb \in Skbs \cup {NULL}
  <2>1. i - 1 \in Int /\ dirty_tx + (i - 1) \in Int
    BY <1>1, RingConstants
  <2>2. EntryAt(i - 1) = (dirty_tx + (i - 1)) % NUM_TX_DESC
    BY <1>1, <2>1, EntryAtIs DEF EntryAt
  <2>3. EntryAt(i - 1) \in Entries
    BY <2>1, <2>2, RingConstants, ModType
  <2>. QED BY <2>2, <2>3 DEF TypeInv, TypeOK
<1>3. HeldPackets \in [1 .. TxLeft -> Skbs \cup {NULL}]
  BY <1>2 DEF HeldPackets
<1>4. HeldPackets \in Seq(Skbs \cup {NULL}) /\ Len(HeldPackets) = TxLeft
  BY <1>1, <1>3, FunIsSeq
<1>. QED BY <1>2, <1>4 DEF HeldPackets

\* The mark in the queue is the number of packets sent.
LEMMA SentIs == \A s : TypeInv /\ Normal(s) => SentPackets = s
<1>. SUFFICES ASSUME NEW s, TypeInv, Normal(s) PROVE SentPackets = s
  OBVIOUS
<1>1. /\ dirty_tx \in Idx /\ TxLeft \in 0 .. NUM_TX_DESC /\ s \in 0 .. TxLeft
      /\ OwnSet = Seg(dirty_tx + s, TxLeft - s)
  BY RingTypes, RingConstants DEF Normal, PlaceAt, RoomAt
<1>2. ASSUME NEW k \in 0 .. TxLeft - 1
      PROVE  ~TxDescArray[EntryAt(k)].own <=> k < s
  <2>1. k \in Int /\ dirty_tx + k \in Int
    BY <1>1, RingConstants
  <2>2. EntryAt(k) = (dirty_tx + k) % NUM_TX_DESC
    BY <1>1, <2>1, EntryAtIs DEF EntryAt
  <2>3. EntryAt(k) \in Entries
    BY <2>1, <2>2, RingConstants, ModType
  <2>. DEFINE L == TxLeft
  <2>4. L \in 0 .. NUM_TX_DESC /\ s \in 0 .. L /\ k \in 0 .. L - 1
    BY <1>1
  <2>. HIDE DEF L
  <2>5. (dirty_tx + k) % NUM_TX_DESC \in Seg(dirty_tx + s, L - s) <=> k >= s
    BY <1>1, <2>4, OwnedFrom
  <2>6. EntryAt(k) \in OwnSet <=> k >= s
    BY <1>1, <2>2, <2>5 DEF L
  <2>7. TxDescArray[EntryAt(k)].own <=> k >= s
    BY <2>3, <2>6 DEF OwnSet
  <2>. QED BY <1>1, <2>7
<1>3. {k \in 0 .. TxLeft - 1 : ~TxDescArray[EntryAt(k)].own} = 0 .. s - 1
  BY <1>1, <1>2
<1>4. Cardinality(0 .. s - 1) = s
  <2>1. s \in Nat /\ 0 \in Int /\ s - 1 \in Int
    BY <1>1
  <2>2. Cardinality(0 .. s - 1) = IF 0 > s - 1 THEN 0 ELSE (s - 1) - 0 + 1
    BY <2>1, FS_Interval
  <2>. QED BY <2>1, <2>2
<1>. QED BY <1>3, <1>4 DEF SentPackets

\* start_xmit accepts a packet.
LEMMA PostAccepts ==
  ASSUME Sound, Sound', NEW s, Normal(s), XmitPost, EntryIsCur,
         SentPackets = s, HeldPackets' \in Seq(Skbs \cup {NULL}),
         Len(HeldPackets') = TxLeft',
         \A i \in 1 .. TxLeft' :
           HeldPackets'[i] = tx_skb'[(dirty_tx' + (i - 1)) % NUM_TX_DESC].skb,
         SentPackets' = s
  PROVE  \E p \in Skbs : Fifo!Accept(p)
<1>. DEFINE p == xmit.skb
            q == HeldPackets
            r == HeldPackets'
<1>0. TypeInv /\ TypeInv'
  BY DEF Sound
<1>1. /\ TxLeft' = TxLeft + 1 /\ cur_tx % NUM_TX_DESC \notin SkbSet
      /\ TxLeft < Full /\ xmit.entry = cur_tx % NUM_TX_DESC
  BY <1>0, PostNormal DEF EntryIsCur
<1>2. /\ q \in Seq(Skbs \cup {NULL}) /\ Len(q) = TxLeft
      /\ \A i \in 1 .. TxLeft : q[i] = tx_skb[(dirty_tx + (i - 1)) % NUM_TX_DESC].skb
  BY <1>0, HeldIs
<1>3. /\ cur_tx \in Idx /\ dirty_tx \in Idx /\ TxLeft \in Nat /\ xmit.entry \in Entries
      /\ SkbSet = Seg(dirty_tx, TxLeft)
  BY <1>0, RingTypes DEF Normal, PlaceAt
<1>4. /\ tx_skb' = [tx_skb EXCEPT ![xmit.entry] = [skb |-> p, len |-> 1]]
      /\ dirty_tx' = dirty_tx /\ p \in Skbs /\ p \notin live /\ p # NULL
  BY <1>0, Constants DEF XmitPost, TypeInv, XmitHasSkb, Sound, OwnerInv, HeldLive
<1>5. ASSUME NEW i \in 1 .. TxLeft
      PROVE  (dirty_tx + (i - 1)) % NUM_TX_DESC \in SkbSet
  <2>1. i - 1 \in 0 .. TxLeft - 1
    BY <1>3
  <2>. QED BY <1>3, <2>1 DEF Seg, Segment
<1>6. /\ tx_skb'[xmit.entry].skb = p
      /\ \A e \in SkbSet : tx_skb'[e] = tx_skb[e]
  BY <1>0, <1>1, <1>3, <1>4 DEF SkbSet, TypeInv, TypeOK
<1>. HIDE DEF p, q, r
<1>7. \A i \in 1 .. TxLeft : q[i] # p
  <2>1. \A e \in SkbSet : tx_skb[e].skb \in live
    BY DEF Sound, OwnerInv, HeldLive, SkbSet
  <2>. QED BY <1>2, <1>4, <1>5, <2>1
<1>8. \A i \in 1 .. TxLeft : r[i] = q[i]
  <2>1. SUFFICES ASSUME NEW i \in 1 .. TxLeft PROVE r[i] = q[i]
    OBVIOUS
  <2>2. i \in 1 .. TxLeft'
    BY <1>1, <1>3
  <2>. QED BY <1>2, <1>4, <1>5, <1>6, <2>2 DEF r
<1>9. r[TxLeft + 1] = p
  <2>1. TxLeft + 1 \in 1 .. TxLeft' /\ (TxLeft + 1) - 1 = TxLeft
    BY <1>1, <1>3
  <2>2. (dirty_tx + TxLeft) % NUM_TX_DESC = xmit.entry
    BY <1>1, <1>3, CurAtEnd DEF TxLeft
  <2>. QED BY <1>4, <1>6, <2>1, <2>2 DEF r
<1>10. r = Append(q, p)
  <2>. DEFINE S == Skbs \cup {NULL}
              a == Append(q, p)
  <2>1. p \in S /\ q \in Seq(S) /\ r \in Seq(S)
    BY <1>2, <1>4 DEF r
  <2>2. /\ a \in Seq(S) /\ Len(a) = Len(q) + 1
        /\ \A i \in 1 .. Len(q) : a[i] = q[i]
        /\ a[Len(q) + 1] = p
    BY <2>1, AppendProperties
  <2>. HIDE DEF S, a
  <2>3. Len(r) = Len(a) /\ Len(r) = TxLeft + 1
    BY <1>1, <1>2, <2>2 DEF r
  <2>4. \A i \in 1 .. Len(r) : r[i] = a[i]
    <3>1. SUFFICES ASSUME NEW i \in 1 .. TxLeft + 1 PROVE r[i] = a[i]
      BY <2>3
    <3>2. CASE i = TxLeft + 1
      BY <1>2, <1>9, <2>2, <3>2
    <3>3. CASE i # TxLeft + 1
      <4>1. i \in 1 .. TxLeft
        BY <1>3, <3>3
      <4>. QED BY <1>2, <1>8, <2>2, <4>1
    <3>. QED BY <3>2, <3>3
  <2>5. r = a
    BY <2>1, <2>2, <2>3, <2>4, SeqEqual
  <2>. QED BY <2>5 DEF a
<1>11. Fifo!Accept(p)
  <2>1. Len(q) < NUM_TX_DESC - MAX_SKB_FRAGS
    BY <1>1, <1>2 DEF Full
  <2>. QED BY <1>2, <1>7, <1>10, <2>1 DEF Fifo!Accept, q, r
<1>. QED BY <1>4, <1>11

\* rtl8101_tx_interrupt gives the n packets it reaps back, or nothing.
LEMMA PollGivesBack ==
  ASSUME Sound, Sound', NEW s, Normal(s), PollTx,
         NEW n \in 0 .. TxLeft, TxInterrupt(n),
         SentPackets = s, HeldPackets' \in Seq(Skbs \cup {NULL}),
         Len(HeldPackets') = TxLeft',
         \A i \in 1 .. TxLeft' :
           HeldPackets'[i] = tx_skb'[(dirty_tx' + (i - 1)) % NUM_TX_DESC].skb,
         SentPackets' = s - n
  PROVE  (\E k \in 1 .. SentPackets : Fifo!GiveBack(k)) \/ UNCHANGED Fifo!fifo
<1>. DEFINE q == HeldPackets
            r == HeldPackets'
            S == Skbs \cup {NULL}
<1>0. TypeInv /\ TypeInv' /\ OwnerInv
  BY DEF Sound
<1>1. n <= s /\ TxLeft' = TxLeft - n /\ Normal(s - n)'
  BY <1>0, PollNormal
<1>2. /\ q \in Seq(S) /\ Len(q) = TxLeft
      /\ \A i \in 1 .. TxLeft : q[i] = tx_skb[(dirty_tx + (i - 1)) % NUM_TX_DESC].skb
  BY <1>0, HeldIs
<1>3. /\ dirty_tx \in Idx /\ TxLeft \in Nat /\ s \in 0 .. TxLeft
      /\ dirty_tx' = (dirty_tx + n) % IdxMod
      /\ SkbSet' = Seg(dirty_tx', TxLeft')
  BY <1>0, <1>1, RingTypes DEF Normal, PlaceAt, TxInterrupt
<1>4. \A e \in SkbSet' : tx_skb'[e] = tx_skb[e]
  <2>1. Emptied(Reaped(n))
    BY <1>0, ReapEmpties DEF TypeInv, OwnerInv
  <2>. QED BY <2>1 DEF Emptied, SkbSet
<1>. HIDE DEF q, r, S
<1>5. ASSUME NEW i \in 1 .. TxLeft - n
      PROVE  r[i] = q[n + i] /\ n + i \in 1 .. TxLeft
  <2>1. i - 1 \in 0 .. TxLeft' - 1 /\ n + i \in 1 .. TxLeft /\ i \in 1 .. TxLeft'
        /\ i - 1 \in Int /\ dirty_tx + n \in Int
    BY <1>1, <1>3, RingConstants
  <2>. DEFINE e == (dirty_tx' + (i - 1)) % NUM_TX_DESC
  <2>2. e \in SkbSet'
    BY <1>3, <2>1 DEF Seg, Segment
  <2>3. e = (dirty_tx + ((n + i) - 1)) % NUM_TX_DESC
    <3>. DEFINE f == (dirty_tx + n) % IdxMod
    <3>1. f \in Int /\ f % NUM_TX_DESC = (dirty_tx + n) % NUM_TX_DESC
      <4>1. f \in Idx /\ 0 \in Nat
        BY <2>1, IdxWrap
      <4>2. f \in Int
        BY <4>1, RingConstants
      <4>3. n \in Int
        BY <1>3
      <4>. QED BY <1>3, <4>2, <4>3, EntryAtIs
    <3>. HIDE DEF f
    <3>2. ((f % NUM_TX_DESC) + (i - 1)) % NUM_TX_DESC = (f + (i - 1)) % NUM_TX_DESC
      BY <2>1, <3>1, RingConstants, ModAdd
    <3>3. (((dirty_tx + n) % NUM_TX_DESC) + (i - 1)) % NUM_TX_DESC
            = ((dirty_tx + n) + (i - 1)) % NUM_TX_DESC
      BY <2>1, RingConstants, ModAdd
    <3>4. (dirty_tx + n) + (i - 1) = dirty_tx + ((n + i) - 1)
      BY <1>3, <2>1, RingConstants
    <3>. QED BY <1>3, <3>1, <3>2, <3>3, <3>4 DEF f
  <2>4. r[i] = tx_skb[e].skb
    BY <1>4, <2>1, <2>2 DEF r
  <2>. HIDE DEF e
  <2>. QED BY <1>2, <2>1, <2>3, <2>4
<1>6. r \in Seq(S) /\ Len(r) = TxLeft - n
  BY <1>1 DEF r, S
<1>7. CASE n = 0
  <2>1. TxLeft - n = TxLeft /\ s - n = s
    BY <1>3, <1>7
  <2>2. \A i \in 1 .. TxLeft : r[i] = q[i]
    <3>1. \A i \in 1 .. TxLeft : n + i = i
      BY <1>7
    <3>. QED BY <1>5, <2>1, <3>1
  <2>3. r = q
    BY <1>2, <1>6, <2>1, <2>2, SeqEqual
  <2>. QED BY <2>1, <2>3 DEF q, r, Fifo!fifo
<1>8. CASE n # 0
  <2>1. n \in 1 .. s /\ n + 1 \in Int /\ Len(q) \in Int
    BY <1>1, <1>2, <1>3, <1>8
  <2>. DEFINE b == SubSeq(q, n + 1, Len(q))
  <2>2. /\ b \in Seq(S)
        /\ Len(b) = IF n + 1 <= Len(q) THEN Len(q) - (n + 1) + 1 ELSE 0
        /\ \A i \in 1 .. Len(q) - (n + 1) + 1 : b[i] = q[(n + 1) + i - 1]
    <3>1. \A i \in n + 1 .. Len(q) : q[i] \in S
      <4>1. \A i \in n + 1 .. Len(q) : i \in 1 .. Len(q)
        BY <2>1
      <4>. QED BY <1>2, <4>1, ElementOfSeq
    <3>. QED BY <2>1, <3>1, SubSeqProperties
  <2>. HIDE DEF b
  <2>3. Len(b) = TxLeft - n
    BY <1>1, <1>2, <1>3, <2>1, <2>2
  <2>4. \A i \in 1 .. TxLeft - n : b[i] = q[n + i]
    <3>1. SUFFICES ASSUME NEW i \in 1 .. TxLeft - n PROVE b[i] = q[n + i]
      OBVIOUS
    <3>2. i \in 1 .. Len(q) - (n + 1) + 1 /\ (n + 1) + i - 1 = n + i
      BY <1>2, <1>3, <2>1
    <3>. QED BY <2>2, <3>2
  <2>5. r = b
    <3>1. \A i \in 1 .. Len(r) : r[i] = b[i]
      BY <1>5, <1>6, <2>4
    <3>. QED BY <1>6, <2>2, <2>3, <3>1, SeqEqual
  <2>6. Fifo!GiveBack(n)
    BY <2>1, <2>5 DEF Fifo!GiveBack, b, q, r
  <2>. QED BY <2>1, <2>6
<1>. QED BY <1>7, <1>8

\* Every step of the ring is a step of the queue.
LEMMA FifoStep ==
  ASSUME ~LinkFlaps, ~Watchdog, Sound, Sound', FirmInv, [Next]_vars,
         (\A s : TypeInv /\ Normal(s) => SentPackets = s)',
         (TypeInv =>
            /\ HeldPackets \in Seq(Skbs \cup {NULL}) /\ Len(HeldPackets) = TxLeft
            /\ \A i \in 1 .. TxLeft :
                 HeldPackets[i] = tx_skb[(dirty_tx + (i - 1)) % NUM_TX_DESC].skb)'
  PROVE  [Fifo!FifoNext]_(Fifo!fifo)
<1>0. TypeInv /\ TypeInv' /\ OwnerInv /\ DmaInv
  BY DEF Sound
<1>1. PICK s : Normal(s)
  BY DEF FirmInv
<1>2. SentPackets = s /\ s \in 0 .. TxLeft
  BY <1>0, <1>1, SentIs DEF Normal, PlaceAt
<1>3. /\ HeldPackets' \in Seq(Skbs \cup {NULL}) /\ Len(HeldPackets') = TxLeft'
      /\ \A i \in 1 .. TxLeft' :
           HeldPackets'[i] = tx_skb'[(dirty_tx' + (i - 1)) % NUM_TX_DESC].skb
  BY <1>0
<1>4. ASSUME NEW t, Normal(t)' PROVE SentPackets' = t
  BY <1>0, <1>4
<1>5. CASE XmitPost
  <2>1. EntryIsCur
    BY <1>5 DEF FirmInv, XmitPost
  <2>2. Normal(s)'
    BY <1>0, <1>1, <1>5, <2>1, PostNormal
  <2>3. \E p \in Skbs : Fifo!Accept(p)
    BY <1>1, <1>2, <1>3, <1>4, <1>5, <2>1, <2>2, PostAccepts
  <2>. QED BY <2>3 DEF Fifo!FifoNext
<1>6. CASE NicDone
  <2>1. Normal(s + 1)' /\ s < TxLeft
    BY <1>0, <1>1, <1>6, DoneNormal
  <2>2. SentPackets' = s + 1
    BY <1>4, <2>1
  <2>3. UNCHANGED <<cur_tx, dirty_tx, tx_skb>>
    BY <1>6 DEF NicDone
  <2>4. HeldPackets' = HeldPackets
    BY <2>3 DEF HeldPackets, EntryAt, TxLeft
  <2>5. SentPackets < Len(HeldPackets)
    BY <1>0, <1>2, <2>1, HeldIs
  <2>6. Fifo!Send
    BY <1>2, <2>2, <2>4, <2>5 DEF Fifo!Send
  <2>. QED BY <2>6 DEF Fifo!FifoNext
<1>7. CASE PollTx
  <2>1. PICK n \in 0 .. TxLeft : TxInterrupt(n)
    BY <1>7 DEF PollTx
  <2>2. Normal(s - n)'
    BY <1>0, <1>1, <1>7, <2>1, PollNormal
  <2>3. (\E k \in 1 .. SentPackets : Fifo!GiveBack(k)) \/ UNCHANGED Fifo!fifo
    BY <1>1, <1>2, <1>3, <1>4, <1>7, <2>1, <2>2, PollGivesBack
  <2>. QED BY <2>3 DEF Fifo!FifoNext
<1>8. CASE QuietStep
  <2>1. UNCHANGED ring
    BY <1>0, <1>1, <1>8, QuietNormal
  <2>2. HeldPackets' = HeldPackets /\ SentPackets' = SentPackets
    BY <2>1 DEF HeldPackets, SentPackets, EntryAt, TxLeft, ring
  <2>. QED BY <2>2 DEF Fifo!fifo
<1>. QED BY <1>5, <1>6, <1>7, <1>8, SteadySteps DEF FirmInv

\* While the link does not flap and the watchdog does not fire, the transmit
\* path is the queue TxFifo describes: every packet accepted is sent once and
\* in order, its buffer is given back only after it was sent, and the queue
\* never holds more than NUM_TX_DESC - MAX_SKB_FRAGS packets.
THEOREM RingIsFifo == ~LinkFlaps /\ ~Watchdog => (Spec => ImplementsFifo)
<1>. SUFFICES ASSUME ~LinkFlaps, ~Watchdog PROVE Spec => ImplementsFifo
  OBVIOUS
<1>1. Init => Fifo!FifoInit
  <2>. SUFFICES ASSUME Init PROVE Fifo!FifoInit
    OBVIOUS
  <2>1. TypeInv /\ Normal(0)
    BY TypeInit, NormalInit
  <2>2. SentPackets = 0
    BY <2>1, SentIs
  <2>3. TxLeft = 0
    BY RingConstants, ModSmall DEF Init, TxLeft
  <2>4. HeldPackets \in Seq(Skbs \cup {NULL}) /\ Len(HeldPackets) = 0
    BY <2>1, <2>3, HeldIs
  <2>5. HeldPackets = << >>
    BY <2>4, EmptySeq
  <2>. QED BY <2>2, <2>5 DEF Fifo!FifoInit
<1>2. /\ (\A s : TypeInv /\ Normal(s) => SentPackets = s)'
      /\ (TypeInv =>
            /\ HeldPackets \in Seq(Skbs \cup {NULL}) /\ Len(HeldPackets) = TxLeft
            /\ \A i \in 1 .. TxLeft :
                 HeldPackets[i] = tx_skb[(dirty_tx + (i - 1)) % NUM_TX_DESC].skb)'
  BY SentIs, HeldIs, PTL
<1>3. Sound /\ Sound' /\ FirmInv /\ [Next]_vars => [Fifo!FifoNext]_(Fifo!fifo)
  BY <1>2, FifoStep
<1>. QED BY <1>1, <1>3, FirmAlways, PTL DEF Spec, ImplementsFifo, Fifo!FifoSpec

=============================================================================
