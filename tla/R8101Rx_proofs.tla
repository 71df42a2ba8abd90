--------------------------- MODULE R8101Rx_proofs ---------------------------
(***************************************************************************)
(* Proofs about the receive side of the RTL8101E driver, for every ring    *)
(* size, index width, budget and set of frames: type correctness; that the *)
(* NIC owns no descriptor without a buffer as long as the reset task does  *)
(* not run; and that the poll and the task are not in rx_interrupt         *)
(* together while the link does not flap.                                  *)
(***************************************************************************)
EXTENDS R8101Rx, RingIndex, TLAPS

\* What the typing proofs need of the constants.
LEMMA Constants ==
  /\ NUM_RX_DESC \in Nat \ {0} /\ IdxMod \in Nat \ {0} /\ Budget \in Nat
  /\ 0 \in Entries /\ 0 \in Idx
  /\ Entries \subseteq Int /\ Idx \subseteq Nat
  BY RingAssumption DEF Entries, Idx

-----------------------------------------------------------------------------
(***************************************************************************)
(* Type correctness.  rx_left stays a natural number because the loop      *)
(* looks at an entry only while it is positive; the NIC stays inside the   *)
(* ring because rtl8101_mark_to_asic carries RingEnd over.                 *)
(***************************************************************************)
LeftPositive ==
  \A w \in Contexts : rx[w].pc \in {"error", "take"} => rx[w].left > 0

RingEndKept == \A e \in Entries : RxDescArray[e].eor <=> e = NUM_RX_DESC - 1

TypeInv == TypeOK /\ LeftPositive /\ RingEndKept

DescType == [own : BOOLEAN, eor : BOOLEAN, frame : Frames \cup {NULL, Bad}]

\* The entry a call of rtl8101_rx_interrupt is at lies in the ring.
LEMMA EntryType ==
  ASSUME TypeOK, NEW w \in Contexts
  PROVE  RxEntry(w) \in Entries
<1>1. rx[w] \in RxCall
  BY DEF TypeOK
<1>2. rx[w].cur \in Idx
  BY <1>1 DEF RxCall
<1>3. rx[w].cur \in Int
  BY <1>2 DEF Idx
<1>. QED BY <1>3, Constants, ModType DEF RxEntry, Entries

\* rtl8101_mark_to_asic keeps the type of a descriptor and its RingEnd bit.
LEMMA MarkType ==
  ASSUME NEW d \in DescType
  PROVE  MarkToAsic(d) \in DescType /\ MarkToAsic(d).eor = d.eor
  BY DEF DescType, MarkToAsic

\* Going on to the next entry keeps the types of the private copies.
LEMMA AdvanceType ==
  ASSUME NEW r \in RxCall, r.left > 0
  PROVE  /\ RxAdvance(r) \in RxCall
         /\ RxAdvance(r).pc = r.pc
         /\ [RxAdvance(r) EXCEPT !.pc = "loop"] \in RxCall
<1>1. r.cur + 1 \in Int
  <2>1. r.cur \in Idx
    BY DEF RxCall
  <2>. QED BY <2>1 DEF Idx
<1>2. (r.cur + 1) % IdxMod \in Idx
  BY <1>1, Constants, ModType DEF Idx
<1>3. r.left - 1 \in Nat
  BY DEF RxCall
<1>. QED BY <1>2, <1>3 DEF RxAdvance, RxCall

\* A call that only goes on to another place, outside the loop, keeps its
\* type.
LEMMA MoveType ==
  ASSUME TypeInv, NEW w \in Contexts,
         NEW c \in {"begin", "unmask"}, rx' = [rx EXCEPT ![w].pc = c]
  PROVE  rx' \in [Contexts -> RxCall] /\ LeftPositive'
<1>1. rx \in [Contexts -> RxCall]
  BY DEF TypeInv, TypeOK
<1>2. [rx[w] EXCEPT !.pc = c] \in RxCall
  BY <1>1 DEF RxCall
<1>3. rx' = [rx EXCEPT ![w] = [rx[w] EXCEPT !.pc = c]]
  BY <1>1
<1>4. rx' \in [Contexts -> RxCall]
  BY <1>1, <1>2, <1>3
<1>5. rx'[w].pc = c /\ \A v \in Contexts : v # w => rx'[v] = rx[v]
  BY <1>1, <1>2, <1>3 DEF RxCall
<1>. QED BY <1>4, <1>5 DEF TypeInv, LeftPositive

\* The state rtl8101_open leaves is well typed.
LEMMA TypeInit == Init => TypeInv
<1>. SUFFICES ASSUME Init PROVE TypeInv
  OBVIOUS
<1>. USE Constants
<1>1. TypeOK
  BY DEF Init, TypeOK, Returned, RxCall, IntrOn, HwInit
<1>2. LeftPositive
  BY DEF Init, LeftPositive, Returned
<1>3. RingEndKept
  BY DEF Init, RingEndKept
<1>. QED BY <1>1, <1>2, <1>3 DEF TypeInv

\* The steps of rtl8101_rx_interrupt keep the types.
LEMMA TypeRx ==
  ASSUME TypeInv, NEW w \in Contexts, RxInterrupt(w)
  PROVE  TypeInv'
<1>. USE Constants DEF TypeInv
<1>a. rx[w] \in RxCall /\ RxEntry(w) \in Entries
  BY EntryType DEF TypeOK
<1>b. /\ rx[w].cur \in Int /\ rx[w].start \in Int
      /\ cur_rx \in Int /\ dirty_rx \in Int
  <2>1. rx[w].cur \in Idx /\ rx[w].start \in Idx
    BY <1>a DEF RxCall
  <2>. QED BY <2>1 DEF TypeOK, Idx
<1>1. CASE RxBegin(w)
  <2>1. (NUM_RX_DESC + dirty_rx - cur_rx) % IdxMod \in Nat
    BY ModType DEF TypeOK
  <2>2. RxBudget(w) \in Nat
    BY DEF RxBudget
  <2>3. RxLeft(w) \in Nat
    BY <2>1, <2>2 DEF RxLeft, Lower
  <2>4. [Returned EXCEPT !.pc = "loop", !.cur = cur_rx, !.left = RxLeft(w)] \in RxCall
    BY <2>3 DEF Returned, RxCall, TypeOK
  <2>. QED
    BY <1>1, <2>4 DEF RxBegin, TypeOK, LeftPositive, RingEndKept, idx, ring, Returned
<1>2. CASE RxLook(w)
  BY <1>2, <1>a DEF RxLook, RxMore, TypeOK, RxCall, LeftPositive, RingEndKept, idx, ring
<1>3. CASE RxError(w)
  <2>1. [RxAdvance(rx[w]) EXCEPT !.pc = "loop"] \in RxCall
    BY <1>3, <1>a, AdvanceType DEF RxError, LeftPositive
  <2>2. rx' \in [Contexts -> RxCall] /\ LeftPositive'
    BY <1>3, <2>1 DEF RxError, TypeOK, LeftPositive, RxAdvance, RxCall
  <2>3. RxDescArray' \in [Entries -> DescType] /\ RingEndKept'
    BY <1>3, <1>a, MarkType DEF RxError, TypeOK, DescType, RingEndKept
  <2>. QED
    BY <1>3, <2>2, <2>3 DEF RxError, TypeOK, DescType, idx
<1>4. CASE RxTake(w)
  <2>1. [RxAdvance(rx[w]) EXCEPT !.pc = "loop"] \in RxCall
    BY <1>4, <1>a, AdvanceType DEF RxTake, LeftPositive
  <2>2. rx' \in [Contexts -> RxCall] /\ LeftPositive'
    BY <1>4, <2>1 DEF RxTake, TypeOK, LeftPositive, RxAdvance, RxCall
  <2>. QED
    BY <1>4, <1>a, <2>2 DEF RxTake, TypeOK, RingEndKept, idx
<1>5. CASE RxCommit(w)
  <2>0. rx[w].cur - cur_rx \in Int
    BY <1>b
  <2>1. (rx[w].cur - cur_rx) % IdxMod \in Idx
    BY <2>0, ModType DEF Idx
  <2>. QED
    BY <1>5, <1>a, <2>1
       DEF RxCommit, Returned, TypeOK, RxCall, LeftPositive, RingEndKept, ring
<1>6. CASE RxRefill(w)
  <2>1. (cur_rx - dirty_rx) % IdxMod \in Nat
    BY ModType DEF TypeOK
  <2>2. rx'[w] \in RxCall /\ rx'[w].pc = "fill"
    BY <1>6, <1>a, <2>1 DEF RxRefill, TypeOK, RxCall
  <2>3. rx' \in [Contexts -> RxCall] /\ LeftPositive'
    BY <1>6, <2>2 DEF RxRefill, TypeOK, LeftPositive
  <2>. QED
    BY <1>6, <2>3 DEF RxRefill, TypeOK, RingEndKept, idx, ring
<1>7. CASE RxFill(w)
  <2>1. rx' \in [Contexts -> RxCall] /\ LeftPositive'
    BY <1>7, <1>a, AdvanceType DEF RxFill, TypeOK, LeftPositive
  <2>2. RxDescArray \in [Entries -> DescType] /\ rx_skbuff \in [Entries -> BOOLEAN]
    BY DEF TypeOK, DescType
  <2>3. CASE rx_skbuff[RxEntry(w)]
    BY <1>7, <2>1, <2>2, <2>3 DEF RxFill, TypeOK, DescType, RingEndKept, idx, ring
  <2>4. CASE ~rx_skbuff[RxEntry(w)]
    <3>1. /\ RxDescArray' = [RxDescArray EXCEPT ![RxEntry(w)] = MarkToAsic(@)]
          /\ rx_skbuff' = [rx_skbuff EXCEPT ![RxEntry(w)] = TRUE]
      BY <1>7, <2>4 DEF RxFill
    <3>2. RxDescArray' \in [Entries -> DescType] /\ RingEndKept'
      BY <1>a, <2>2, <3>1, MarkType DEF RingEndKept
    <3>. QED BY <1>7, <2>1, <2>2, <3>1, <3>2 DEF RxFill, TypeOK, DescType, idx
  <2>. QED BY <2>3, <2>4
<1>8. CASE RxFillEnd(w)
  <2>1. dirty_rx + RxDelta(rx[w]) \in Int
    BY <1>b DEF RxDelta
  <2>2. dirty_rx' \in Idx
    BY <1>8, <2>1, ModType DEF RxFillEnd, Idx
  <2>3. RxReturn(w) \in RxCall /\ RxReturn(w).pc \notin {"error", "take"}
    BY DEF RxReturn, Returned, RxCall
  <2>. QED
    BY <1>8, <2>2, <2>3 DEF RxFillEnd, TypeOK, LeftPositive, RingEndKept, ring
<1>. QED
  BY <1>1, <1>2, <1>3, <1>4, <1>5, <1>6, <1>7, <1>8 DEF RxInterrupt

\* Every step keeps the types.
LEMMA TypeNext == TypeInv /\ [Next]_vars => TypeInv'
<1>. SUFFICES ASSUME TypeInv, [Next]_vars PROVE TypeInv'
  OBVIOUS
<1>. USE Constants DEF TypeInv
<1>a. "poll" \in Contexts /\ "task" \in Contexts
  BY DEF Contexts
<1>1. CASE \E w \in Contexts : RxInterrupt(w)
  BY <1>1, TypeRx
<1>2. CASE Interrupt
  BY <1>2 DEF Interrupt, IntrOff, TypeOK, LeftPositive, RingEndKept, idx, ring
<1>3. CASE PollEnter
  BY <1>3, <1>a, MoveType DEF PollEnter, TypeOK, RingEndKept, idx, ring
<1>4. CASE PollComplete
  BY <1>4, <1>a, MoveType DEF PollComplete, TypeOK, RingEndKept, idx, ring
<1>5. CASE PollUnmask
  BY <1>5, <1>a
     DEF PollUnmask, Returned, TypeOK, RxCall, LeftPositive, RingEndKept, idx, ring
<1>6. CASE LinkUp
  BY <1>6 DEF LinkUp, HwInit, IntrOn, TypeOK, LeftPositive, RingEndKept, idx, ring
<1>7. CASE LinkDown
  BY <1>7 DEF LinkDown, HwReset, IntrOff, TypeOK, LeftPositive, RingEndKept, ring
<1>8. CASE TxTimeout
  BY <1>8 DEF TxTimeout, HwReset, IntrOff, TypeOK, LeftPositive, RingEndKept, idx, ring
<1>9. CASE TaskQuiesce
  BY <1>9, <1>a, MoveType DEF TaskQuiesce, IntrOff, TypeOK, RingEndKept, idx, ring
<1>10. CASE TaskRecover
  BY <1>10, <1>a
     DEF TaskRecover, HwInit, IntrOn, Returned, TypeOK, RxCall, LeftPositive,
         RingEndKept, ring
<1>11. CASE TaskRetry
  BY <1>11, <1>a
     DEF TaskRetry, Returned, TypeOK, RxCall, LeftPositive, RingEndKept, idx, ring
<1>12. CASE \E f \in Frames \cup {Bad} : NicStore(f)
  <2>1. PICK f \in Frames \cup {Bad} : NicStore(f)
    BY <1>12
  <2>2. nic.pos \in Entries
    BY DEF TypeOK
  <2>3. RxDescArray' \in [Entries -> DescType] /\ RingEndKept'
    <3>1. RxDescArray \in [Entries -> DescType]
      BY DEF TypeOK, DescType
    <3>2. RxDescArray' = [RxDescArray EXCEPT ![nic.pos] =
            [RxDescArray[nic.pos] EXCEPT !.own = FALSE, !.frame = f]]
      BY <2>1, <2>2, <3>1 DEF NicStore
    <3>3. [RxDescArray[nic.pos] EXCEPT !.own = FALSE, !.frame = f] \in DescType
      BY <2>2, <3>1 DEF DescType
    <3>4. RxDescArray' \in [Entries -> DescType]
      BY <2>2, <3>1, <3>2, <3>3
    <3>5. \A e \in Entries : RxDescArray'[e].eor = RxDescArray[e].eor
      BY <2>2, <3>1, <3>2 DEF DescType
    <3>. QED BY <3>4, <3>5 DEF RingEndKept
  <2>4. nic' \in [enb : BOOLEAN, pos : Entries]
    <3>1. nic.pos # NUM_RX_DESC - 1 => nic.pos + 1 \in Entries
      BY <2>2 DEF Entries
    <3>. QED BY <2>1, <2>2, <3>1 DEF NicStore, TypeOK, RingEndKept
  <2>5. intr' \in [mask : BOOLEAN, status : BOOLEAN]
    BY <2>1 DEF NicStore, TypeOK
  <2>. QED
    BY <2>1, <2>3, <2>4, <2>5 DEF NicStore, TypeOK, DescType, LeftPositive, idx
<1>13. CASE NicLose
  BY <1>13 DEF NicLose, TypeOK, LeftPositive, RingEndKept, idx, ring
<1>14. CASE Cable
  BY <1>14 DEF Cable, TypeOK, LeftPositive, RingEndKept, idx, ring
<1>15. CASE UNCHANGED vars
  BY <1>15 DEF vars, TypeOK, LeftPositive, RingEndKept, idx, ring
<1>. QED
  BY <1>1, <1>2, <1>3, <1>4, <1>5, <1>6, <1>7, <1>8, <1>9, <1>10, <1>11,
     <1>12, <1>13, <1>14, <1>15 DEF Next

\* The receive side is well typed whatever the environment does: the private
\* counters never go below zero and the NIC never walks off the ring.
THEOREM TypeCorrect == Spec => []TypeOK
<1>1. TypeInv => TypeOK
  BY DEF TypeInv
<1>. QED BY <1>1, TypeInit, TypeNext, PTL DEF Spec

-----------------------------------------------------------------------------
(***************************************************************************)
(* No DMA into a buffer that is gone, while the watchdog does not start    *)
(* the reset task (with it the poll may not be alone: RxAlone).  A         *)
(* descriptor goes back to the NIC on two paths: after an error, where the *)
(* buffer must still be there, and after a refill.  The status word stays  *)
(* behind when a buffer is handed to the stack, so the invariant has to    *)
(* say that such a word never reads as an error.                           *)
(***************************************************************************)
PollOnly == ~work /\ rx["task"].pc = "idle"

ErrorHasBuffer ==
  \A e \in Entries :
    RxDescArray[e].frame = Bad /\ ~RxDescArray[e].own => rx_skbuff[e]

LookedAt ==
  /\ rx["poll"].pc = "take" => /\ ~RxDescArray[RxEntry("poll")].own
                               /\ RxDescArray[RxEntry("poll")].frame # Bad
  /\ rx["poll"].pc = "error" => rx_skbuff[RxEntry("poll")]

OwnInv == TypeInv /\ PollOnly /\ ErrorHasBuffer /\ LookedAt /\ OwnHasBuffer

\* Every buffer is in place when rtl8101_open returns.
LEMMA OwnInit == Init => OwnInv
<1>. SUFFICES ASSUME Init PROVE OwnInv
  OBVIOUS
<1>1. TypeInv
  BY TypeInit
<1>2. PollOnly /\ LookedAt
  BY DEF Init, PollOnly, LookedAt, Returned, Contexts
<1>3. ErrorHasBuffer /\ OwnHasBuffer
  BY DEF Init, ErrorHasBuffer, OwnHasBuffer
<1>. QED BY <1>1, <1>2, <1>3 DEF OwnInv

\* Steps that leave the ring and the place of the poll alone.
LEMMA OwnUnchanged ==
  ASSUME OwnInv, TypeInv', PollOnly', UNCHANGED ring,
         rx'["poll"].pc \notin {"error", "take"} \/ rx'["poll"] = rx["poll"]
  PROVE  OwnInv'
<1>1. ErrorHasBuffer' /\ OwnHasBuffer'
  BY DEF OwnInv, ErrorHasBuffer, OwnHasBuffer, ring
<1>2. LookedAt'
  BY DEF OwnInv, LookedAt, RxEntry, ring
<1>. QED BY <1>1, <1>2 DEF OwnInv

\* The steps of rtl8101_rx_interrupt in the poll.
LEMMA OwnRx ==
  ASSUME OwnInv, TypeInv', RxInterrupt("poll")
  PROVE  OwnInv'
<1>. USE DEF OwnInv
<1>a. /\ RxEntry("poll") \in Entries /\ "poll" \in Contexts /\ "task" \in Contexts
      /\ rx \in [Contexts -> RxCall]
      /\ RxDescArray \in [Entries -> DescType]
      /\ rx_skbuff \in [Entries -> BOOLEAN]
  BY EntryType DEF TypeInv, TypeOK, DescType, Contexts
<1>b. rx'["task"] = rx["task"] /\ work' = work
  BY <1>a DEF RxInterrupt, RxBegin, RxLook, RxError, RxTake, RxCommit, RxRefill,
              RxFill, RxFillEnd
<1>c. PollOnly'
  BY <1>b DEF PollOnly
<1>1. CASE RxBegin("poll")
  <2>1. rx'["poll"].pc = "loop"
    BY <1>1, <1>a DEF RxBegin, Returned
  <2>. QED BY <1>1, <1>c, <2>1, OwnUnchanged DEF RxBegin
<1>2. CASE RxLook("poll")
  <2>1. /\ UNCHANGED ring
        /\ ~RxDescArray[RxEntry("poll")].own
        /\ rx'["poll"] = [rx["poll"] EXCEPT !.pc =
             IF RxDescArray[RxEntry("poll")].frame = Bad THEN "error" ELSE "take"]
    BY <1>2, <1>a DEF RxLook, RxMore
  <2>2. rx'["poll"].cur = rx["poll"].cur
    BY <1>a, <2>1 DEF RxCall
  <2>3. rx'["poll"].pc =
          IF RxDescArray[RxEntry("poll")].frame = Bad THEN "error" ELSE "take"
    BY <1>a, <2>1 DEF RxCall
  <2>4. RxEntry("poll")' = RxEntry("poll")
    BY <2>2 DEF RxEntry
  <2>5. LookedAt'
    BY <1>a, <2>1, <2>3, <2>4 DEF LookedAt, ErrorHasBuffer, ring
  <2>6. ErrorHasBuffer' /\ OwnHasBuffer'
    BY <2>1 DEF ErrorHasBuffer, OwnHasBuffer, ring
  <2>. QED BY <1>c, <2>5, <2>6
<1>3. CASE RxError("poll")
  <2>1. /\ RxDescArray' = [RxDescArray EXCEPT ![RxEntry("poll")] = MarkToAsic(@)]
        /\ rx_skbuff' = rx_skbuff
        /\ rx_skbuff[RxEntry("poll")]
    BY <1>3 DEF RxError, LookedAt
  <2>2. ErrorHasBuffer' /\ OwnHasBuffer'
    BY <1>a, <2>1 DEF ErrorHasBuffer, OwnHasBuffer, MarkToAsic
  <2>3. rx'["poll"].pc = "loop"
    BY <1>3, <1>a DEF RxError, RxAdvance, RxCall
  <2>. QED BY <1>c, <2>2, <2>3 DEF LookedAt
<1>4. CASE RxTake("poll")
  <2>1. /\ rx_skbuff' = [rx_skbuff EXCEPT ![RxEntry("poll")] = FALSE]
        /\ RxDescArray' = RxDescArray
        /\ ~RxDescArray[RxEntry("poll")].own
        /\ RxDescArray[RxEntry("poll")].frame # Bad
    BY <1>4 DEF RxTake, LookedAt
  <2>2. ErrorHasBuffer' /\ OwnHasBuffer'
    BY <1>a, <2>1 DEF ErrorHasBuffer, OwnHasBuffer
  <2>3. rx'["poll"].pc = "loop"
    BY <1>4, <1>a DEF RxTake, RxAdvance, RxCall
  <2>. QED BY <1>c, <2>2, <2>3 DEF LookedAt
<1>5. CASE RxCommit("poll")
  <2>1. rx'["poll"].pc = "refill"
    BY <1>5, <1>a DEF RxCommit, Returned
  <2>. QED BY <1>5, <1>c, <2>1, OwnUnchanged DEF RxCommit
<1>6. CASE RxRefill("poll")
  <2>1. rx'["poll"].pc = "fill"
    BY <1>6, <1>a DEF RxRefill, RxCall
  <2>. QED BY <1>6, <1>c, <2>1, OwnUnchanged DEF RxRefill
<1>7. CASE RxFill("poll")
  <2>1. rx'["poll"].pc = "fill"
    BY <1>7, <1>a DEF RxFill, RxAdvance, RxCall
  <2>2. CASE rx_skbuff[RxEntry("poll")]
    BY <1>7, <1>c, <2>1, <2>2, OwnUnchanged DEF RxFill
  <2>3. CASE ~rx_skbuff[RxEntry("poll")]
    <3>1. /\ RxDescArray' = [RxDescArray EXCEPT ![RxEntry("poll")] = MarkToAsic(@)]
          /\ rx_skbuff' = [rx_skbuff EXCEPT ![RxEntry("poll")] = TRUE]
      BY <1>7, <2>3 DEF RxFill
    <3>2. ErrorHasBuffer' /\ OwnHasBuffer'
      BY <1>a, <3>1 DEF ErrorHasBuffer, OwnHasBuffer, MarkToAsic
    <3>. QED BY <1>c, <2>1, <3>2 DEF LookedAt
  <2>. QED BY <2>2, <2>3
<1>8. CASE RxFillEnd("poll")
  <2>1. rx'["poll"].pc \in {"idle", "complete", "lock"}
    BY <1>8, <1>a DEF RxFillEnd, RxReturn, Returned
  <2>. QED BY <1>8, <1>c, <2>1, OwnUnchanged DEF RxFillEnd
<1>. QED
  BY <1>1, <1>2, <1>3, <1>4, <1>5, <1>6, <1>7, <1>8 DEF RxInterrupt

\* Every step keeps a buffer under what the NIC owns.
LEMMA OwnNext ==
  ASSUME ~Watchdog, OwnInv, [Next]_vars
  PROVE  OwnInv'
<1>. USE DEF OwnInv
<1>0. TypeInv'
  BY TypeNext
<1>a. /\ "poll" \in Contexts /\ "task" \in Contexts /\ "poll" # "task"
      /\ rx \in [Contexts -> RxCall]
  BY DEF TypeInv, TypeOK, Contexts
<1>1. CASE \E w \in Contexts : RxInterrupt(w)
  <2>1. ~RxInterrupt("task")
    BY DEF PollOnly, RxInterrupt, RxBegin, RxLook, RxMore, RxError, RxTake,
           RxCommit, RxRefill, RxFill, RxFillEnd
  <2>2. RxInterrupt("poll")
    BY <1>1, <2>1 DEF Contexts
  <2>. QED BY <1>0, <2>2, OwnRx
<1>2. CASE Interrupt
  BY <1>0, <1>2, OwnUnchanged DEF Interrupt, PollOnly
<1>3. CASE PollEnter
  <2>1. rx'["poll"].pc = "begin" /\ rx'["task"] = rx["task"]
    BY <1>3, <1>a DEF PollEnter, RxCall
  <2>. QED BY <1>0, <1>3, <2>1, OwnUnchanged DEF PollEnter, PollOnly
<1>4. CASE PollComplete
  <2>1. rx'["poll"].pc = "unmask" /\ rx'["task"] = rx["task"]
    BY <1>4, <1>a DEF PollComplete, RxCall
  <2>. QED BY <1>0, <1>4, <2>1, OwnUnchanged DEF PollComplete, PollOnly
<1>5. CASE PollUnmask
  <2>1. rx'["poll"].pc = "idle" /\ rx'["task"] = rx["task"]
    BY <1>5, <1>a DEF PollUnmask, Returned
  <2>. QED BY <1>0, <1>5, <2>1, OwnUnchanged DEF PollUnmask, PollOnly
<1>6. CASE LinkUp
  BY <1>0, <1>6, OwnUnchanged DEF LinkUp, PollOnly
<1>7. CASE LinkDown
  BY <1>0, <1>7, OwnUnchanged DEF LinkDown, PollOnly
<1>8. CASE TxTimeout \/ TaskQuiesce \/ TaskRecover \/ TaskRetry
  BY <1>8 DEF TxTimeout, TaskQuiesce, TaskRecover, TaskRetry, PollOnly
<1>9. CASE \E f \in Frames \cup {Bad} : NicStore(f)
  <2>1. PICK f \in Frames \cup {Bad} : NicStore(f)
    BY <1>9
  <2>2. /\ nic.pos \in Entries /\ RxEntry("poll") \in Entries
        /\ RxDescArray \in [Entries -> DescType]
        /\ RxDescArray[nic.pos].own
        /\ UNCHANGED <<rx, rx_skbuff, work>>
    BY <1>a, <2>1, EntryType DEF NicStore, TypeInv, TypeOK, DescType
  <2>3. /\ \A e \in Entries : e # nic.pos => RxDescArray'[e] = RxDescArray[e]
        /\ ~RxDescArray'[nic.pos].own
    BY <2>1, <2>2 DEF NicStore, DescType
  <2>4. rx_skbuff[nic.pos]
    BY <2>2 DEF OwnHasBuffer
  <2>5. ErrorHasBuffer' /\ OwnHasBuffer'
    BY <2>2, <2>3, <2>4 DEF ErrorHasBuffer, OwnHasBuffer
  <2>6. LookedAt'
    BY <2>2, <2>3 DEF LookedAt, RxEntry
  <2>. QED BY <1>0, <2>2, <2>5, <2>6 DEF PollOnly
<1>10. CASE NicLose
  BY <1>0, <1>10, OwnUnchanged DEF NicLose, PollOnly
<1>11. CASE Cable
  BY <1>0, <1>11, OwnUnchanged DEF Cable, PollOnly
<1>12. CASE UNCHANGED vars
  BY <1>0, <1>12, OwnUnchanged DEF vars, PollOnly
<1>. QED
  BY <1>1, <1>2, <1>3, <1>4, <1>5, <1>6, <1>7, <1>8, <1>9, <1>10, <1>11, <1>12
     DEF Next

\* As long as the watchdog does not start the reset task, a descriptor the NIC
\* owns has its buffer, whatever the link timer does to the ring indexes in
\* the middle of rtl8101_rx_interrupt and however many allocations fail.
THEOREM OwnedHasBuffer == ~Watchdog => (Spec => []OwnHasBuffer)
<1>. SUFFICES ASSUME ~Watchdog PROVE Spec => []OwnHasBuffer
  OBVIOUS
<1>1. OwnInv /\ [Next]_vars => OwnInv'
  BY OwnNext
<1>2. OwnInv => OwnHasBuffer
  BY DEF OwnInv
<1>. QED BY <1>1, <1>2, OwnInit, PTL DEF Spec

-----------------------------------------------------------------------------
(***************************************************************************)
(* rtl8101_rx_interrupt runs in one context at a time.  The invariant says *)
(* why napi_disable is enough although the interrupts stay unmasked for a  *)
(* moment in poll: the watchdog has stopped the receiver before it queues  *)
(* the task, so no event comes that would schedule the poll again, and the *)
(* link timer, which would restart the receiver, finds the carrier on.     *)
(***************************************************************************)
InTask == rx["task"].pc # "idle"

AloneInv ==
  /\ link
  /\ work \/ InTask => carrier /\ ~nic.enb
  /\ InTask => /\ ~work /\ ~napi /\ ~intr.status
               /\ rx["poll"].pc \in {"idle", "unmask"}
  /\ InRx("poll") \/ rx["poll"].pc = "complete" => napi
  /\ rx["poll"].pc # "lock"
  /\ rx["task"].pc \notin {"complete", "unmask"}

\* The task is over before the watchdog fires again.
TaskInTime == ~(Watchdog /\ SlowTask)

\* A step of rtl8101_rx_interrupt in one context: what it leaves alone, and
\* where it may go.
LEMMA RxFrame ==
  ASSUME TypeInv, NEW w \in Contexts, RxInterrupt(w)
  PROVE  /\ InRx(w)
         /\ \A v \in Contexts : v # w => rx'[v] = rx[v]
         /\ UNCHANGED <<napi, work, intr, carrier, link, nic>>
         /\ \/ InRx(w)'
            \/ w = "poll" /\ rx'[w].pc \in {"idle", "complete"}
            \/ w = "task" /\ rx'[w].pc = "lock"
<1>. USE DEF InRx
<1>a. rx \in [Contexts -> RxCall] /\ rx[w] \in RxCall /\ w \in {"poll", "task"}
  BY DEF TypeInv, TypeOK, Contexts
<1>1. CASE RxBegin(w)
  BY <1>1, <1>a DEF RxBegin, Returned
<1>2. CASE RxLook(w)
  BY <1>2, <1>a DEF RxLook, RxMore, RxCall
<1>3. CASE RxError(w)
  BY <1>3, <1>a DEF RxError, RxAdvance, RxCall
<1>4. CASE RxTake(w)
  BY <1>4, <1>a DEF RxTake, RxAdvance, RxCall
<1>5. CASE RxCommit(w)
  BY <1>5, <1>a DEF RxCommit, Returned
<1>6. CASE RxRefill(w)
  BY <1>6, <1>a DEF RxRefill, RxCall
<1>7. CASE RxFill(w)
  BY <1>7, <1>a DEF RxFill, RxAdvance, RxCall
<1>8. CASE RxFillEnd(w)
  BY <1>8, <1>a DEF RxFillEnd, RxReturn, Returned
<1>. QED
  BY <1>1, <1>2, <1>3, <1>4, <1>5, <1>6, <1>7, <1>8 DEF RxInterrupt

\* Nobody runs when rtl8101_open returns.
LEMMA AloneInit == Init => AloneInv
  BY DEF Init, AloneInv, InTask, InRx, Returned, Contexts

\* Every step keeps the two contexts apart.
LEMMA AloneNext ==
  ASSUME ~LinkFlaps, TaskInTime, TypeInv, AloneInv, [Next]_vars
  PROVE  AloneInv'
<1>. USE DEF AloneInv, InTask
<1>a. /\ "poll" \in Contexts /\ "task" \in Contexts
      /\ rx \in [Contexts -> RxCall]
      /\ rx["poll"] \in RxCall /\ rx["task"] \in RxCall
      /\ nic \in [enb : BOOLEAN, pos : Entries]
      /\ intr \in [mask : BOOLEAN, status : BOOLEAN]
  BY DEF TypeInv, TypeOK, Contexts
<1>1. CASE RxInterrupt("poll")
  BY <1>1, <1>a, RxFrame DEF InRx
<1>2. CASE RxInterrupt("task")
  BY <1>2, <1>a, RxFrame DEF InRx
<1>3. CASE Interrupt
  BY <1>3 DEF Interrupt, InRx
<1>4. CASE PollEnter
  BY <1>4, <1>a DEF PollEnter, InRx, RxCall
<1>5. CASE PollComplete
  BY <1>5, <1>a DEF PollComplete, InRx, RxCall
<1>6. CASE PollUnmask
  BY <1>6, <1>a DEF PollUnmask, InRx, Returned
<1>7. CASE LinkUp
  BY <1>7 DEF LinkUp, InRx
<1>8. CASE LinkDown
  BY <1>8 DEF LinkDown
<1>9. CASE TxTimeout
  BY <1>9 DEF TxTimeout, HwReset, InRx, TaskInTime
<1>10. CASE TaskQuiesce
  BY <1>10, <1>a DEF TaskQuiesce, IntrOff, InRx, RxCall
<1>11. CASE TaskRecover
  BY <1>11, <1>a DEF TaskRecover, Returned, InRx
<1>12. CASE TaskRetry
  BY <1>12, <1>a DEF TaskRetry, Returned, InRx
<1>13. CASE \E f \in Frames \cup {Bad} : NicStore(f)
  BY <1>13, <1>a DEF NicStore, NicListens, InRx
<1>14. CASE NicLose
  BY <1>14, <1>a DEF NicLose, NicListens, InRx
<1>15. CASE Cable
  BY <1>15 DEF Cable
<1>16. CASE UNCHANGED vars
  BY <1>16 DEF vars, InRx
<1>. QED
  BY <1>1, <1>2, <1>3, <1>4, <1>5, <1>6, <1>7, <1>8, <1>9, <1>10, <1>11,
     <1>12, <1>13, <1>14, <1>15, <1>16 DEF Next, Contexts

\* The invariant holds throughout.
LEMMA AloneAlways ==
  ~LinkFlaps /\ TaskInTime => (Spec => [](TypeInv /\ AloneInv))
<1>. SUFFICES ASSUME ~LinkFlaps, TaskInTime
              PROVE  Spec => [](TypeInv /\ AloneInv)
  OBVIOUS
<1>1. TypeInv /\ AloneInv /\ [Next]_vars => TypeInv' /\ AloneInv'
  BY TypeNext, AloneNext
<1>. QED BY <1>1, TypeInit, AloneInit, PTL DEF Spec

\* The poll and the reset task are never in rtl8101_rx_interrupt together, as
\* long as the link does not flap and the task ends before the next timeout
\* of the watchdog.
THEOREM OneContextAtATime ==
  ~LinkFlaps /\ TaskInTime => (Spec => []RxAlone)
<1>. SUFFICES ASSUME ~LinkFlaps, TaskInTime PROVE Spec => []RxAlone
  OBVIOUS
<1>1. AloneInv => RxAlone
  BY DEF AloneInv, InTask, RxAlone, InRx
<1>. QED BY <1>1, AloneAlways, PTL

=============================================================================
