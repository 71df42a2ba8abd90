------------------------ MODULE R8101RxRing_proofs ------------------------
(***************************************************************************)
(* Proofs about the receive ring of the RTL8101E driver: where the NIC,    *)
(* rtl8101_rx_interrupt and rtl8101_rx_fill are in it, for every ring      *)
(* size, index width, budget and set of frames.  The link does not flap;   *)
(* the reset task may run and allocations may fail.                        *)
(*                                                                         *)
(* The ring, from the place of the refill on, is                           *)
(*                                                                         *)
(*    FillAt            RxAt                 nic.pos                       *)
(*    | processed, and  | stored by the NIC, | the NIC's                   *)
(*    | to be refilled  | not looked at      |                             *)
(*                                                                         *)
(* RxAt and FillAt are cur_rx and dirty_rx, or the private copies of the   *)
(* call of rtl8101_rx_interrupt or rtl8101_rx_fill in progress.            *)
(***************************************************************************)
EXTENDS R8101Rx_proofs, FiniteSetTheorems, SequenceTheorems

Seg(d, l) == Segment(NUM_RX_DESC, d, l)

RxAt   == IF Looping("poll") THEN rx["poll"].cur
          ELSE IF Looping("task") THEN rx["task"].cur ELSE cur_rx
FillAt == IF rx["poll"].pc = "fill" THEN rx["poll"].cur
          ELSE IF rx["task"].pc = "fill" THEN rx["task"].cur ELSE dirty_rx
Pending == (RxAt - FillAt) % IdxMod

Holes     == {e \in Entries : ~rx_skbuff[e]}
StoredSet == {e \in Entries : Stored(e)}

-----------------------------------------------------------------------------
(***************************************************************************)
(* The lemmas on ring indexes, for the receive ring.                       *)
(***************************************************************************)

\* The constants of the ring.
LEMMA RingConstants ==
  /\ NUM_RX_DESC \in Nat \ {0} /\ IdxMod \in Nat \ {0}
  /\ NUM_RX_DESC < IdxMod /\ Budget \in Nat \ {0}
  /\ Divides(NUM_RX_DESC, IdxMod)
  /\ Entries = 0 .. NUM_RX_DESC - 1 /\ Idx = 0 .. IdxMod - 1
<1>1. \E k \in Int : IdxMod = NUM_RX_DESC * k
  <2>1. PICK k \in 1 .. IdxMod : IdxMod = NUM_RX_DESC * k
    BY RingAssumption
  <2>2. k \in Int
    OBVIOUS
  <2>. QED BY <2>1, <2>2
<1>. QED BY <1>1, RingAssumption DEF Entries, Idx, Divides

\* The wrap of an index does not change its segment of the ring.
LEMMA SegIdx ==
  ASSUME NEW a \in Int, NEW l \in Nat
  PROVE  Seg(a % IdxMod, l) = Seg(a, l)
  BY RingConstants, SegWrap DEF Seg

\* A segment of no entries.
LEMMA SegZero == Seg(0, 0) = {}
  BY DEF Seg, Segment

\* The wrap of an index does not change its entry.
LEMMA EntryIdx ==
  ASSUME NEW a \in Int
  PROVE  (a % IdxMod) % NUM_RX_DESC = a % NUM_RX_DESC
  BY RingConstants, ModMod

\* The window from d to p ends at p.
LEMMA WinEnd ==
  ASSUME NEW p \in Idx, NEW d \in Idx, NEW j \in Int
  PROVE  (p + j) % NUM_RX_DESC = (d + ((p - d) % IdxMod) + j) % NUM_RX_DESC
  BY RingConstants, WindowEnd

\* The length of a window is an index.
LEMMA WinType ==
  ASSUME NEW p \in Idx, NEW d \in Idx
  PROVE  (p - d) % IdxMod \in Nat /\ p \in Int /\ d \in Int
<1>1. p - d \in Int /\ p \in Int /\ d \in Int
  BY RingConstants
<1>. QED BY <1>1, RingConstants, ModType

\* cur_rx goes on: the entry it was at joins the window.
LEMMA WinPlus ==
  ASSUME NEW p \in Idx, NEW d \in Idx, (p - d) % IdxMod < NUM_RX_DESC
  PROVE  /\ (((p + 1) % IdxMod) - d) % IdxMod = ((p - d) % IdxMod) + 1
         /\ Seg(d, ((p - d) % IdxMod) + 1)
              = Seg(d, (p - d) % IdxMod) \cup {p % NUM_RX_DESC}
         /\ p % NUM_RX_DESC \notin Seg(d, (p - d) % IdxMod)
<1>. DEFINE L == (p - d) % IdxMod
<1>1. L \in Nat /\ p \in Int /\ d \in Int
  BY WinType
<1>2. L \in 0 .. NUM_RX_DESC - 1
  BY <1>1, RingConstants
<1>3. (((p + 1) % IdxMod) - d) % IdxMod = L + 1
  BY <1>2, RingConstants, WindowGrows
<1>4. p % NUM_RX_DESC = (d + L) % NUM_RX_DESC
  <2>1. (p + 0) % NUM_RX_DESC = (d + L + 0) % NUM_RX_DESC
    BY WinEnd
  <2>2. p + 0 = p /\ d + L + 0 = d + L
    BY <1>1
  <2>. QED BY <2>1, <2>2
<1>. HIDE DEF L
<1>5. Seg(d, L + 1) = Seg(d, L) \cup {(d + L) % NUM_RX_DESC}
  BY <1>1, RingConstants, SegGrow DEF Seg
<1>6. (d + L) % NUM_RX_DESC \notin Seg(d, L)
  BY <1>1, <1>2, RingConstants, SegEnd DEF Seg
<1>. QED BY <1>3, <1>4, <1>5, <1>6 DEF L

\* dirty_rx goes on: the entry it was at leaves the window.
LEMMA WinMinus ==
  ASSUME NEW p \in Idx, NEW d \in Idx, (p - d) % IdxMod > 0
  PROVE  /\ (p - ((d + 1) % IdxMod)) % IdxMod = ((p - d) % IdxMod) - 1
         /\ Seg(d, (p - d) % IdxMod) = {d % NUM_RX_DESC}
              \cup Seg((d + 1) % IdxMod, ((p - d) % IdxMod) - 1)
<1>. DEFINE L == (p - d) % IdxMod
<1>1. L \in Nat /\ p \in Int /\ d \in Int /\ d + 1 \in Int
  BY WinType
<1>2. 1 \in 0 .. L /\ L - 1 \in Nat /\ L > 0
  BY <1>1
<1>3. (p - ((d + 1) % IdxMod)) % IdxMod = L - 1
  BY <1>2, RingConstants, WindowShrinks
<1>. HIDE DEF L
<1>4. Seg(d, L) = {d % NUM_RX_DESC} \cup Seg(d + 1, L - 1)
  <2>1. NUM_RX_DESC \in Nat \ {0} /\ L \in Nat /\ L > 0
    BY <1>1, <1>2, RingConstants
  <2>2. Segment(NUM_RX_DESC, d, L)
          = {d % NUM_RX_DESC} \cup Segment(NUM_RX_DESC, d + 1, L - 1)
    BY ONLY <1>1, <2>1, SegFirst
  <2>. QED BY <2>2, Zenon DEF Seg
<1>5. Seg((d + 1) % IdxMod, L - 1) = Seg(d + 1, L - 1)
  BY <1>1, <1>2, SegIdx
<1>. QED BY <1>3, <1>4, <1>5 DEF L

\* The first stored entry is looked at.
LEMMA RunMinus ==
  ASSUME NEW p \in Idx, NEW s \in 1 .. NUM_RX_DESC
  PROVE  /\ Seg(p, s) = {p % NUM_RX_DESC} \cup Seg((p + 1) % IdxMod, s - 1)
         /\ p % NUM_RX_DESC \notin Seg((p + 1) % IdxMod, s - 1)
         /\ (((p + 1) % IdxMod) + (s - 1)) % NUM_RX_DESC = (p + s) % NUM_RX_DESC
<1>1. p \in Int /\ p + 1 \in Int /\ s - 1 \in Nat /\ s \in Nat /\ s > 0 /\ s - 1 \in Int
  BY RingConstants
<1>2. Seg(p, s) = {p % NUM_RX_DESC} \cup Seg(p + 1, s - 1)
  <2>1. NUM_RX_DESC \in Nat \ {0}
    BY RingConstants
  <2>2. Segment(NUM_RX_DESC, p, s)
          = {p % NUM_RX_DESC} \cup Segment(NUM_RX_DESC, p + 1, s - 1)
    BY ONLY <1>1, <2>1, SegFirst
  <2>. QED BY <2>2, Zenon DEF Seg
<1>3. p % NUM_RX_DESC \notin Seg(p + 1, s - 1)
  BY <1>1, RingConstants, SegOnce DEF Seg
<1>4. Seg((p + 1) % IdxMod, s - 1) = Seg(p + 1, s - 1)
  BY <1>1, SegIdx
<1>5. (((p + 1) % IdxMod) + (s - 1)) % NUM_RX_DESC = (p + s) % NUM_RX_DESC
  <2>. DEFINE q == (p + 1) % IdxMod
  <2>1. q \in Int
    BY <1>1, RingConstants, ModType
  <2>2. q % NUM_RX_DESC = (p + 1) % NUM_RX_DESC
    BY <1>1, EntryIdx
  <2>. HIDE DEF q
  <2>3. ((q % NUM_RX_DESC) + (s - 1)) % NUM_RX_DESC = (q + (s - 1)) % NUM_RX_DESC
    BY <1>1, <2>1, RingConstants, ModAdd
  <2>4. (((p + 1) % NUM_RX_DESC) + (s - 1)) % NUM_RX_DESC
          = ((p + 1) + (s - 1)) % NUM_RX_DESC
    BY <1>1, RingConstants, ModAdd
  <2>5. (p + 1) + (s - 1) = p + s
    BY <1>1
  <2>. QED BY <2>2, <2>3, <2>4, <2>5 DEF q
<1>. QED BY <1>2, <1>3, <1>4, <1>5

\* The NIC stores into the entry after the stored ones.
LEMMA RunPlus ==
  ASSUME NEW p \in Idx, NEW s \in 0 .. NUM_RX_DESC - 1
  PROVE  Seg(p, s + 1) = Seg(p, s) \cup {(p + s) % NUM_RX_DESC}
<1>1. p \in Int /\ s \in Nat
  BY RingConstants
<1>. QED BY <1>1, RingConstants, SegGrow DEF Seg

\* An entry without a buffer at the beginning of the window ends the run of
\* stored entries.
LEMMA HoleStops ==
  ASSUME NEW p \in Idx, NEW d \in Idx, NEW s \in 0 .. NUM_RX_DESC,
         (p - d) % IdxMod \in 1 .. NUM_RX_DESC,
         d % NUM_RX_DESC \notin Seg(p, s)
  PROVE  s <= NUM_RX_DESC - ((p - d) % IdxMod)
<1>. DEFINE L == (p - d) % IdxMod
            j == NUM_RX_DESC - L
<1>1. L \in 1 .. NUM_RX_DESC /\ p \in Int /\ d \in Int
  BY WinType
<1>2. (p + j) % NUM_RX_DESC = (d + L + j) % NUM_RX_DESC
  <2>1. j \in Int
    BY <1>1, RingConstants
  <2>. HIDE DEF j
  <2>. QED BY <2>1, WinEnd
<1>. HIDE DEF L
<1>3. d + L + j = d + NUM_RX_DESC * 1
  BY <1>1, RingConstants
<1>4. (d + NUM_RX_DESC * 1) % NUM_RX_DESC = d % NUM_RX_DESC
  <2>1. 1 \in Int
    OBVIOUS
  <2>. QED BY <1>1, <2>1, RingConstants, ModTurns, Zenon
<1>5. j \in Nat /\ (j < s => j \in 0 .. s - 1)
  BY <1>1, RingConstants
<1>. HIDE DEF j
<1>6. j < s => (p + j) % NUM_RX_DESC \in Seg(p, s)
  BY <1>5 DEF Seg, Segment
<1>7. ~(j < s)
  BY <1>2, <1>3, <1>4, <1>6
<1>8. s <= j
  BY <1>5, <1>7, RingConstants
<1>. QED BY <1>8 DEF j, L

-----------------------------------------------------------------------------
(***************************************************************************)
(* The inductive invariant.  A call of rtl8101_rx_interrupt looks at no    *)
(* more entries than have a buffer (CallInv).  Between two calls the       *)
(* window is empty or begins with an entry that could not be refilled      *)
(* (GapInv): the NIC cannot pass it, so the stored frames are the run of   *)
(* entries from cur_rx on that ends there or where the NIC is (RunInv).    *)
(* The reset task has looked at all of them when it starts the receiver    *)
(* again at the first descriptor.                                          *)
(***************************************************************************)
WindowInv == Pending <= NUM_RX_DESC /\ Holes \subseteq Seg(FillAt, Pending)

CallInv(w) ==
  /\ Looping(w) => rx[w].left <= NUM_RX_DESC - Pending
  /\ rx[w].pc = "fill" => rx[w].start = dirty_rx /\ rx[w].left = Pending
  /\ rx[w].pc \in {"error", "take"} => ~RxDescArray[RxEntry(w)].own

GapInv == Quiet => Pending = 0 \/ FillAt % NUM_RX_DESC \in Holes

RunIs(s) ==
  /\ StoredSet = Seg(RxAt, s)
  /\ nic.enb => nic.pos = (RxAt + s) % NUM_RX_DESC
  /\ Looping("task") => s <= rx["task"].left
  /\ rx["task"].pc \in {"refill", "fill", "lock"} => s = 0

RunInv == \E s \in 0 .. NUM_RX_DESC : RunIs(s)

\* Before the first link-up nothing has happened.
OffInv ==
  ~carrier => /\ cur_rx = 0 /\ dirty_rx = 0
              /\ ~napi /\ ~work /\ ~intr.status
              /\ rx["poll"].pc = "idle" /\ rx["task"].pc = "idle"
              /\ \A e \in Entries : RxDescArray[e].own

PlaceInv ==
  WindowInv /\ (\A w \in Contexts : CallInv(w)) /\ OwnHasBuffer /\ GapInv /\ RunInv

RingInv == TypeInv /\ AloneInv /\ PlaceInv /\ OffInv

\* The places in the ring are indexes.
LEMMA PlaceType ==
  ASSUME TypeInv
  PROVE  /\ RxAt \in Idx /\ FillAt \in Idx /\ Pending \in Nat
         /\ RxAt \in Int /\ FillAt \in Int
         /\ "poll" \in Contexts /\ "task" \in Contexts
         /\ rx \in [Contexts -> RxCall]
         /\ RxDescArray \in [Entries -> DescType]
         /\ rx_skbuff \in [Entries -> BOOLEAN]
<1>1. /\ "poll" \in Contexts /\ "task" \in Contexts
      /\ rx \in [Contexts -> RxCall] /\ cur_rx \in Idx /\ dirty_rx \in Idx
      /\ RxDescArray \in [Entries -> DescType]
      /\ rx_skbuff \in [Entries -> BOOLEAN]
  BY DEF TypeInv, TypeOK, Contexts, DescType
<1>2. rx["poll"].cur \in Idx /\ rx["task"].cur \in Idx
  BY <1>1 DEF RxCall
<1>3. RxAt \in Idx /\ FillAt \in Idx
  BY <1>1, <1>2 DEF RxAt, FillAt
<1>. QED BY <1>1, <1>3, WinType DEF Pending

\* While one context is in rtl8101_rx_interrupt, the places are its own.
LEMMA RxPlaces ==
  ASSUME TypeInv, AloneInv, NEW w \in Contexts, RxInterrupt(w)
  PROVE  /\ \A v \in Contexts : v # w => ~InRx(v) /\ ~InRx(v)'
         /\ RxAt = IF Looping(w) THEN rx[w].cur ELSE cur_rx
         /\ FillAt = IF rx[w].pc = "fill" THEN rx[w].cur ELSE dirty_rx
         /\ RxAt' = IF Looping(w)' THEN rx'[w].cur ELSE cur_rx'
         /\ FillAt' = IF rx'[w].pc = "fill" THEN rx'[w].cur ELSE dirty_rx'
         /\ Quiet <=> rx[w].pc = "begin"
         /\ Quiet' <=> rx'[w].pc \in {"idle", "begin", "complete", "lock"}
<1>1. InRx(w) /\ (\A v \in Contexts : v # w => rx'[v] = rx[v])
  BY RxFrame
<1>2. InRx(w)' \/ rx'[w].pc \in {"idle", "complete", "lock"}
  BY RxFrame
<1>3. \A v \in Contexts : v # w => ~InRx(v)
  BY <1>1 DEF AloneInv, InTask, InRx, Contexts
<1>4. \A v \in Contexts : v # w => ~InRx(v)'
  BY <1>1, <1>3 DEF InRx
<1>5. CASE w = "poll"
  <2>1. ~InRx("task") /\ ~InRx("task")'
    BY <1>3, <1>4, <1>5 DEF Contexts
  <2>2. Quiet <=> rx[w].pc = "begin"
    BY <1>1, <1>5, <2>1 DEF Quiet, InRx, Contexts
  <2>3. Quiet' <=> rx'[w].pc \in {"idle", "begin", "complete", "lock"}
    BY <1>2, <1>5, <2>1 DEF Quiet, InRx, Contexts
  <2>. QED BY <1>3, <1>4, <1>5, <2>1, <2>2, <2>3 DEF RxAt, FillAt, Looping, InRx
<1>6. CASE w = "task"
  <2>1. ~InRx("poll") /\ ~InRx("poll")'
    BY <1>3, <1>4, <1>6 DEF Contexts
  <2>2. Quiet <=> rx[w].pc = "begin"
    BY <1>1, <1>6, <2>1 DEF Quiet, InRx, Contexts
  <2>3. Quiet' <=> rx'[w].pc \in {"idle", "begin", "complete", "lock"}
    BY <1>2, <1>6, <2>1 DEF Quiet, InRx, Contexts
  <2>. QED BY <1>3, <1>4, <1>6, <2>1, <2>2, <2>3 DEF RxAt, FillAt, Looping, InRx
<1>. QED BY <1>5, <1>6 DEF Contexts

\* The invariant follows from what holds for the context that has moved.
LEMMA RxSuffices ==
  ASSUME TypeInv, AloneInv, NEW w \in Contexts, RxInterrupt(w),
         WindowInv', CallInv(w)', OwnHasBuffer', GapInv', RunInv'
  PROVE  PlaceInv'
<1>1. \A v \in Contexts : v # w => ~InRx(v)'
  BY RxPlaces
<1>2. \A v \in Contexts : v # w => CallInv(v)'
  BY <1>1 DEF CallInv, Looping, InRx
<1>. QED BY <1>2 DEF PlaceInv

\* The run of stored entries ends before the window.
LEMMA RunStops ==
  ASSUME TypeInv, WindowInv, GapInv, Quiet,
         NEW s \in 0 .. NUM_RX_DESC, StoredSet = Seg(RxAt, s)
  PROVE  s <= NUM_RX_DESC - Pending
<1>1. RxAt \in Idx /\ FillAt \in Idx /\ Pending \in Nat
  BY PlaceType
<1>2. CASE Pending = 0
  BY <1>2, RingConstants
<1>3. CASE Pending # 0
  <2>1. FillAt % NUM_RX_DESC \notin StoredSet
    BY <1>3 DEF GapInv, Holes, StoredSet, Stored
  <2>2. (RxAt - FillAt) % IdxMod \in 1 .. NUM_RX_DESC
    BY <1>1, <1>3, RingConstants DEF WindowInv, Pending
  <2>3. s <= NUM_RX_DESC - ((RxAt - FillAt) % IdxMod)
    BY <1>1, <2>1, <2>2, HoleStops
  <2>. QED BY <2>3 DEF Pending
<1>. QED BY <1>2, <1>3

\* The poll's steps leave the task alone, which is not in its loop.
LEMMA TaskApart ==
  ASSUME TypeInv, AloneInv, NEW w \in Contexts, RxInterrupt(w), w # "task"
  PROVE  ~Looping("task") /\ ~Looping("task")' /\ rx'["task"] = rx["task"]
<1>1. "task" \in Contexts
  BY DEF Contexts
<1>2. ~InRx("task") /\ ~InRx("task")'
  BY <1>1, RxPlaces
<1>3. rx'["task"] = rx["task"]
  BY <1>1, RxFrame
<1>. QED BY <1>2, <1>3 DEF InRx, Looping

\* The entries a call may look at are those beside the window.
LEMMA LeftIsRest ==
  ASSUME TypeInv, WindowInv, RxAt = cur_rx, FillAt = dirty_rx
  PROVE  /\ RxLeft("poll") \in Nat /\ RxLeft("task") \in Nat
         /\ RxLeft("poll") <= NUM_RX_DESC - Pending
         /\ RxLeft("poll") = NUM_RX_DESC - Pending \/ RxLeft("poll") = Budget
         /\ RxLeft("task") = NUM_RX_DESC - Pending
<1>1. /\ RxAt \in Idx /\ FillAt \in Idx /\ Pending \in Nat
      /\ NUM_RX_DESC \in 0 .. IdxMod - 1
  BY PlaceType, RingConstants
<1>2. Pending = (cur_rx - dirty_rx) % IdxMod /\ Pending <= NUM_RX_DESC
  BY DEF Pending, WindowInv
<1>3. (NUM_RX_DESC + dirty_rx - cur_rx) % IdxMod
        = NUM_RX_DESC - ((cur_rx - dirty_rx) % IdxMod)
  BY <1>1, <1>2, RingConstants, WindowRest
<1>4. (NUM_RX_DESC + dirty_rx - cur_rx) % IdxMod = NUM_RX_DESC - Pending
  BY <1>2, <1>3
<1>. QED
  BY <1>1, <1>2, <1>4, RingConstants DEF RxLeft, Lower, RxBudget

\* rtl8101_rx_interrupt begins.
LEMMA PlaceBegin ==
  ASSUME RingInv, TypeInv', NEW w \in Contexts, RxBegin(w)
  PROVE  PlaceInv'
<1>. USE DEF RingInv, PlaceInv
<1>0. RxInterrupt(w)
  BY DEF RxInterrupt
<1>a. rx \in [Contexts -> RxCall] /\ Pending \in Nat
  BY PlaceType
<1>1. /\ rx'[w].pc = "loop" /\ rx'[w].cur = cur_rx /\ rx'[w].left = RxLeft(w)
      /\ rx[w].pc = "begin"
      /\ UNCHANGED <<cur_rx, dirty_rx, rx_skbuff, RxDescArray, nic>>
  BY <1>a DEF RxBegin, Returned, idx, ring
<1>2. RxAt = cur_rx /\ FillAt = dirty_rx /\ RxAt' = RxAt /\ FillAt' = FillAt
  BY <1>0, <1>1, RxPlaces DEF Looping
<1>3. Quiet /\ ~Quiet'
  BY <1>0, <1>1, RxPlaces
<1>4. /\ Pending' = Pending /\ Holes' = Holes /\ StoredSet' = StoredSet
  BY <1>1, <1>2 DEF Pending, Holes, StoredSet, Stored
<1>5. rx'[w].left <= NUM_RX_DESC - Pending
  <2>1. RxLeft("poll") <= NUM_RX_DESC - Pending
    BY <1>2, LeftIsRest
  <2>2. RxLeft("task") <= NUM_RX_DESC - Pending
    <3>1. RxLeft("task") = NUM_RX_DESC - Pending /\ NUM_RX_DESC - Pending \in Int
      BY <1>2, <1>a, LeftIsRest, RingConstants
    <3>. QED BY <3>1
  <2>. QED BY <1>1, <2>1, <2>2 DEF Contexts
<1>6. WindowInv' /\ OwnHasBuffer' /\ GapInv'
  BY <1>1, <1>2, <1>3, <1>4 DEF WindowInv, OwnHasBuffer, GapInv
<1>7. CallInv(w)'
  BY <1>1, <1>4, <1>5 DEF CallInv
<1>8. RunInv'
  <2>1. PICK s \in 0 .. NUM_RX_DESC : RunIs(s)
    BY DEF RunInv
  <2>2. s <= NUM_RX_DESC - Pending
    BY <1>3, <2>1, RunStops DEF RunIs
  <2>3. w = "task" => s <= rx'["task"].left
    BY <1>1, <1>2, <2>2, LeftIsRest
  <2>4. w # "task" => ~Looping("task")' /\ rx'["task"] = rx["task"]
    BY <1>0, TaskApart
  <2>5. RunIs(s)'
    BY <1>1, <1>2, <1>4, <2>1, <2>3, <2>4 DEF RunIs
  <2>. QED BY <2>5 DEF RunInv
<1>. QED BY <1>0, <1>6, <1>7, <1>8, RxSuffices

\* The status word of a descriptor is read.
LEMMA PlaceLook ==
  ASSUME RingInv, TypeInv', NEW w \in Contexts, RxLook(w)
  PROVE  PlaceInv'
<1>. USE DEF RingInv, PlaceInv
<1>0. RxInterrupt(w)
  BY DEF RxInterrupt
<1>a. rx \in [Contexts -> RxCall]
  BY PlaceType
<1>1. /\ rx'[w].pc \in {"error", "take"} /\ rx[w].pc = "loop"
      /\ rx'[w].cur = rx[w].cur /\ rx'[w].left = rx[w].left
      /\ ~RxDescArray[RxEntry(w)].own
      /\ UNCHANGED <<cur_rx, dirty_rx, rx_skbuff, RxDescArray, nic>>
  BY <1>a DEF RxLook, RxMore, RxCall, idx, ring
<1>2. RxAt' = RxAt /\ FillAt' = FillAt /\ ~Quiet'
  BY <1>0, <1>1, RxPlaces DEF Looping
<1>3. /\ Pending' = Pending /\ Holes' = Holes /\ StoredSet' = StoredSet
      /\ RxEntry(w)' = RxEntry(w)
  BY <1>1, <1>2 DEF Pending, Holes, StoredSet, Stored, RxEntry
<1>4. WindowInv' /\ OwnHasBuffer' /\ GapInv'
  BY <1>1, <1>2, <1>3 DEF WindowInv, OwnHasBuffer, GapInv
<1>5. CallInv(w)'
  BY <1>1, <1>3 DEF CallInv, Looping
<1>6. RunInv'
  <2>1. PICK s \in 0 .. NUM_RX_DESC : RunIs(s)
    BY DEF RunInv
  <2>2. w # "task" => ~Looping("task")' /\ rx'["task"] = rx["task"]
    BY <1>0, TaskApart
  <2>3. RunIs(s)'
    BY <1>1, <1>2, <1>3, <2>1, <2>2 DEF RunIs, Looping
  <2>. QED BY <2>3 DEF RunInv
<1>. QED BY <1>0, <1>4, <1>5, <1>6, RxSuffices

\* The entry a call has looked at is beside the window and has its buffer.
LEMMA LookedAtStored ==
  ASSUME RingInv, NEW w \in Contexts, RxInterrupt(w), rx[w].pc \in {"error", "take"}
  PROVE  /\ RxAt = rx[w].cur /\ FillAt = dirty_rx
         /\ Pending < NUM_RX_DESC /\ RxEntry(w) \in Entries
         /\ RxEntry(w) \notin Holes /\ RxEntry(w) \in StoredSet
<1>. USE DEF RingInv, PlaceInv
<1>1. RxAt = rx[w].cur /\ FillAt = dirty_rx
  BY RxPlaces DEF Looping
<1>2. RxAt \in Idx /\ FillAt \in Idx /\ Pending \in Nat /\ rx[w].left \in Nat
  BY PlaceType DEF RxCall
<1>3. rx[w].left > 0 /\ rx[w].left <= NUM_RX_DESC - Pending
  BY DEF TypeInv, LeftPositive, CallInv, Looping
<1>4. Pending < NUM_RX_DESC
  BY <1>2, <1>3, RingConstants
<1>5. RxEntry(w) \in Entries /\ RxEntry(w) = RxAt % NUM_RX_DESC
  BY <1>1, EntryType DEF TypeInv, RxEntry
<1>6. RxEntry(w) \notin Seg(FillAt, Pending)
  BY <1>2, <1>4, <1>5, WinPlus DEF Pending
<1>7. RxEntry(w) \notin Holes
  BY <1>6 DEF WindowInv
<1>8. RxEntry(w) \in StoredSet
  BY <1>5, <1>7 DEF Holes, StoredSet, Stored, CallInv
<1>. QED BY <1>1, <1>4, <1>5, <1>7, <1>8

\* A frame is handed up, or a frame with an error is dropped.
LEMMA PlaceAdvance ==
  ASSUME RingInv, TypeInv', NEW w \in Contexts, RxError(w) \/ RxTake(w)
  PROVE  PlaceInv'
<1>. USE DEF RingInv, PlaceInv
<1>. DEFINE e == RxEntry(w)
<1>0. RxInterrupt(w) /\ rx[w].pc \in {"error", "take"}
  BY DEF RxInterrupt, RxError, RxTake
<1>a. /\ rx \in [Contexts -> RxCall] /\ rx[w] \in RxCall
      /\ RxDescArray \in [Entries -> DescType]
      /\ rx_skbuff \in [Entries -> BOOLEAN]
      /\ RxAt \in Idx /\ FillAt \in Idx /\ Pending \in Nat /\ RxAt \in Int
  BY PlaceType
<1>b. /\ RxAt = rx[w].cur /\ FillAt = dirty_rx
      /\ Pending < NUM_RX_DESC /\ e \in Entries
      /\ e \notin Holes /\ e \in StoredSet /\ e = RxAt % NUM_RX_DESC
  BY <1>0, LookedAtStored DEF RxEntry
<1>1. /\ rx'[w].pc = "loop"
      /\ rx'[w].cur = (rx[w].cur + 1) % IdxMod /\ rx'[w].left = rx[w].left - 1
      /\ UNCHANGED <<cur_rx, dirty_rx, nic>>
  BY <1>a DEF RxError, RxTake, RxAdvance, RxCall, idx
<1>2. RxAt' = (RxAt + 1) % IdxMod /\ FillAt' = FillAt /\ ~Quiet'
  BY <1>0, <1>1, <1>b, RxPlaces DEF Looping
<1>3. /\ Pending' = Pending + 1
      /\ Seg(FillAt, Pending + 1) = Seg(FillAt, Pending) \cup {e}
  BY <1>2, <1>a, <1>b, WinPlus DEF Pending
<1>4. /\ Holes' \subseteq Holes \cup {e}
      /\ StoredSet' = StoredSet \ {e}
      /\ OwnHasBuffer'
  <2>1. CASE RxError(w)
    <3>1. /\ RxDescArray' = [RxDescArray EXCEPT ![e] = MarkToAsic(@)]
          /\ rx_skbuff' = rx_skbuff
      BY <2>1 DEF RxError
    <3>2. /\ \A x \in Entries : x # e => RxDescArray'[x] = RxDescArray[x]
          /\ RxDescArray'[e].own
      BY <1>a, <1>b, <3>1 DEF MarkToAsic
    <3>. HIDE DEF e
    <3>3. StoredSet' = StoredSet \ {e}
      BY <1>b, <3>1, <3>2 DEF StoredSet, Stored
    <3>. QED BY <1>b, <3>1, <3>2, <3>3 DEF Holes, OwnHasBuffer
  <2>2. CASE RxTake(w)
    <3>1. /\ rx_skbuff' = [rx_skbuff EXCEPT ![e] = FALSE]
          /\ RxDescArray' = RxDescArray /\ ~RxDescArray[e].own
      BY <2>2, <1>b DEF RxTake, StoredSet, Stored
    <3>. HIDE DEF e
    <3>2. StoredSet' = StoredSet \ {e}
      BY <1>a, <1>b, <3>1 DEF StoredSet, Stored
    <3>. QED BY <1>a, <1>b, <3>1, <3>2 DEF Holes, OwnHasBuffer
  <2>. QED BY <2>1, <2>2
<1>. HIDE DEF e
<1>5. WindowInv'
  <2>1. Pending' <= NUM_RX_DESC
    BY <1>3, <1>a, <1>b, RingConstants
  <2>2. Holes' \subseteq Seg(FillAt', Pending')
    BY <1>2, <1>3, <1>4 DEF WindowInv
  <2>. QED BY <2>1, <2>2 DEF WindowInv
<1>6. GapInv'
  BY <1>2 DEF GapInv
<1>7. CallInv(w)'
  <2>1. rx[w].left <= NUM_RX_DESC - Pending /\ rx[w].left \in Nat
    BY <1>0, <1>a DEF CallInv, Looping, RxCall
  <2>2. rx'[w].left <= NUM_RX_DESC - Pending'
    BY <1>1, <1>3, <1>a, <2>1, RingConstants
  <2>. QED BY <1>1, <2>2 DEF CallInv
<1>8. RunInv'
  <2>1. PICK s \in 0 .. NUM_RX_DESC : RunIs(s)
    BY DEF RunInv
  <2>2. s \in 1 .. NUM_RX_DESC
    <3>1. s = 0 => Seg(RxAt, s) = {}
      BY <1>a, RingConstants, SegType DEF Seg
    <3>2. s # 0
      BY <1>b, <2>1, <3>1 DEF RunIs
    <3>. QED BY <3>2, RingConstants
  <2>3. /\ Seg(RxAt, s) = {e} \cup Seg(RxAt', s - 1)
        /\ e \notin Seg(RxAt', s - 1)
        /\ (RxAt' + (s - 1)) % NUM_RX_DESC = (RxAt + s) % NUM_RX_DESC
    BY <1>2, <1>a, <1>b, <2>2, RunMinus
  <2>4. StoredSet' = Seg(RxAt', s - 1)
    BY <1>4, <2>1, <2>3 DEF RunIs
  <2>5. nic'.enb => nic'.pos = (RxAt' + (s - 1)) % NUM_RX_DESC
    BY <1>1, <2>1, <2>3 DEF RunIs
  <2>6. Looping("task")' => s - 1 <= rx'["task"].left
    <3>1. CASE w = "task"
      <4>1. s <= rx["task"].left /\ rx["task"].left \in Nat
        BY <1>0, <1>a, <2>1, <3>1 DEF RunIs, Looping, RxCall
      <4>. QED BY <1>1, <2>2, <3>1, <4>1
    <3>2. CASE w # "task"
      BY <1>0, <3>2, TaskApart
    <3>. QED BY <3>1, <3>2
  <2>7. rx'["task"].pc \in {"refill", "fill", "lock"} => s - 1 = 0
    <3>1. CASE w = "task"
      BY <1>1, <3>1
    <3>2. CASE w # "task"
      <4>1. rx'["task"].pc = rx["task"].pc
        BY <1>0, <3>2, TaskApart
      <4>. QED BY <2>1, <2>2, <4>1 DEF RunIs
    <3>. QED BY <3>1, <3>2
  <2>8. RunIs(s - 1)' /\ s - 1 \in 0 .. NUM_RX_DESC
    BY <2>2, <2>4, <2>5, <2>6, <2>7, RingConstants DEF RunIs
  <2>. QED BY <2>8 DEF RunInv
<1>. QED BY <1>0, <1>4, <1>5, <1>6, <1>7, <1>8, RxSuffices

\* An entry the NIC owns ends the run of stored entries.
LEMMA OwnStops ==
  ASSUME TypeInv, NEW s \in 0 .. NUM_RX_DESC, StoredSet = Seg(RxAt, s),
         RxDescArray[RxAt % NUM_RX_DESC].own
  PROVE  s = 0
<1>1. RxAt \in Idx
  BY PlaceType
<1>2. RxAt % NUM_RX_DESC \notin StoredSet
  BY DEF StoredSet, Stored
<1>3. s \in 1 .. NUM_RX_DESC => RxAt % NUM_RX_DESC \in Seg(RxAt, s)
  BY <1>1, RunMinus
<1>. QED BY <1>2, <1>3, RingConstants

\* The loop ends and cur_rx is written back.
LEMMA PlaceCommit ==
  ASSUME RingInv, TypeInv', NEW w \in Contexts, RxCommit(w)
  PROVE  PlaceInv'
<1>. USE DEF RingInv, PlaceInv
<1>0. RxInterrupt(w)
  BY DEF RxInterrupt
<1>a. rx \in [Contexts -> RxCall] /\ rx[w] \in RxCall /\ rx[w].left \in Nat
  BY PlaceType DEF RxCall
<1>1. /\ rx'[w].pc = "refill" /\ rx[w].pc = "loop" /\ cur_rx' = rx[w].cur
      /\ UNCHANGED <<dirty_rx, rx_skbuff, RxDescArray, nic>>
  BY <1>a DEF RxCommit, Returned, ring
<1>2. RxAt = rx[w].cur /\ RxAt' = RxAt /\ FillAt' = FillAt /\ ~Quiet'
  BY <1>0, <1>1, RxPlaces DEF Looping
<1>3. Pending' = Pending /\ Holes' = Holes /\ StoredSet' = StoredSet
  BY <1>1, <1>2 DEF Pending, Holes, StoredSet, Stored
<1>4. WindowInv' /\ OwnHasBuffer' /\ GapInv'
  BY <1>1, <1>2, <1>3 DEF WindowInv, OwnHasBuffer, GapInv
<1>5. CallInv(w)'
  BY <1>1 DEF CallInv, Looping
<1>6. RunInv'
  <2>1. PICK s \in 0 .. NUM_RX_DESC : RunIs(s)
    BY DEF RunInv
  <2>2. CASE w = "task"
    <3>1. s <= rx[w].left
      BY <1>1, <2>1, <2>2 DEF RunIs, Looping
    <3>2. rx[w].left = 0 => s = 0
      BY <3>1
    <3>3. rx[w].left # 0 => s = 0
      <4>1. rx[w].left # 0 => RxDescArray[RxAt % NUM_RX_DESC].own
        BY <1>1, <1>2, <1>a DEF RxCommit, RxMore, RxEntry
      <4>. QED BY <2>1, <4>1, OwnStops DEF RunIs
    <3>4. RunIs(s)'
      BY <1>1, <1>2, <1>3, <2>1, <2>2, <3>2, <3>3 DEF RunIs, Looping
    <3>. QED BY <3>4 DEF RunInv
  <2>3. CASE w # "task"
    <3>1. ~Looping("task")' /\ rx'["task"] = rx["task"]
      BY <1>0, <2>3, TaskApart
    <3>2. RunIs(s)'
      BY <1>1, <1>2, <1>3, <2>1, <3>1 DEF RunIs
    <3>. QED BY <3>2 DEF RunInv
  <2>. QED BY <2>2, <2>3
<1>. QED BY <1>0, <1>4, <1>5, <1>6, RxSuffices

\* Steps of the refill leave the run of stored entries alone.
LEMMA RunUnderFill ==
  ASSUME RingInv, NEW w \in Contexts, RxInterrupt(w),
         rx[w].pc \in {"refill", "fill"}, ~Looping(w)',
         RxAt' = RxAt, StoredSet' = StoredSet
  PROVE  RunInv'
<1>. USE DEF RingInv, PlaceInv
<1>1. PICK s \in 0 .. NUM_RX_DESC : RunIs(s)
  BY DEF RunInv
<1>2. nic' = nic
  BY RxFrame
<1>3. ~Looping("task")' /\ (rx'["task"].pc \in {"refill", "fill", "lock"} => s = 0)
  <2>1. CASE w = "task"
    BY <1>1, <2>1 DEF RunIs
  <2>2. CASE w # "task"
    BY <1>1, <2>2, TaskApart DEF RunIs
  <2>. QED BY <2>1, <2>2
<1>4. RunIs(s)'
  BY <1>1, <1>2, <1>3 DEF RunIs
<1>. QED BY <1>4 DEF RunInv

\* rtl8101_rx_fill is called with the window.
LEMMA PlaceRefill ==
  ASSUME RingInv, TypeInv', NEW w \in Contexts, RxRefill(w)
  PROVE  PlaceInv'
<1>. USE DEF RingInv, PlaceInv
<1>0. RxInterrupt(w)
  BY DEF RxInterrupt
<1>a. rx \in [Contexts -> RxCall] /\ rx[w] \in RxCall
  BY PlaceType
<1>1. /\ rx'[w].pc = "fill" /\ rx[w].pc = "refill"
      /\ rx'[w].cur = dirty_rx /\ rx'[w].start = dirty_rx
      /\ rx'[w].left = (cur_rx - dirty_rx) % IdxMod
      /\ UNCHANGED <<cur_rx, dirty_rx, rx_skbuff, RxDescArray, nic>>
  BY <1>a DEF RxRefill, RxCall, idx, ring
<1>2. /\ RxAt = cur_rx /\ FillAt = dirty_rx /\ RxAt' = RxAt /\ FillAt' = FillAt
      /\ ~Quiet' /\ ~Looping(w)'
  BY <1>0, <1>1, RxPlaces DEF Looping
<1>3. Pending' = Pending /\ Holes' = Holes /\ StoredSet' = StoredSet
  BY <1>1, <1>2 DEF Pending, Holes, StoredSet, Stored
<1>4. WindowInv' /\ OwnHasBuffer' /\ GapInv'
  BY <1>1, <1>2, <1>3 DEF WindowInv, OwnHasBuffer, GapInv
<1>5. CallInv(w)'
  BY <1>1, <1>2, <1>3 DEF CallInv, Pending
<1>6. RunInv'
  BY <1>0, <1>1, <1>2, <1>3, RunUnderFill
<1>. QED BY <1>0, <1>4, <1>5, <1>6, RxSuffices

\* One entry is refilled, or passed over.
LEMMA PlaceFill ==
  ASSUME RingInv, TypeInv', NEW w \in Contexts, RxFill(w)
  PROVE  PlaceInv'
<1>. USE DEF RingInv, PlaceInv
<1>. DEFINE e == RxEntry(w)
<1>0. RxInterrupt(w) /\ rx[w].pc = "fill" /\ rx[w].left > 0
  BY DEF RxInterrupt, RxFill
<1>a. /\ rx \in [Contexts -> RxCall] /\ rx[w] \in RxCall
      /\ RxDescArray \in [Entries -> DescType]
      /\ rx_skbuff \in [Entries -> BOOLEAN]
      /\ RxAt \in Idx /\ FillAt \in Idx /\ Pending \in Nat
      /\ e \in Entries
  BY PlaceType, EntryType DEF TypeInv
<1>1. /\ rx'[w].pc = "fill" /\ rx'[w].start = rx[w].start
      /\ rx'[w].cur = (rx[w].cur + 1) % IdxMod /\ rx'[w].left = rx[w].left - 1
      /\ UNCHANGED <<cur_rx, dirty_rx, nic>>
  BY <1>a, <1>0 DEF RxFill, RxAdvance, RxCall, idx
<1>2. /\ RxAt' = RxAt /\ FillAt = rx[w].cur /\ FillAt' = (FillAt + 1) % IdxMod
      /\ ~Quiet' /\ ~Looping(w)' /\ e = FillAt % NUM_RX_DESC
  BY <1>0, <1>1, RxPlaces DEF Looping, RxEntry
<1>3. rx[w].left = Pending /\ rx[w].start = dirty_rx
  BY <1>0 DEF CallInv
<1>4. /\ Pending' = Pending - 1
      /\ Seg(FillAt, Pending) = {e} \cup Seg(FillAt', Pending - 1)
  BY <1>0, <1>2, <1>3, <1>a, WinMinus DEF Pending
<1>5. /\ Holes' = Holes \ {e} /\ StoredSet' = StoredSet /\ OwnHasBuffer'
  <2>1. CASE rx_skbuff[e]
    <3>1. rx_skbuff' = rx_skbuff /\ RxDescArray' = RxDescArray
      BY <2>1 DEF RxFill, ring
    <3>. HIDE DEF e
    <3>2. StoredSet' = StoredSet
      BY <3>1 DEF StoredSet, Stored
    <3>. QED BY <1>a, <2>1, <3>1, <3>2 DEF Holes, OwnHasBuffer
  <2>2. CASE ~rx_skbuff[e]
    <3>1. /\ RxDescArray' = [RxDescArray EXCEPT ![e] = MarkToAsic(@)]
          /\ rx_skbuff' = [rx_skbuff EXCEPT ![e] = TRUE]
      BY <2>2 DEF RxFill
    <3>2. /\ \A x \in Entries : x # e => RxDescArray'[x] = RxDescArray[x]
          /\ RxDescArray'[e].own
      BY <1>a, <3>1 DEF MarkToAsic
    <3>. HIDE DEF e
    <3>3. /\ \A x \in Entries : x # e => rx_skbuff'[x] = rx_skbuff[x]
          /\ rx_skbuff'[e]
      BY <1>a, <3>1
    <3>4. StoredSet' = StoredSet
      BY <1>a, <2>2, <3>2, <3>3 DEF StoredSet, Stored
    <3>5. Holes' = Holes \ {e}
      BY <1>a, <3>3 DEF Holes
    <3>. QED BY <3>2, <3>3, <3>4, <3>5 DEF OwnHasBuffer
  <2>. QED BY <2>1, <2>2
<1>. HIDE DEF e
<1>6. WindowInv'
  <2>1. Pending' <= NUM_RX_DESC
    BY <1>4, <1>a, RingConstants DEF WindowInv
  <2>2. Holes' \subseteq Seg(FillAt', Pending')
    BY <1>4, <1>5 DEF WindowInv
  <2>. QED BY <2>1, <2>2 DEF WindowInv
<1>7. GapInv'
  BY <1>2 DEF GapInv
<1>8. CallInv(w)'
  BY <1>1, <1>2, <1>3, <1>4 DEF CallInv
<1>9. RunInv'
  BY <1>0, <1>2, <1>5, RunUnderFill
<1>. QED BY <1>0, <1>5, <1>6, <1>7, <1>8, <1>9, RxSuffices

\* rtl8101_rx_fill returns and dirty_rx follows.
LEMMA PlaceFillEnd ==
  ASSUME RingInv, TypeInv', NEW w \in Contexts, RxFillEnd(w)
  PROVE  PlaceInv'
<1>. USE DEF RingInv, PlaceInv
<1>0. RxInterrupt(w) /\ rx[w].pc = "fill"
  BY DEF RxInterrupt, RxFillEnd
<1>a. /\ rx \in [Contexts -> RxCall] /\ rx[w] \in RxCall
      /\ rx[w].cur \in Idx /\ dirty_rx \in Idx /\ FillAt \in Idx /\ Pending \in Nat
  BY PlaceType DEF RxCall, TypeInv, TypeOK
<1>1. rx[w].left = Pending /\ rx[w].start = dirty_rx
  BY <1>0 DEF CallInv
<1>2. /\ rx'[w].pc \in {"idle", "complete", "lock"}
      /\ UNCHANGED <<cur_rx, rx_skbuff, RxDescArray, nic>>
  BY <1>a DEF RxFillEnd, RxReturn, Returned, ring
<1>3. dirty_rx' = rx[w].cur
  <2>1. dirty_rx' = (dirty_rx + (rx[w].cur - dirty_rx)) % IdxMod
    BY <1>1 DEF RxFillEnd, RxDelta
  <2>2. dirty_rx + (rx[w].cur - dirty_rx) = rx[w].cur
    BY <1>a, RingConstants
  <2>3. rx[w].cur % IdxMod = rx[w].cur
    BY <1>a, RingConstants, ModSmall
  <2>. QED BY <2>1, <2>2, <2>3
<1>4. /\ RxAt' = RxAt /\ FillAt = rx[w].cur /\ FillAt' = FillAt /\ ~Looping(w)'
  BY <1>0, <1>2, <1>3, RxPlaces DEF Looping
<1>5. Pending' = Pending /\ Holes' = Holes /\ StoredSet' = StoredSet
  BY <1>2, <1>4 DEF Pending, Holes, StoredSet, Stored
<1>6. WindowInv' /\ OwnHasBuffer'
  BY <1>2, <1>4, <1>5 DEF WindowInv, OwnHasBuffer
<1>7. GapInv'
  <2>1. Pending = 0 \/ ~rx_skbuff[RxEntry(w)]
    BY <1>1 DEF RxFillEnd
  <2>2. RxEntry(w) \in Entries /\ RxEntry(w) = FillAt % NUM_RX_DESC
    BY <1>4, EntryType DEF TypeInv, RxEntry
  <2>3. Pending = 0 \/ FillAt % NUM_RX_DESC \in Holes
    BY <2>1, <2>2 DEF Holes
  <2>. QED BY <1>4, <1>5, <2>3 DEF GapInv
<1>8. CallInv(w)'
  BY <1>2, <1>4 DEF CallInv
<1>9. RunInv'
  BY <1>0, <1>4, <1>5, RunUnderFill
<1>. QED BY <1>0, <1>6, <1>7, <1>8, <1>9, RxSuffices

\* Outside rtl8101_rx_interrupt.
Away(pc) == pc \notin {"loop", "error", "take", "refill", "fill"}

\* Steps that leave the ring alone and move a context only outside the loop
\* and the refill.
LEMMA PlaceSame ==
  ASSUME RingInv, UNCHANGED <<idx, ring>>, nic' = nic \/ ~nic'.enb,
         \A w \in Contexts :
           rx'[w] = rx[w] \/ (Away(rx[w].pc) /\ Away(rx'[w].pc)),
         rx'["task"].pc = "lock" => rx["task"].pc = "lock"
  PROVE  PlaceInv'
<1>. USE DEF RingInv, PlaceInv, Away
<1>1. UNCHANGED <<cur_rx, dirty_rx, rx_skbuff, RxDescArray>>
  BY DEF idx, ring
<1>a. "poll" \in Contexts /\ "task" \in Contexts
  BY DEF Contexts
<1>2. RxAt' = RxAt /\ FillAt' = FillAt
  BY <1>1, <1>a DEF RxAt, FillAt, Looping
<1>3. Quiet' <=> Quiet
  BY DEF Quiet
<1>4. Pending' = Pending /\ Holes' = Holes /\ StoredSet' = StoredSet
  BY <1>1, <1>2 DEF Pending, Holes, StoredSet, Stored
<1>5. WindowInv' /\ OwnHasBuffer' /\ GapInv'
  BY <1>1, <1>2, <1>3, <1>4 DEF WindowInv, OwnHasBuffer, GapInv
<1>6. ASSUME NEW w \in Contexts PROVE CallInv(w)'
  BY <1>1, <1>4 DEF CallInv, Looping, RxEntry
<1>7. RunInv'
  <2>1. PICK s \in 0 .. NUM_RX_DESC : RunIs(s)
    BY DEF RunInv
  <2>2. /\ Looping("task")' => s <= rx'["task"].left
        /\ rx'["task"].pc \in {"refill", "fill", "lock"} => s = 0
    BY <1>a, <2>1 DEF RunIs, Looping
  <2>3. RunIs(s)'
    BY <1>2, <1>4, <2>1, <2>2 DEF RunIs
  <2>. QED BY <2>3 DEF RunInv
<1>. QED BY <1>5, <1>6, <1>7

\* The receiver starts at the first descriptor of a ring with nothing stored.
LEMMA PlaceFresh ==
  ASSUME TypeInv', OwnHasBuffer, UNCHANGED ring,
         cur_rx' = 0, dirty_rx' = 0, nic' = HwInit,
         \A e \in Entries : RxDescArray[e].own,
         \A w \in Contexts : Away(rx'[w].pc)
  PROVE  PlaceInv'
<1>. USE DEF Away
<1>1. UNCHANGED <<rx_skbuff, RxDescArray>>
  BY DEF ring
<1>2. RxAt' = 0 /\ FillAt' = 0 /\ Quiet'
  BY DEF RxAt, FillAt, Looping, Contexts, Quiet
<1>3. Pending' = 0
  <2>1. (0 - 0) % IdxMod = 0
    BY RingConstants, ModSmall
  <2>. QED BY <1>2, <2>1 DEF Pending
<1>4. Holes' = {} /\ StoredSet' = {}
  BY <1>1 DEF Holes, StoredSet, Stored, OwnHasBuffer
<1>5. Seg(0, 0) = {}
  BY SegZero
<1>6. WindowInv' /\ OwnHasBuffer' /\ GapInv'
  BY <1>1, <1>2, <1>3, <1>4, RingConstants DEF WindowInv, OwnHasBuffer, GapInv
<1>7. ASSUME NEW w \in Contexts PROVE CallInv(w)'
  BY DEF CallInv, Looping
<1>8. RunInv'
  <2>1. (0 + 0) % NUM_RX_DESC = 0 /\ 0 \in 0 .. NUM_RX_DESC
    BY RingConstants, ModSmall
  <2>2. RunIs(0)'
    BY <1>2, <1>4, <1>5, <2>1 DEF RunIs, HwInit, Looping, Contexts
  <2>. QED BY <2>1, <2>2 DEF RunInv
<1>. QED BY <1>6, <1>7, <1>8 DEF PlaceInv

\* The NIC stores a frame.
LEMMA PlaceStore ==
  ASSUME RingInv, TypeInv', NEW f, NicStore(f)
  PROVE  PlaceInv'
<1>. USE DEF RingInv, PlaceInv
<1>. DEFINE e == nic.pos
<1>a. /\ RxDescArray \in [Entries -> DescType] /\ e \in Entries
      /\ RxAt \in Idx /\ RxAt \in Int /\ FillAt \in Idx /\ Pending \in Nat
  BY PlaceType DEF TypeInv, TypeOK
<1>1. /\ nic.enb /\ RxDescArray[e].own
      /\ nic'.enb = nic.enb
      /\ nic'.pos = IF RxDescArray[e].eor THEN 0 ELSE e + 1
      /\ UNCHANGED <<cur_rx, dirty_rx, rx_skbuff, rx>>
  BY DEF NicStore, NicListens, idx, TypeInv, TypeOK
<1>2. /\ \A x \in Entries : x # e => RxDescArray'[x] = RxDescArray[x]
      /\ ~RxDescArray'[e].own
  <2>1. RxDescArray' = [RxDescArray EXCEPT ![e] =
          [RxDescArray[e] EXCEPT !.own = FALSE, !.frame = f]]
    BY <1>a DEF NicStore
  <2>2. [RxDescArray[e] EXCEPT !.own = FALSE, !.frame = f].own = FALSE
    BY <1>a DEF DescType
  <2>. QED BY <1>a, <2>1, <2>2
<1>3. rx_skbuff[e]
  BY <1>1, <1>a DEF OwnHasBuffer
<1>4. /\ RxAt' = RxAt /\ FillAt' = FillAt /\ (Quiet' <=> Quiet) /\ Holes' = Holes
  BY <1>1 DEF RxAt, FillAt, Looping, Quiet, Holes
<1>5. Pending' = Pending
  BY <1>4 DEF Pending
<1>. HIDE DEF e
<1>6. StoredSet' = StoredSet \cup {e} /\ e \notin StoredSet
  BY <1>1, <1>2, <1>3, <1>a DEF StoredSet, Stored
<1>7. WindowInv' /\ OwnHasBuffer' /\ GapInv'
  BY <1>1, <1>2, <1>4, <1>5 DEF WindowInv, OwnHasBuffer, GapInv
<1>8. ASSUME NEW w \in Contexts PROVE CallInv(w)'
  <2>1. RxEntry(w)' = RxEntry(w) /\ RxEntry(w) \in Entries
    BY <1>1, EntryType DEF RxEntry, TypeInv
  <2>2. ~RxDescArray[RxEntry(w)].own => ~RxDescArray'[RxEntry(w)].own
    BY <1>2, <2>1
  <2>. QED BY <1>1, <1>5, <2>1, <2>2 DEF CallInv, Looping
<1>9. RunInv'
  <2>1. PICK s \in 0 .. NUM_RX_DESC : RunIs(s)
    BY DEF RunInv
  <2>2. e = (RxAt + s) % NUM_RX_DESC
    BY <1>1, <2>1 DEF RunIs, e
  <2>3. s \in 0 .. NUM_RX_DESC - 1
    <3>1. s = NUM_RX_DESC => Seg(RxAt, s) = Entries
      BY <1>a, RingConstants, SegAll DEF Seg
    <3>2. s # NUM_RX_DESC
      BY <1>6, <1>a, <2>1, <3>1 DEF RunIs
    <3>. QED BY <3>2, RingConstants
  <2>4. StoredSet' = Seg(RxAt, s + 1)
    BY <1>6, <1>a, <2>1, <2>2, <2>3, RunPlus DEF RunIs
  <2>5. nic'.pos = (RxAt + (s + 1)) % NUM_RX_DESC
    <3>1. RxDescArray[e].eor <=> e = NUM_RX_DESC - 1
      BY <1>a DEF TypeInv, RingEndKept
    <3>2. nic'.pos = (e + 1) % NUM_RX_DESC
      <4>1. CASE e = NUM_RX_DESC - 1
        <5>1. (e + 1) % NUM_RX_DESC = (e + 1) - NUM_RX_DESC
          BY <4>1, RingConstants, ModWrap
        <5>. QED BY <1>1, <3>1, <4>1, <5>1, RingConstants
      <4>2. CASE e # NUM_RX_DESC - 1
        <5>1. (e + 1) % NUM_RX_DESC = e + 1
          BY <1>a, <4>2, RingConstants, ModSmall
        <5>. QED BY <1>1, <3>1, <4>2, <5>1
      <4>. QED BY <4>1, <4>2
    <3>3. RxAt + s \in Int /\ 1 \in Int /\ (RxAt + s) + 1 = RxAt + (s + 1)
      BY <1>a, RingConstants
    <3>4. (((RxAt + s) % NUM_RX_DESC) + 1) % NUM_RX_DESC
            = ((RxAt + s) + 1) % NUM_RX_DESC
      BY <3>3, RingConstants, ModAdd
    <3>. QED BY <2>2, <3>2, <3>3, <3>4
  <2>6. rx["task"].pc = "idle"
    BY <1>1 DEF AloneInv, InTask
  <2>7. RunIs(s + 1)' /\ s + 1 \in 0 .. NUM_RX_DESC
    BY <1>1, <1>4, <2>3, <2>4, <2>5, <2>6, RingConstants DEF RunIs, Looping
  <2>. QED BY <2>7 DEF RunInv
<1>. QED BY <1>7, <1>8, <1>9

\* The ring rtl8101_open leaves.
LEMMA RingInit == Init => RingInv
<1>. SUFFICES ASSUME Init PROVE RingInv
  OBVIOUS
<1>1. TypeInv /\ AloneInv
  BY TypeInit, AloneInit
<1>2. /\ RxAt = 0 /\ FillAt = 0 /\ Quiet
      /\ \A w \in Contexts : Away(rx[w].pc)
      /\ \A e \in Entries : RxDescArray[e].own /\ rx_skbuff[e]
  BY DEF Init, RxAt, FillAt, Looping, Contexts, Quiet, Returned, Away
<1>3. Pending = 0
  <2>1. (0 - 0) % IdxMod = 0
    BY RingConstants, ModSmall
  <2>. QED BY <1>2, <2>1 DEF Pending
<1>4. Holes = {} /\ StoredSet = {}
  BY <1>2 DEF Holes, StoredSet, Stored
<1>5. WindowInv /\ OwnHasBuffer /\ GapInv
  BY <1>2, <1>3, <1>4, RingConstants DEF WindowInv, OwnHasBuffer, GapInv
<1>6. ASSUME NEW w \in Contexts PROVE CallInv(w)
  BY <1>2 DEF CallInv, Looping, Away
<1>7. RunInv
  <2>1. (0 + 0) % NUM_RX_DESC = 0 /\ 0 \in 0 .. NUM_RX_DESC /\ Seg(0, 0) = {}
    BY RingConstants, ModSmall, SegZero
  <2>2. RunIs(0)
    BY <1>2, <1>4, <2>1 DEF RunIs, Init, HwInit, Looping, Contexts, Away
  <2>. QED BY <2>1, <2>2 DEF RunInv
<1>8. OffInv
  BY <1>2 DEF OffInv, Init, Returned, IntrOn, Contexts
<1>. QED BY <1>1, <1>5, <1>6, <1>7, <1>8 DEF RingInv, PlaceInv

\* The environment these proofs are about: the link stays up, frames come only
\* after the link timer has seen it, and the reset task ends before the next
\* timeout of the watchdog.
Steady == ~LinkFlaps /\ ~EarlyFrames /\ TaskInTime

\* Before the first link-up no context runs and no frame comes.
LEMMA OffNext ==
  ASSUME Steady, RingInv, [Next]_vars
  PROVE  OffInv'
<1>. USE DEF RingInv, OffInv
<1>1. CASE carrier
  BY <1>1 DEF Next, RxInterrupt, RxBegin, RxLook, RxError, RxTake, RxCommit,
     RxRefill, RxFill, RxFillEnd, Interrupt, PollEnter, PollComplete, PollUnmask,
     LinkUp, LinkDown, TxTimeout, TaskQuiesce, TaskRecover, TaskRetry, NicStore,
     NicLose, Cable, vars, AloneInv
<1>2. CASE ~carrier
  <2>1. \A w \in Contexts : ~RxInterrupt(w)
    BY <1>2, RxFrame DEF InRx, Contexts
  <2>2. ~Interrupt /\ ~PollEnter /\ ~PollComplete /\ ~PollUnmask
    BY <1>2 DEF Interrupt, PollEnter, PollComplete, PollUnmask
  <2>3. ~LinkDown /\ ~TxTimeout /\ ~TaskQuiesce /\ ~TaskRecover /\ ~TaskRetry /\ ~Cable
    BY <1>2 DEF LinkDown, TxTimeout, TaskQuiesce, TaskRecover, TaskRetry, Cable, Steady
  <2>4. ~NicLose /\ \A f \in Frames \cup {Bad} : ~NicStore(f)
    BY <1>2 DEF NicLose, NicStore, NicListens, Steady
  <2>5. LinkUp => OffInv'
    BY DEF LinkUp
  <2>6. UNCHANGED vars => OffInv'
    BY DEF vars, idx, ring
  <2>. QED BY <2>1, <2>2, <2>3, <2>4, <2>5, <2>6 DEF Next
<1>. QED BY <1>1, <1>2 DEF TypeInv, TypeOK

\* Every step keeps everyone's place in the ring.
LEMMA RingNext ==
  ASSUME Steady, RingInv, [Next]_vars
  PROVE  RingInv'
<1>. USE DEF RingInv
<1>0. TypeInv' /\ AloneInv' /\ OffInv'
  BY TypeNext, AloneNext, OffNext DEF Steady
<1>a. /\ "poll" \in Contexts /\ "task" \in Contexts
      /\ rx \in [Contexts -> RxCall]
      /\ rx["poll"] \in RxCall /\ rx["task"] \in RxCall
  BY PlaceType
<1>1. CASE \E w \in Contexts : RxInterrupt(w)
  <2>1. PICK w \in Contexts : RxInterrupt(w)
    BY <1>1
  <2>. QED
    BY <1>0, <2>1, PlaceBegin, PlaceLook, PlaceAdvance, PlaceCommit, PlaceRefill,
       PlaceFill, PlaceFillEnd DEF RxInterrupt
<1>2. CASE Interrupt
  BY <1>0, <1>2, PlaceSame DEF Interrupt
<1>3. CASE PollEnter
  <2>1. /\ rx'["poll"].pc = "begin" /\ rx["poll"].pc = "idle"
        /\ rx'["task"] = rx["task"]
    BY <1>3, <1>a DEF PollEnter, RxCall
  <2>. QED BY <1>0, <1>3, <2>1, PlaceSame DEF PollEnter, Away, Contexts
<1>4. CASE PollComplete
  <2>1. /\ rx'["poll"].pc = "unmask" /\ rx["poll"].pc = "complete"
        /\ rx'["task"] = rx["task"]
    BY <1>4, <1>a DEF PollComplete, RxCall
  <2>. QED BY <1>0, <1>4, <2>1, PlaceSame DEF PollComplete, Away, Contexts
<1>5. CASE PollUnmask
  <2>1. /\ rx'["poll"].pc = "idle" /\ rx["poll"].pc = "unmask"
        /\ rx'["task"] = rx["task"]
    BY <1>5, <1>a DEF PollUnmask, Returned
  <2>. QED BY <1>0, <1>5, <2>1, PlaceSame DEF PollUnmask, Away, Contexts
<1>6. CASE LinkUp
  <2>1. /\ \A e \in Entries : RxDescArray[e].own
        /\ \A w \in Contexts : Away(rx'[w].pc)
        /\ cur_rx' = 0 /\ dirty_rx' = 0
    BY <1>6 DEF LinkUp, OffInv, Away, Contexts, idx
  <2>. QED BY <1>0, <1>6, <2>1, PlaceFresh DEF LinkUp, PlaceInv
<1>7. CASE LinkDown \/ Cable
  BY <1>7 DEF LinkDown, Cable, AloneInv, Steady
<1>8. CASE TxTimeout
  BY <1>0, <1>8, PlaceSame DEF TxTimeout, HwReset
<1>9. CASE TaskQuiesce
  <2>1. /\ rx'["task"].pc = "begin" /\ rx["task"].pc = "idle"
        /\ rx'["poll"] = rx["poll"]
    BY <1>9, <1>a DEF TaskQuiesce, RxCall
  <2>. QED BY <1>0, <1>9, <2>1, PlaceSame DEF TaskQuiesce, Away, Contexts
<1>10. CASE TaskRecover
  <2>1. /\ rx["task"].pc = "lock" /\ rx["poll"].pc \in {"idle", "unmask"}
        /\ dirty_rx = cur_rx /\ dirty_rx \in Int
    BY <1>10, RingConstants DEF TaskRecover, AloneInv, InTask, TypeInv, TypeOK
  <2>2. RxAt = cur_rx /\ FillAt = cur_rx
    BY <2>1 DEF RxAt, FillAt, Looping
  <2>3. Pending = 0
    <3>1. cur_rx - cur_rx = 0 /\ 0 % IdxMod = 0
      BY <2>1, RingConstants, ModSmall
    <3>. QED BY <2>2, <3>1 DEF Pending
  <2>4. Holes = {}
    <3>1. Seg(FillAt, 0) = {}
      BY PlaceType, RingConstants, SegType DEF Seg
    <3>. QED BY <2>3, <3>1 DEF PlaceInv, WindowInv
  <2>5. StoredSet = {}
    <3>1. PICK s \in 0 .. NUM_RX_DESC : RunIs(s)
      BY DEF PlaceInv, RunInv
    <3>2. StoredSet = Seg(RxAt, 0)
      BY <2>1, <3>1 DEF RunIs
    <3>. QED BY <3>2, PlaceType, RingConstants, SegType DEF Seg
  <2>6. \A e \in Entries : RxDescArray[e].own
    <3>1. \A e \in Entries : RxDescArray[e].own \in BOOLEAN
      BY PlaceType DEF DescType
    <3>. QED BY <2>4, <2>5, <3>1 DEF Holes, StoredSet, Stored
  <2>7. \A w \in Contexts : Away(rx'[w].pc)
    BY <1>10, <1>a, <2>1 DEF TaskRecover, Returned, Away, Contexts
  <2>. QED BY <1>0, <1>10, <2>6, <2>7, PlaceFresh DEF TaskRecover, PlaceInv
<1>11. CASE TaskRetry
  <2>1. /\ rx'["task"].pc = "idle" /\ rx["task"].pc = "lock"
        /\ rx'["poll"] = rx["poll"]
    BY <1>11, <1>a DEF TaskRetry, Returned
  <2>. QED BY <1>0, <1>11, <2>1, PlaceSame DEF TaskRetry, Away, Contexts
<1>12. CASE \E f \in Frames \cup {Bad} : NicStore(f)
  BY <1>0, <1>12, PlaceStore
<1>13. CASE NicLose
  BY <1>0, <1>13, PlaceSame DEF NicLose
<1>14. CASE UNCHANGED vars
  BY <1>0, <1>14, PlaceSame DEF vars
<1>. QED
  BY <1>1, <1>2, <1>3, <1>4, <1>5, <1>6, <1>7, <1>8, <1>9, <1>10, <1>11,
     <1>12, <1>13, <1>14 DEF Next

\* The invariant holds throughout.
LEMMA RingAlways == Steady => (Spec => []RingInv)
<1>. SUFFICES ASSUME Steady PROVE Spec => []RingInv
  OBVIOUS
<1>1. RingInv /\ [Next]_vars => RingInv'
  BY RingNext
<1>. QED BY <1>1, RingInit, PTL DEF Spec

\* With the reset task in the game as well, the NIC never owns a descriptor
\* without a buffer: neither the poll nor the task hands an entry back that it
\* could not refill.
THEOREM OwnedKeepsBuffer == Steady => (Spec => []OwnHasBuffer)
<1>. SUFFICES ASSUME Steady PROVE Spec => []OwnHasBuffer
  OBVIOUS
<1>1. RingInv => OwnHasBuffer
  BY DEF RingInv, PlaceInv
<1>. QED BY <1>1, RingAlways, PTL

\* rtl8101_rx_interrupt never takes a buffer out of an entry that has none,
\* however many allocations fail and wherever the indexes wrap: rx_left counts
\* exactly the entries beside the window that waits for a refill.
THEOREM BufferWhenTaken == Steady => (Spec => []NoNullSkb)
<1>. SUFFICES ASSUME Steady PROVE Spec => []NoNullSkb
  OBVIOUS
<1>1. ASSUME RingInv PROVE NoNullSkb
  <2>. SUFFICES ASSUME NEW w \in Contexts, rx[w].pc = "take"
                PROVE  rx_skbuff[RxEntry(w)]
    BY DEF NoNullSkb
  <2>1. TypeInv /\ CallInv(w) /\ WindowInv
    BY <1>1 DEF RingInv, PlaceInv
  <2>2. RxAt = rx[w].cur
    BY <1>1 DEF RingInv, AloneInv, InTask, InRx, RxAt, Looping, Contexts
  <2>3. RxAt \in Idx /\ FillAt \in Idx /\ Pending \in Nat /\ rx[w].left \in Nat
    BY <2>1, PlaceType DEF RxCall
  <2>4. rx[w].left > 0 /\ rx[w].left <= NUM_RX_DESC - Pending
    BY <2>1 DEF TypeInv, LeftPositive, CallInv, Looping
  <2>5. Pending < NUM_RX_DESC
    BY <2>3, <2>4, RingConstants
  <2>6. RxEntry(w) \in Entries /\ RxEntry(w) = RxAt % NUM_RX_DESC
    BY <2>1, <2>2, EntryType DEF TypeInv, RxEntry
  <2>7. RxEntry(w) \notin Seg(FillAt, Pending)
    BY <2>3, <2>5, <2>6, WinPlus DEF Pending
  <2>. QED BY <2>1, <2>6, <2>7 DEF WindowInv, Holes
<1>2. RingInv => NoNullSkb
  BY <1>1
<1>. QED BY <1>2, RingAlways, PTL

\* Between two calls of rtl8101_rx_interrupt every entry without a buffer lies
\* between dirty_rx and cur_rx, where the next refill finds it.
THEOREM RefillFindsHoles == Steady => (Spec => []HolesInWindow)
<1>. SUFFICES ASSUME Steady PROVE Spec => []HolesInWindow
  OBVIOUS
<1>1. ASSUME RingInv, Quiet
      PROVE  Holes \subseteq {((dirty_rx + k) % IdxMod) % NUM_RX_DESC :
                                k \in 0 .. ((cur_rx - dirty_rx) % IdxMod) - 1}
  <2>1. RxAt = cur_rx /\ FillAt = dirty_rx
    BY <1>1 DEF Quiet, RxAt, FillAt, Looping, Contexts
  <2>2. Holes \subseteq Segment(NUM_RX_DESC, dirty_rx, (cur_rx - dirty_rx) % IdxMod)
    BY <1>1, <2>1 DEF RingInv, PlaceInv, WindowInv, Pending, Seg
  <2>3. dirty_rx \in Int /\ (cur_rx - dirty_rx) % IdxMod \in Int
    BY <1>1, <2>1, PlaceType DEF RingInv, Pending
  <2>4. \A k \in 0 .. ((cur_rx - dirty_rx) % IdxMod) - 1 :
          ((dirty_rx + k) % IdxMod) % NUM_RX_DESC = (dirty_rx + k) % NUM_RX_DESC
    <3>1. \A k \in 0 .. ((cur_rx - dirty_rx) % IdxMod) - 1 : dirty_rx + k \in Int
      BY <2>3
    <3>. QED BY <3>1, EntryIdx
  <2>. QED BY <2>2, <2>4 DEF Segment
<1>2. RingInv => HolesInWindow
  BY <1>1 DEF HolesInWindow, Holes
<1>. QED BY <1>2, RingAlways, PTL

\* Between two calls of rtl8101_rx_interrupt a stored frame, if there is one,
\* is at cur_rx: neither a full ring, nor a shortage of buffers, nor the reset
\* task ever makes the driver wait at the wrong entry.
THEOREM FrameIsAtCur == Steady => (Spec => []NextToProcess)
<1>. SUFFICES ASSUME Steady PROVE Spec => []NextToProcess
  OBVIOUS
<1>1. ASSUME RingInv, Quiet, NEW x \in Entries, Stored(x)
      PROVE  Stored(cur_rx % NUM_RX_DESC)
  <2>1. RxAt = cur_rx
    BY <1>1 DEF Quiet, RxAt, Looping, Contexts
  <2>2. PICK s \in 0 .. NUM_RX_DESC : RunIs(s)
    BY <1>1 DEF RingInv, PlaceInv, RunInv
  <2>3. RxAt \in Idx /\ RxAt \in Int
    BY <1>1, PlaceType DEF RingInv
  <2>4. s # 0
    <3>1. Seg(RxAt, 0) = {}
      BY <2>3, RingConstants, SegType DEF Seg
    <3>. QED BY <1>1, <2>2, <3>1 DEF RunIs, StoredSet
  <2>5. RxAt % NUM_RX_DESC \in Seg(RxAt, s)
    <3>1. s \in 1 .. NUM_RX_DESC
      BY <2>4, RingConstants
    <3>. QED BY <2>3, <3>1, RunMinus
  <2>. QED BY <2>1, <2>2, <2>5 DEF RunIs, StoredSet
<1>2. RingInv => NextToProcess
  BY <1>1 DEF NextToProcess
<1>. QED BY <1>2, RingAlways, PTL

-----------------------------------------------------------------------------
(***************************************************************************)
(* No wake-up is lost, as long as the watchdog does not start the reset    *)
(* task and the NIC has its interrupt for itself: the handler, which does  *)
(* not look at the mask, is then not called while the interrupts are       *)
(* masked.  They are masked from the interrupt to the end of poll,         *)
(* so that what lands meanwhile stays in IntrStatus; a poll that will      *)
(* unmask them has used less than its budget, and then it has looked at    *)
(* every frame that was there when it began.                               *)
(***************************************************************************)
GoodSet == {e \in StoredSet : RxDescArray[e].frame \in Frames}
Looked  == (RxAt - cur_rx) % IdxMod

\* poll is not coming (back) for the frames in the ring.
Asleep ==
  \/ rx["poll"].pc \in {"complete", "unmask"}
  \/ rx["poll"].pc = "idle" /\ ~napi
  \/ rx["poll"].pc \in {"refill", "fill"} /\ rx["poll"].count < Budget

EventInv ==
  /\ PollOnly
  /\ intr.mask => ~napi /\ rx["poll"].pc = "idle"
  /\ rx["poll"].pc = "unmask" => ~napi
  /\ Looping("poll") => rx["poll"].left + Looked <= NUM_RX_DESC
  /\ ~intr.status /\ Asleep => GoodSet = {}
  /\ ~intr.status /\ Looping("poll") =>
       \/ GoodSet \subseteq Seg(RxAt, rx["poll"].left)
       \/ rx["poll"].left + Looked = Budget

\* A step that stores nothing and leaves the stored frames what they are adds
\* no good frame.
LEMMA GoodShrinks ==
  ASSUME StoredSet' \subseteq StoredSet,
         \A e \in StoredSet' : RxDescArray'[e].frame = RxDescArray[e].frame
  PROVE  GoodSet' \subseteq GoodSet
  BY DEF GoodSet

\* The length of what the call has looked at.
LEMMA LookedType ==
  ASSUME TypeInv PROVE Looked \in Nat
  BY PlaceType, WinType DEF Looked, TypeInv, TypeOK

\* Nothing is stored when rtl8101_open returns.
LEMMA EventInit == Init => EventInv
<1>. SUFFICES ASSUME Init PROVE EventInv
  OBVIOUS
<1>1. PollOnly /\ rx["poll"].pc = "idle" /\ ~napi
  BY DEF Init, PollOnly, Returned, Contexts
<1>2. GoodSet = {}
  BY DEF Init, GoodSet, StoredSet, Stored
<1>. QED BY <1>1, <1>2 DEF EventInv, Looping

\* rtl8101_rx_interrupt begins in the poll.
LEMMA EventBegin ==
  ASSUME RingInv, EventInv, TypeInv', RxBegin("poll")
  PROVE  EventInv'
<1>. USE DEF RingInv, PlaceInv, EventInv
<1>. DEFINE r == rx["poll"]
<1>a. /\ rx \in [Contexts -> RxCall] /\ "poll" \in Contexts /\ "task" \in Contexts
      /\ Pending \in Nat /\ RxAt \in Int /\ cur_rx \in Int
  BY PlaceType, RingConstants DEF TypeInv, TypeOK
<1>0. RxInterrupt("poll")
  BY DEF RxInterrupt
<1>1. /\ r'.pc = "loop" /\ r'.left = RxLeft("poll") /\ r.pc = "begin"
      /\ rx'["task"] = rx["task"]
      /\ UNCHANGED <<cur_rx, dirty_rx, rx_skbuff, RxDescArray, napi, work, intr>>
  BY <1>a DEF RxBegin, Returned, idx, ring
<1>2. RxAt = cur_rx /\ FillAt = dirty_rx /\ RxAt' = RxAt /\ Quiet
  BY <1>a, <1>0, <1>1, RxPlaces DEF RxBegin, Returned, Looping
<1>3. Looked' = 0
  <2>1. cur_rx - cur_rx = 0 /\ 0 % IdxMod = 0
    BY <1>a, RingConstants, ModSmall
  <2>. QED BY <1>1, <1>2, <2>1 DEF Looked
<1>4. GoodSet' = GoodSet /\ GoodSet \subseteq StoredSet
  BY <1>1 DEF GoodSet, StoredSet, Stored
<1>5. /\ r'.left \in Nat /\ r'.left <= NUM_RX_DESC - Pending
      /\ r'.left = NUM_RX_DESC - Pending \/ r'.left = Budget
  BY <1>1, <1>2, LeftIsRest
<1>6. r'.left + Looked' <= NUM_RX_DESC
  BY <1>3, <1>5, <1>a, RingConstants
<1>7. r'.left = NUM_RX_DESC - Pending => GoodSet \subseteq Seg(RxAt, r'.left)
  <2>. SUFFICES ASSUME r'.left = NUM_RX_DESC - Pending
                PROVE  StoredSet \subseteq Seg(RxAt, r'.left)
    BY <1>4
  <2>1. PICK s \in 0 .. NUM_RX_DESC : RunIs(s)
    BY DEF RunInv
  <2>2. s <= r'.left
    BY <1>2, <2>1, RunStops DEF RunIs
  <2>3. s \in 0 .. r'.left
    BY <1>5, <2>2, RingConstants
  <2>4. Seg(RxAt, r'.left) = Seg(RxAt, s) \cup Seg(RxAt + s, r'.left - s)
    <3>. DEFINE l == r'.left
    <3>1. NUM_RX_DESC \in Nat \ {0} /\ l \in Nat /\ s \in 0 .. l
      BY <1>5, <2>3, RingConstants
    <3>. HIDE DEF l
    <3>2. Segment(NUM_RX_DESC, RxAt, l)
            = Segment(NUM_RX_DESC, RxAt, s) \cup Segment(NUM_RX_DESC, RxAt + s, l - s)
      BY ONLY <1>a, <3>1, SegSplit
    <3>. QED BY <3>2, Zenon DEF Seg, l
  <2>. QED BY <2>1, <2>4 DEF RunIs
<1>8. r'.left = Budget => r'.left + Looked' = Budget
  BY <1>3, RingConstants
<1>. QED
  BY <1>1, <1>2, <1>4, <1>5, <1>6, <1>7, <1>8 DEF PollOnly, Asleep

\* The status word of a descriptor is read in the poll.
LEMMA EventLook ==
  ASSUME RingInv, EventInv, TypeInv', RxLook("poll")
  PROVE  EventInv'
<1>. USE DEF RingInv, EventInv
<1>a. /\ rx \in [Contexts -> RxCall] /\ "poll" \in Contexts /\ "task" \in Contexts
  BY PlaceType
<1>0. RxInterrupt("poll")
  BY DEF RxInterrupt
<1>1. /\ rx'["poll"].pc \in {"error", "take"} /\ rx["poll"].pc = "loop"
      /\ rx'["poll"].left = rx["poll"].left /\ rx'["poll"].cur = rx["poll"].cur
      /\ rx'["task"] = rx["task"]
      /\ UNCHANGED <<cur_rx, dirty_rx, rx_skbuff, RxDescArray, napi, work, intr>>
  BY <1>a DEF RxLook, RxMore, RxCall, idx, ring
<1>2. RxAt' = RxAt
  BY <1>a, <1>0, <1>1, RxPlaces DEF Looping
<1>3. GoodSet' = GoodSet /\ Looked' = Looked
  BY <1>1, <1>2 DEF GoodSet, StoredSet, Stored, Looked
<1>. QED BY <1>1, <1>2, <1>3 DEF PollOnly, Asleep, Looping

\* The poll hands up a frame, or drops one.
LEMMA EventAdvance ==
  ASSUME RingInv, EventInv, TypeInv', RxError("poll") \/ RxTake("poll")
  PROVE  EventInv'
<1>. USE DEF RingInv, EventInv
<1>. DEFINE e == RxEntry("poll")
            r == rx["poll"]
<1>a. /\ rx \in [Contexts -> RxCall] /\ "poll" \in Contexts /\ "task" \in Contexts
      /\ r \in RxCall /\ r.left \in Nat
      /\ RxDescArray \in [Entries -> DescType]
      /\ rx_skbuff \in [Entries -> BOOLEAN]
      /\ RxAt \in Idx /\ RxAt \in Int /\ cur_rx \in Idx /\ Looked \in Nat
  BY PlaceType, LookedType DEF RxCall, TypeInv, TypeOK
<1>0. RxInterrupt("poll") /\ r.pc \in {"error", "take"} /\ r.left > 0
  BY <1>a DEF RxInterrupt, RxError, RxTake, TypeInv, LeftPositive
<1>b. RxAt = r.cur /\ e \in Entries /\ e = RxAt % NUM_RX_DESC
  BY <1>0, <1>a, LookedAtStored DEF RxEntry
<1>1. /\ r'.pc = "loop" /\ r'.cur = (r.cur + 1) % IdxMod /\ r'.left = r.left - 1
      /\ rx'["task"] = rx["task"]
      /\ UNCHANGED <<cur_rx, dirty_rx, napi, work, intr>>
  <2>1. /\ rx' = [rx EXCEPT !["poll"] = [RxAdvance(r) EXCEPT !.pc = "loop"]]
        /\ UNCHANGED <<cur_rx, dirty_rx, napi, work, intr>>
    BY DEF RxError, RxTake, idx
  <2>2. r' = [RxAdvance(r) EXCEPT !.pc = "loop"] /\ rx'["task"] = rx["task"]
    BY <1>a, <2>1
  <2>. QED BY <1>a, <2>1, <2>2 DEF RxAdvance, RxCall
<1>2. RxAt' = (RxAt + 1) % IdxMod
  BY <1>0, <1>a, <1>1, <1>b, RxPlaces DEF Looping
<1>3. Looked' = Looked + 1
  <2>1. (RxAt - cur_rx) % IdxMod < IdxMod - 1
    <3>1. r.left + Looked <= NUM_RX_DESC
      BY <1>0 DEF Looping
    <3>2. Looked < IdxMod - 1
      BY <1>0, <1>a, <3>1, RingConstants
    <3>. QED BY <3>2 DEF Looked
  <2>2. (((RxAt + 1) % IdxMod) - cur_rx) % IdxMod = ((RxAt - cur_rx) % IdxMod) + 1
    BY <1>a, <2>1, RingConstants, WindowGrows
  <2>. QED BY <1>1, <1>2, <2>2 DEF Looked
<1>4. r'.left + Looked' = r.left + Looked
  BY <1>1, <1>3, <1>a
<1>5. e \notin StoredSet' /\ GoodSet' \subseteq GoodSet
  <2>1. CASE RxError("poll")
    <3>1. /\ RxDescArray' = [RxDescArray EXCEPT ![e] = MarkToAsic(@)]
          /\ rx_skbuff' = rx_skbuff
      BY <2>1 DEF RxError
    <3>2. /\ \A x \in Entries : x # e => RxDescArray'[x] = RxDescArray[x]
          /\ RxDescArray'[e].own
      BY <1>a, <1>b, <3>1 DEF MarkToAsic
    <3>. HIDE DEF e
    <3>3. StoredSet' \subseteq StoredSet /\ e \notin StoredSet'
      BY <1>b, <3>1, <3>2 DEF StoredSet, Stored
    <3>4. \A x \in StoredSet' : RxDescArray'[x] = RxDescArray[x]
      BY <3>2, <3>3 DEF StoredSet
    <3>. QED BY <3>3, <3>4, GoodShrinks
  <2>2. CASE RxTake("poll")
    <3>1. /\ rx_skbuff' = [rx_skbuff EXCEPT ![e] = FALSE]
          /\ RxDescArray' = RxDescArray
      BY <2>2 DEF RxTake
    <3>. HIDE DEF e
    <3>2. StoredSet' \subseteq StoredSet /\ e \notin StoredSet'
      BY <1>a, <1>b, <3>1 DEF StoredSet, Stored
    <3>. QED BY <3>1, <3>2, GoodShrinks
  <2>. QED BY <2>1, <2>2
<1>. HIDE DEF e
<1>6. GoodSet \subseteq Seg(RxAt, r.left) => GoodSet' \subseteq Seg(RxAt', r'.left)
  <2>1. Segment(NUM_RX_DESC, RxAt, r.left)
          = {RxAt % NUM_RX_DESC} \cup Segment(NUM_RX_DESC, RxAt + 1, r.left - 1)
    <3>1. NUM_RX_DESC \in Nat \ {0}
      BY RingConstants
    <3>. HIDE DEF r
    <3>. QED BY ONLY <1>0, <1>a, <3>1, SegFirst
  <2>2. Seg(RxAt', r.left - 1) = Seg(RxAt + 1, r.left - 1)
    <3>1. RxAt + 1 \in Int /\ r.left - 1 \in Nat
      BY <1>0, <1>a
    <3>. QED BY <1>2, <3>1, SegIdx
  <2>3. Seg(RxAt, r.left) = {e} \cup Seg(RxAt', r'.left)
    BY <1>1, <1>b, <2>1, <2>2 DEF Seg
  <2>4. e \notin GoodSet'
    BY <1>5 DEF GoodSet
  <2>. QED BY <1>5, <2>3, <2>4
<1>. QED
  BY <1>0, <1>1, <1>4, <1>6 DEF PollOnly, Asleep, Looping

\* The poll leaves the loop.
LEMMA EventCommit ==
  ASSUME RingInv, EventInv, TypeInv', RxCommit("poll")
  PROVE  EventInv'
<1>. USE DEF RingInv, PlaceInv, EventInv
<1>. DEFINE r == rx["poll"]
<1>a. /\ rx \in [Contexts -> RxCall] /\ "poll" \in Contexts /\ "task" \in Contexts
      /\ r.left \in Nat /\ RxAt \in Int /\ Looked \in Nat
  BY PlaceType, LookedType DEF RxCall
<1>0. RxInterrupt("poll")
  BY DEF RxInterrupt
<1>1. /\ r'.pc = "refill" /\ r.pc = "loop"
      /\ r'.count = (r.cur - cur_rx) % IdxMod
      /\ rx'["task"] = rx["task"]
      /\ UNCHANGED <<dirty_rx, rx_skbuff, RxDescArray, napi, work, intr>>
  BY <1>a DEF RxCommit, Returned, ring
<1>2. RxAt = r.cur
  BY <1>a, <1>0, <1>1, RxPlaces DEF Looping
<1>3. GoodSet' = GoodSet /\ r'.count = Looked
  BY <1>1, <1>2 DEF GoodSet, StoredSet, Stored, Looked
<1>4. ~intr.status /\ Looked < Budget => GoodSet = {}
  <2>. SUFFICES ASSUME ~intr.status, Looked < Budget PROVE GoodSet = {}
    OBVIOUS
  <2>1. CASE r.left = 0
    <3>1. r.left + Looked # Budget
      BY <1>a, <2>1, RingConstants
    <3>2. GoodSet \subseteq Seg(RxAt, 0)
      BY <1>1, <2>1, <3>1 DEF Looping
    <3>3. Seg(RxAt, 0) = {}
      BY <1>a, RingConstants, SegType DEF Seg
    <3>. QED BY <3>2, <3>3
  <2>2. CASE r.left # 0
    <3>1. RxDescArray[RxAt % NUM_RX_DESC].own
      BY <1>1, <1>2, <1>a, <2>2 DEF RxCommit, RxMore, RxEntry
    <3>2. PICK s \in 0 .. NUM_RX_DESC : RunIs(s)
      BY DEF RunInv
    <3>3. s = 0
      BY <3>1, <3>2, OwnStops DEF RunIs
    <3>4. StoredSet = {}
      <4>1. Seg(RxAt, 0) = {}
        BY <1>a, RingConstants, SegType DEF Seg
      <4>. QED BY <3>2, <3>3, <4>1 DEF RunIs
    <3>. QED BY <3>4 DEF GoodSet
  <2>. QED BY <2>1, <2>2
<1>. QED
  BY <1>1, <1>3, <1>4 DEF PollOnly, Asleep, Looping

\* The poll refills the ring.
LEMMA EventFill ==
  ASSUME RingInv, EventInv, TypeInv',
         RxRefill("poll") \/ RxFill("poll") \/ RxFillEnd("poll")
  PROVE  EventInv'
<1>. USE DEF RingInv, EventInv
<1>. DEFINE r == rx["poll"]
<1>a. /\ rx \in [Contexts -> RxCall] /\ "poll" \in Contexts /\ "task" \in Contexts
      /\ r \in RxCall
      /\ RxDescArray \in [Entries -> DescType]
      /\ rx_skbuff \in [Entries -> BOOLEAN]
  BY PlaceType
<1>0. /\ r.pc \in {"refill", "fill"} /\ ~intr.mask /\ napi
      /\ rx'["task"] = rx["task"]
      /\ UNCHANGED <<napi, work, intr>>
  BY <1>a DEF RxRefill, RxFill, RxFillEnd, AloneInv, InRx
<1>1. CASE RxRefill("poll")
  <2>1. r'.pc = "fill" /\ r'.count = r.count
    BY <1>1, <1>a DEF RxRefill, RxCall
  <2>2. GoodSet' = GoodSet
    BY <1>1 DEF RxRefill, ring, GoodSet, StoredSet, Stored
  <2>. QED BY <1>0, <2>1, <2>2 DEF PollOnly, Asleep, Looping
<1>2. CASE RxFill("poll")
  <2>1. r'.pc = "fill" /\ r'.count = r.count
    BY <1>2, <1>a DEF RxFill, RxAdvance, RxCall
  <2>2. GoodSet' \subseteq GoodSet
    <3>. DEFINE e == RxEntry("poll")
    <3>0. e \in Entries
      BY <1>a, EntryType DEF TypeInv
    <3>1. CASE rx_skbuff[e]
      BY <1>2, <3>1 DEF RxFill, ring, GoodSet, StoredSet, Stored
    <3>2. CASE ~rx_skbuff[e]
      <4>1. /\ RxDescArray' = [RxDescArray EXCEPT ![e] = MarkToAsic(@)]
            /\ rx_skbuff' = [rx_skbuff EXCEPT ![e] = TRUE]
        BY <1>2, <3>2 DEF RxFill
      <4>2. /\ \A x \in Entries : x # e => RxDescArray'[x] = RxDescArray[x]
            /\ RxDescArray'[e].own
            /\ \A x \in Entries : x # e => rx_skbuff'[x] = rx_skbuff[x]
        BY <1>a, <3>0, <4>1 DEF MarkToAsic
      <4>. HIDE DEF e
      <4>3. StoredSet' \subseteq StoredSet /\ e \notin StoredSet'
        BY <4>2 DEF StoredSet, Stored
      <4>4. \A x \in StoredSet' : RxDescArray'[x] = RxDescArray[x]
        BY <4>2, <4>3 DEF StoredSet
      <4>. QED BY <4>3, <4>4, GoodShrinks
    <3>. QED BY <3>1, <3>2
  <2>. QED BY <1>0, <1>2, <2>1, <2>2 DEF RxFill, PollOnly, Asleep, Looping
<1>3. CASE RxFillEnd("poll")
  <2>1. r'.pc = IF r.count < Budget THEN "complete" ELSE "idle"
    BY <1>3, <1>a DEF RxFillEnd, RxReturn, Returned
  <2>2. GoodSet' = GoodSet
    BY <1>3 DEF RxFillEnd, ring, GoodSet, StoredSet, Stored
  <2>. QED BY <1>0, <2>1, <2>2 DEF PollOnly, Asleep, Looping
<1>. QED BY <1>1, <1>2, <1>3

\* Every step keeps the wake-ups.
LEMMA EventNext ==
  ASSUME Steady, ~Watchdog, ~SharedLine, RingInv, EventInv, [Next]_vars
  PROVE  EventInv'
<1>. USE DEF RingInv, EventInv
<1>0. TypeInv'
  BY TypeNext
<1>a. /\ rx \in [Contexts -> RxCall] /\ "poll" \in Contexts /\ "task" \in Contexts
      /\ rx["poll"] \in RxCall
      /\ RxDescArray \in [Entries -> DescType]
      /\ intr \in [mask : BOOLEAN, status : BOOLEAN]
  BY PlaceType DEF TypeInv, TypeOK
<1>b. ASSUME UNCHANGED <<idx, ring>>, rx' = rx
      PROVE  GoodSet' = GoodSet /\ RxAt' = RxAt /\ Looked' = Looked
  <2>1. UNCHANGED <<cur_rx, dirty_rx, rx_skbuff, RxDescArray>>
    BY <1>b DEF idx, ring
  <2>2. RxAt' = RxAt
    BY <1>b, <2>1 DEF RxAt, Looping
  <2>. QED BY <2>1, <2>2 DEF GoodSet, StoredSet, Stored, Looked
<1>c. ASSUME UNCHANGED ring PROVE GoodSet' = GoodSet
  BY <1>c DEF ring, GoodSet, StoredSet, Stored
<1>1. CASE \E w \in Contexts : RxInterrupt(w)
  <2>1. ~RxInterrupt("task")
    BY <1>a, RxFrame DEF InRx, PollOnly
  <2>2. RxInterrupt("poll")
    BY <1>1, <2>1 DEF Contexts
  <2>. QED
    BY <1>0, <2>2, EventBegin, EventLook, EventAdvance, EventCommit, EventFill
       DEF RxInterrupt
<1>2. CASE Interrupt
  BY <1>2, <1>b DEF Interrupt, IntrOff, PollOnly, Asleep, Looping
<1>3. CASE PollEnter
  <2>1. rx'["poll"].pc = "begin" /\ rx'["task"] = rx["task"]
    BY <1>3, <1>a DEF PollEnter, RxCall
  <2>. QED BY <1>3, <2>1 DEF PollEnter, PollOnly, Asleep, Looping
<1>4. CASE PollComplete
  <2>1. rx'["poll"].pc = "unmask" /\ rx'["task"] = rx["task"]
    BY <1>4, <1>a DEF PollComplete, RxCall
  <2>. QED BY <1>4, <1>c, <2>1 DEF PollComplete, PollOnly, Asleep, Looping
<1>5. CASE PollUnmask
  <2>1. rx'["poll"].pc = "idle" /\ rx'["task"] = rx["task"]
    BY <1>5, <1>a DEF PollUnmask, Returned
  <2>2. intr'.status = intr.status
    BY <1>5, <1>a DEF PollUnmask
  <2>. QED BY <1>5, <1>c, <2>1, <2>2 DEF PollUnmask, PollOnly, Asleep, Looping
<1>6. CASE LinkUp
  <2>1. GoodSet = {}
    BY <1>6 DEF LinkUp, OffInv, GoodSet, StoredSet, Stored
  <2>. QED BY <1>6, <1>c, <2>1 DEF LinkUp, OffInv, PollOnly, Looping
<1>7. CASE LinkDown \/ Cable
  BY <1>7 DEF LinkDown, Cable, AloneInv, Steady
<1>8. CASE TxTimeout \/ TaskQuiesce \/ TaskRecover \/ TaskRetry
  BY <1>8 DEF TxTimeout, TaskQuiesce, TaskRecover, TaskRetry, PollOnly
<1>9. CASE \E f \in Frames \cup {Bad} : NicStore(f)
  <2>1. PICK f \in Frames \cup {Bad} : NicStore(f)
    BY <1>9
  <2>2. /\ intr'.mask = intr.mask /\ (~intr'.status => f = Bad /\ ~intr.status)
        /\ UNCHANGED <<idx, rx_skbuff, rx, napi, work>>
    BY <2>1, <1>a DEF NicStore
  <2>3. RxAt' = RxAt /\ Looked' = Looked
    BY <2>2 DEF idx, RxAt, Looping, Looked
  <2>4. f = Bad => GoodSet' \subseteq GoodSet
    <3>. SUFFICES ASSUME f = Bad PROVE GoodSet' \subseteq GoodSet
      OBVIOUS
    <3>1. nic.pos \in Entries
      BY DEF TypeInv, TypeOK
    <3>2. RxDescArray' = [RxDescArray EXCEPT ![nic.pos] =
            [RxDescArray[nic.pos] EXCEPT !.own = FALSE, !.frame = f]]
      BY <1>a, <2>1, <3>1 DEF NicStore
    <3>3. [RxDescArray[nic.pos] EXCEPT !.own = FALSE, !.frame = f].frame = Bad
      BY <1>a, <3>1 DEF DescType
    <3>4. /\ \A x \in Entries : x # nic.pos => RxDescArray'[x] = RxDescArray[x]
          /\ RxDescArray'[nic.pos].frame = Bad
      BY <1>a, <3>1, <3>2, <3>3
    <3>5. Bad \notin Frames
      BY EnvAssumption
    <3>. QED BY <2>2, <3>4, <3>5 DEF GoodSet, StoredSet, Stored
  <2>. QED BY <2>2, <2>3, <2>4 DEF PollOnly, Asleep, Looping
<1>10. CASE NicLose
  <2>1. intr'.status /\ intr'.mask = intr.mask
    BY <1>10, <1>a DEF NicLose
  <2>. QED BY <1>10, <1>b, <2>1 DEF NicLose, PollOnly, Looping
<1>11. CASE UNCHANGED vars
  BY <1>11, <1>b DEF vars, PollOnly, Asleep, Looping
<1>. QED
  BY <1>1, <1>2, <1>3, <1>4, <1>5, <1>6, <1>7, <1>8, <1>9, <1>10, <1>11 DEF Next

\* A driver that has gone to sleep on unmasked interrupts has looked at every
\* good frame, or an interrupt is on its way: napi_complete and the unmasking
\* are two steps, frames land at any time, and yet none of them is missed.  With
\* the interrupt of an MSI, that is: on a shared line it is false.
THEOREM NoWakeUpLost ==
  Steady /\ ~Watchdog /\ ~SharedLine => (Spec => []NoLostEvent)
<1>. SUFFICES ASSUME Steady, ~Watchdog, ~SharedLine PROVE Spec => []NoLostEvent
  OBVIOUS
<1>1. RingInv /\ EventInv /\ [Next]_vars => EventInv'
  BY EventNext
<1>2. EventInv => NoLostEvent
  BY DEF EventInv, Asleep, NoLostEvent, GoodSet, StoredSet
<1>. QED BY <1>1, <1>2, EventInit, RingAlways, PTL DEF Spec

-----------------------------------------------------------------------------
(***************************************************************************)
(* The refinement of RxFifo.  The run of stored entries is the queue: the  *)
(* NIC stores behind it, a call of rtl8101_rx_interrupt looks at its first *)
(* entry and takes it off, and everything else leaves it alone.            *)
(***************************************************************************)
FrameType == Frames \cup {NULL, Bad}

\* The queue has s frames, those of the s entries from RxAt on.
WaitIs(s) ==
  /\ WaitingFrames \in Seq(FrameType) /\ Len(WaitingFrames) = s
  /\ \A i \in 1 .. s :
       WaitingFrames[i] = RxDescArray[(RxAt + (i - 1)) % NUM_RX_DESC].frame

RunIsQueue ==
  \A s \in 0 .. NUM_RX_DESC :
    TypeInv /\ AloneInv /\ StoredSet = Seg(RxAt, s) => WaitIs(s)

\* Two contexts are never in the loop together, so the position of the queue
\* is the place of the one that is.
LEMMA RxPosIs ==
  ASSUME TypeInv, AloneInv PROVE RxPos = RxAt
<1>. DEFINE c == CHOOSE w \in Contexts : Looping(w)
<1>1. ~(Looping("poll") /\ Looping("task"))
  BY DEF AloneInv, InTask, Looping
<1>2. (\E w \in Contexts : Looping(w)) => c \in Contexts /\ Looping(c)
  OBVIOUS
<1>. HIDE DEF c
<1>3. RxPos = IF \E w \in Contexts : Looping(w) THEN rx[c].cur ELSE cur_rx
  BY DEF RxPos, c
<1>4. CASE Looping("poll")
  <2>1. c = "poll" /\ \E w \in Contexts : Looping(w)
    BY <1>1, <1>2, <1>4 DEF Contexts
  <2>. QED BY <1>3, <1>4, <2>1 DEF RxAt
<1>5. CASE Looping("task")
  <2>1. c = "task" /\ \E w \in Contexts : Looping(w)
    BY <1>1, <1>2, <1>5 DEF Contexts
  <2>. QED BY <1>1, <1>3, <1>5, <2>1 DEF RxAt
<1>6. CASE ~Looping("poll") /\ ~Looping("task")
  BY <1>3, <1>6 DEF RxAt, Contexts
<1>. QED BY <1>4, <1>5, <1>6

\* A function on 1 .. n is a sequence of length n.
LEMMA FunIsSeq ==
  ASSUME NEW S, NEW n \in Nat, NEW f \in [1 .. n -> S]
  PROVE  f \in Seq(S) /\ Len(f) = n
  OBVIOUS

\* The run from RxAt on is as long as the segment of stored entries.
LEMMA RunCount ==
  ASSUME TypeInv, AloneInv, NEW s \in 0 .. NUM_RX_DESC, StoredSet = Seg(RxAt, s)
  PROVE  Cardinality(Run) = s + 1
<1>1. RxAt \in Int /\ s \in Nat /\ NUM_RX_DESC \in Nat \ {0}
  BY PlaceType, RingConstants
<1>2. \A k : At(k) = (RxAt + k) % NUM_RX_DESC
  BY RxPosIs DEF At
<1>3. ASSUME NEW k \in 0 .. s - 1 PROVE Stored(At(k))
  <2>1. At(k) \in StoredSet
    BY <1>2 DEF Seg, Segment
  <2>. QED BY <2>1 DEF StoredSet
<1>4. ASSUME s < NUM_RX_DESC PROVE ~Stored(At(s))
  <2>1. s \in 0 .. NUM_RX_DESC - 1
    BY <1>1, <1>4
  <2>2. (RxAt + s) % NUM_RX_DESC \notin Seg(RxAt, s)
    BY <1>1, <2>1, SegEnd DEF Seg
  <2>3. At(s) \in Entries
    <3>1. RxAt + s \in Int
      BY <1>1
    <3>. QED BY <1>1, <1>2, <3>1, ModType, RingConstants
  <2>. QED BY <1>2, <2>2, <2>3 DEF StoredSet
<1>5. ASSUME NEW n \in 0 .. NUM_RX_DESC
      PROVE  n \in Run <=> n <= s
  <2>1. CASE n <= s
    <3>1. \A k \in 0 .. n - 1 : k \in 0 .. s - 1
      BY <1>1, <2>1
    <3>. QED BY <1>3, <2>1, <3>1 DEF Run
  <2>2. CASE ~(n <= s)
    <3>1. s < NUM_RX_DESC /\ s \in 0 .. n - 1
      BY <1>1, <2>2
    <3>. QED BY <1>4, <2>2, <3>1 DEF Run
  <2>. QED BY <2>1, <2>2
<1>6. Run = 0 .. s
  <2>1. Run \subseteq 0 .. NUM_RX_DESC
    BY DEF Run
  <2>2. \A n : n \in 0 .. s <=> n \in 0 .. NUM_RX_DESC /\ n <= s
    BY <1>1
  <2>. QED BY <1>5, <2>1, <2>2
<1>7. Cardinality(0 .. s) = (s - 0) + 1
  <2>1. 0 \in Int /\ s \in Int /\ ~(0 > s)
    BY <1>1
  <2>. QED BY <2>1, FS_Interval
<1>. QED BY <1>1, <1>6, <1>7

\* The queue is the run of stored entries.
LEMMA WaitingIs == RunIsQueue
<1>. SUFFICES ASSUME NEW s \in 0 .. NUM_RX_DESC, TypeInv, AloneInv,
                     StoredSet = Seg(RxAt, s)
              PROVE  WaitIs(s)
  BY DEF RunIsQueue
<1>1. Cardinality(Run) - 1 = s /\ s \in Nat
  BY RunCount, RingConstants
<1>2. WaitingFrames = [i \in 1 .. s |-> RxDescArray[At(i - 1)].frame]
  BY <1>1 DEF WaitingFrames
<1>3. ASSUME NEW i \in 1 .. s
      PROVE  /\ At(i - 1) = (RxAt + (i - 1)) % NUM_RX_DESC
             /\ RxDescArray[At(i - 1)].frame \in FrameType
  <2>1. At(i - 1) = (RxAt + (i - 1)) % NUM_RX_DESC
    BY RxPosIs DEF At
  <2>2. RxAt + (i - 1) \in Int
    BY PlaceType, <1>1
  <2>3. At(i - 1) \in Entries
    BY <2>1, <2>2, ModType, RingConstants
  <2>4. RxDescArray[At(i - 1)] \in DescType
    BY <2>3, PlaceType
  <2>. QED BY <2>1, <2>4 DEF DescType, FrameType
<1>4. WaitingFrames \in [1 .. s -> FrameType]
  BY <1>2, <1>3
<1>5. WaitingFrames \in Seq(FrameType) /\ Len(WaitingFrames) = s
  BY <1>1, <1>4, FunIsSeq
<1>. QED BY <1>2, <1>3, <1>5 DEF WaitIs

\* A step that leaves the run of stored entries and their frames alone leaves
\* the queue alone.
LEMMA WaitSame ==
  ASSUME RingInv, RingInv', RunIsQueue', RxAt' = RxAt, StoredSet' = StoredSet,
         \A e \in StoredSet : RxDescArray'[e].frame = RxDescArray[e].frame
  PROVE  WaitingFrames' = WaitingFrames
<1>. DEFINE q == WaitingFrames
            r == WaitingFrames'
<1>0. TypeInv /\ AloneInv /\ TypeInv' /\ AloneInv'
  BY DEF RingInv
<1>1. PICK s \in 0 .. NUM_RX_DESC : RunIs(s)
  BY DEF RingInv, PlaceInv, RunInv
<1>2. StoredSet = Seg(RxAt, s) /\ StoredSet' = Seg(RxAt', s)
  BY <1>1 DEF RunIs
<1>3. WaitIs(s) /\ WaitIs(s)'
  BY <1>0, <1>2, WaitingIs DEF RunIsQueue
<1>4. ASSUME NEW i \in 1 .. s PROVE r[i] = q[i]
  <2>. DEFINE e == (RxAt + (i - 1)) % NUM_RX_DESC
  <2>1. i - 1 \in 0 .. s - 1
    BY RingConstants
  <2>2. e \in StoredSet
    BY <1>2, <2>1 DEF Seg, Segment
  <2>3. q[i] = RxDescArray[e].frame /\ r[i] = RxDescArray'[e].frame
    BY <1>3 DEF WaitIs
  <2>. QED BY <2>2, <2>3
<1>. HIDE DEF q, r
<1>5. q \in Seq(FrameType) /\ r \in Seq(FrameType) /\ Len(q) = s /\ Len(r) = s
  BY <1>3 DEF WaitIs, q, r, FrameType
<1>6. q = r
  BY <1>4, <1>5, SeqEqual
<1>. QED BY <1>6 DEF q, r

\* While one context is in rtl8101_rx_interrupt, the verdict is its own.
VerdictAt(pc) == IF pc = "take" THEN "up" ELSE IF pc = "error" THEN "drop" ELSE "none"

LEMMA VerdictIs ==
  ASSUME TypeInv, AloneInv, NEW w \in Contexts, RxInterrupt(w)
  PROVE  Verdict = VerdictAt(rx[w].pc) /\ Verdict' = VerdictAt(rx'[w].pc)
<1>1. \A v \in Contexts : v # w => ~InRx(v) /\ ~InRx(v)'
  BY RxPlaces
<1>2. \A c \in {"take", "error"} :
        /\ (\E v \in Contexts : rx[v].pc = c) <=> rx[w].pc = c
        /\ (\E v \in Contexts : rx'[v].pc = c) <=> rx'[w].pc = c
  BY <1>1 DEF InRx
<1>. QED BY <1>2 DEF Verdict, VerdictAt

\* A call begins, writes its indexes back or refills the ring: neither the
\* frames that wait nor their order change.
LEMMA CallKeepsQueue ==
  ASSUME RingInv, RingInv', RunIsQueue', NEW w \in Contexts,
         RxBegin(w) \/ RxCommit(w) \/ RxRefill(w) \/ RxFill(w) \/ RxFillEnd(w)
  PROVE  UNCHANGED Fifo!fifo
<1>. USE DEF RingInv
<1>0. RxInterrupt(w)
  BY DEF RxInterrupt
<1>a. /\ rx \in [Contexts -> RxCall] /\ rx[w] \in RxCall
      /\ RxDescArray \in [Entries -> DescType]
      /\ rx_skbuff \in [Entries -> BOOLEAN]
  BY PlaceType
<1>1. /\ rx[w].pc \in {"begin", "loop", "refill", "fill"}
      /\ rx'[w].pc \in {"loop", "refill", "fill", "idle", "complete", "lock"}
      /\ RxAt' = RxAt
  <2>1. CASE RxBegin(w)
    <3>1. rx'[w].pc = "loop" /\ rx'[w].cur = cur_rx /\ rx[w].pc = "begin"
      BY <1>a, <2>1 DEF RxBegin, Returned
    <3>. QED BY <1>0, <3>1, RxPlaces DEF Looping
  <2>2. CASE RxCommit(w)
    <3>1. rx'[w].pc = "refill" /\ cur_rx' = rx[w].cur /\ rx[w].pc = "loop"
      BY <1>a, <2>2 DEF RxCommit, Returned
    <3>. QED BY <1>0, <3>1, RxPlaces DEF Looping
  <2>3. CASE RxRefill(w)
    <3>1. rx'[w].pc = "fill" /\ cur_rx' = cur_rx /\ rx[w].pc = "refill"
      BY <1>a, <2>3 DEF RxRefill, RxCall, idx
    <3>. QED BY <1>0, <3>1, RxPlaces DEF Looping
  <2>4. CASE RxFill(w)
    <3>1. rx'[w].pc = "fill" /\ cur_rx' = cur_rx /\ rx[w].pc = "fill"
      BY <1>a, <2>4 DEF RxFill, RxAdvance, RxCall, idx
    <3>. QED BY <1>0, <3>1, RxPlaces DEF Looping
  <2>5. CASE RxFillEnd(w)
    <3>1. /\ rx'[w].pc \in {"idle", "complete", "lock"} /\ cur_rx' = cur_rx
          /\ rx[w].pc = "fill"
      BY <1>a, <2>5 DEF RxFillEnd, RxReturn, Returned
    <3>. QED BY <1>0, <3>1, RxPlaces DEF Looping
  <2>. QED BY <2>1, <2>2, <2>3, <2>4, <2>5
<1>2. Verdict' = Verdict
  BY <1>0, <1>1, VerdictIs DEF VerdictAt
<1>3. /\ StoredSet' = StoredSet
      /\ \A e \in StoredSet : RxDescArray'[e] = RxDescArray[e]
  <2>1. CASE UNCHANGED ring
    BY <2>1 DEF ring, StoredSet, Stored
  <2>2. CASE RxFill(w) /\ ~rx_skbuff[RxEntry(w)]
    <3>. DEFINE e == RxEntry(w)
    <3>1. /\ RxDescArray' = [RxDescArray EXCEPT ![e] = MarkToAsic(@)]
          /\ rx_skbuff' = [rx_skbuff EXCEPT ![e] = TRUE]
      BY <2>2 DEF RxFill
    <3>2. e \in Entries
      BY EntryType DEF TypeInv
    <3>3. /\ \A x \in Entries : x # e => RxDescArray'[x] = RxDescArray[x]
          /\ RxDescArray'[e].own
      BY <1>a, <3>1, <3>2 DEF MarkToAsic
    <3>. HIDE DEF e
    <3>4. /\ \A x \in Entries : x # e => rx_skbuff'[x] = rx_skbuff[x]
          /\ ~rx_skbuff[e]
      BY <1>a, <2>2, <3>1 DEF e
    <3>. QED BY <3>2, <3>3, <3>4 DEF StoredSet, Stored
  <2>. QED
    BY <2>1, <2>2 DEF RxBegin, RxCommit, RxRefill, RxFill, RxFillEnd
<1>4. WaitingFrames' = WaitingFrames
  BY <1>1, <1>3, WaitSame
<1>. QED BY <1>2, <1>4 DEF Fifo!fifo

\* The status word that is read is that of the oldest frame.
LEMMA LookIsLook ==
  ASSUME RingInv, RingInv', RunIsQueue', NEW w \in Contexts, RxLook(w)
  PROVE  Fifo!Look
<1>. USE DEF RingInv, PlaceInv
<1>. DEFINE e == RxEntry(w)
<1>0. RxInterrupt(w)
  BY DEF RxInterrupt
<1>a. /\ rx \in [Contexts -> RxCall] /\ rx[w] \in RxCall /\ rx[w].left \in Nat
      /\ RxAt \in Idx /\ FillAt \in Idx /\ Pending \in Nat /\ RxAt \in Int
      /\ RxDescArray \in [Entries -> DescType]
  BY PlaceType DEF RxCall
<1>1. /\ rx[w].pc = "loop" /\ rx[w].left > 0 /\ ~RxDescArray[e].own
      /\ rx'[w].pc = IF RxDescArray[e].frame = Bad THEN "error" ELSE "take"
      /\ rx'[w].cur = rx[w].cur
      /\ UNCHANGED <<cur_rx, dirty_rx, rx_skbuff, RxDescArray>>
  BY <1>a DEF RxLook, RxMore, RxCall, idx, ring
<1>2. RxAt = rx[w].cur /\ RxAt' = RxAt
  BY <1>0, <1>1, RxPlaces DEF Looping
<1>3. e \in StoredSet /\ e = RxAt % NUM_RX_DESC
  <2>1. rx[w].left <= NUM_RX_DESC - Pending
    BY <1>1 DEF CallInv, Looping
  <2>2. Pending < NUM_RX_DESC
    BY <1>1, <1>a, <2>1, RingConstants
  <2>3. e \in Entries /\ e = RxAt % NUM_RX_DESC
    BY <1>2, EntryType DEF TypeInv, RxEntry
  <2>4. e \notin Seg(FillAt, Pending)
    BY <1>a, <2>2, <2>3, WinPlus DEF Pending
  <2>. QED BY <1>1, <2>3, <2>4 DEF WindowInv, Holes, StoredSet, Stored
<1>. HIDE DEF e
<1>4. PICK s \in 0 .. NUM_RX_DESC : RunIs(s)
  BY DEF RunInv
<1>5. s \in 1 .. NUM_RX_DESC
  <2>1. Seg(RxAt, 0) = {}
    BY <1>a, RingConstants, SegType DEF Seg
  <2>2. s # 0
    BY <1>3, <1>4, <2>1 DEF RunIs
  <2>. QED BY <2>2, RingConstants
<1>6. WaitIs(s)
  BY <1>4, WaitingIs DEF RunIsQueue, RunIs
<1>7. WaitingFrames # << >> /\ Head(WaitingFrames) = RxDescArray[e].frame
  <2>. DEFINE q == WaitingFrames
  <2>1. q \in Seq(FrameType) /\ Len(q) = s
    BY <1>6 DEF WaitIs
  <2>2. q[1] = RxDescArray[(RxAt + (1 - 1)) % NUM_RX_DESC].frame
    <3>1. 1 \in 1 .. s
      BY <1>5
    <3>. QED BY <1>6, <3>1 DEF WaitIs
  <2>3. RxAt + (1 - 1) = RxAt
    BY <1>a
  <2>4. q[1] = RxDescArray[e].frame
    BY <1>3, <2>2, <2>3
  <2>. HIDE DEF q
  <2>5. q # << >> /\ Head(q) = q[1]
    BY <1>5, <2>1
  <2>. QED BY <2>4, <2>5 DEF q
<1>8. WaitingFrames' = WaitingFrames
  <2>1. StoredSet' = StoredSet
    BY <1>1 DEF StoredSet, Stored
  <2>. QED BY <1>1, <1>2, <2>1, WaitSame
<1>9. /\ Verdict = "none"
      /\ Verdict' = IF RxDescArray[e].frame = Bad THEN "drop" ELSE "up"
  BY <1>0, <1>1, VerdictIs DEF VerdictAt
<1>. QED BY <1>7, <1>8, <1>9 DEF Fifo!Look

\* The frame that is handed up or dropped is the oldest, and it goes once.
LEMMA AdvanceDisposes ==
  ASSUME RingInv, RingInv', RunIsQueue', NEW w \in Contexts, RxError(w) \/ RxTake(w)
  PROVE  Fifo!HandUp \/ Fifo!Drop
<1>. USE DEF RingInv, PlaceInv
<1>. DEFINE e == RxEntry(w)
            q == WaitingFrames
            r == WaitingFrames'
<1>0. RxInterrupt(w) /\ rx[w].pc \in {"error", "take"}
  BY DEF RxInterrupt, RxError, RxTake
<1>a. /\ rx \in [Contexts -> RxCall] /\ rx[w] \in RxCall
      /\ RxDescArray \in [Entries -> DescType]
      /\ rx_skbuff \in [Entries -> BOOLEAN]
      /\ RxAt \in Idx /\ RxAt \in Int
  BY PlaceType
<1>b. RxAt = rx[w].cur /\ e \in Entries /\ e \in StoredSet /\ e = RxAt % NUM_RX_DESC
  BY <1>0, LookedAtStored DEF RxEntry
<1>1. rx'[w].pc = "loop" /\ rx'[w].cur = (rx[w].cur + 1) % IdxMod
  <2>1. rx' = [rx EXCEPT ![w] = [RxAdvance(rx[w]) EXCEPT !.pc = "loop"]]
    BY DEF RxError, RxTake
  <2>2. rx'[w] = [RxAdvance(rx[w]) EXCEPT !.pc = "loop"]
    BY <1>a, <2>1
  <2>. QED BY <1>a, <2>2 DEF RxAdvance, RxCall
<1>2. RxAt' = (RxAt + 1) % IdxMod
  BY <1>0, <1>1, <1>b, RxPlaces DEF Looping
<1>3. /\ StoredSet' = StoredSet \ {e}
      /\ \A x \in StoredSet \ {e} : RxDescArray'[x] = RxDescArray[x]
  <2>1. CASE RxError(w)
    <3>1. /\ RxDescArray' = [RxDescArray EXCEPT ![e] = MarkToAsic(@)]
          /\ rx_skbuff' = rx_skbuff
      BY <2>1 DEF RxError
    <3>2. /\ \A x \in Entries : x # e => RxDescArray'[x] = RxDescArray[x]
          /\ RxDescArray'[e].own
      BY <1>a, <1>b, <3>1 DEF MarkToAsic
    <3>. HIDE DEF e
    <3>. QED BY <1>b, <3>1, <3>2 DEF StoredSet, Stored
  <2>2. CASE RxTake(w)
    <3>1. /\ rx_skbuff' = [rx_skbuff EXCEPT ![e] = FALSE]
          /\ RxDescArray' = RxDescArray
      BY <2>2 DEF RxTake
    <3>. HIDE DEF e
    <3>. QED BY <1>a, <1>b, <3>1 DEF StoredSet, Stored
  <2>. QED BY <2>1, <2>2
<1>. HIDE DEF e
<1>4. PICK s \in 0 .. NUM_RX_DESC : RunIs(s)
  BY DEF RunInv
<1>5. s \in 1 .. NUM_RX_DESC
  <2>1. Seg(RxAt, 0) = {}
    BY <1>a, RingConstants, SegType DEF Seg
  <2>2. s # 0
    BY <1>b, <1>4, <2>1 DEF RunIs
  <2>. QED BY <2>2, RingConstants
<1>6. StoredSet' = Seg(RxAt', s - 1) /\ s - 1 \in 0 .. NUM_RX_DESC
  <2>1. /\ Seg(RxAt, s) = {e} \cup Seg(RxAt', s - 1)
        /\ e \notin Seg(RxAt', s - 1)
    BY <1>2, <1>a, <1>b, <1>5, RunMinus
  <2>. QED BY <1>3, <1>4, <1>5, <2>1, RingConstants DEF RunIs
<1>7. WaitIs(s) /\ WaitIs(s - 1)'
  BY <1>4, <1>6, WaitingIs DEF RunIsQueue, RunIs
<1>8. ASSUME NEW i \in 1 .. s - 1 PROVE r[i] = q[i + 1]
  <2>. DEFINE x == (RxAt' + (i - 1)) % NUM_RX_DESC
  <2>1. i - 1 \in 0 .. (s - 1) - 1 /\ i + 1 \in 1 .. s /\ i - 1 \in Int
    BY <1>5, RingConstants
  <2>2. x \in StoredSet'
    BY <1>6, <2>1 DEF Seg, Segment
  <2>3. r[i] = RxDescArray'[x].frame
    BY <1>7 DEF WaitIs
  <2>4. x = (RxAt + ((i + 1) - 1)) % NUM_RX_DESC
    <3>1. RxAt' \in Int /\ RxAt + 1 \in Int /\ RxAt' % NUM_RX_DESC = (RxAt + 1) % NUM_RX_DESC
      <4>1. RxAt + 1 \in Int
        BY <1>a
      <4>2. (RxAt + 1) % IdxMod \in Int
        BY <4>1, RingConstants, ModType
      <4>3. ((RxAt + 1) % IdxMod) % NUM_RX_DESC = (RxAt + 1) % NUM_RX_DESC
        BY <4>1, EntryIdx
      <4>. QED BY <1>2, <4>1, <4>2, <4>3
    <3>2. ((RxAt' % NUM_RX_DESC) + (i - 1)) % NUM_RX_DESC = x
      BY <2>1, <3>1, RingConstants, ModAdd
    <3>3. (((RxAt + 1) % NUM_RX_DESC) + (i - 1)) % NUM_RX_DESC
            = ((RxAt + 1) + (i - 1)) % NUM_RX_DESC
      BY <2>1, <3>1, RingConstants, ModAdd
    <3>4. (RxAt + 1) + (i - 1) = RxAt + ((i + 1) - 1)
      BY <1>a, <2>1
    <3>. QED BY <3>1, <3>2, <3>3, <3>4
  <2>5. q[i + 1] = RxDescArray[(RxAt + ((i + 1) - 1)) % NUM_RX_DESC].frame
    BY <1>7, <2>1 DEF WaitIs
  <2>. QED BY <1>3, <2>2, <2>3, <2>4, <2>5
<1>. HIDE DEF q, r
<1>9. q \in Seq(FrameType) /\ r \in Seq(FrameType) /\ Len(q) = s /\ Len(r) = s - 1
  BY <1>7 DEF WaitIs, q, r, FrameType
<1>10. q # << >> /\ r = Tail(q)
  <2>. DEFINE t == Tail(q)
  <2>1. q # << >> /\ t \in Seq(FrameType) /\ Len(t) = s - 1
        /\ \A i \in 1 .. s - 1 : t[i] = q[i + 1]
    BY <1>5, <1>9
  <2>. HIDE DEF t
  <2>2. \A i \in 1 .. Len(r) : r[i] = t[i]
    BY <1>8, <1>9, <2>1
  <2>3. r = t
    BY <1>9, <2>1, <2>2, SeqEqual
  <2>. QED BY <2>1, <2>3 DEF t
<1>11. Verdict = VerdictAt(rx[w].pc) /\ Verdict' = "none"
  BY <1>0, <1>1, VerdictIs DEF VerdictAt
<1>12. Verdict \in {"up", "drop"}
  BY <1>0, <1>11 DEF VerdictAt
<1>. QED
  BY <1>10, <1>11, <1>12 DEF Fifo!HandUp, Fifo!Drop, Fifo!Dispose, q, r

\* The NIC stores behind the frames that wait.
LEMMA StoreStores ==
  ASSUME RingInv, RingInv', RunIsQueue', NEW f \in Frames \cup {Bad}, NicStore(f)
  PROVE  Fifo!Store(f)
<1>. USE DEF RingInv, PlaceInv
<1>. DEFINE e == nic.pos
            q == WaitingFrames
            r == WaitingFrames'
<1>a. /\ RxDescArray \in [Entries -> DescType] /\ e \in Entries
      /\ RxAt \in Idx /\ RxAt \in Int
  BY PlaceType DEF TypeInv, TypeOK
<1>1. /\ nic.enb /\ RxDescArray[e].own
      /\ UNCHANGED <<cur_rx, dirty_rx, rx_skbuff, rx>>
  BY DEF NicStore, NicListens, idx
<1>2. /\ \A x \in Entries : x # e => RxDescArray'[x] = RxDescArray[x]
      /\ ~RxDescArray'[e].own /\ RxDescArray'[e].frame = f
  <2>1. RxDescArray' = [RxDescArray EXCEPT ![e] =
          [RxDescArray[e] EXCEPT !.own = FALSE, !.frame = f]]
    BY <1>a DEF NicStore
  <2>2. /\ [RxDescArray[e] EXCEPT !.own = FALSE, !.frame = f].own = FALSE
        /\ [RxDescArray[e] EXCEPT !.own = FALSE, !.frame = f].frame = f
    BY <1>a DEF DescType
  <2>. QED BY <1>a, <2>1, <2>2
<1>3. rx_skbuff[e]
  BY <1>1, <1>a DEF OwnHasBuffer
<1>4. RxAt' = RxAt /\ Verdict' = Verdict
  BY <1>1 DEF RxAt, Looping, Verdict
<1>5. PICK s \in 0 .. NUM_RX_DESC : RunIs(s)
  BY DEF RunInv
<1>6. e = (RxAt + s) % NUM_RX_DESC
  BY <1>1, <1>5 DEF RunIs
<1>. HIDE DEF e
<1>7. StoredSet' = StoredSet \cup {e} /\ e \notin StoredSet
  BY <1>1, <1>2, <1>3, <1>a DEF StoredSet, Stored
<1>8. s \in 0 .. NUM_RX_DESC - 1
  <2>1. s = NUM_RX_DESC => Seg(RxAt, s) = Entries
    BY <1>a, RingConstants, SegAll DEF Seg
  <2>2. s # NUM_RX_DESC
    BY <1>7, <1>a, <1>5, <2>1 DEF RunIs
  <2>. QED BY <2>2, RingConstants
<1>9. StoredSet' = Seg(RxAt', s + 1) /\ s + 1 \in 0 .. NUM_RX_DESC
  BY <1>4, <1>5, <1>6, <1>7, <1>8, <1>a, RunPlus, RingConstants DEF RunIs
<1>10. WaitIs(s) /\ WaitIs(s + 1)'
  BY <1>5, <1>9, WaitingIs DEF RunIsQueue, RunIs
<1>11. ASSUME NEW i \in 1 .. s PROVE r[i] = q[i]
  <2>. DEFINE x == (RxAt + (i - 1)) % NUM_RX_DESC
  <2>1. i - 1 \in 0 .. s - 1 /\ i \in 1 .. s + 1
    BY <1>8, RingConstants
  <2>2. x \in StoredSet /\ x \in Entries
    BY <1>5, <2>1 DEF RunIs, StoredSet, Seg, Segment
  <2>3. r[i] = RxDescArray'[x].frame /\ q[i] = RxDescArray[x].frame
    BY <1>4, <1>10, <2>1 DEF WaitIs
  <2>. QED BY <1>2, <1>7, <2>2, <2>3
<1>12. r[s + 1] = f
  <2>1. s + 1 \in 1 .. s + 1 /\ (s + 1) - 1 = s
    BY <1>8, RingConstants
  <2>2. r[s + 1] = RxDescArray'[(RxAt' + ((s + 1) - 1)) % NUM_RX_DESC].frame
    BY <1>10, <2>1 DEF WaitIs
  <2>. QED BY <1>2, <1>4, <1>6, <2>1, <2>2
<1>. HIDE DEF q, r
<1>13. q \in Seq(FrameType) /\ r \in Seq(FrameType) /\ Len(q) = s /\ Len(r) = s + 1
  BY <1>10 DEF WaitIs, q, r, FrameType
<1>14. r = Append(q, f)
  <2>. DEFINE a == Append(q, f)
  <2>0. f \in FrameType
    BY DEF FrameType
  <2>1. /\ a \in Seq(FrameType) /\ Len(a) = Len(q) + 1
        /\ \A i \in 1 .. Len(q) : a[i] = q[i]
        /\ a[Len(q) + 1] = f
    BY <1>13, <2>0, AppendProperties
  <2>. HIDE DEF a
  <2>2. ASSUME NEW i \in 1 .. s + 1 PROVE r[i] = a[i]
    <3>1. CASE i = s + 1
      BY <1>12, <1>13, <2>1, <3>1
    <3>2. CASE i # s + 1
      <4>1. i \in 1 .. s
        BY <1>8, <3>2, RingConstants
      <4>. QED BY <1>11, <1>13, <2>1, <4>1
    <3>. QED BY <3>1, <3>2
  <2>3. Len(a) = Len(r) /\ \A i \in 1 .. Len(r) : r[i] = a[i]
    BY <1>13, <2>1, <2>2
  <2>4. r = a
    BY <1>13, <2>1, <2>3, SeqEqual
  <2>. QED BY <2>4 DEF a
<1>15. Len(q) < NUM_RX_DESC
  BY <1>8, <1>13, RingConstants
<1>. QED BY <1>4, <1>14, <1>15 DEF Fifo!Store, q, r

\* Steps outside rtl8101_rx_interrupt that leave the ring alone.
LEMMA OutsideKeepsQueue ==
  ASSUME RingInv, RingInv', RunIsQueue', UNCHANGED <<idx, ring>>,
         \A w \in Contexts :
           rx'[w] = rx[w] \/ (Away(rx[w].pc) /\ Away(rx'[w].pc))
  PROVE  UNCHANGED Fifo!fifo
<1>1. UNCHANGED <<cur_rx, dirty_rx, rx_skbuff, RxDescArray>>
  BY DEF idx, ring
<1>2. RxAt' = RxAt
  BY <1>1 DEF RxAt, Looping, Contexts, Away
<1>3. \A c \in {"take", "error"}, w \in Contexts : rx'[w].pc = c <=> rx[w].pc = c
  BY DEF Away
<1>4. Verdict' = Verdict
  BY <1>3 DEF Verdict
<1>5. StoredSet' = StoredSet
  BY <1>1 DEF StoredSet, Stored
<1>6. WaitingFrames' = WaitingFrames
  BY <1>1, <1>2, <1>5, WaitSame
<1>. QED BY <1>4, <1>6 DEF Fifo!fifo

\* With nothing stored and nobody in the loop, the queue is empty.
LEMMA NothingWaits ==
  TypeInv /\ AloneInv /\ StoredSet = {} /\ (\A w \in Contexts : Away(rx[w].pc))
    => WaitingFrames = << >> /\ Verdict = "none"
<1>. SUFFICES ASSUME TypeInv, AloneInv, StoredSet = {},
                     \A w \in Contexts : Away(rx[w].pc)
              PROVE  WaitingFrames = << >> /\ Verdict = "none"
  OBVIOUS
<1>0. RxAt \in Int
  BY PlaceType
<1>1. Seg(RxAt, 0) = {}
  BY <1>0, RingConstants, SegType DEF Seg
<1>2. WaitIs(0)
  <2>1. 0 \in 0 .. NUM_RX_DESC
    BY RingConstants
  <2>. QED BY <1>1, <2>1, WaitingIs DEF RunIsQueue
<1>3. WaitingFrames = << >>
  BY <1>2, EmptySeq DEF WaitIs
<1>. QED BY <1>3 DEF Verdict, Away

\* Every step of the ring is a step of the queue.
LEMMA FifoStep ==
  ASSUME Steady, RingInv, RingInv', RunIsQueue', [Next]_vars,
         (TypeInv /\ AloneInv /\ StoredSet = {} /\ (\A w \in Contexts : Away(rx[w].pc))
            => WaitingFrames = << >> /\ Verdict = "none")'
  PROVE  [Fifo!FifoNext]_(Fifo!fifo)
<1>. USE DEF RingInv
<1>a. /\ "poll" \in Contexts /\ "task" \in Contexts
      /\ rx \in [Contexts -> RxCall]
      /\ rx["poll"] \in RxCall /\ rx["task"] \in RxCall
  BY PlaceType
<1>b. ASSUME StoredSet = {}, StoredSet' = {},
             \A w \in Contexts : Away(rx[w].pc) /\ Away(rx'[w].pc)
      PROVE  UNCHANGED Fifo!fifo
  <2>1. WaitingFrames = << >> /\ Verdict = "none"
    BY <1>b, NothingWaits
  <2>2. WaitingFrames' = << >> /\ Verdict' = "none"
    BY <1>b
  <2>. QED BY <2>1, <2>2 DEF Fifo!fifo
<1>1. CASE \E w \in Contexts : RxInterrupt(w)
  <2>1. PICK w \in Contexts : RxInterrupt(w)
    BY <1>1
  <2>2. CASE RxLook(w)
    BY <2>2, LookIsLook DEF Fifo!FifoNext
  <2>3. CASE RxError(w) \/ RxTake(w)
    BY <2>3, AdvanceDisposes DEF Fifo!FifoNext
  <2>4. CASE RxBegin(w) \/ RxCommit(w) \/ RxRefill(w) \/ RxFill(w) \/ RxFillEnd(w)
    BY <2>4, CallKeepsQueue
  <2>. QED BY <2>1, <2>2, <2>3, <2>4 DEF RxInterrupt
<1>2. CASE Interrupt \/ TxTimeout \/ NicLose \/ UNCHANGED vars
  BY <1>2, OutsideKeepsQueue DEF Interrupt, TxTimeout, NicLose, vars
<1>3. CASE PollEnter
  <2>1. /\ rx'["poll"].pc = "begin" /\ rx["poll"].pc = "idle"
        /\ rx'["task"] = rx["task"]
    BY <1>3, <1>a DEF PollEnter, RxCall
  <2>. QED BY <1>3, <2>1, OutsideKeepsQueue DEF PollEnter, Away, Contexts
<1>4. CASE PollComplete
  <2>1. /\ rx'["poll"].pc = "unmask" /\ rx["poll"].pc = "complete"
        /\ rx'["task"] = rx["task"]
    BY <1>4, <1>a DEF PollComplete, RxCall
  <2>. QED BY <1>4, <2>1, OutsideKeepsQueue DEF PollComplete, Away, Contexts
<1>5. CASE PollUnmask
  <2>1. /\ rx'["poll"].pc = "idle" /\ rx["poll"].pc = "unmask"
        /\ rx'["task"] = rx["task"]
    BY <1>5, <1>a DEF PollUnmask, Returned
  <2>. QED BY <1>5, <2>1, OutsideKeepsQueue DEF PollUnmask, Away, Contexts
<1>6. CASE LinkUp
  <2>1. /\ \A e \in Entries : RxDescArray[e].own
        /\ \A w \in Contexts : Away(rx[w].pc) /\ Away(rx'[w].pc)
        /\ RxDescArray' = RxDescArray
    BY <1>6 DEF LinkUp, OffInv, Away, Contexts, ring
  <2>2. StoredSet = {} /\ StoredSet' = {}
    BY <2>1 DEF StoredSet, Stored
  <2>. QED BY <1>b, <2>1, <2>2
<1>7. CASE LinkDown \/ Cable
  BY <1>7 DEF LinkDown, Cable, AloneInv, Steady
<1>8. CASE TaskQuiesce
  <2>1. /\ rx'["task"].pc = "begin" /\ rx["task"].pc = "idle"
        /\ rx'["poll"] = rx["poll"]
    BY <1>8, <1>a DEF TaskQuiesce, RxCall
  <2>. QED BY <1>8, <2>1, OutsideKeepsQueue DEF TaskQuiesce, Away, Contexts
<1>9. CASE TaskRecover
  <2>1. /\ rx["task"].pc = "lock" /\ rx["poll"].pc \in {"idle", "unmask"}
        /\ rx'["task"].pc = "idle" /\ rx'["poll"] = rx["poll"]
    BY <1>9, <1>a DEF TaskRecover, AloneInv, InTask, Returned
  <2>2. StoredSet = {}
    <3>1. PICK s \in 0 .. NUM_RX_DESC : RunIs(s)
      BY DEF PlaceInv, RunInv
    <3>2. StoredSet = Seg(RxAt, 0)
      BY <2>1, <3>1 DEF RunIs
    <3>. QED BY <3>2, PlaceType, RingConstants, SegType DEF Seg
  <2>3. StoredSet' = StoredSet
    BY <1>9 DEF TaskRecover, ring, StoredSet, Stored
  <2>4. \A w \in Contexts : Away(rx[w].pc) /\ Away(rx'[w].pc)
    BY <2>1 DEF Away, Contexts
  <2>. QED BY <1>b, <2>2, <2>3, <2>4
<1>10. CASE TaskRetry
  <2>1. /\ rx'["task"].pc = "idle" /\ rx["task"].pc = "lock"
        /\ rx'["poll"] = rx["poll"]
    BY <1>10, <1>a DEF TaskRetry, Returned
  <2>. QED BY <1>10, <2>1, OutsideKeepsQueue DEF TaskRetry, Away, Contexts
<1>11. CASE \E f \in Frames \cup {Bad} : NicStore(f)
  BY <1>11, StoreStores DEF Fifo!FifoNext
<1>. QED
  BY <1>1, <1>2, <1>3, <1>4, <1>5, <1>6, <1>7, <1>8, <1>9, <1>10, <1>11 DEF Next

\* While the link does not flap, the receive path is the queue RxFifo
\* describes, with the poll and the reset task in it by turns: every stored
\* frame is disposed of once, in the order of the wire; a good one is handed
\* up and one with an error is dropped, however often allocations fail and
\* wherever the indexes wrap.
THEOREM FramesInOrder == Steady => (Spec => ImplementsFifo)
<1>. SUFFICES ASSUME Steady PROVE Spec => ImplementsFifo
  OBVIOUS
<1>1. Init => Fifo!FifoInit
  <2>. SUFFICES ASSUME Init PROVE Fifo!FifoInit
    OBVIOUS
  <2>1. TypeInv /\ AloneInv
    BY RingInit DEF RingInv
  <2>2. StoredSet = {} /\ \A w \in Contexts : Away(rx[w].pc)
    BY DEF Init, StoredSet, Stored, Away, Returned
  <2>. QED BY <2>1, <2>2, NothingWaits DEF Fifo!FifoInit
<1>2. /\ RunIsQueue'
      /\ (TypeInv /\ AloneInv /\ StoredSet = {} /\ (\A w \in Contexts : Away(rx[w].pc))
            => WaitingFrames = << >> /\ Verdict = "none")'
  BY WaitingIs, NothingWaits, PTL
<1>3. RingInv /\ RingInv' /\ [Next]_vars => [Fifo!FifoNext]_(Fifo!fifo)
  BY <1>2, FifoStep
<1>. QED BY <1>1, <1>3, RingAlways, PTL DEF Spec, ImplementsFifo, Fifo!FifoSpec

=============================================================================
