-------------------------- MODULE R8101Life_proofs --------------------------
(***************************************************************************)
(* The rings, the interrupt, the timer and NAPI are there when somebody    *)
(* comes who uses them, and gone when the interface is down, whichever     *)
(* allocation or request fails and whenever the interface is closed.       *)
(*                                                                         *)
(* None of the properties is inductive: each speaks of one place, or of    *)
(* one user.  LifeInv says for every place of rtl8101_open and             *)
(* rtl8101_close what has been acquired and not yet released.  The parts   *)
(* differ in what they except: nothing disturbs the rings, the interrupt   *)
(* and the link timer; a refused request_irq disturbs the receive buffers, *)
(* the PHY, NAPI and the NIC; a close over a reset only the NIC and the    *)
(* rule that a reset task belongs to an interface that is up.              *)
(***************************************************************************)
EXTENDS R8101Life, TLAPS

Opening == {"open_fill", "open_work", "open_hw", "open_irq"}
Closing == {"close_timer", "close_napi", "close_hw", "close_clear", "close_free"}

\* rtl8101_open has succeeded and rtl8101_close has not been called.
Up == rtnl = "idle" /\ running

\* The core's own flag, and the device that is open is registered.
CoreInv ==
  /\ rtnl \in Opening => running
  /\ rtnl \in Closing => ~running
  /\ running \/ rtnl # "idle" => Registered

\* The watchdog belongs to an interface that is up, and so do the work and the
\* task until a close comes upon them.
WorkInv ==
  /\ watched => Up
  /\ ~overlapped => (work # "no" \/ task # "idle" => Up)

\* What open acquires step by step, and close releases in the other order:
\* exactly this is held at each place.
HeldInv ==
  /\ rings <=> running \/ rtnl \in Closing
  /\ irq <=> Up \/ rtnl \in Closing
  /\ timer <=> Up \/ rtnl = "close_timer"

\* These are left behind by the open whose request_irq was refused; otherwise
\* they are held exactly as long.  A reset task that was closed over enables the
\* NIC at any place.
BuffersDue == (running /\ rtnl # "open_fill") \/ rtnl \in Closing \ {"close_free"}
PhyDue     == Up \/ rtnl = "open_irq" \/ rtnl \in Closing \ {"close_free"}
NicMay     == Up \/ rtnl \in {"open_irq", "close_timer", "close_napi", "close_hw"}

LeftInv ==
  /\ BuffersDue => rxbufs
  /\ ~refused => (rxbufs => BuffersDue) /\ (phy => PhyDue)
  /\ ~refused /\ ~overlapped => (nic \/ intr => NicMay)

\* NAPI is on from rtl8101_open's napi_enable to rtl8101_close's napi_disable,
\* and in between the reset task may have it disabled: "off" is a lock that one
\* of the two holds, so that the close waits for the task and a task that comes
\* too late waits for the next open.  A poll is waited for.
NapiMay == Up \/ rtnl \in {"open_hw", "open_irq", "close_timer", "close_napi"}

NapiInv ==
  /\ ~refused => (napi # "off" => NapiMay)
  /\ ~refused => (task = "mask" => NapiMay /\ napi = "off")
  /\ napi = "polling" => Up \/ rtnl \in {"close_timer", "close_napi"}
  /\ late => Up \/ rtnl \in {"close_timer", "close_napi", "close_hw"}

LifeInv == TypeOK /\ CoreInv /\ WorkInv /\ HeldInv /\ LeftInv /\ NapiInv

-----------------------------------------------------------------------------
\* Nothing is held before the device is registered.
LEMMA LifeInit == Init => LifeInv
<1>. SUFFICES ASSUME Init PROVE LifeInv
  OBVIOUS
<1>. USE DEF Init, Opening, Closing, Up, Registered
<1>1. TypeOK /\ CoreInv /\ WorkInv /\ HeldInv
  BY DEF TypeOK, CoreInv, WorkInv, HeldInv
<1>2. LeftInv /\ NapiInv
  BY DEF LeftInv, NapiInv, BuffersDue, PhyDue, NicMay, NapiMay
<1>. QED BY <1>1, <1>2 DEF LifeInv

\* net_register_dev and net_deregister_dev find the interface down.
LEMMA LifeDevice ==
  ASSUME LifeInv, Register \/ CarrierOff \/ Flush \/ Unregister \/ Free
  PROVE  LifeInv'
<1>. USE DEF LifeInv, TypeOK, CoreInv, WorkInv, HeldInv, LeftInv, NapiInv, Opening,
             Closing, Up, Registered, BuffersDue, PhyDue, NicMay, NapiMay,
             core, mem, hw, poll, hist, HwReset
<1>1. CASE Register
  BY <1>1 DEF Register
<1>2. CASE Flush
  BY <1>2 DEF Flush
<1>3. CASE Unregister
  BY <1>3 DEF Unregister
<1>4. CASE Free
  BY <1>4 DEF Free
<1>5. CASE CarrierOff
  <2>1. TypeOK' /\ CoreInv' /\ WorkInv' /\ HeldInv'
    BY <1>5 DEF CarrierOff
  <2>2. LeftInv'
    BY <1>5 DEF CarrierOff
  <2>3. NapiInv'
    BY <1>5 DEF CarrierOff
  <2>. QED BY <2>1, <2>2, <2>3
<1>. QED BY <1>1, <1>2, <1>3, <1>4, <1>5

\* Each step of rtl8101_open acquires what the next place holds; a failure goes
\* back to an interface that is down.
LEMMA LifeOpen ==
  ASSUME LifeInv, Open
  PROVE  LifeInv'
<1>. USE DEF LifeInv, TypeOK, CoreInv, WorkInv, HeldInv, LeftInv, NapiInv, Opening,
             Closing, Up, Registered, BuffersDue, PhyDue, NicMay, NapiMay,
             core, mem, hw, poll, hist, HwInit, PhyWrite, PhyPowerUp, LinkTimerOn,
             ShutBuffers
<1>1. CASE OpenRings
  BY <1>1 DEF OpenRings
<1>2. CASE OpenNoMem
  BY <1>2 DEF OpenNoMem
<1>3. CASE OpenFill
  BY <1>3 DEF OpenFill
<1>4. CASE OpenWork
  BY <1>4 DEF OpenWork
<1>5. CASE OpenHw
  BY <1>5 DEF OpenHw
<1>6. CASE OpenIrq
  BY <1>6 DEF OpenIrq
<1>7. CASE OpenNoIrq
  BY <1>7 DEF OpenNoIrq
<1>. QED BY <1>1, <1>2, <1>3, <1>4, <1>5, <1>6, <1>7 DEF Open

\* rtl8101_close may come upon a reset, which is remembered; each of its steps
\* releases one thing.
LEMMA LifeClose ==
  ASSUME LifeInv, Down \/ Close
  PROVE  LifeInv'
<1>. USE DEF LifeInv, TypeOK, CoreInv, WorkInv, HeldInv, LeftInv, NapiInv, Opening,
             Closing, Up, Registered, BuffersDue, PhyDue, NicMay, NapiMay,
             core, mem, hw, poll, hist, HwReset, PhyWrite, PhyPowerDown,
             LinkTimerOff, RxClear
<1>1. CASE Down
  <2>1. rings /\ rtnl' = "close_timer"
    BY <1>1 DEF Down
  <2>2. CASE overlapped \/ work # "no" \/ task # "idle"
    <3>1. overlapped' = TRUE
      BY <1>1, <2>2 DEF Down
    <3>. QED BY <1>1, <2>1, <3>1 DEF Down
  <2>3. CASE ~(overlapped \/ work # "no" \/ task # "idle")
    <3>1. overlapped' = FALSE
      BY <1>1, <2>3 DEF Down
    <3>. QED BY <1>1, <2>1, <2>3, <3>1 DEF Down
  <2>. QED BY <2>2, <2>3
<1>2. CASE CloseTimer
  BY <1>2 DEF CloseTimer
<1>3. CASE CloseNapi
  BY <1>3 DEF CloseNapi
<1>4. CASE CloseHw
  BY <1>4 DEF CloseHw
<1>5. CASE CloseClear
  BY <1>5 DEF CloseClear
<1>6. CASE CloseFree
  BY <1>6 DEF CloseFree
<1>. QED BY <1>1, <1>2, <1>3, <1>4, <1>5, <1>6 DEF Close

\* The interrupt, the poll, the link timer and the watchdog acquire nothing:
\* they only enable or disable the NIC, and only while they may.
LEMMA LifeEntries ==
  ASSUME LifeInv, Interrupt \/ Poll \/ PollUnmask \/ LinkTimer \/ TxTimeout \/ WorkDue
  PROVE  LifeInv'
<1>. USE DEF LifeInv, TypeOK, CoreInv, WorkInv, HeldInv, LeftInv, NapiInv, Opening,
             Closing, Up, Registered, BuffersDue, PhyDue, NicMay, NapiMay,
             core, mem, hw, poll, hist, HwReset, HwInit, Schedule
<1>1. CASE Interrupt
  BY <1>1 DEF Interrupt
<1>2. CASE Poll
  BY <1>2 DEF Poll
<1>3. CASE PollUnmask
  <2>1. TypeOK' /\ CoreInv' /\ WorkInv' /\ HeldInv'
    BY <1>3 DEF PollUnmask
  <2>2. LeftInv'
    BY <1>3 DEF PollUnmask
  <2>3. NapiInv'
    BY <1>3 DEF PollUnmask
  <2>. QED BY <2>1, <2>2, <2>3
<1>4. CASE LinkTimer
  BY <1>4 DEF LinkTimer
<1>5. CASE TxTimeout
  BY <1>5 DEF TxTimeout
<1>6. CASE WorkDue
  BY <1>6 DEF WorkDue
<1>. QED BY <1>1, <1>2, <1>3, <1>4, <1>5, <1>6

\* The reset task acquires nothing either: NAPI goes off and on again under it,
\* and it enables the NIC of an interface that is up, or was closed over it.
LEMMA LifeTask ==
  ASSUME LifeInv, Task
  PROVE  LifeInv'
<1>. USE DEF LifeInv, TypeOK, CoreInv, WorkInv, HeldInv, LeftInv, NapiInv, Opening,
             Closing, Up, Registered, BuffersDue, PhyDue, NicMay, NapiMay,
             core, mem, hw, poll, hist, HwInit, Schedule
<1>1. CASE TaskStart
  BY <1>1 DEF TaskStart
<1>2. CASE TaskNapi
  BY <1>2 DEF TaskNapi
<1>3. CASE TaskMask
  BY <1>3 DEF TaskMask
<1>4. CASE TaskRecover
  BY <1>4 DEF TaskRecover
<1>5. CASE TaskRetry
  BY <1>5 DEF TaskRetry
<1>. QED BY <1>1, <1>2, <1>3, <1>4, <1>5 DEF Task

\* Every step keeps to the places.
LEMMA LifeNext ==
  ASSUME LifeInv, [Next]_vars
  PROVE  LifeInv'
<1>1. CASE Register \/ CarrierOff \/ Flush \/ Unregister \/ Free
  BY <1>1, LifeDevice
<1>2. CASE Open
  BY <1>2, LifeOpen
<1>3. CASE Down \/ Close
  BY <1>3, LifeClose
<1>4. CASE Interrupt \/ Poll \/ PollUnmask \/ LinkTimer \/ TxTimeout \/ WorkDue
  BY <1>4, LifeEntries
<1>5. CASE Task
  BY <1>5, LifeTask
<1>6. CASE UNCHANGED vars
  BY <1>6 DEF LifeInv, TypeOK, CoreInv, WorkInv, HeldInv, LeftInv, NapiInv, Up,
              Registered, BuffersDue, PhyDue, NicMay, NapiMay, vars, core, mem, hw, poll, hist
<1>. QED BY <1>1, <1>2, <1>3, <1>4, <1>5, <1>6 DEF Next

\* The places are an invariant of the interface.
LEMMA LifeAlways == Spec => []LifeInv
<1>1. Init => LifeInv
  BY LifeInit
<1>2. LifeInv /\ [Next]_vars => LifeInv'
  BY LifeNext
<1>. QED BY <1>1, <1>2, PTL DEF Spec

-----------------------------------------------------------------------------
\* hw_init, whoever calls it (open, the link timer or the reset task), enables a
\* NIC whose rings and buffers are there, and they are freed after hw_reset; the
\* refused request_irq and the task that was closed over are excepted.
THEOREM RingsUnderNic == Spec => []NicOnRings
<1>1. LifeInv => NicOnRings
  BY DEF LifeInv, CoreInv, HeldInv, LeftInv, BuffersDue, NicMay, Up, Opening,
         Closing, NicOnRings
<1>. QED BY <1>1, LifeAlways, PTL

\* rtl8101_poll and the link timer find the rings allocated in every behaviour:
\* rtl8101_close has stopped both before it frees them.  rtl8101_reset_task finds
\* them unless the close came upon it.
THEOREM UsersHaveRings == Spec => []RingsInUse
<1>1. LifeInv => RingsInUse
  BY DEF LifeInv, WorkInv, HeldInv, NapiInv, Up, Closing, RingsInUse
<1>. QED BY <1>1, LifeAlways, PTL

\* Every way out of rtl8101_open and rtl8101_close that leaves the interface down
\* has undone all that was done; what a refused request_irq and what a reset task
\* under the close leave behind is no more than DownIsQuiet names.
THEOREM FailureUndone == Spec => []DownIsQuiet
<1>1. LifeInv => DownIsQuiet
  BY DEF LifeInv, CoreInv, HeldInv, LeftInv, NapiInv, BuffersDue, PhyDue, NicMay,
         NapiMay, Up, Opening, Closing, DownIsQuiet
<1>. QED BY <1>1, LifeAlways, PTL

=============================================================================
