----------------------------- MODULE R8101Life -----------------------------
(***************************************************************************)
(* The life of the RTL8101E interface (net_stk.c): registered, opened,     *)
(* closed and unregistered by the network core, while its interrupt, NAPI  *)
(* poll, link timer, transmit watchdog and reset task come and go.  What   *)
(* they do to the rings is in R8101Tx and R8101Rx; here it is whether the  *)
(* rings, and the other things they use, are there when they come.         *)
(***************************************************************************)
EXTENDS Naturals

CONSTANTS
  NoMemory     \* init_buffers may fail, and so may a refill

ASSUME LifeAssumption == NoMemory \in BOOLEAN

VARIABLES
  netdev,   \* "none", "announced", "registered", "flushed", "going"
  rtnl,     \* where rtl8101_open or rtl8101_close is (under the RTNL lock)
  running,  \* netif_running
  watched,  \* the queue is activated: the watchdog looks at it
  carrier,  \* netif_carrier_ok
  rings,    \* TxDescArray and RxDescArray are allocated
  rxbufs,   \* rx_skbuff[] holds buffers
  nic,      \* CmdTxEnb | CmdRxEnb, with the addresses of the rings
  intr,     \* IntrMask
  phy,      \* BMCR: not powered down
  irq,      \* rtl8101_interrupt is registered
  napi,     \* "off", "idle", "polling"
  late,     \* the poll is between napi_complete and the unmasking
  timer,    \* link_timer is armed
  work,     \* the delayed work pvt->task: "no", "delayed", "queued"
  task,     \* where rtl8101_reset_task is
  refused,    \* history: request_irq has failed in rtl8101_open
  overlapped  \* history: the interface was closed over a reset pending or running

core == <<netdev, rtnl, running, watched, carrier>>
mem  == <<rings, rxbufs, phy, irq, timer>>
hw   == <<nic, intr>>
poll == <<napi, late>>
hist == <<refused, overlapped>>
vars == <<core, mem, hw, poll, work, task, hist>>

HwReset == nic' = FALSE /\ intr' = FALSE
HwInit  == nic' = TRUE /\ intr' = TRUE

\* The network core knows the device.
Registered == netdev \in {"announced", "registered", "flushed"}

\* schedule_delayed_work does nothing when the work is pending.
Schedule == work' = IF work = "no" THEN "delayed" ELSE work

-----------------------------------------------------------------------------
(***************************************************************************)
(* net_register_dev and net_deregister_dev.                                *)
(***************************************************************************)

\* Up to register_netdev, which may fail (free_netdev).  From here on the
\* interface can be opened; a new device has its carrier on ...
Register ==
  /\ netdev = "none"
  /\ netdev' \in {"none", "announced"} /\ napi' = "off" /\ carrier' = TRUE
  /\ HwReset
  /\ UNCHANGED <<rtnl, running, watched, mem, late, work, task, hist>>

\* ... until net_register_dev goes on to netif_carrier_off.
CarrierOff ==
  /\ netdev = "announced"
  /\ netdev' = "registered" /\ carrier' = FALSE
  /\ UNCHANGED <<rtnl, running, watched, mem, hw, poll, work, task, hist>>

\* flush_scheduled_work waits for what is queued and what runs, not for a
\* delayed work whose time has not come.
Flush ==
  /\ netdev = "registered"
  /\ work # "queued" /\ task = "idle"
  /\ netdev' = "flushed"
  /\ UNCHANGED <<rtnl, running, watched, carrier, mem, hw, poll, work, task, hist>>

\* unregister_netdev closes the interface if it is open ...
Unregister ==
  /\ netdev = "flushed" /\ rtnl = "idle" /\ ~running
  /\ netdev' = "going"
  /\ UNCHANGED <<rtnl, running, watched, carrier, mem, hw, poll, work, task, hist>>

\* ... and free_netdev frees pvt with it.
Free ==
  /\ netdev = "going" /\ rtnl = "idle"
  /\ netdev' = "none"
  /\ UNCHANGED <<rtnl, running, watched, carrier, mem, hw, poll, work, task, hist>>

-----------------------------------------------------------------------------
(***************************************************************************)
(* rtl8101_open.  The core sets netif_running before it and takes it back  *)
(* when it fails; the watchdog starts when it has succeeded.               *)
(***************************************************************************)

\* init_buffers: both rings (if either is refused, nothing is left) ...
OpenRings ==
  /\ Registered /\ rtnl = "idle" /\ ~running
  /\ running' = TRUE /\ rings' = TRUE
  /\ rtnl' = "open_fill"
  /\ UNCHANGED <<netdev, watched, carrier, rxbufs, phy, irq, timer, hw, poll,
                 work, task, hist>>

\* ... and a buffer for every receive descriptor, or all is given back.
OpenNoMem ==
  /\ NoMemory /\ rtnl = "open_fill"
  /\ rings' = FALSE /\ rxbufs' = FALSE /\ running' = FALSE
  /\ rtnl' = "idle"
  /\ UNCHANGED <<netdev, watched, carrier, phy, irq, timer, hw, poll, work,
                 task, hist>>

OpenFill ==
  /\ rtnl = "open_fill"
  /\ rxbufs' = TRUE
  /\ rtnl' = "open_work"
  /\ UNCHANGED <<netdev, running, watched, carrier, rings, phy, irq, timer, hw,
                 poll, work, task, hist>>

\* INIT_DELAYED_WORK forgets what the work was; napi_enable.
OpenWork ==
  /\ rtnl = "open_work"
  /\ work' = "no" /\ napi' = "idle"
  /\ rtnl' = "open_hw"
  /\ UNCHANGED <<netdev, running, watched, carrier, mem, hw, late, task, hist>>

\* phy_reg_write of BMCR: BMCR_ANENABLE and BMCR_PDOWN.
PhyWrite(on) == phy' = on
PhyPowerUp   == PhyWrite(TRUE)
PhyPowerDown == PhyWrite(FALSE)

OpenHw ==
  /\ rtnl = "open_hw"
  /\ PhyPowerUp /\ HwInit
  /\ rtnl' = "open_irq"
  /\ UNCHANGED <<netdev, running, watched, carrier, rings, rxbufs, irq, timer,
                 poll, work, task, hist>>

\* rtl8101_request_link_timer, rtl8101_delete_link_timer (del_timer_sync).
LinkTimerOn  == timer' = TRUE
LinkTimerOff == timer' = FALSE

\* rtl8101_shut_buffers
ShutBuffers == rings' = FALSE

\* rtl8101_rx_clear
RxClear == rxbufs' = FALSE

\* request_irq, then the link timer.
OpenIrq ==
  /\ rtnl = "open_irq"
  /\ irq' = TRUE /\ LinkTimerOn /\ watched' = TRUE
  /\ rtnl' = "idle"
  /\ UNCHANGED <<netdev, running, carrier, rings, rxbufs, phy, hw, poll, work,
                 task, hist>>

\* request_irq fails: shut_buffers frees the rings, and nothing else is undone.
OpenNoIrq ==
  /\ rtnl = "open_irq"
  /\ ShutBuffers /\ running' = FALSE /\ refused' = TRUE
  /\ rtnl' = "idle"
  /\ UNCHANGED <<netdev, watched, carrier, rxbufs, phy, irq, timer, hw, poll,
                 work, task, overlapped>>

-----------------------------------------------------------------------------
(***************************************************************************)
(* rtl8101_close, called by the core (by unregister_netdev as well) after  *)
(* netif_running is cleared and the queue is deactivated.                  *)
(***************************************************************************)
Down ==
  /\ Registered /\ rtnl = "idle" /\ running
  /\ running' = FALSE /\ watched' = FALSE
  /\ rtnl' = IF rings THEN "close_timer" ELSE "idle"
  /\ overlapped' = (overlapped \/ work # "no" \/ task # "idle")
  /\ UNCHANGED <<netdev, carrier, mem, hw, poll, work, task, refused>>

CloseTimer ==
  /\ rtnl = "close_timer"
  /\ LinkTimerOff
  /\ rtnl' = "close_napi"
  /\ UNCHANGED <<netdev, running, watched, carrier, rings, rxbufs, phy, irq, hw,
                 poll, work, task, hist>>

\* Mutant: the poll is not waited for.
CloseNapi_NoWait ==
  /\ rtnl = "close_napi"
  /\ rtnl' = "close_hw"
  /\ UNCHANGED <<netdev, running, watched, carrier, mem, hw, poll, work, task, hist>>

\* napi_disable waits for the poll, and for whoever disabled it before.
CloseNapi ==
  /\ rtnl = "close_napi" /\ napi = "idle"
  /\ napi' = "off"
  /\ rtnl' = "close_hw"
  /\ UNCHANGED <<netdev, running, watched, carrier, mem, hw, late, work, task, hist>>

\* Mutant: the NIC is left running.
CloseHw_NoReset ==
  /\ rtnl = "close_hw" /\ ~late
  /\ carrier' = FALSE
  /\ rtnl' = "close_clear"
  /\ UNCHANGED <<netdev, running, watched, mem, hw, poll, work, task, hist>>

\* Mutant: synchronize_sched is left out.
CloseHw_NoSync ==
  /\ rtnl = "close_hw"
  /\ carrier' = FALSE /\ HwReset
  /\ rtnl' = "close_clear"
  /\ UNCHANGED <<netdev, running, watched, mem, poll, work, task, hist>>

\* synchronize_sched waits for the end of every softirq, a poll that has called
\* napi_complete included.
CloseHw ==
  /\ rtnl = "close_hw" /\ ~late
  /\ carrier' = FALSE /\ HwReset
  /\ rtnl' = "close_clear"
  /\ UNCHANGED <<netdev, running, watched, mem, poll, work, task, hist>>

\* synchronize_irq; tx_clear and rx_clear; the PHY is powered down.
CloseClear ==
  /\ rtnl = "close_clear"
  /\ RxClear /\ PhyPowerDown
  /\ rtnl' = "close_free"
  /\ UNCHANGED <<netdev, running, watched, carrier, rings, irq, timer, hw, poll,
                 work, task, hist>>

\* free_irq; the rings are freed.
CloseFree ==
  /\ rtnl = "close_free"
  /\ irq' = FALSE /\ rings' = FALSE
  /\ rtnl' = "idle"
  /\ UNCHANGED <<netdev, running, watched, carrier, rxbufs, phy, timer, hw,
                 poll, work, task, hist>>

Open ==
  \/ OpenRings \/ OpenNoMem \/ OpenFill \/ OpenWork \/ OpenHw
  \/ OpenIrq \/ OpenNoIrq

Close == CloseTimer \/ CloseNapi \/ CloseHw \/ CloseClear \/ CloseFree

-----------------------------------------------------------------------------
(***************************************************************************)
(* The entries that need no caller.                                        *)
(***************************************************************************)

\* rtl8101_interrupt masks the interrupts; napi_schedule does nothing when
\* NAPI is disabled.  (On a shared line it is called with the NIC's interrupts
\* masked as well, and looks at IntrStatus only.)
Interrupt ==
  /\ irq /\ nic /\ running
  /\ intr' = FALSE
  /\ napi' = IF napi = "idle" THEN "polling" ELSE napi
  /\ UNCHANGED <<core, mem, nic, late, work, task, hist>>

\* Mutant: napi_complete is left out.
Poll_Incomplete ==
  /\ napi = "polling" /\ ~late
  /\ late' = TRUE
  /\ UNCHANGED <<core, mem, hw, napi, work, task, hist>>

\* rtl8101_poll is done with the rings: napi_complete (the next poll comes to
\* it after this one has returned) ...
Poll ==
  /\ napi = "polling" /\ ~late
  /\ napi' = "idle" /\ late' = TRUE
  /\ UNCHANGED <<core, mem, hw, work, task, hist>>

\* ... and rtl8101_enable_interrupts.
PollUnmask ==
  /\ late
  /\ late' = FALSE /\ intr' = TRUE
  /\ UNCHANGED <<core, mem, nic, napi, work, task, hist>>

\* The link timer finds the cable plugged, or pulled.
LinkTimer ==
  /\ timer
  /\ carrier' = ~carrier
  /\ IF carrier THEN HwReset ELSE HwInit
  /\ UNCHANGED <<netdev, rtnl, running, watched, mem, poll, work, task, hist>>

TxTimeout ==
  /\ watched /\ carrier
  /\ HwReset /\ Schedule
  /\ UNCHANGED <<core, mem, poll, task, hist>>

WorkDue ==
  /\ work = "delayed"
  /\ work' = "queued"
  /\ UNCHANGED <<core, mem, hw, poll, task, hist>>

TaskStart ==
  /\ work = "queued" /\ task = "idle"
  /\ work' = "no"
  /\ task' = IF running THEN "napi" ELSE "idle"
  /\ UNCHANGED <<core, mem, hw, poll, hist>>

TaskNapi ==
  /\ task = "napi" /\ napi = "idle"
  /\ napi' = "off" /\ task' = "mask"
  /\ UNCHANGED <<core, mem, hw, late, work, hist>>

\* Interrupts off, NAPI on, and on to the rings.
TaskMask ==
  /\ task = "mask"
  /\ intr' = FALSE /\ napi' = "idle" /\ task' = "rings"
  /\ UNCHANGED <<core, mem, nic, late, work, hist>>

TaskRecover ==
  /\ task = "rings"
  /\ HwInit /\ task' = "idle"
  /\ UNCHANGED <<core, mem, poll, work, hist>>

TaskRetry ==
  /\ NoMemory /\ task = "rings"
  /\ Schedule /\ task' = "idle"
  /\ UNCHANGED <<core, mem, hw, poll, hist>>

Task == TaskStart \/ TaskNapi \/ TaskMask \/ TaskRecover \/ TaskRetry

-----------------------------------------------------------------------------
Init ==
  /\ netdev = "none" /\ rtnl = "idle" /\ running = FALSE /\ watched = FALSE
  /\ carrier = FALSE /\ rings = FALSE /\ rxbufs = FALSE
  /\ nic = FALSE /\ intr = FALSE /\ phy = FALSE /\ irq = FALSE
  /\ napi = "off" /\ late = FALSE /\ timer = FALSE /\ work = "no" /\ task = "idle"
  /\ refused = FALSE /\ overlapped = FALSE

Next ==
  \/ Register \/ CarrierOff \/ Flush \/ Unregister \/ Free
  \/ Open \/ Down \/ Close
  \/ Interrupt \/ Poll \/ PollUnmask \/ LinkTimer \/ TxTimeout \/ WorkDue \/ Task

Spec == Init /\ [][Next]_vars

\* A call that has begun, a poll and a work go on; a delay ends.  Nobody has to
\* open or close the interface.  napi_disable is not passed over for ever: while
\* it waits, NAPI_STATE_DISABLE keeps a new poll from being scheduled.
Fairness ==
  /\ WF_vars(Open /\ rtnl # "idle")
  /\ WF_vars(Close) /\ SF_vars(CloseNapi)
  /\ WF_vars(Poll) /\ WF_vars(PollUnmask) /\ WF_vars(WorkDue)
  /\ WF_vars(TaskStart) /\ SF_vars(TaskNapi) /\ WF_vars(TaskMask \/ TaskRecover)

FairSpec == Spec /\ Fairness

-----------------------------------------------------------------------------
(***************************************************************************)
(* Properties.                                                             *)
(***************************************************************************)

\* Every variable has its type: a place for each of the contexts (the RTNL
\* caller, NAPI, the work), and flags.
TypeOK ==
  /\ netdev \in {"none", "announced", "registered", "flushed", "going"}
  /\ rtnl \in {"idle", "open_fill", "open_work", "open_hw", "open_irq",
               "close_timer", "close_napi", "close_hw", "close_clear", "close_free"}
  /\ {running, watched, carrier, rings, rxbufs, nic, intr, phy, irq, timer, late,
      refused, overlapped} \subseteq BOOLEAN
  /\ napi \in {"off", "idle", "polling"}
  /\ work \in {"no", "delayed", "queued"}
  /\ task \in {"idle", "napi", "mask", "rings"}

\* The NIC is enabled only while the rings it was told of are allocated and
\* filled: it would write received frames into memory that is someone else's.
\* Two behaviours of the code break this, and the property excepts them by name:
\* a refused request_irq frees the rings of a NIC that runs, and a reset task
\* that is closed over enables the NIC of an interface that is down.
NicOnRings == nic => refused \/ overlapped \/ (rings /\ rxbufs)

\* Nobody works on rings that are freed: not the poll and not the link timer,
\* whatever was refused and whatever the close came upon; and not the reset task
\* unless rtl8101_close, which does not wait for it, was called over it.
RingsInUse ==
  /\ napi = "polling" \/ timer => rings
  /\ task = "rings" => overlapped \/ rings

\* An interface that is down has given everything back, after a close and after
\* an open that failed.  A refused request_irq leaves the receive buffers, the
\* PHY, NAPI and the NIC as they are; a reset task that was closed over leaves
\* the NIC and its interrupts on, and no more than that.
DownIsQuiet ==
  rtnl = "idle" /\ ~running =>
    /\ ~(rings \/ irq \/ timer \/ late)
    /\ refused \/ (~(rxbufs \/ phy) /\ napi = "off")
    /\ refused \/ overlapped \/ ~(nic \/ intr)

\* The waits in napi_disable end: rtl8101_close, for which the RTNL lock is held,
\* comes to its end even over a reset task that has NAPI disabled; and the task
\* comes to its end unless the interface goes down under it (then it waits for
\* the napi_enable of the next rtl8101_open).
WaitsEnd ==
  /\ rtnl = "close_timer" ~> rtnl = "idle"
  /\ task = "napi" ~> (task = "idle" \/ ~running)

=============================================================================
