----------------------------- MODULE PciLadder -----------------------------
(***************************************************************************)
(* How the drivers are bound to their device and taken off it again.       *)
(* A probe climbs a ladder: each rung acquires a resource, and a rung that *)
(* fails undoes the ones below it, by a list of calls of its own.  Remove  *)
(* is one more such list.  The lists are data, transcribed from each       *)
(* driver; the actions walk them one call at a time.  Everything the       *)
(* driver has acquired is live between the calls: an interrupt, a system   *)
(* call or the NIC may come at any of them.                                *)
(***************************************************************************)
EXTENDS Naturals, Sequences

CONSTANTS
  Drivers,   \* the drivers looked at
  Refused    \* the resources the kernel may refuse

VARIABLES
  driver,    \* the driver of the device
  phase,     \* what the driver core is doing
  at,        \* the rung the probe has come to
  todo,      \* the releases still to make
  held       \* the resources acquired, oldest first

vars == <<driver, phase, at, todo, held>>

\* A refused resource makes the probe fail (Try), or the probe goes on after
\* its undo list (Slip).  Do cannot fail, Test acquires nothing, and GiveUp
\* fails for certain: the call that would acquire it is not there.
Try(r, undo)  == [get |-> <<r>>, ask |-> r, undo |-> undo, then |-> "unwind"]
Slip(r, undo) == [get |-> <<r>>, ask |-> r, undo |-> undo, then |-> "slip"]
Test(r, undo) == [get |-> <<>>,  ask |-> r, undo |-> undo, then |-> "unwind"]
Do(r)         == [get |-> <<r>>, ask |-> "nothing", undo |-> <<>>, then |-> "unwind"]
GiveUp        == [get |-> <<>>, ask |-> "left_out", undo |-> <<>>, then |-> "unwind"]

\* The rungs of a function whose caller undoes outer when it returns an error.
Within(rungs, outer) ==
  [i \in DOMAIN rungs |->
     LET r == rungs[i]
     IN  [get |-> r.get, ask |-> r.ask, then |-> r.then,
          undo |-> IF r.then = "unwind" THEN r.undo \o outer ELSE r.undo]]

-----------------------------------------------------------------------------
(***************************************************************************)
(* The network driver: Solutions/Rt8169Drv/pci_net.c and net_stk.c.  (What *)
(* pci_set_master does, pci_disable_device undoes.)                        *)
(***************************************************************************)
NetRegister   == <<Try("netdev", <<>>), Try("interface", <<"netdev">>)>>
NetDeregister == <<"interface", "netdev">>

PnUndo == <<"drvdata", "msi", "regs", "regions", "mwi", "device">>

PnMap ==
  <<Try("device", <<>>),
    Try("mwi", <<"device">>),
    Try("regions", <<"mwi", "device">>),
    Try("regs", <<"regions", "mwi", "device">>),
    Test("dma_mask", <<"regs", "regions", "mwi", "device">>),
    Slip("msi", <<>>),
    Do("drvdata")>>

PnProbe == PnMap \o Within(NetRegister, PnUndo)

\* Mutant: the registers are unmapped before MSI is disabled.
PnRemove_MsiLate ==
  NetDeregister \o <<"drvdata", "regs", "msi", "regions", "mwi", "device">>

PnRemove == NetDeregister \o PnUndo

\* NetworkDriver/Rt8169Drv, the same driver with lines taken out: its
\* net_register_dev finds no netdev, so that every probe is undone.
AssnNetRegister == <<GiveUp>>
AssnPnProbe     == PnMap \o Within(AssnNetRegister, PnUndo)

-----------------------------------------------------------------------------
(***************************************************************************)
(* The character driver: Solutions/expt_drv_with_dma.c.                    *)
(***************************************************************************)

\* A refused kmalloc frees the descriptors and goes on.
SetupBuffers ==
  <<Try("desc_tx", <<>>),
    Try("desc_rx", <<"desc_tx">>),
    Slip("pkt_tx", <<"desc_rx", "desc_tx">>),
    Do("map_tx"),
    Slip("pkt_rx", <<"map_tx", "pkt_tx", "desc_rx", "desc_tx">>),
    Do("map_rx")>>

CleanupBuffers == <<"map_rx", "pkt_rx", "map_tx", "pkt_tx", "desc_rx", "desc_tx">>

\* Mutant: a refused device node leaves the class.
CharRegister_KeepsClass ==
  <<Try("chrdev", <<>>),
    Try("cdev", <<"chrdev">>),
    Try("class", <<"cdev", "chrdev">>),
    Try("node", <<"cdev", "chrdev">>)>>

CharRegister ==
  <<Try("chrdev", <<>>),
    Try("cdev", <<"chrdev">>),
    Try("class", <<"cdev", "chrdev">>),
    Try("node", <<"class", "cdev", "chrdev">>)>>

CharDeregister == <<"node", "class", "cdev", "chrdev">>

\* The NIC is enabled and its interrupts are unmasked, and the reverse.
HwInit == <<Do("hw")>>
HwShut == <<"hw">>

\* Enable, request the regions, map the registers, set drvdata: the first half
\* of every probe of the character drivers.
MapDevice ==
  <<Try("device", <<>>),
    Try("regions", <<"device">>),
    Try("regs", <<"regions", "device">>),
    Do("drvdata")>>

UnmapDevice == <<"drvdata", "regs", "regions", "device">>

ExptProbe ==
  MapDevice \o <<Slip("msi", <<>>)>>
  \o Within(SetupBuffers, <<"msi">> \o UnmapDevice)
  \o <<Try("irq", CleanupBuffers \o <<"msi">> \o UnmapDevice)>> \o HwInit
  \o Within(CharRegister,
            HwShut \o <<"irq">> \o CleanupBuffers \o <<"msi">> \o UnmapDevice)

\* Mutant: the interrupt is freed after the buffers its handler uses.
ExptRemove_IrqLate ==
  CharDeregister \o HwShut \o CleanupBuffers \o <<"irq", "msi">> \o UnmapDevice

ExptRemove ==
  CharDeregister \o HwShut \o <<"irq">> \o CleanupBuffers
  \o <<"msi">> \o UnmapDevice

-----------------------------------------------------------------------------
(***************************************************************************)
(* Solutions/expt_drv_init_char.c: remove leaves the device node.          *)
(***************************************************************************)
InitCharRegister == CharRegister
InitCharProbe    == MapDevice \o Within(InitCharRegister, UnmapDevice)
InitCharRemove   == UnmapDevice

(***************************************************************************)
(* The exercises of PCIDriverAssn, as they stand: what is left to the      *)
(* students is not there.                                                  *)
(***************************************************************************)
AssnCharRegister   == CharRegister
AssnCharDeregister == CharDeregister

\* expt_drv_dma.c: the test after the missing call of setup_buffers finds the
\* result of pci_enable_msi, so that a device without MSI is refused.
\* cleanup_buffers frees nothing, as nothing was allocated.
AssnDmaProbe ==
  MapDevice
  \o <<Try("msi", UnmapDevice), Try("irq", <<"msi">> \o UnmapDevice)>>
  \o Within(AssnCharRegister, <<"irq", "msi">> \o UnmapDevice)

AssnDmaRemove ==
  <<"drvdata">> \o AssnCharDeregister \o <<"irq", "msi", "regs", "regions", "device">>

\* expt_drv_intr.c: neither MSI nor the interrupt is asked for, and retval is
\* still 0 in the two tests that follow.
AssnIntrProbe  == MapDevice
AssnIntrRemove == UnmapDevice

\* expt_drv_init_char.c: the device node is left out, and its test finds 0.
AssnCharProbe  == MapDevice
AssnCharRemove == UnmapDevice

(***************************************************************************)
(* Debugging/buggy.c: a device node without a device.                      *)
(***************************************************************************)
DebugInit == CharRegister
DebugExit == CharDeregister

-----------------------------------------------------------------------------
\* What the interrupt handler of a driver touches, and what its calls touch.
Ladder(probe, remove, handler, calls) ==
  [probe |-> probe, remove |-> remove, handler |-> handler, calls |-> calls]

ExptHandler    == {"drvdata", "regs", "desc_rx"}
ExptCalls      == {"regs", "desc_tx", "desc_rx", "pkt_tx", "pkt_rx", "hw"}
AssnDmaHandler == {"drvdata", "regs"}
AssnDmaCalls   == {"regs"}

Ladders ==
  [pn        |-> Ladder(PnProbe, PnRemove, {}, {}),
   assn_pn   |-> Ladder(AssnPnProbe, PnRemove, {}, {}),
   expt_dma  |-> Ladder(ExptProbe, ExptRemove, ExptHandler, ExptCalls),
   init_char |-> Ladder(InitCharProbe, InitCharRemove, {}, {}),
   assn_dma  |-> Ladder(AssnDmaProbe, AssnDmaRemove, AssnDmaHandler, AssnDmaCalls),
   assn_intr |-> Ladder(AssnIntrProbe, AssnIntrRemove, {}, {}),
   assn_char |-> Ladder(AssnCharProbe, AssnCharRemove, {}, {}),
   buggy     |-> Ladder(DebugInit, DebugExit, {}, {})]

\* A call that cannot fail asks for nothing that could be refused.
ASSUME LadderAssumption == Drivers \subseteq DOMAIN Ladders /\ "nothing" \notin Refused

Probe  == Ladders[driver].probe
Remove == Ladders[driver].remove
Holds  == {held[i] : i \in DOMAIN held}

-----------------------------------------------------------------------------
(***************************************************************************)
(* The actions.                                                            *)
(***************************************************************************)
Init ==
  /\ driver \in Drivers
  /\ phase = "unbound" /\ at = 1 /\ todo = <<>> /\ held = <<>>

\* pci_register_driver: the bus calls the probe of the device it matches.
ProbeBegin ==
  /\ phase = "unbound"
  /\ phase' = "probe" /\ at' = 1
  /\ UNCHANGED <<driver, todo, held>>

Acquire ==
  /\ phase = "probe" /\ at <= Len(Probe)
  /\ Probe[at].ask # "left_out"
  /\ held' = held \o Probe[at].get
  /\ at' = at + 1
  /\ UNCHANGED <<driver, phase, todo>>

Refuse ==
  /\ phase = "probe" /\ at <= Len(Probe)
  /\ Probe[at].ask \in Refused \cup {"left_out"}
  /\ todo' = Probe[at].undo
  /\ phase' = Probe[at].then
  /\ UNCHANGED <<driver, at, held>>

ProbeEnd ==
  /\ phase = "probe" /\ at = Len(Probe) + 1
  /\ phase' = "bound"
  /\ UNCHANGED <<driver, at, todo, held>>

\* pci_unregister_driver, or the device goes away.
RemoveBegin ==
  /\ phase = "bound"
  /\ phase' = "remove" /\ todo' = Remove
  /\ UNCHANGED <<driver, at, held>>

\* s without r, if r is there.
Without(s, r) ==
  IF \E i \in DOMAIN s : s[i] = r
    THEN LET k == CHOOSE i \in DOMAIN s : s[i] = r
         IN  [j \in 1 .. Len(s) - 1 |-> IF j < k THEN s[j] ELSE s[j + 1]]
    ELSE s

\* The next call of the list.  MSI is asked for before it is disabled, and
\* a release of what is not held would be a double free (LastFirst).
Release ==
  /\ todo # <<>>
  /\ held' = Without(held, Head(todo))
  /\ todo' = Tail(todo)
  /\ UNCHANGED <<driver, phase, at>>

\* The list is at its end: the error is returned, the probe goes on without
\* the resource, or the device is unbound.
ReleaseEnd ==
  /\ phase \in {"unwind", "slip", "remove"} /\ todo = <<>>
  /\ phase' = IF phase = "slip" THEN "probe" ELSE "unbound"
  /\ at' = IF phase = "slip" THEN at + 1 ELSE at
  /\ UNCHANGED <<driver, todo, held>>

Next ==
  \/ ProbeBegin \/ Acquire \/ Refuse \/ ProbeEnd
  \/ RemoveBegin \/ Release \/ ReleaseEnd

Spec == Init /\ [][Next]_vars

-----------------------------------------------------------------------------
(***************************************************************************)
(* Properties.                                                             *)
(***************************************************************************)

\* Every list of releases, that of each failing call of a probe and that of
\* remove, takes back the newest resource first, and none that is not held:
\* nothing is freed twice or under something that still uses it.  (MSI may
\* not be there; pci_dev_msi_enabled asks.)
LastFirst ==
  todo # <<>> =>
    \/ held # <<>> /\ Head(todo) = held[Len(held)]
    \/ Head(todo) = "msi" /\ "msi" \notin Holds

\* A probe that failed, wherever it failed, and a remove leave nothing behind.
NothingLeft == phase = "unbound" => held = <<>>

\* What uses what, for as long as it is there.
Rests ==
  {<<"mwi", "device">>, <<"regions", "device">>, <<"regs", "regions">>,
   <<"msi", "device">>, <<"map_tx", "pkt_tx">>, <<"map_rx", "pkt_rx">>,
   <<"hw", "desc_tx">>, <<"hw", "desc_rx">>, <<"hw", "map_rx">>, <<"hw", "irq">>,
   <<"interface", "netdev">>, <<"interface", "regs">>, <<"interface", "drvdata">>,
   <<"node", "class">>, <<"node", "cdev">>, <<"cdev", "chrdev">>}

\* At every moment of a probe, of its failure and of a remove, what can be
\* entered finds what it uses: the interrupt handler between request_irq and
\* free_irq (a shared interrupt comes at once), read and write between cdev_add
\* and cdev_del, the NIC between hw_init and hw_shut.
Grounded ==
  /\ \A p \in Rests : p[1] \in Holds => p[2] \in Holds
  /\ "irq" \in Holds => Ladders[driver].handler \subseteq Holds
  /\ "cdev" \in Holds => Ladders[driver].calls \subseteq Holds

=============================================================================
