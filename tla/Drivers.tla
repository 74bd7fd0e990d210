------------------------------ MODULE Drivers ------------------------------
(***************************************************************************)
(* Device discovery (axdriver): which drivers a build has, probing without *)
(* a bus, the PCI and the MMIO bus, the assignment of addresses to PCI     *)
(* BARs, the containers of found devices, and the subsystems that take one *)
(* device each (axfs, axnet, axdisplay).                                   *)
(*                                                                         *)
(* Only the boot CPU runs this.  PciRoot, PciRangeAllocator and the VirtIO *)
(* drivers are external.  What the code cannot know is chosen: the devices *)
(* on the bus, whether the firmware has assigned the BARs (it assigns all  *)
(* or none), and whether a device initialises.  BAR sizes are powers of 2. *)
(***************************************************************************)
EXTENDS Naturals, Sequences, FiniteSets, FiniteSetsExt, SequencesExt

CONSTANTS Buses,        \* the device lists to look at: sequences of names of Function
          Features,     \* the sets of driver features to build with
          RangeBase, RangeSize,   \* the 32-bit window of PCI_RANGES
          Subsystems    \* categories a subsystem of this build takes a device of

PCI_BAR_NUM == 3        \* 6 in the code

Bar(k, n) == [kind |-> k, size |-> n, addr |-> 0]
NoBar == Bar("mem32", 0)

(* What can be found at a place on the bus: identity, header type, BARs.   *)
Function(x) ==
  CASE x = "net" -> [id |-> "virtio-net", std |-> TRUE, bars |-> <<Bar("io", 1), Bar("mem32", 1), NoBar>>]
    [] x = "blk" -> [id |-> "virtio-blk", std |-> TRUE, bars |-> <<Bar("mem32", 1), Bar("mem64", 2), NoBar>>]
    [] x = "gpu" -> [id |-> "virtio-gpu", std |-> TRUE, bars |-> <<Bar("mem64", 2), NoBar, NoBar>>]
    [] x = "ixgbe" -> [id |-> "ixgbe", std |-> TRUE, bars |-> <<Bar("mem64", 4), NoBar, NoBar>>]
    [] x = "ixgbe_io" -> [id |-> "ixgbe", std |-> TRUE, bars |-> <<Bar("io", 1), NoBar, NoBar>>]
    [] x = "vga" -> [id |-> "other", std |-> TRUE, bars |-> <<Bar("mem32", 4), Bar("mem32", 1), NoBar>>]
    [] x = "bridge" -> [id |-> "other", std |-> FALSE, bars |-> <<NoBar, NoBar, NoBar>>]

Category(d) == CASE d \in {"virtio-net", "ixgbe", "fxmac"} -> "net"
                 [] d \in {"virtio-blk", "ramdisk", "bcm2835-sdhci"} -> "block"
                 [] d = "virtio-gpu" -> "display"
Categories == {"net", "block", "display"}

(* The orders in which build.rs selects and for_each_drivers! visits.      *)
SelectOrder == <<"fxmac", "ixgbe", "virtio-net", "ramdisk", "bcm2835-sdhci", "virtio-blk", "virtio-gpu">>
VisitOrder == <<"virtio-net", "virtio-blk", "virtio-gpu", "ramdisk", "bcm2835-sdhci", "ixgbe", "fxmac">>

First(s, S) == CHOOSE x \in S : \A y \in S : SelectInSeq(s, LAMBDA e : e = x) <= SelectInSeq(s, LAMBDA e : e = y)

(* Without `dyn` one driver of each category is built.                     *)
SelectedDrivers(feats, dyn) ==
  IF dyn THEN feats
  ELSE {d \in feats : d = First(SelectOrder, {e \in feats : Category(e) = Category(d)})}

VARIABLES build,      \* [bus, dyn, drivers, ranges]: the configuration
          fns,        \* fns[i]: the i-th function of the bus
          at,         \* where the boot CPU is
          i, b, d,    \* function, BAR and driver it is at
          current,    \* PciRangeAllocator: the next free address
          enabled,    \* functions whose command register was set
          owned,      \* owned[i]: drivers that made a device of function i
          devs,       \* AllDevices: the container of each category
          taken       \* taken[c]: the device the subsystem of c has

driverVars == <<build, fns, at, i, b, d, current, enabled, owned, devs, taken>>

Nothing == <<0, "none">>

(* Addresses the firmware gave lie outside the window.                     *)
FirmwareAddr(k, j) == RangeBase + RangeSize + 8 * (PCI_BAR_NUM * k + j)
Assigned(bars, k) ==
  [j \in 1..PCI_BAR_NUM |-> IF bars[j].size = 0 THEN bars[j] ELSE [bars[j] EXCEPT !.addr = FirmwareAddr(k, j)]]

DriversInit ==
  /\ \E bus \in {"pci", "mmio"}, dyn, ranges \in BOOLEAN, fs \in Features :
       build = [bus |-> bus, dyn |-> dyn, ranges |-> ranges,
                drivers |-> SelectSeq(VisitOrder, LAMBDA x : x \in SelectedDrivers(fs, dyn))]
  /\ \E names \in Buses, firmware \in BOOLEAN :
       fns = [k \in DOMAIN names |->
                IF firmware THEN [Function(names[k]) EXCEPT !.bars = Assigned(@, k)]
                            ELSE Function(names[k])]
  /\ at = "global" /\ i = 1 /\ b = 1 /\ d = 1
  /\ current = RangeBase
  /\ enabled = {}
  /\ owned = [k \in DOMAIN fns |-> {}]
  /\ devs = [c \in Categories |-> <<>>]
  /\ taken = [c \in Categories |-> Nothing]

-----------------------------------------------------------------------------
Driver == build.drivers[d]
MoreDrivers == d <= Len(build.drivers)

(* Faulty variant: the container keeps the device found last.              *)
pushLast(q, dev) == IF build.dyn THEN <<dev>> \o q ELSE <<dev>>

(* The container: an Option that keeps the first device, or a vector.      *)
push(q, dev) == IF build.dyn \/ q = <<>> THEN Append(q, dev) ELSE q

add_device(k, x) == devs' = [devs EXCEPT ![Category(x)] = push(@, <<k, x>>)]

(* probe_global: the RAM disk always exists; SDHCI and FXmac may fail to   *)
(* initialise; the others have no such probe.                              *)
ProbeGlobal ==
  /\ at = "global" /\ MoreDrivers
  /\ \/ /\ Driver \in {"ramdisk", "bcm2835-sdhci", "fxmac"}
        /\ add_device(0, Driver)
     \/ Driver # "ramdisk" /\ UNCHANGED devs
  /\ d' = d + 1
  /\ UNCHANGED <<build, fns, at, i, b, current, enabled, owned, taken>>

(* probe_bus_devices.                                                      *)
ProbeBus ==
  /\ at = "global" /\ ~ MoreDrivers
  /\ at' = build.bus /\ d' = 1
  /\ UNCHANGED <<build, fns, i, b, current, enabled, owned, devs, taken>>

NextFunction == i' = i + 1 /\ b' = 1 /\ d' = 1

SkipBridge ==
  /\ at = "pci" /\ i <= Len(fns) /\ ~ fns[i].std
  /\ NextFunction
  /\ UNCHANGED <<build, fns, at, current, enabled, owned, devs, taken>>

-----------------------------------------------------------------------------
(* PciRangeAllocator::alloc.                                               *)
align_up(a, n) == ((a + n - 1) \div n) * n
range_alloc(n) == {x \in {align_up(current, n)} : x + n <= RangeBase + RangeSize}

advance(x, n) == current' = x + n

(* config_pci_device: one turn of its loop.  A memory BAR without address  *)
(* gets one from the window; a 64-bit BAR takes two entries.               *)
ConfigBar ==
  /\ at = "pci" /\ i <= Len(fns) /\ fns[i].std /\ b <= PCI_BAR_NUM
  /\ \E r \in {fns[i].bars[b]} :
       /\ \/ /\ r.kind = "io" \/ r.size = 0 \/ r.addr # 0
             /\ UNCHANGED <<fns, current>>
          \/ /\ r.kind # "io" /\ r.size > 0 /\ r.addr = 0 /\ build.ranges
             /\ \E x \in range_alloc(r.size) :
                  /\ fns' = [fns EXCEPT ![i].bars[b].addr = x]
                  /\ advance(x, r.size)
       /\ b' = IF r.kind = "mem64" THEN b + 2 ELSE b + 1
  /\ UNCHANGED <<build, at, i, d, enabled, owned, devs, taken>>

NeedsAddr == b <= PCI_BAR_NUM /\ fns[i].bars[b].kind # "io" /\ fns[i].bars[b].size > 0 /\ fns[i].bars[b].addr = 0

(* The window is used up: the function is left as it is.                   *)
ConfigFails ==
  /\ at = "pci" /\ i <= Len(fns) /\ fns[i].std /\ NeedsAddr
  /\ build.ranges /\ range_alloc(fns[i].bars[b].size) = {}
  /\ NextFunction
  /\ UNCHANGED <<build, fns, at, current, enabled, owned, devs, taken>>

(* There is no window: expect() panics.                                    *)
NoRanges ==
  /\ at = "pci" /\ i <= Len(fns) /\ fns[i].std /\ NeedsAddr /\ ~ build.ranges
  /\ at' = "panic"
  /\ UNCHANGED <<build, fns, i, b, d, current, enabled, owned, devs, taken>>

Enable ==
  /\ at = "pci" /\ i <= Len(fns) /\ fns[i].std /\ b > PCI_BAR_NUM
  /\ enabled' = enabled \cup {i}
  /\ at' = "probe"
  /\ UNCHANGED <<build, fns, i, b, d, current, owned, devs, taken>>

-----------------------------------------------------------------------------
(* VirtIoDriver::probe_pci and probe_mmio look at the identity, the driver *)
(* of ixgbe at the identity and the kind of BAR 0.                         *)
virtio_matches(x) == x \in {"virtio-net", "virtio-blk", "virtio-gpu"} /\ fns[i].id = x
ixgbe_matches(x) == x = "ixgbe" /\ fns[i].id = x /\ build.bus = "pci" /\ fns[i].bars[1].kind # "io"
Matches(x) == virtio_matches(x) \/ ixgbe_matches(x)

(* `continue`: on to the next function.                                    *)
Claimed == NextFunction /\ at' = build.bus

(* The driver makes a device of the function.                              *)
ProbeOk ==
  /\ at = "probe" /\ MoreDrivers /\ Matches(Driver)
  /\ add_device(i, Driver)
  /\ owned' = [owned EXCEPT ![i] = @ \cup {Driver}]
  /\ Claimed
  /\ UNCHANGED <<build, fns, current, enabled, taken>>

(* It does not match, or the device does not initialise.                   *)
ProbeNone ==
  /\ at = "probe" /\ MoreDrivers /\ ~ ixgbe_matches(Driver)
  /\ d' = d + 1
  /\ UNCHANGED <<build, fns, at, i, b, current, enabled, owned, devs, taken>>

(* The driver of ixgbe panics on a device that does not initialise.        *)
ProbePanic ==
  /\ at = "probe" /\ MoreDrivers /\ ixgbe_matches(Driver)
  /\ at' = "panic"
  /\ UNCHANGED <<build, fns, i, b, d, current, enabled, owned, devs, taken>>

ProbeEnd ==
  /\ at = "probe" /\ ~ MoreDrivers
  /\ NextFunction /\ at' = build.bus
  /\ UNCHANGED <<build, fns, current, enabled, owned, devs, taken>>

(* The MMIO bus: every region is probed as it is.                          *)
ProbeMmio ==
  /\ at = "mmio" /\ i <= Len(fns)
  /\ at' = "probe"
  /\ UNCHANGED <<build, fns, i, b, d, current, enabled, owned, devs, taken>>

BusEnd ==
  /\ at \in {"pci", "mmio"} /\ i > Len(fns)
  /\ at' = "take"
  /\ UNCHANGED <<build, fns, i, b, d, current, enabled, owned, devs, taken>>

-----------------------------------------------------------------------------
(* init_filesystems, init_network and init_display, in this order: each    *)
(* takes one device, and panics when there is none.                        *)
TakeOrder == SelectSeq(<<"block", "net", "display">>, LAMBDA c : c \in Subsystems)

Take ==
  /\ at = "take"
  /\ \E k \in DOMAIN TakeOrder :
       /\ taken[TakeOrder[k]] = Nothing /\ \A j \in 1..k - 1 : taken[TakeOrder[j]] # Nothing
       /\ \/ /\ devs[TakeOrder[k]] # <<>>
             /\ taken' = [taken EXCEPT ![TakeOrder[k]] = Head(devs[TakeOrder[k]])]
             /\ devs' = [devs EXCEPT ![TakeOrder[k]] = Tail(@)]
             /\ UNCHANGED at
          \/ devs[TakeOrder[k]] = <<>> /\ at' = "panic" /\ UNCHANGED <<devs, taken>>
  /\ UNCHANGED <<build, fns, i, b, d, current, enabled, owned>>

DriversNext ==
  \/ ProbeGlobal \/ ProbeBus \/ SkipBridge
  \/ ConfigBar \/ ConfigFails \/ NoRanges \/ Enable
  \/ ProbeOk \/ ProbeNone \/ ProbePanic \/ ProbeEnd \/ ProbeMmio \/ BusEnd
  \/ Take

-----------------------------------------------------------------------------
(* The memory BARs of the bus that have an address.                        *)
Windows == {<<k, j>> \in (DOMAIN fns) \X (1..PCI_BAR_NUM) :
              /\ fns[k].bars[j].kind # "io" /\ fns[k].bars[j].size > 0 /\ fns[k].bars[j].addr # 0}
Start(w) == fns[w[1]].bars[w[2]].addr
Size(w) == fns[w[1]].bars[w[2]].size

(* The devices decode disjoint, aligned ranges, and those given out by     *)
(* config_pci_device lie in the window; a function is switched on, and     *)
(* offered to drivers, only when all its memory BARs have an address.      *)
BarsSound ==
  /\ \A w \in Windows : /\ Start(w) % Size(w) = 0
                         /\ Start(w) < RangeBase + RangeSize => Start(w) + Size(w) <= RangeBase + RangeSize
  /\ \A v, w \in Windows : v # w => Start(v) + Size(v) <= Start(w) \/ Start(w) + Size(w) <= Start(v)
  /\ \A k \in enabled, j \in 1..PCI_BAR_NUM :
       fns[k].bars[j].kind # "io" /\ fns[k].bars[j].size > 0 => <<k, j>> \in Windows
  /\ build.bus = "pci" => \A k \in DOMAIN fns : owned[k] # {} => k \in enabled

(* Of the devices that were found, a subsystem gets the first of its       *)
(* category, whichever device model is built, and no function ends up with *)
(* two drivers: probe() skips to the next function once one has taken it,  *)
(* push() of the static model keeps the first and take_one() of the        *)
(* dynamic one removes the first.                                          *)
Found(c) == {k \in DOMAIN fns : \E x \in owned[k] : Category(x) = c}
TakesFirst ==
  /\ \A k \in DOMAIN fns : Cardinality(owned[k]) <= 1
  /\ \A c \in Categories : taken[c] # Nothing /\ taken[c][1] # 0 =>
       taken[c][1] = Min(Found(c)) /\ owned[taken[c][1]] = {taken[c][2]}
=============================================================================
