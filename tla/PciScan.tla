------------------------------ MODULE PciScan --------------------------------
(***************************************************************************)
(* Finding the devices on the PCI buses: pci_init of kernel/pci/pci.c,     *)
(* device.c and express.c.  The list of devices found so far is also the   *)
(* list of bridges still to follow.                                        *)
(*                                                                         *)
(* The hardware is a set of functions, each with its bus, device and       *)
(* function number.  A capability list is the sequence of its identifiers: *)
(* one that runs in a circle is left out, as pci_find_capability would     *)
(* never return from it.                                                   *)
(***************************************************************************)
EXTENDS Integers, Sequences, FiniteSets

CONSTANTS
    DEVICES, FUNCTIONS,     \* 32 devices on a bus, 8 functions in a device
    MAX_PCI_DEVICES,
    Machines                \* sets of [bus, dev, fn, multifunction, bridge, secondary, caps]

ASSUME PciAssumption ==
    /\ DEVICES \in Nat \ {0} /\ FUNCTIONS \in Nat \ {0}
    /\ MAX_PCI_DEVICES \in Nat \ {0}
    /\ \A m \in Machines :
         /\ IsFiniteSet(m)
         /\ \A f \in m : /\ f.bus \in Nat /\ f.dev \in 0 .. DEVICES - 1 /\ f.fn \in 0 .. FUNCTIONS - 1
                         /\ f.multifunction \in BOOLEAN /\ f.bridge \in BOOLEAN /\ f.secondary \in Nat
         /\ \A f, g \in m : f.bus = g.bus /\ f.dev = g.dev /\ f.fn = g.fn => f = g

VARIABLES
    machine,        \* the hardware, constant
    devices,        \* devices[0 .. device_count - 1]
    scanning,       \* "bus 0", "bridges", "count" or "done"
    index,          \* i of the loops of pci_device_init and pci_init
    pcie_count

pcivars == <<machine, devices, scanning, index, pcie_count>>

PCIE_CAP_ID == 16

PciInit ==
    /\ machine \in Machines
    /\ devices = <<>> /\ scanning = "bus 0" /\ index = 1 /\ pcie_count = 0

present(bus, dev, fn) == \E f \in machine : f.bus = bus /\ f.dev = dev /\ f.fn = fn
function_at(bus, dev, fn) == CHOOSE f \in machine : f.bus = bus /\ f.dev = dev /\ f.fn = fn

\* The loop over functions ends after function 0 if there is none, or if it
\* has no others.
skips_function(bus, dev, fn) ==
    fn > 0 /\ (present(bus, dev, 0) => ~function_at(bus, dev, 0).multifunction)

\* One turn of its two loops: place n stands for device n \div FUNCTIONS and
\* function n % FUNCTIONS.
scan_place(list, bus, n) ==
    LET dev == n \div FUNCTIONS
        fn  == n % FUNCTIONS
    IN  IF skips_function(bus, dev, fn) \/ ~present(bus, dev, fn) \/ Len(list) >= MAX_PCI_DEVICES
        THEN list ELSE Append(list, function_at(bus, dev, fn))

\* The list after pci_device_scan_bus(bus).
pci_device_scan_bus(list, bus) ==
    LET after[n \in 0 .. DEVICES * FUNCTIONS] ==
            IF n = 0 THEN list ELSE scan_place(after[n - 1], bus, n - 1)
    IN  after[DEVICES * FUNCTIONS]

scan_primary ==
    /\ scanning = "bus 0"
    /\ devices' = pci_device_scan_bus(<<>>, 0)
    /\ scanning' = "bridges"
    /\ UNCHANGED <<machine, index, pcie_count>>

\* Fault: a bridge that was never given a bus leads back to bus 0.
follows_any(f) == f.bridge
follows(f) == f.bridge /\ f.secondary > 0

\* One turn of the loop of pci_device_init; the list may grow under it.
pci_device_init ==
    /\ scanning = "bridges"
    /\ IF index > Len(devices) THEN scanning' = "count" /\ index' = 1 /\ UNCHANGED devices
       ELSE /\ devices' = IF follows(devices[index])
                          THEN pci_device_scan_bus(devices, devices[index].secondary)
                          ELSE devices
            /\ index' = index + 1 /\ UNCHANGED scanning
    /\ UNCHANGED <<machine, pcie_count>>

\* pci_find_capability, as pcie_is_device uses it.
pcie_is_device(f) == \E i \in DOMAIN f.caps : f.caps[i] = PCIE_CAP_ID

\* The loop of pci_init that counts.
pci_init ==
    /\ scanning = "count"
    /\ IF index > Len(devices) THEN scanning' = "done" /\ UNCHANGED <<index, pcie_count>>
       ELSE /\ pcie_count' = pcie_count + (IF pcie_is_device(devices[index]) THEN 1 ELSE 0)
            /\ index' = index + 1 /\ UNCHANGED scanning
    /\ UNCHANGED <<machine, devices>>

PciNext == scan_primary \/ pci_device_init \/ pci_init

PciSpec == PciInit /\ [][PciNext]_pcivars
-----------------------------------------------------------------------------
\* A function answers if its device has a function 0, and is that or one of
\* several.
Answers == {f \in machine : f.fn > 0 => present(f.bus, f.dev, 0) /\
                                        function_at(f.bus, f.dev, 0).multifunction}
Bridges == {f \in Answers : f.bridge /\ f.secondary > 0}

\* The firmware numbers buses so that each is behind one bridge only, and
\* behind a bridge on a lower bus.
Numbered ==
    /\ \A f, g \in Bridges : f.secondary = g.secondary => f = g
    /\ \A f \in Bridges : f.secondary > f.bus

\* What can be reached: bus 0 and what lies behind a bridge that can be.
behind(found) == {f \in Answers : \E b \in found \cap Bridges : b.secondary = f.bus}
Reached ==
    LET near[n \in 0 .. Cardinality(machine)] ==
            IF n = 0 THEN {f \in Answers : f.bus = 0} ELSE near[n - 1] \cup behind(near[n - 1])
    IN  near[Cardinality(machine)]

\* Behind bridges however deep, every function that can be reached is found,
\* and found once; more than fit leave the table full.  Buses numbered in a
\* circle do not make the scan overrun the table.
EachFoundOnce ==
    /\ Len(devices) <= MAX_PCI_DEVICES
    /\ scanning = "done" /\ Numbered =>
       /\ \A i, j \in DOMAIN devices : devices[i] = devices[j] => i = j
       /\ IF Cardinality(Reached) <= MAX_PCI_DEVICES
          THEN {devices[i] : i \in DOMAIN devices} = Reached
          ELSE Len(devices) = MAX_PCI_DEVICES
       /\ pcie_count = Cardinality({i \in DOMAIN devices : pcie_is_device(devices[i])})
=============================================================================
