------------------------------ MODULE MCMachine ------------------------------
(* The machine's map and the PCI bus behind its bridge board: the guest     *)
(* walks the AUTOCONFIG chain, and prometheus.library enumerates the bus    *)
(* once the chain is done and the bridge has a window.                      *)
EXTENDS DirectMap, PciBus

\* Zorro II memory and I/O space; Zorro III from 0x40000000, in 16 MB steps.
MCZ2Slots == {32, 64, 233, 234}
MCZ3Slots == {16384, 16640, 16896, 17152, 17408, 17664}
MCOffsets == {0, 65533, 65534}

\* The host bridge, the network function and a test function with two BARs,
\* one of them larger than what is left of the region.
Ids(v, d) == <<v, d>>
MCFunctions == <<[dev |-> 0, vendor |-> Ids(1, 2), pin |-> 0, bars |-> <<0, 0, 0, 0, 0, 0>>],
                 [dev |-> 1, vendor |-> Ids(3, 4), pin |-> 1, bars |-> <<32, 0, 0, 0, 0, 0>>],
                 [dev |-> 2, vendor |-> Ids(5, 6), pin |-> 2, bars |-> <<64, 0, 128, 16, 0, 0>>]>>

MachineInit == DMInit /\ PciInit

\* LibInit finds its board: the bridge is placed, the chain is done.  Only the
\* first-fit placements are followed further, and nothing moves any more.
LibInitMayRun ==
    /\ current \notin Slots /\ ~overlay
    /\ pcibridge_window # NotPlaced
    /\ \A i \in Slots : placed[i] # NotPlaced
    /\ placed[1].base = 16384 /\ placed[2].base = 32 /\ placed[5].base = 16896
    /\ pcibridge_window.base = 17664 /\ fast_alias # NotPlaced

MachineNext ==
    \/ DMNext /\ PciInit /\ UNCHANGED pciVars
    \/ LibInitMayRun /\ PciNext /\ UNCHANGED <<mapVars, directVars>>

MachineSpec == MachineInit /\ [][MachineNext]_<<mapVars, directVars, pciVars>>
=============================================================================
