------------------------------- MODULE PciBus -------------------------------
(***************************************************************************)
(* The virtual PCI bus (pci.rs), the bridge board's configuration cycles   *)
(* and aperture (pcibridge.rs), and prometheus.library's enumeration of    *)
(* bus 0, one configuration cycle a step (each cycle runs under Disable).  *)
(* A register is four byte lanes of radix Radix, so a 32-bit value is a    *)
(* sequence of lanes, lowest first, and wraps where the code's does.       *)
(***************************************************************************)
EXTENDS Integers, Sequences, SequencesExt

CONSTANTS
    Radix,        \* values of a byte lane (a power of two, at least 8)
    Functions,    \* the functions on the bus: sequence of
                  \*   [dev, vendor, pin, bars: 1..6 -> size or 0]
    MaxDev,       \* device numbers the enumeration tries, from 0
    PCI_MEM_BASE, \* the PCI memory region behind the aperture
    PCI_MEM_BYTES

VARIABLES
    command,        \* function -> COMMAND's low byte
    bar_regs,       \* function -> 1..6 -> the BAR's value
    cfg,            \* the bridge's cycle registers
    aperture_base,
    prm             \* prometheus.library: where the enumeration is

pciVars == <<command, bar_regs, cfg, aperture_base, prm>>

Fns == DOMAIN Functions
Bars == 1..6
MEMORY_ENABLE == 2
BUS_MASTER == 4

COMMAND == 4
STATUS == 6
HEADER_TYPE == 14
BAR0 == 16
INTERRUPT_PIN == 61

OnesByte == Radix - 1
all_ones(n) == [k \in 1..n |-> OnesByte]
Weight(k) == CASE k = 0 -> 1 [] k = 1 -> Radix [] k = 2 -> Radix * Radix [] k = 3 -> Radix * Radix * Radix
Span == Radix * Radix * Radix * Radix       \* of a 32-bit value
LaneOf(v, k) == (v \div Weight(k)) % Radix
SetLane(v, k, b) == v + (b - LaneOf(v, k)) * Weight(k)
ToLanes(v) == [k \in 1..4 |-> LaneOf(v, k - 1)]
FromLanes(s) == s[1] + Radix * (s[2] + Radix * (s[3] + Radix * s[4]))
\* x & ~(size - 1), for a power of two
AlignDown(x, size) == x - (x % size)

\* A BAR's size is a power of two, 16 or more (ConfigSpace::new asserts it): in
\* lanes, a divisor of Radix in one of them.  A slot's address is its own, and
\* no window at address 0 reaches up into the memory region.
IsBarSize(s) ==
    /\ s % 16 = 0 /\ s <= PCI_MEM_BASE
    /\ \E lane \in 0..3, d \in 1..(Radix - 1) : Radix % d = 0 /\ s = d * Weight(lane)
ASSUME PciAssumption ==
    /\ Radix \in Nat /\ Radix >= 8 /\ Radix % 4 = 0
    /\ MaxDev \in Nat
    /\ PCI_MEM_BASE \in Nat /\ PCI_MEM_BYTES \in Nat /\ PCI_MEM_BASE + PCI_MEM_BYTES <= Span
    /\ \A f \in Fns : /\ Functions[f].dev \in Nat /\ Functions[f].pin \in 0..OnesByte
                      /\ \A k \in 1..2 : Functions[f].vendor[k] \in 0..OnesByte
    /\ \A f, g \in Fns : Functions[f].dev = Functions[g].dev => f = g
    /\ \A f \in Fns, b \in Bars : Functions[f].bars[b] = 0 \/ IsBarSize(Functions[f].bars[b])

-----------------------------------------------------------------------------
(* ConfigSpace.                                                            *)

HasMemory(f) == (command[f] \div MEMORY_ENABLE) % 2 = 1

bar_window(f, b) ==
    IF HasMemory(f) /\ Functions[f].bars[b] > 0
    THEN [base |-> bar_regs[f][b], len |-> Functions[f].bars[b]]
    ELSE [base |-> 0, len |-> 0]

IsBar(o) == o >= BAR0 /\ o < BAR0 + 24
BarOf(o) == (o - BAR0) \div 4 + 1

read_config_byte(f, o) ==
    CASE o = COMMAND -> command[f]
      [] o \in {0, 1} -> Functions[f].vendor[o + 1]
      [] IsBar(o) -> LaneOf(bar_regs[f][BarOf(o)], (o - BAR0) % 4)
      [] o = INTERRUPT_PIN -> Functions[f].pin
      [] OTHER -> 0      \* STATUS, a single-function header, unimplemented

\* Each byte is merged into the register, which is masked to the BAR's size.
write_bar_byte(f, b, v, lane, byte) ==
    IF Functions[f].bars[b] = 0 THEN v
    ELSE AlignDown(SetLane(v, lane, byte), Functions[f].bars[b])

\* An access has at most four.
BarAfter(f, o, data) ==
    LET merge(v, k) == IF k > Len(data) THEN v
                       ELSE write_bar_byte(f, BarOf(o), v, ((o - BAR0) % 4) + k - 1, data[k])
    IN  merge(merge(merge(merge(bar_regs[f][BarOf(o)], 1), 2), 3), 4)

-----------------------------------------------------------------------------
(* VirtualPciBus.                                                          *)

FnAt(dev) == {f \in Fns : Functions[f].dev = dev}
config_read(dev, o, n) ==
    IF FnAt(dev) = {} THEN all_ones(n)
    ELSE LET f == CHOOSE g \in FnAt(dev) : TRUE
         IN  [k \in 1..n |-> read_config_byte(f, o + k - 1)]

config_write(dev, o, data) ==
    IF FnAt(dev) = {} THEN UNCHANGED <<command, bar_regs>>
    ELSE LET f == CHOOSE g \in FnAt(dev) : TRUE
         IN  /\ command' = IF o = COMMAND THEN [command EXCEPT ![f] = data[1] % 8] ELSE command
             /\ bar_regs' = IF IsBar(o) THEN [bar_regs EXCEPT ![f][BarOf(o)] = BarAfter(f, o, data)]
                                        ELSE bar_regs

\* The function, BAR and offset a memory address reaches: the first window
\* in slot and BAR order that covers it.
NoTarget == [f |-> 0, b |-> 0, rel |-> 0]
Hits(addr) == {h \in Fns \X Bars :
                  LET w == bar_window(h[1], h[2]) IN addr >= w.base /\ addr - w.base < w.len}
mem_target(addr) ==
    IF Hits(addr) = {} THEN NoTarget
    ELSE LET h == CHOOSE x \in Hits(addr) :
                     \A y \in Hits(addr) : x[1] < y[1] \/ (x[1] = y[1] /\ x[2] <= y[2])
         IN  [f |-> h[1], b |-> h[2], rel |-> addr - bar_window(h[1], h[2]).base]

\* TestMemDevice: the lanes of a read count up from its offset.
mem_read(addr, n) ==
    LET t == mem_target(addr)
    IN  IF t = NoTarget THEN all_ones(n)
        ELSE [k \in 1..n |-> (t.rel + k - 1) % Radix]

-----------------------------------------------------------------------------
(* PciBridge.                                                              *)

Idle == "idle"
BridgeInit == cfg = [dev |-> 0, off |-> 0, reserved |-> FALSE, width |-> 0,
                     data |-> <<0, 0, 0, 0>>, status |-> Idle]

Widen(s) == [k \in 1..4 |-> IF k <= Len(s) THEN s[k] ELSE 0]

\* CFG_OP with the registers the driver just wrote.
cfg_op(c, op) ==
    IF op > 1 \/ c.reserved \/ c.width \notin {1, 2, 4} \/ c.off % c.width # 0
    THEN /\ cfg' = [c EXCEPT !.status = "REJECTED"]
         /\ UNCHANGED <<command, bar_regs>>
    ELSE IF op = 0
    THEN /\ cfg' = [c EXCEPT !.status = "COMPLETED", !.data = Widen(config_read(c.dev, c.off, c.width))]
         /\ UNCHANGED <<command, bar_regs>>
    ELSE /\ cfg' = [c EXCEPT !.status = "COMPLETED"]
         /\ config_write(c.dev, c.off, SubSeq(c.data, 1, c.width))

\* An aligned access of n bytes at aperture offset k, as the 68k sees the
\* bytes: the value's lanes are swapped, so they come out in address order.
swap_lanesKept(s) == s
swap_lanes(s) == Reverse(s)
AddressOrder(s) == Reverse(s)
read_aperture_sized(k, n) == swap_lanes(mem_read(aperture_base + k, n))
read_aperture(k) == mem_read(aperture_base + k, 1)[1]

-----------------------------------------------------------------------------
(* prometheus.library: cfg_cycle, assign_bars, record_function and         *)
(* enumerate_bus0.                                                         *)

\* (Every BAR here is BarKind::None or Mem32, whose low bits read zero, so the
\* library's I/O-BAR and 64-bit-BAR skips are never taken.)
\* One cycle: address, width and data, then the operation; status is cleared
\* when it has been read.
cfg_cycle(dev, off, width, op, wdata) ==
    cfg_op([dev |-> dev, off |-> off, reserved |-> FALSE, width |-> width,
            data |-> IF op = 1 THEN wdata ELSE cfg.data, status |-> cfg.status], op)
Result == cfg.data
Ones == all_ones(4)

PciInit ==
    /\ command = [f \in Fns |-> 0]
    /\ bar_regs = [f \in Fns |-> [b \in Bars |-> 0]]
    /\ BridgeInit
    /\ aperture_base = 0
    /\ prm = [pc |-> "vendor", dev |-> 0, bar |-> 1, orig |-> Ones, size |-> 0, next_free |-> PCI_MEM_BASE,
              boards |-> {}]

Read(pc, off, width, next) ==
    /\ prm.pc = pc
    /\ cfg_cycle(prm.dev, off, width, 0, Ones)
    /\ prm' = next
    /\ UNCHANGED aperture_base
Write(pc, off, width, data, next) ==
    /\ prm.pc = pc
    /\ cfg_cycle(prm.dev, off, width, 1, data)
    /\ prm' = next
    /\ UNCHANGED aperture_base
BarOffset == BAR0 + 4 * (prm.bar - 1)
NextDev == [prm EXCEPT !.pc = IF prm.dev < MaxDev THEN "vendor" ELSE "aperture", !.dev = @ + 1]
NextBar == [prm EXCEPT !.pc = IF prm.bar < 6 THEN "orig" ELSE "enable",
                       !.bar = IF @ < 6 THEN @ + 1 ELSE @]

ReadVendor == Read("vendor", 0, 4, [prm EXCEPT !.pc = "present"])
Absent ==
    /\ prm.pc = "present" /\ SubSeq(Result, 1, 2) = all_ones(2)
    /\ prm' = NextDev
    /\ UNCHANGED <<command, bar_regs, cfg, aperture_base>>
record_function ==
    /\ prm.pc = "present" /\ SubSeq(Result, 1, 2) # all_ones(2)
    /\ prm' = [prm EXCEPT !.pc = "pin"]
    /\ UNCHANGED <<command, bar_regs, cfg, aperture_base>>
ReadPin == Read("pin", INTERRUPT_PIN, 1, [prm EXCEPT !.pc = "command"])
ReadCommand == Read("command", COMMAND, 2, [prm EXCEPT !.pc = "decode_off"])
\* cmd & ~PCI_CMD_MEMORY, a word: COMMAND's high byte is not implemented.
ClearDecode ==
    LET cmd == Result[1]
        off == IF (cmd \div MEMORY_ENABLE) % 2 = 1 THEN cmd - MEMORY_ENABLE ELSE cmd
    IN  Write("decode_off", COMMAND, 2, <<off, 0, 0, 0>>, [prm EXCEPT !.pc = "orig", !.bar = 1])
BarOrig == Read("orig", BarOffset, 4, [prm EXCEPT !.pc = "probe"])
BarProbe == Write("probe", BarOffset, 4, Ones, [prm EXCEPT !.pc = "size", !.orig = Result])
BarSize == Read("size", BarOffset, 4, [prm EXCEPT !.pc = "restore"])
BarRestore ==
    /\ prm.pc = "restore"
    /\ cfg_cycle(prm.dev, BarOffset, 4, 1, prm.orig)
    /\ LET mask == AlignDown(FromLanes(Result), 16)
       IN  prm' = IF mask = 0 THEN NextBar    \* unimplemented
                  ELSE [prm EXCEPT !.pc = "assign", !.size = Span - mask]
    /\ UNCHANGED aperture_base

AlignedShort(next, size) == AlignDown(next, size)
Aligned(next, size) == AlignDown(next + (size - 1), size)
BarFits == Aligned(prm.next_free, prm.size) + prm.size <= PCI_MEM_BASE + PCI_MEM_BYTES
BarAssign ==
    LET at == Aligned(prm.next_free, prm.size)
    IN  /\ prm.pc = "assign" /\ BarFits
        /\ Write("assign", BarOffset, 4, ToLanes(at),
                 [NextBar EXCEPT !.next_free = at + prm.size,
                                 !.boards = @ \cup {[dev |-> prm.dev, bar |-> prm.bar,
                                                     pci |-> at, size |-> prm.size]}])
BarTooLarge ==
    /\ prm.pc = "assign" /\ ~BarFits
    /\ prm' = NextBar
    /\ UNCHANGED <<command, bar_regs, cfg, aperture_base>>
EnableDecode ==
    Write("enable", COMMAND, 2, <<MEMORY_ENABLE + BUS_MASTER, 0, 0, 0>>, [prm EXCEPT !.pc = "header"])
\* No function here sets the multifunction bit.
ReadHeader == Read("header", HEADER_TYPE, 1, NextDev)
SetAperture ==
    /\ prm.pc = "aperture"
    /\ aperture_base' = PCI_MEM_BASE
    /\ prm' = [prm EXCEPT !.pc = "ready"]
    /\ UNCHANGED <<command, bar_regs, cfg>>

\* A driver's own configuration reads, and cycles the bridge must reject.
AppCycle ==
    /\ prm.pc = "ready" /\ cfg.status # "REJECTED"
    /\ \E dev \in 0..MaxDev, off \in {COMMAND, COMMAND + 1}, width \in {1, 2, 3}, op \in {0, 2} :
          cfg_op([dev |-> dev, off |-> off, reserved |-> (off # COMMAND /\ width = 1), width |-> width,
                  data |-> cfg.data, status |-> cfg.status], op)
    /\ UNCHANGED <<aperture_base, prm>>

PciNext ==
    \/ ReadVendor \/ Absent \/ record_function \/ ReadPin \/ ReadCommand \/ ClearDecode
    \/ BarOrig \/ BarProbe \/ BarSize \/ BarRestore \/ BarAssign \/ BarTooLarge
    \/ EnableDecode \/ ReadHeader \/ SetAperture \/ AppCycle

PciSpec == PciInit /\ [][PciNext]_pciVars

-----------------------------------------------------------------------------
(* Properties.                                                             *)

\* The windows that answer inside the region behind the aperture.
Answering ==
    {w \in {[f |-> f, b |-> b, base |-> bar_window(f, b).base, len |-> bar_window(f, b).len] :
               f \in Fns, b \in Bars} :
        w.len > 0 /\ w.base + w.len > PCI_MEM_BASE /\ w.base < PCI_MEM_BASE + PCI_MEM_BYTES}

\* While the library probes and moves a function's BARs nothing of that
\* function answers, and no two functions ever answer the same address of
\* the PCI memory region (assign_bars clears and sets COMMAND around it).
NoTwoFunctionsAnswer ==
    /\ prm.pc \in {"size", "restore", "assign"} =>
          \A f \in FnAt(prm.dev), b \in Bars : bar_window(f, b).len = 0
    /\ \A x, y \in Answering :
          x # y => \/ x.base + x.len <= y.base
                   \/ y.base + y.len <= x.base

\* Once the library is up, every BAR it recorded is reached through the
\* aperture at the address it hands its drivers, over its whole length, in
\* every width with the bytes in address order; the rest of the aperture
\* floats.
RecordedBarsResolve ==
    prm.pc = "ready" =>
        /\ \A r \in prm.boards : \A rel \in {0, r.size - 4} :
              LET t == mem_target(r.pci + rel)
              IN  /\ t.f \in FnAt(r.dev) /\ t.b = r.bar /\ t.rel = rel
                  /\ \A n \in {2, 4} :
                        AddressOrder(read_aperture_sized(r.pci + rel - aperture_base, n))
                            = [k \in 1..n |-> read_aperture(r.pci + rel - aperture_base + k - 1)]
        /\ \A w \in Answering : \E r \in prm.boards : w.base = r.pci /\ w.len = r.size
=============================================================================
