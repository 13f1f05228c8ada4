------------------------------ MODULE MemoryMap ------------------------------
(***************************************************************************)
(* MachineBus's address decode (lib.rs): which storage or device byte each *)
(* access of each width reaches, the boot overlay, the cached board        *)
(* windows, and the spans device DMA resolves to.  An address is a page    *)
(* and an offset in it; what an access reaches is a location, so contents  *)
(* need not be modelled.                                                   *)
(***************************************************************************)
EXTENDS AutoConfig

CONSTANTS
    RomFull,        \* the Kickstart image fills its window
    RomPages,       \* pages of the image (mirrored when not RomFull)
    HasExtRom       \* an extension ROM is attached

ASSUME RomAssumption ==
    RomFull \in BOOLEAN /\ HasExtRom \in BOOLEAN /\ RomPages \in Nat \ {0}

VARIABLES
    overlay,           \* ROM at the bottom of memory
    fast_window,       \* cached placement of fast RAM, or NotPlaced
    pcibridge_window   \* cached placement of the PCI bridge, or NotPlaced

mapVars == <<autoconfigVars, overlay, fast_window, pcibridge_window>>

\* The fixed map, in pages.
PAGE_SIZE == 65536
PAGE_COUNT == 65536
CHIP_RAM_END == 32
OVERLAY_END == 8
CIA_BASE == 160
CIA_END == 192
CUSTOM_PAGE == 223
CUSTOM_OFF == 61440
EXT_ROM_BASE == 224
EXT_ROM_END == 232
AUTOCONFIG_PAGE == 232
ROM_BASE == 248
ROM_END == 256
APERTURE_PAGE == 128

Addr(p, o) == [p |-> p, o |-> o]
\* wrapping_add
Plus(a, n) ==
    Addr((a.p + (a.o + n) \div PAGE_SIZE) % PAGE_COUNT, (a.o + n) % PAGE_SIZE)
At(kind, p, o) == [kind |-> kind, p |-> p, o |-> o]
OpenBus == At("open", 0, 0)
None == At("none", 0, 0)

IsCustom(a) == a.p = CUSTOM_PAGE /\ a.o >= CUSTOM_OFF
BoardNamed(n) == IF \E i \in Slots : specs[i].name = n
                 THEN CHOOSE i \in Slots : specs[i].name = n ELSE 0
WindowOf(n) == IF BoardNamed(n) = 0 THEN NotPlaced ELSE placement(BoardNamed(n))
\* rom::read_mirrored: an undersized image repeats through its window.
Mirrored(base, p) == (p - base) % RomPages

-----------------------------------------------------------------------------
(* The storage a fast-path access of n bytes reaches: its first byte, or   *)
(* None when the address is not plain storage or the access runs past it.  *)

Fits(o, page, limit, n) == page * PAGE_SIZE + o + n <= limit * PAGE_SIZE

fast_region(a, n) ==
    IF a.p < CHIP_RAM_END /\ ~(overlay /\ a.p < OVERLAY_END)
    THEN IF Fits(a.o, a.p, CHIP_RAM_END, n) THEN At("chip", a.p, a.o) ELSE None
    ELSE IF Covers(fast_window, a.p)
    THEN IF Fits(a.o, a.p - fast_window.base, FastPages, n)
         THEN At("fast", a.p - fast_window.base, a.o) ELSE None
    ELSE IF RomFull /\ a.p \in ROM_BASE..(ROM_END - 1)
    THEN IF Fits(a.o, a.p - ROM_BASE, ROM_END - ROM_BASE, n)
         THEN At("rom", a.p - ROM_BASE, a.o) ELSE None
    ELSE None

fast_region_mut(a, n) ==
    IF a.p < CHIP_RAM_END
    THEN IF Fits(a.o, a.p, CHIP_RAM_END, n) THEN At("chip", a.p, a.o) ELSE None
    ELSE IF Covers(fast_window, a.p)
    THEN IF Fits(a.o, a.p - fast_window.base, FastPages, n)
         THEN At("fast", a.p - fast_window.base, a.o) ELSE None
    ELSE None

\* A board's own byte; fast RAM past its memory floats on a read.
BoardByte(a) ==
    LET i == board_at(a.p)
        off == a.p - placed[i].base
    IN  IF specs[i].name # "fastram" THEN At(specs[i].name, off, a.o)
        ELSE IF off < FastPages THEN At("fast", off, a.o) ELSE OpenBus

read_byte(a) ==
    IF fast_region(a, 1) # None THEN fast_region(a, 1) ELSE
    CASE overlay /\ a.p < OVERLAY_END -> At("rom", Mirrored(0, a.p), a.o)
      [] a.p < CHIP_RAM_END /\ ~(overlay /\ a.p < OVERLAY_END) -> At("chip", a.p, a.o)
      [] a.p = AUTOCONFIG_PAGE -> At("autoconfig", 0, a.o)
      [] a.p \in CIA_BASE..(CIA_END - 1) -> At("cia", a.p, a.o)
      [] IsCustom(a) -> At("custom", 0, a.o)
      [] a.p \in EXT_ROM_BASE..(EXT_ROM_END - 1) /\ HasExtRom ->
           At("ext", a.p - EXT_ROM_BASE, a.o)
      [] a.p \in ROM_BASE..(ROM_END - 1) -> At("rom", Mirrored(ROM_BASE, a.p), a.o)
      [] OTHER -> IF board_at(a.p) # 0 THEN BoardByte(a) ELSE OpenBus

write_byte_slow(a) ==
    CASE a.p = AUTOCONFIG_PAGE -> At("autoconfig", 0, a.o)
      [] a.p \in CIA_BASE..(CIA_END - 1) -> At("cia", a.p, a.o)
      [] IsCustom(a) -> At("custom", 0, a.o)
      [] OTHER -> IF board_at(a.p) # 0 THEN BoardByte(a) ELSE OpenBus

write_byte(a) ==
    IF fast_region_mut(a, 1) # None THEN fast_region_mut(a, 1) ELSE write_byte_slow(a)

Run(loc, n) == [k \in 1..n |-> At(loc.kind, loc.p + (loc.o + k - 1) \div PAGE_SIZE,
                                  (loc.o + k - 1) % PAGE_SIZE)]

\* An aligned access inside the bridge's aperture stays one cycle of its width.
pcibridge_aperture_sized(a, n) ==
    /\ a.o % n = 0
    /\ Covers(pcibridge_window, a.p)
    /\ a.p - pcibridge_window.base >= APERTURE_PAGE

ApertureByte(a) == At("pcibridge", a.p - pcibridge_window.base, a.o)

read_word(a) ==
    IF IsCustom(a) THEN Run(At("custom", 0, a.o - (a.o % 2)), 2)
    ELSE IF fast_region(a, 2) # None THEN Run(fast_region(a, 2), 2)
    ELSE IF pcibridge_aperture_sized(a, 2) THEN Run(ApertureByte(a), 2)
    ELSE <<read_byte(a), read_byte(Plus(a, 1))>>

read_long(a) ==
    IF fast_region(a, 4) # None THEN Run(fast_region(a, 4), 4)
    ELSE IF pcibridge_aperture_sized(a, 4) THEN Run(ApertureByte(a), 4)
    ELSE read_word(a) \o read_word(Plus(a, 2))

write_word(a) ==
    IF IsCustom(a) THEN Run(At("custom", 0, a.o - (a.o % 2)), 2)
    ELSE IF fast_region_mut(a, 2) # None THEN Run(fast_region_mut(a, 2), 2)
    ELSE IF pcibridge_aperture_sized(a, 2) THEN Run(ApertureByte(a), 2)
    ELSE <<write_byte(a), write_byte(Plus(a, 1))>>

write_long(a) ==
    IF fast_region_mut(a, 4) # None THEN Run(fast_region_mut(a, 4), 4)
    ELSE IF pcibridge_aperture_sized(a, 4) THEN Run(ApertureByte(a), 4)
    ELSE write_word(a) \o write_word(Plus(a, 2))

BusRead(a, n) == CASE n = 1 -> <<read_byte(a)>> [] n = 2 -> read_word(a) [] n = 4 -> read_long(a)
BusWrite(a, n) == CASE n = 1 -> <<write_byte(a)>> [] n = 2 -> write_word(a) [] n = 4 -> write_long(a)

-----------------------------------------------------------------------------
(* GuestRam: what a device's DMA of n bytes at a reaches, never the ROM    *)
(* under the overlay and never a device.                                   *)

chip_ram_span(a, n) ==
    IF a.p < CHIP_RAM_END /\ Fits(a.o, a.p, CHIP_RAM_END, n) THEN At("chip", a.p, a.o) ELSE None
\* The span checked against the window but not against the memory behind it.
fast_ram_spanByWindow(a, n) ==
    IF Covers(fast_window, a.p) THEN At("fast", a.p - fast_window.base, a.o) ELSE None
fast_ram_span(a, n) ==
    IF Covers(fast_window, a.p) /\ Fits(a.o, a.p - fast_window.base, FastPages, n)
    THEN At("fast", a.p - fast_window.base, a.o) ELSE None
ram_slice(a, n) ==
    IF chip_ram_span(a, n) # None THEN chip_ram_span(a, n) ELSE fast_ram_span(a, n)

-----------------------------------------------------------------------------
(* State changes: an AUTOCONFIG write refreshes the cached windows in the  *)
(* same access; a CIA-A port write samples the overlay line.               *)

MapInit ==
    /\ AutoConfigInit
    /\ overlay = TRUE
    /\ fast_window = NotPlaced
    /\ pcibridge_window = NotPlaced

refresh_windows ==
    /\ fast_window' = WindowOf("fastram")'
    /\ pcibridge_window' = WindowOf("pcibridge")'

write_autoconfig(off, value) ==
    /\ autoconfig_write(off, value)
    /\ refresh_windows
    /\ UNCHANGED overlay

write_cia(ovl) ==
    /\ overlay' = ovl
    /\ UNCHANGED <<autoconfigVars, fast_window, pcibridge_window>>
=============================================================================
