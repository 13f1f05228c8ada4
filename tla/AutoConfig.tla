------------------------------ MODULE AutoConfig ------------------------------
(***************************************************************************)
(* The AUTOCONFIG chain of machine-core (autoconfig.rs) and the boards the *)
(* hosted runner attaches to it, with the part of expansion.library that   *)
(* walks the chain (external).  Addresses are counted in 64 KiB pages: the *)
(* base a guest can write is a page number, and every board is a whole     *)
(* number of pages.                                                        *)
(***************************************************************************)
EXTENDS Integers, Sequences, FiniteSets

CONSTANTS
    VramPages,   \* Graffity's VRAM, in pages
    FastPages,   \* pages of fast RAM behind its board, 0 for none
    MAX_BOARDS,  \* slots of the chain
    Z2Slots,     \* base pages the guest's Zorro II allocator may hand out
    Z3Slots      \* base pages its Zorro III allocator may hand out

ASSUME ChainAssumption == VramPages \in Nat /\ FastPages \in Nat /\ MAX_BOARDS \in Nat

VARIABLES
    specs,       \* the boards in the chain's slots; filled before the guest runs
    placed,      \* slot -> [base, size] in pages, or NotPlaced
    current,     \* the slot answering in the configuration window
    z3_base_hi   \* the latched high byte of a Zorro III base, or NoByte

autoconfigVars == <<specs, placed, current, z3_base_hi>>

NotPlaced == [base |-> -1, size |-> 0]
NoByte == -1
OPEN_BUS_BYTE == 255

\* Register offsets, the 16 bytes of an ExpansionRom, and type bits.
Z3_BASEADDRESS == 68
BASEADDRESS == 72
SHUTUP == 76
AUTOCONFIG_ROM_BYTES == 16
ERT_ZORROII == 192
ERT_ZORROIII == 128
ERTF_MEMLIST == 32
ERTF_DIAGVALID == 16
ERFF_EXTENDED == 32
ERFF_ZORRO_III == 16

-----------------------------------------------------------------------------
(* The boards.  A spec keeps what the ROM image carries: the type byte     *)
(* with its size code, the product, the flags, the DiagArea vector, and    *)
(* the size the board itself decodes.                                      *)

Spec3(name, type, product, diag, size) ==
    [name |-> name, board_type |-> ERT_ZORROIII + type, product |-> product,
     flags |-> ERFF_ZORRO_III + ERFF_EXTENDED, manufacturer |-> 2011,
     init_diag_vec |-> diag, size |-> size]

Spec2(name, type, product, diag, size) ==
    [name |-> name, board_type |-> ERT_ZORROII + type, product |-> product,
     flags |-> 0, manufacturer |-> 2011, init_diag_vec |-> diag, size |-> size]

HostblkBoard == Spec3("hostblk", ERTF_DIAGVALID, 1, 4096, 256)
InputBoard == Spec3("input", ERTF_DIAGVALID, 3, 4096, 256)
PktportBoard == Spec2("pktport", ERTF_DIAGVALID + 1, 5, 4096, 1)
RtgBoardSpec == Spec3("rtg", 0, 4, 0, 256)
PciBridgeBoard == Spec3("pcibridge", 0, 6, 0, 256)

\* Graffity, Zorro II: a linear VRAM aperture rounded up to a size the
\* type byte can say, and a 128 KB register window.
ZORRO_II_SIZES == <<1, 2, 4, 8, 16, 32, 64, 128>>
Smaller(sizes, len) == {k \in DOMAIN sizes : sizes[k] < len}
FirstFit(sizes, len) ==
    IF Smaller(sizes, len) = DOMAIN sizes THEN Len(sizes)
    ELSE Cardinality(Smaller(sizes, len)) + 1
ZorroIISize(code) == IF code = 0 THEN ZORRO_II_SIZES[8] ELSE ZORRO_II_SIZES[code]
zorro_ii_size_code(len) == FirstFit(ZORRO_II_SIZES, len) % 8
Graffity(spec) == [spec EXCEPT !.manufacturer = 2092]
board_specs(vram) ==
    <<Graffity(Spec2("vram", zorro_ii_size_code(vram), 34, 0,
                     ZorroIISize(zorro_ii_size_code(vram)))),
      Graffity(Spec2("regs", zorro_ii_size_code(2), 33, 0, 2))>>

\* Fast RAM: the advertised size is the next of 16 MB, 32 MB ... 1 GB.
EXTENDED_SIZES == <<256, 512, 1024, 2048, 4096, 8192, 16384>>
ExtendedSize(code) == EXTENDED_SIZES[code + 1]
extended_size_code(len) == FirstFit(EXTENDED_SIZES, len) - 1
\* The type byte says the size below the one the board decodes.
autoconfig_board_specSmall(len) ==
    Spec3("fastram", ERTF_MEMLIST + extended_size_code(len) - 1, 2, 0,
          ExtendedSize(extended_size_code(len)))
autoconfig_board_spec(len) ==
    Spec3("fastram", ERTF_MEMLIST + extended_size_code(len), 2, 0,
          ExtendedSize(extended_size_code(len)))

-----------------------------------------------------------------------------
(* The chain.                                                              *)

\* The boards in the order run.rs attaches them.
Attached ==
    <<HostblkBoard, PktportBoard>> \o board_specs(VramPages)
        \o (IF FastPages > 0 THEN <<autoconfig_board_spec(FastPages)>> ELSE <<>>)
        \o <<InputBoard, RtgBoardSpec, PciBridgeBoard>>
\* add_board takes the first free slot; a board past the last slot is dropped.
add_board(boards) == SubSeq(boards, 1, IF Len(boards) <= MAX_BOARDS THEN Len(boards) ELSE MAX_BOARDS)
Slots == 1..Len(specs)

AutoConfigInit ==
    /\ specs = add_board(Attached)
    /\ placed = [i \in Slots |-> NotPlaced]
    /\ current = 1
    /\ z3_base_hi = NoByte

placement(i) == placed[i]
Covers(w, page) == w # NotPlaced /\ page >= w.base /\ page - w.base < w.size

\* The first slot, in chain order, whose window holds the page; 0 for none.
board_at(page) ==
    IF \E i \in Slots : Covers(placed[i], page)
    THEN CHOOSE i \in Slots : /\ Covers(placed[i], page)
                              /\ \A j \in 1..(i - 1) : ~Covers(placed[j], page)
    ELSE 0

rom_bytes(s) ==
    [n \in 0..(AUTOCONFIG_ROM_BYTES - 1) |->
        CASE n = 0 -> s.board_type
          [] n = 1 -> s.product
          [] n = 2 -> s.flags
          [] n = 4 -> s.manufacturer \div 256
          [] n = 5 -> s.manufacturer % 256
          [] n = 10 -> s.init_diag_vec \div 256
          [] n = 11 -> s.init_diag_vec % 256
          [] OTHER -> 0]

\* One nybble of the image, in the high half of the byte; every logical byte
\* but the type reads complemented.
autoconfig_read(off) ==
    IF current \notin Slots \/ off % 2 = 1 \/ off \div 4 >= AUTOCONFIG_ROM_BYTES
    THEN OPEN_BUS_BYTE
    ELSE LET n == off \div 4
             logical == rom_bytes(specs[current])[n]
             physical == IF n = 0 THEN logical ELSE 255 - logical
         IN  16 * (IF off % 4 = 0 THEN physical \div 16 ELSE physical % 16)

Configure(base) ==
    /\ placed' = [placed EXCEPT ![current] = [base |-> base, size |-> specs[current].size]]
    /\ current' = current + 1
    /\ z3_base_hi' = NoByte
    /\ UNCHANGED specs

Retire ==
    /\ current' = current + 1
    /\ z3_base_hi' = NoByte
    /\ UNCHANGED <<specs, placed>>

IsType(t) == current \in Slots /\ (specs[current].board_type \div 64) * 64 = t

autoconfig_write(off, value) ==
    CASE off = Z3_BASEADDRESS /\ IsType(ERT_ZORROIII) ->
           z3_base_hi' = value /\ UNCHANGED <<specs, placed, current>>
      [] off = Z3_BASEADDRESS + 1 /\ IsType(ERT_ZORROIII) /\ z3_base_hi # NoByte ->
           Configure(z3_base_hi * 256 + value)
      [] off = BASEADDRESS /\ IsType(ERT_ZORROII) -> Configure(value)
      [] off = SHUTUP /\ current \in Slots -> Retire
      [] OTHER -> UNCHANGED autoconfigVars

-----------------------------------------------------------------------------
(* expansion.library (external): it learns a board only from the nybbles.  *)

GuestByte(n) ==
    LET raw == (autoconfig_read(4 * n) \div 16) * 16 + autoconfig_read(4 * n + 2) \div 16
    IN  IF n = 0 THEN raw ELSE 255 - raw

\* A board is there when its manufacturer is not zero: an exhausted chain
\* floats, and floating bytes complement to zero.
GuestSeesBoard == GuestByte(4) * 256 + GuestByte(5) # 0
GuestSeesZ3 == (GuestByte(0) \div 64) * 64 = ERT_ZORROIII
GuestSize ==
    LET code == GuestByte(0) % 8
    IN  IF (GuestByte(2) \div ERFF_EXTENDED) % 2 = 1 THEN ExtendedSize(code)
                                                     ELSE ZorroIISize(code)

\* What its allocator hands out, aligned to the board's size, has the whole
\* board inside a Zorro space: $200000-$9FFFFF or $E90000-$EFFFFF for Zorro II,
\* $10000000 and up for Zorro III.
ASSUME SlotAssumption ==
    /\ Z2Slots \subseteq Nat /\ Z3Slots \subseteq Nat
    /\ \A b \in Z2Slots, k \in DOMAIN ZORRO_II_SIZES :
          b % ZORRO_II_SIZES[k] = 0 =>
              \/ 32 <= b /\ b + ZORRO_II_SIZES[k] <= 160
              \/ 233 <= b /\ b + ZORRO_II_SIZES[k] <= 240
    /\ \A b \in Z3Slots, k \in DOMAIN EXTENDED_SIZES :
          b % EXTENDED_SIZES[k] = 0 => 4096 <= b /\ b + EXTENDED_SIZES[k] <= 65536
=============================================================================
