--------------------------- MODULE BlockTransfer ---------------------------
(***************************************************************************)
(* What executing one hostblk request descriptor does: the pure part of    *)
(* `Hostblk::execute` and `Hostblk::transfer` (machine-core/hostblk.rs).   *)
(* Nothing here has state; Hostblk and BlockService both use it.           *)
(*                                                                         *)
(* Data abstraction: guest RAM and the disks are arrays of cells, one cell *)
(* holding one sector's worth of bytes as a single value.  A buffer        *)
(* address is a cell number.  `length` and `offset` stay in bytes, because *)
(* the card's checks on them are about bytes.                              *)
(***************************************************************************)
EXTENDS Integers

CONSTANTS
    UnitIds,       \* every unit number a register or a descriptor can hold
    Attached,      \* the units `attach_unit` gave a device
    SectorCount,   \* [Attached -> Nat], `BlockDevice::sector_count`
    WriteProtect,  \* [Attached -> BOOLEAN]
    SectorBytes,   \* SECTOR_BYTES, 512 in the code
    RamCells,      \* cells of guest RAM
    Values,        \* what a cell or a sector can hold
    Ptrs,          \* the descriptor addresses the guest uses
    Readable,      \* those that are aligned and inside guest RAM
    Descriptors    \* the descriptors the guest may write

Cells == 0 .. RamCells - 1
Sectors(u) == 0 .. SectorCount[u] - 1

Commands == {"READ", "WRITE", "FLUSH", "OTHER"}

Errors == {"OK", "BAD_UNIT", "WRITE_PROTECTED", "INVALID_COMMAND",
           "INVALID_LENGTH", "MISALIGNED", "OUT_OF_RANGE", "BAD_ADDRESS",
           "IO_ERROR"}

DescriptorType == [command : Commands, unit : UnitIds, length : Nat,
                   offset : Nat, buffer : Nat]

ASSUME TransferAssumption ==
    /\ Attached \subseteq UnitIds
    /\ SectorCount \in [Attached -> Nat]
    /\ WriteProtect \in [Attached -> BOOLEAN]
    /\ SectorBytes \in Nat \ {0}
    /\ RamCells \in Nat
    /\ Values # {}
    /\ Readable \subseteq Ptrs
    /\ Descriptors \subseteq DescriptorType
    /\ Descriptors # {}

DiskType == {f \in [Attached -> UNION {[Sectors(u) -> Values] : u \in Attached}] :
                \A u \in Attached : f[u] \in [Sectors(u) -> Values]}
MemType == [Cells -> Values]

OutcomeType == [error : Errors, moved : Nat]

-----------------------------------------------------------------------------

start_lba(d) == d.offset \div SectorBytes
sector_count(d) == d.length \div SectorBytes

NoTransfer(e) == {[error |-> e, moved |-> 0]}

(***************************************************************************)
(* Every way `transfer` can end for descriptor d, as the error code and    *)
(* the number of whole sectors that moved.  The checks come in the code's  *)
(* order.  Past the checks the device may fail on any sector, and the      *)
(* sectors before it have then already moved.                              *)
(***************************************************************************)
transfer(d) ==
    IF d.command = "WRITE" /\ WriteProtect[d.unit] THEN NoTransfer("WRITE_PROTECTED")
    ELSE IF d.length = 0 \/ d.length % SectorBytes # 0 THEN NoTransfer("INVALID_LENGTH")
    ELSE IF d.offset % SectorBytes # 0 THEN NoTransfer("MISALIGNED")
    ELSE IF start_lba(d) + sector_count(d) > SectorCount[d.unit] THEN NoTransfer("OUT_OF_RANGE")
    ELSE IF d.buffer + sector_count(d) > RamCells THEN NoTransfer("BAD_ADDRESS")
    ELSE {[error |-> "OK", moved |-> sector_count(d)]}
         \cup {[error |-> "IO_ERROR", moved |-> n] : n \in 0 .. sector_count(d) - 1}

(* Faulty: the sector the device failed on is counted too. *)
actual_with_failed(o) == (o.moved + (IF o.error = "IO_ERROR" THEN 1 ELSE 0)) * SectorBytes

(* The byte count `transfer` reports. *)
actual(o) == o.moved * SectorBytes

(* `execute` for the descriptor d found at ptr. *)
execute(ptr, d) ==
    IF ptr \notin Readable THEN NoTransfer("BAD_ADDRESS")
    ELSE IF d.unit \notin Attached THEN NoTransfer("BAD_UNIT")
    ELSE IF d.command \in {"READ", "WRITE"} THEN transfer(d)
    ELSE NoTransfer(IF d.command = "FLUSH" THEN "OK" ELSE "INVALID_COMMAND")

(* Guest RAM after n sectors of d have moved. *)
MemAfter(d, n, ram, store) ==
    [c \in Cells |->
        IF d.command = "READ" /\ c \in d.buffer .. d.buffer + n - 1
        THEN store[d.unit][start_lba(d) + (c - d.buffer)]
        ELSE ram[c]]

(* The disks after n sectors of d have moved. *)
DiskAfter(d, n, ram, store) ==
    [u \in Attached |-> [s \in Sectors(u) |->
        IF /\ d.command = "WRITE" /\ u = d.unit
           /\ s \in start_lba(d) .. start_lba(d) + n - 1
        THEN ram[d.buffer + (s - start_lba(d))]
        ELSE store[u][s]]]
=============================================================================
