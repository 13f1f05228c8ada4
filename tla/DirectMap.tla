------------------------------ MODULE DirectMap ------------------------------
(***************************************************************************)
(* The hosted runner's direct mapping (directmap.rs) beside the decode it  *)
(* short-cuts: a 4 GiB reservation into which chip RAM, the ROM and the    *)
(* placed fast RAM are mapped, and a page-type table that says which       *)
(* accesses may be served from it.  The bus adapter (bus.rs) asks the      *)
(* table first and MachineBus only on Fallthrough, and re-synchronises     *)
(* after every write that went through MachineBus.                         *)
(***************************************************************************)
EXTENDS MemoryMap

CONSTANTS
    FastShared,   \* fast RAM got a shared-memory region of its own
    MayShutUp,    \* boards the guest may refuse to place
    Offsets       \* offsets in a page the accesses are tried at

ASSUME DirectMapAssumption ==
    FastShared \in BOOLEAN /\ Offsets \subseteq 0..(PAGE_SIZE - 1)

VARIABLES
    reservation,  \* the mmap calls so far, newest first: [base, len, what]
    pages,        \* what the last rebuild saw; the table is PageType of it
    fast_alias,   \* the part of fast RAM that is aliased, or NotPlaced
    fingerprint   \* the map the last sync saw

directVars == <<reservation, pages, fast_alias, fingerprint>>

Window(base, len) == [base |-> base, size |-> len]

\* The memory behind the window, never more than the window.
fast_ram_window ==
    IF fast_window = NotPlaced \/ FastPages = 0 THEN NotPlaced
    ELSE Window(fast_window.base,
                IF fast_window.size < FastPages THEN fast_window.size ELSE FastPages)

Fingerprint == [overlay |-> overlay, placements |-> placed, fast |-> fast_ram_window]

\* The fixed regions' types, before the placed boards are laid over them.
FixedType(ovl, p) ==
    IF p < CHIP_RAM_END THEN (IF ovl /\ p < OVERLAY_END THEN "Io" ELSE "Ram")
    ELSE IF p \in CIA_BASE..(CIA_END - 1) \/ p = CUSTOM_PAGE \/ p = AUTOCONFIG_PAGE THEN "Io"
    ELSE IF p \in EXT_ROM_BASE..(EXT_ROM_END - 1) THEN "Io"
    ELSE IF p \in ROM_BASE..(ROM_END - 1) THEN (IF RomFull THEN "Rom" ELSE "Io")
    ELSE "OpenBus"

\* The whole advertised window typed as RAM, memory behind it or not.
build_page_tableWholeWindow(t, p) ==
    LET boards == {i \in Slots : Covers(t.placements[i], p)}
    IN  IF \E i \in boards : t.alias # NotPlaced /\ t.placements[i].base = t.alias.base THEN "Ram"
        ELSE IF boards # {} THEN "Io" ELSE FixedType(t.overlay, p)
\* The table a rebuild fills in, from the map and the alias it was built from.
build_page_table(t, p) ==
    LET boards == {i \in Slots : Covers(t.placements[i], p)}
        fast(i) == t.fast # NotPlaced /\ t.placements[i].base = t.fast.base
    IN  IF \E i \in boards : fast(i) /\ Covers(t.alias, p) THEN "Ram"
        ELSE IF boards # {} THEN "Io" ELSE FixedType(t.overlay, p)

page_type(a) == build_page_table(pages, a.p)

DirectInit ==
    /\ reservation = << [base |-> ROM_BASE, len |-> ROM_END - ROM_BASE, what |-> "rom"],
                        [base |-> 0, len |-> CHIP_RAM_END, what |-> "chip"] >>
    /\ fast_alias = NotPlaced
    /\ pages = [overlay |-> overlay, placements |-> placed, fast |-> fast_ram_window,
                alias |-> NotPlaced]
    /\ fingerprint = Fingerprint

\* The aliasing mmap: it may fail, which leaves the pages with MachineBus.
alias(w) ==
    \/ /\ reservation' = <<[base |-> w.base, len |-> w.size, what |-> "fast"]>> \o reservation
       /\ fast_alias' = w
    \/ /\ UNCHANGED reservation
       /\ fast_alias' = NotPlaced

\* sync, after a write: nothing when the map is unchanged; otherwise fast RAM
\* is aliased at its new place and the table rebuilt.  (The chain never moves
\* a placed board, so an alias is never taken down.)
sync ==
    IF Fingerprint' = fingerprint THEN UNCHANGED directVars
    ELSE /\ IF fast_ram_window' # fingerprint.fast /\ FastShared /\ fast_ram_window' # NotPlaced
            THEN alias(fast_ram_window')
            ELSE UNCHANGED <<reservation, fast_alias>>
         /\ pages' = [overlay |-> overlay', placements |-> placed', fast |-> fast_ram_window',
                      alias |-> fast_alias']
         /\ fingerprint' = Fingerprint'

\* What the reservation holds at an address: the newest mapping that covers it.
Mapped(a) ==
    LET covering == {k \in DOMAIN reservation :
                        a.p >= reservation[k].base /\ a.p - reservation[k].base < reservation[k].len}
    IN  IF covering = {} THEN None
        ELSE LET k == CHOOSE j \in covering : \A i \in covering : j <= i
             IN  At(reservation[k].what, a.p - reservation[k].base, a.o)

\* The two page types an access of n bytes meets; an access that would wrap
\* past the last address is left to MachineBus.
Wraps(a, n) == a.p = PAGE_COUNT - 1 /\ a.o + n > PAGE_SIZE
access_pages(a, n) == {page_type(a), page_type(Plus(a, n - 1))}
Fallthrough == <<>>

dm_read(a, n) ==
    LET types == access_pages(a, n)
    IN  IF Wraps(a, n) THEN Fallthrough
        ELSE IF types \subseteq {"Ram", "Rom"} THEN [k \in 1..n |-> Mapped(Plus(a, k - 1))]
        ELSE IF types = {"OpenBus"} THEN [k \in 1..n |-> OpenBus]
        ELSE Fallthrough

dm_write(a, n) ==
    LET types == access_pages(a, n)
    IN  IF Wraps(a, n) THEN Fallthrough
        ELSE IF types = {"Ram"} THEN [k \in 1..n |-> Mapped(Plus(a, k - 1))]
        ELSE IF types = {"OpenBus"} THEN [k \in 1..n |-> OpenBus]
        ELSE Fallthrough

-----------------------------------------------------------------------------
(* The guest: expansion.library walks the chain, the ROM drops the overlay.*)

DMInit == MapInit /\ DirectInit

Free(base, size, taken) ==
    \A w \in taken : base + size <= w.base \/ w.base + w.size <= base
Taken == {placed[i] : i \in Slots} \ {NotPlaced}

\* An allocator that hands out the lowest or the highest fitting slot.
Fitting(slots) == {b \in slots : b % GuestSize = 0 /\ Free(b, GuestSize, Taken)}
Candidates(slots) ==
    {b \in Fitting(slots) : \/ \A c \in Fitting(slots) : b <= c
                            \/ \A c \in Fitting(slots) : b >= c}

\* A word write of the base; the two bytes arrive one after the other.
PlaceZ3Hi ==
    /\ GuestSeesBoard /\ GuestSeesZ3 /\ z3_base_hi = NoByte
    /\ \E base \in Candidates(Z3Slots) : write_autoconfig(Z3_BASEADDRESS, base \div 256)
    /\ sync

PlaceZ3Lo ==
    /\ GuestSeesBoard /\ GuestSeesZ3 /\ z3_base_hi # NoByte
    /\ \E base \in Candidates(Z3Slots) :
          base \div 256 = z3_base_hi /\ write_autoconfig(Z3_BASEADDRESS + 1, base % 256)
    /\ sync

PlaceZ2 ==
    /\ GuestSeesBoard /\ ~GuestSeesZ3
    /\ \E base \in Candidates(Z2Slots) : write_autoconfig(BASEADDRESS, base)
    /\ sync

\* A board the allocator has no room for is told to shut up.
ShutUp ==
    /\ GuestSeesBoard /\ z3_base_hi = NoByte
    /\ specs[current].name \in MayShutUp
    /\ write_autoconfig(SHUTUP, 0)
    /\ sync

FlipOverlay == write_cia(~overlay) /\ sync

DMNext == PlaceZ3Hi \/ PlaceZ3Lo \/ PlaceZ2 \/ ShutUp \/ FlipOverlay

DMSpec == DMInit /\ [][DMNext]_<<mapVars, directVars>>

-----------------------------------------------------------------------------
(* Properties.  Accesses are tried at every page where some window or fixed*)
(* region begins or ends, at the offsets Offsets, in all three widths.     *)

Edges(w) == IF w = NotPlaced THEN {}
            ELSE {w.base - 1, w.base, w.base + w.size - 1, w.base + w.size}
FixedEdges == {0, OVERLAY_END - 1, OVERLAY_END, CHIP_RAM_END - 1, CHIP_RAM_END, CIA_BASE,
               CIA_END - 1, CIA_END, CUSTOM_PAGE, EXT_ROM_BASE, EXT_ROM_END - 1,
               AUTOCONFIG_PAGE, ROM_BASE - 1, ROM_BASE, ROM_END - 1, ROM_END, PAGE_COUNT - 1}
ProbePages ==
    (FixedEdges \cup UNION {Edges(placed[i]) : i \in Slots} \cup Edges(fast_ram_window))
        \cap 0..(PAGE_COUNT - 1)
Probes == {Addr(p, o) : p \in ProbePages, o \in Offsets}
            \cup {Addr(CUSTOM_PAGE, CUSTOM_OFF - 2), Addr(CUSTOM_PAGE, CUSTOM_OFF)}
Widths == {1, 2, 4}

\* An access the direct map answers reaches exactly the bytes MachineBus
\* would have reached: the page table and the aliases never lag behind the
\* overlay and the board placements (build_page_table, sync).
DirectMapAgrees ==
    \A a \in Probes, n \in Widths :
        /\ \A got \in {dm_read(a, n)} : got # Fallthrough => got = BusRead(a, n)
        /\ \A got \in {dm_write(a, n)} : got # Fallthrough => got = BusWrite(a, n)

\* A device's DMA and a CPU write see the same memory: a span resolves to the
\* byte the CPU's write at that address reaches, and every RAM byte the CPU
\* can write is one DMA can reach (GuestRam against write_byte).
DmaSeesWhatTheCpuWrites ==
    \A a \in Probes :
        /\ ram_slice(a, 1) # None => write_byte(a) = ram_slice(a, 1)
        /\ write_byte(a).kind \in {"chip", "fast"} => ram_slice(a, 1) = write_byte(a)

\* A placed board answers at every page of the size it decodes, and nothing
\* else answers there, so that no two boards overlap: what the guest read of
\* the type byte is the size the board really takes (rom_bytes,
\* extended_size_code, board_at).
PlacedBoardsAnswer ==
    \A i \in Slots : placed[i] # NotPlaced =>
        \A p \in placed[i].base..(placed[i].base + placed[i].size - 1) :
            board_at(p) = i /\ read_byte(Addr(p, 0)) = BoardByte(Addr(p, 0))

=============================================================================
