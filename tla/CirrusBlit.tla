------------------------------ MODULE CirrusBlit ------------------------------
(***************************************************************************)
(* The blitter of the Cirrus chip (cirrus.rs) with its sources: VRAM, an   *)
(* 8x8 pattern, monochrome data to expand, and bytes the guest feeds       *)
(* through the VRAM window.  The registers are kept as the values the chip *)
(* decodes from them; a blit runs to its end in the access that starts it, *)
(* or in the write of the last byte it waits for, with the registers as    *)
(* they are then.  A byte has BITS bits here.                              *)
(***************************************************************************)
EXTENDS Integers, Sequences, SequencesExt, Bitwise

CONSTANTS
    BlitVram,       \* bytes of VRAM
    AddrSpan,       \* span of a blit address register (2^21)
    BITS,           \* bits of a byte: pixels of a pattern row, rows of a pattern (8)
    DWORD,          \* bytes the host port pads rows to (4)
    Capacity,       \* SYSTEM_BLIT_CAPACITY
    BlitConfigs,    \* the blit settings a guest programs
    FeedBytes,      \* byte values written through the VRAM window
    MaxBlits        \* bound: blits started

VARIABLES
    vram,       \* the bytes of VRAM, indexed from 0
    gr,         \* the blitter's registers
    system_blit,\* the blit that waits for guest bytes, or NoFeed
    last        \* history: blits started, and what the last finished one began with

blitVars == <<vram, gr, system_blit, last>>

NoFeed == [expected |-> 0, filled |-> 0, buf |-> << >>]
NoBlit == [width |-> 1, height |-> 1, dst_pitch |-> 0, src_pitch |-> 0, dst |-> 0, src |-> 0,
           backwards |-> FALSE, system |-> FALSE, transparent |-> FALSE, pattern |-> FALSE,
           expand |-> FALSE, pixel_bytes |-> 1, dword |-> FALSE, invert |-> FALSE,
           solid |-> FALSE, rop |-> "0", fg |-> <<0, 0>>, bg |-> <<0, 0>>, key |-> <<0, 0>>,
           keymask |-> <<0, 0>>]

BlitInit ==
    /\ vram = [a \in 0..BlitVram - 1 |-> (a + a \div 3) % 2^BITS]
    /\ gr = NoBlit
    /\ system_blit = NoFeed
    /\ last = [blits |-> 0, done |-> FALSE, before |-> vram, gr |-> NoBlit, fed |-> << >>]

-----------------------------------------------------------------------------
Ones == 2^BITS - 1

apply_rop(rop, s, d) ==
    CASE rop = "0" -> 0
      [] rop = "SD" -> s & d
      [] rop = "Sd" -> s & (Ones - d)
      [] rop = "S" -> s
      [] rop = "S^D" -> s ^^ d
      [] rop = "S+D" -> s | d
      [] rop = "~S" -> Ones - s

CeilDiv(n, k) == (n + k - 1) \div k
Bit(byte, n) == (byte \div 2^n) % 2
Byte(mem, a) == IF a \in 0..BlitVram - 1 THEN mem[a] ELSE 0
Fed(data, i) == IF i < Len(data) THEN data[i + 1] ELSE 0
Back(r, from, span) == IF r.backwards THEN from - span ELSE from + span

(* The bytes of one row at the host port. *)
system_source_pitch(r) ==
    IF ~r.expand THEN CeilDiv(r.width, DWORD) * DWORD
    ELSE LET granularity == IF r.dword THEN DWORD ELSE 1
         IN  CeilDiv(CeilDiv(r.width, r.pixel_bytes), granularity * BITS) * granularity

(* A line's first byte; backwards it stops at address 0. *)
Line(r, start, pitch, y) ==
    LET at == Back(r, start, y * pitch) IN IF at < 0 THEN 0 ELSE at

linear_blit_source(r, mem, data, pattern, y, x) ==
    CASE pattern -> Byte(mem, (r.src - (r.src % DWORD)) + (y % BITS) * (BITS * r.pixel_bytes)
                              + (x % (BITS * r.pixel_bytes)))
      [] ~pattern /\ r.system -> Fed(data, y * system_source_pitch(r) + x)
      [] OTHER -> Byte(mem, Back(r, Line(r, r.src, r.src_pitch, y), x))

(* The monochrome bit of a colour expansion; expand is the running position
   in the VRAM bitmap: its byte and the bytes of output already drawn from it. *)
ExpandBit(r, mem, data, expand, y, x) ==
    LET pixel == x \div r.pixel_bytes IN
    CASE r.pattern -> Bit(Byte(mem, r.src + (y % BITS)), BITS - 1 - (pixel % BITS))
      [] ~r.pattern /\ r.system ->
            Bit(Fed(data, y * system_source_pitch(r) + pixel \div BITS), BITS - 1 - (pixel % BITS))
      [] OTHER -> Bit(Byte(mem, expand.addr), BITS - 1 - expand.count \div r.pixel_bytes)

NextByte(r, expand) == [addr |-> Back(r, expand.addr, 1), count |-> 0]

ExpandAdvance(r, expand) ==
    IF expand.count + 1 = BITS * r.pixel_bytes THEN NextByte(r, expand)
    ELSE [expand EXCEPT !.count = @ + 1]

BlitSource(r, mem, data, bit, y, x) ==
    LET c == (x % r.pixel_bytes) + 1 IN
    CASE r.pattern /\ r.expand /\ ~r.transparent /\ r.solid -> r.fg[c]
      [] r.expand /\ ~(r.pattern /\ ~r.transparent /\ r.solid) ->
            IF bit = 1 THEN r.fg[c] ELSE r.bg[c]
      [] OTHER -> linear_blit_source(r, mem, data, r.pattern, y, x)

Masked(b, mask) == b & (Ones - mask)

Transparent(r, mem, data, bit, y, x) ==
    /\ r.transparent
    /\ CASE r.expand -> (IF r.invert THEN bit = 1 ELSE bit = 0)
         [] ~r.expand /\ r.pattern -> FALSE
         [] OTHER -> \A c \in 0..r.pixel_bytes - 1 :
                Masked(linear_blit_source(r, mem, data, FALSE, y, x - (x % r.pixel_bytes) + c),
                       r.keymask[c + 1])
                  = Masked(r.key[c + 1], r.keymask[c + 1])

BitmapSource(r) == r.expand /\ ~r.pattern /\ ~r.system

(* One byte of the destination: the expansion position moves whether or not
   the byte is drawn. *)
BlitByte(r, data, acc, y, x) ==
    LET bit == IF r.expand THEN ExpandBit(r, acc.mem, data, acc.expand, y, x) ELSE 0
        to == Back(r, Line(r, r.dst, r.dst_pitch, y), x)
        drawn == to \in 0..BlitVram - 1 /\ ~Transparent(r, acc.mem, data, bit, y, x)
    IN  [mem |-> IF drawn
                 THEN [acc.mem EXCEPT ![to] = apply_rop(r.rop, BlitSource(r, acc.mem, data, bit, y, x), @)]
                 ELSE acc.mem,
         expand |-> IF BitmapSource(r) THEN ExpandAdvance(r, acc.expand) ELSE acc.expand]

RowEnd_unpadded(r, acc) == acc

(* A bitmap row starts on a byte of its own. *)
RowEnd(r, acc) ==
    IF BitmapSource(r) /\ acc.expand.count # 0
    THEN [acc EXCEPT !.expand = NextByte(r, @)] ELSE acc

BlitRow(r, data, acc, y) ==
    RowEnd(r, FoldLeft(LAMBDA a, x : BlitByte(r, data, a, y, x), acc, [x \in 1..r.width |-> x - 1]))

(* The address registers are left after the last byte, so that a blit can go on. *)
BlitEnd(r, acc) ==
    LET Past(from, pitch) == Back(r, from, (r.height - 1) * pitch + r.width) % AddrSpan IN
    [r EXCEPT !.dst = Past(r.dst, r.dst_pitch),
              !.src = CASE r.pattern \/ r.system -> @
                        [] BitmapSource(r) -> acc.expand.addr % AddrSpan
                        [] OTHER -> Past(r.src, r.src_pitch)]

execute_blit(r, data, blits) ==
    LET acc == FoldLeft(LAMBDA a, y : BlitRow(r, data, a, y),
                        [mem |-> vram, expand |-> [addr |-> r.src, count |-> 0]],
                        [y \in 1..r.height |-> y - 1])
    IN  /\ vram' = acc.mem
        /\ gr' = BlitEnd(r, acc)
        /\ last' = [blits |-> blits, done |-> TRUE, before |-> vram, gr |-> r, fed |-> data]

-----------------------------------------------------------------------------
(* write_graphics: the fields, then START; RESET abandons a waiting blit. *)

ProgramBlit ==
    /\ gr = NoBlit
    /\ gr' \in BlitConfigs
    /\ UNCHANGED <<vram, system_blit, last>>

start_blit ==
    /\ last.blits < MaxBlits
    /\ gr # NoBlit
    /\ IF gr.system
       THEN /\ system_blit' = [expected |-> system_source_pitch(gr) * gr.height, filled |-> 0,
                               buf |-> << >>]
            /\ last' = [last EXCEPT !.blits = @ + 1, !.done = FALSE]
            /\ UNCHANGED <<vram, gr>>
       ELSE /\ execute_blit(gr, << >>, last.blits + 1)
            /\ UNCHANGED system_blit

reset_blit ==
    /\ system_blit # NoFeed
    /\ system_blit' = NoFeed
    /\ UNCHANGED <<vram, gr, last>>

(* vram_write: a byte for the waiting blit, whatever its address. *)
feed_system_blit ==
    /\ system_blit # NoFeed
    /\ \E b \in FeedBytes :
        LET f == [system_blit EXCEPT !.filled = @ + 1,
                      !.buf = IF Len(@) < Capacity THEN Append(@, b) ELSE @]
        IN  IF f.filled < f.expected
            THEN system_blit' = f /\ UNCHANGED <<vram, gr, last>>
            ELSE system_blit' = NoFeed /\ execute_blit(gr, f.buf, last.blits)

BlitNext == ProgramBlit \/ start_blit \/ reset_blit \/ feed_system_blit

-----------------------------------------------------------------------------
(* What a blit means: each byte of the rectangle on its own, from the memory
   as it was. *)

Cells(r) == {<<y, x>> : y \in 0..r.height - 1, x \in 0..r.width - 1}
DstAt(r, p) == Back(r, r.dst, p[1] * r.dst_pitch + p[2])
SrcAt(r, p) == Back(r, r.src, p[1] * r.src_pitch + p[2])

(* The bitmap byte and bit of a cell: rows take whole bytes. *)
BitmapAt(r, p) ==
    LET per == BITS * r.pixel_bytes
    IN  Back(r, r.src, p[1] * CeilDiv(r.width, per) + p[2] \div per)

RefBit(r, p) ==
    LET pixel == p[2] \div r.pixel_bytes
        byte == CASE r.pattern -> Byte(last.before, r.src + (p[1] % BITS))
                  [] ~r.pattern /\ r.system ->
                        Fed(last.fed, p[1] * system_source_pitch(r) + pixel \div BITS)
                  [] OTHER -> Byte(last.before, BitmapAt(r, p))
    IN  Bit(byte, BITS - 1 - (pixel % BITS))

RefSource(r, p) ==
    LET c == (p[2] % r.pixel_bytes) + 1
        row == BITS * r.pixel_bytes
    IN  CASE r.pattern /\ r.expand /\ ~r.transparent /\ r.solid -> r.fg[c]
          [] r.expand /\ ~(r.pattern /\ ~r.transparent /\ r.solid) ->
                IF RefBit(r, p) = 1 THEN r.fg[c] ELSE r.bg[c]
          [] ~r.expand /\ r.pattern ->
                Byte(last.before, (r.src \div DWORD) * DWORD + (p[1] % BITS) * row + (p[2] % row))
          [] ~r.expand /\ ~r.pattern /\ r.system ->
                Fed(last.fed, p[1] * system_source_pitch(r) + p[2])
          [] OTHER -> Byte(last.before, SrcAt(r, p))

(* A pixel is drawn or skipped whole: by its bit, or by the colour key. *)
RefSkipped(r, p) ==
    /\ r.transparent
    /\ IF r.expand THEN (RefBit(r, p) = 1) = r.invert
       ELSE /\ ~r.pattern
            /\ \A c \in 0..r.pixel_bytes - 1 :
                  Masked(RefSource(r, <<p[1], p[2] - (p[2] % r.pixel_bytes) + c>>), r.keymask[c + 1])
                    = Masked(r.key[c + 1], r.keymask[c + 1])

(* Every address a cell reads. *)
Reads(r, p) ==
    CASE r.pattern -> r.src - DWORD..r.src + BITS * BITS * r.pixel_bytes
      [] ~r.pattern /\ r.system -> {}
      [] ~r.pattern /\ ~r.system /\ r.expand -> {BitmapAt(r, p)}
      [] OTHER -> {SrcAt(r, <<p[1], p[2] - (p[2] % r.pixel_bytes) + c>>) : c \in 0..r.pixel_bytes - 1}

Before(p, q) == p[1] < q[1] \/ (p[1] = q[1] /\ p[2] < q[2])

(* The rectangle is well formed: no address below 0, no destination byte
   drawn twice, and nothing read that an earlier byte has overwritten (a
   move within VRAM runs in the safe direction). *)
Sound(r) ==
    /\ \A p \in Cells(r) : DstAt(r, p) >= 0 /\ SrcAt(r, p) >= 0
    /\ \A p, q \in Cells(r) : Before(p, q) =>
          DstAt(r, p) # DstAt(r, q) /\ DstAt(r, p) \notin Reads(r, q)

(* A finished blit changed exactly the bytes of its rectangle, each by the
   raster operation on its own source and its old value, the transparent ones
   excepted: forwards or backwards, with overlapping source and destination,
   pattern, colour expansion and bytes fed one by one; and the address
   registers are where a blit of the next rows starts. *)
BlitIsItsRectangle ==
    LET r == last.gr IN
    last.done /\ Sound(r) =>
      /\ \A a \in 0..BlitVram - 1 :
            vram[a] = IF \E p \in Cells(r) : DstAt(r, p) = a /\ ~RefSkipped(r, p)
                      THEN LET p == CHOOSE q \in Cells(r) : DstAt(r, q) = a
                           IN  apply_rop(r.rop, RefSource(r, p), last.before[a])
                      ELSE last.before[a]
      /\ gr.dst = (DstAt(r, <<r.height - 1, r.width - 1>>) + (IF r.backwards THEN -1 ELSE 1)) % AddrSpan
      /\ BitmapSource(r) =>
            gr.src = Back(r, r.src, r.height * CeilDiv(r.width, BITS * r.pixel_bytes)) % AddrSpan

=============================================================================
