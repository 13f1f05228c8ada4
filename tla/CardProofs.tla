----------------------------- MODULE CardProofs -----------------------------
(***************************************************************************)
(* Theorems about the graphics boards and the Mirage storage card, for     *)
(* every size of VRAM, register, catalog, sector and device.               *)
(***************************************************************************)
EXTENDS Mirage, GraphicsBoards, SequenceTheorems, TLAPS

-----------------------------------------------------------------------------
(* The graphics boards.                                                    *)

LEMMA MulMonotone ==
    ASSUME NEW a \in Nat, NEW b \in Nat, NEW c \in Nat, a <= b
    PROVE  a * c <= b * c /\ a * c \in Nat /\ b * c \in Nat
OBVIOUS

LEMMA MulNext ==
    ASSUME NEW a \in Nat, NEW c \in Nat
    PROVE  (a + 1) * c = a * c + c /\ a * c \in Nat
OBVIOUS

\* The staged registers, and what COMMIT has made sure of.
Staged == [width : Nat, height : Nat, format : Formats, stride : Nat, fb_offset : Nat]

RtgInv ==
    /\ DOMAIN rtg = {"set", "status", "current"}
    /\ rtg.set \in Staged
    /\ rtg.current = NoMode \/ /\ rtg.current \in Staged
                               /\ mode_fits(rtg.current)
                               /\ [width |-> rtg.current.width, height |-> rtg.current.height,
                                   format |-> rtg.current.format] \in Catalog

LEMMA RtgInitInv == RtgInit => RtgInv
<1>1. NoMode \in Staged
  BY DEF NoMode, Staged, Formats
<1> QED
  BY <1>1 DEF RtgInit, RtgInv

LEMMA RtgNextInv == ASSUME RtgInv, RtgNext PROVE RtgInv'
<1>1. CASE commit
  BY <1>1 DEF commit, RtgInv
<1>2. CASE WriteRegister
  <2>1. /\ DOMAIN rtg' = {"set", "status", "current"} /\ rtg'.current = rtg.current
        /\ rtg'.set \in Staged
    BY <1>2, RtgAssumption DEF WriteRegister, RtgInv, Staged
  <2> QED
    BY <2>1 DEF RtgInv
<1> QED
  BY <1>1, <1>2 DEF RtgNext

LEMMA RtgInvPicture == RtgInv => RtgPictureInVram
<1> SUFFICES ASSUME RtgInv, rtg.current # NoMode,
                    NEW m, m = rtg.current
             PROVE  /\ [width |-> m.width, height |-> m.height, format |-> m.format] \in Catalog
                    /\ \A y \in 0..m.height - 1, b \in 0..m.width * bytes_per_pixel[m.format] - 1 :
                          m.fb_offset + y * m.stride + b < VramLen
                    /\ m.height > 1 => m.stride >= m.width * bytes_per_pixel[m.format]
  BY DEF RtgPictureInVram
<1>1. /\ m.width \in Nat /\ m.height \in Nat /\ m.stride \in Nat /\ m.fb_offset \in Nat
      /\ m.format \in Formats
      /\ mode_fits(m)
      /\ [width |-> m.width, height |-> m.height, format |-> m.format] \in Catalog
  BY DEF RtgInv, Staged
<1>2. bytes_per_pixel[m.format] \in {2, 4}
  BY <1>1 DEF mode_fits, bytes_per_pixel, Formats, INVALID
<1> DEFINE row == m.width * bytes_per_pixel[m.format]
<1>3. row \in Nat
  BY <1>1, <1>2
<1>4. m.stride >= row /\ m.fb_offset + m.height * m.stride <= VramLen
  BY <1>1 DEF mode_fits
<1>5. ASSUME NEW y \in 0..m.height - 1, NEW b \in 0..row - 1
      PROVE  m.fb_offset + y * m.stride + b < VramLen
  <2> HIDE DEF row
  <2>1. y + 1 \in Nat /\ y + 1 <= m.height /\ y \in Nat
    BY <1>1
  <2>2. (y + 1) * m.stride <= m.height * m.stride /\ m.height * m.stride \in Nat /\ (y + 1) * m.stride \in Nat
    BY <2>1, <1>1, MulMonotone
  <2>3. (y + 1) * m.stride = y * m.stride + m.stride /\ y * m.stride \in Nat
    BY <2>1, <1>1, MulNext
  <2> QED
    BY <2>2, <2>3, <1>1, <1>3, <1>4, RtgAssumption
<1> QED
  BY <1>1, <1>4, <1>5

\* The Cirrus registers: whatever the ports were written, each field holds a
\* value of that field.
Depths == {"Bpp8", "Bpp15", "Bpp16", "Bpp24", "clocked", "none"}

CirrusInv ==
    /\ DOMAIN regs = {"unlocked", "running", "screen_off", "extended", "clock", "width", "height",
                      "height_hi", "doublescan", "pitch", "pitch_hi", "start", "panning", "protect",
                      "vint", "hidden_dac", "hidden_dac_arm", "vblank_pending"}
    /\ regs.width \in Nat /\ regs.height \in Nat /\ regs.height_hi \in Nat /\ regs.doublescan \in BOOLEAN
    /\ regs.pitch \in Nat /\ regs.pitch_hi \in Nat /\ regs.start \in Nat /\ regs.panning \in Nat
    /\ regs.clock \in {0, 2, 4} /\ regs.hidden_dac \in Depths

LEMMA CirrusInitInv == CirrusInit => CirrusInv
BY DEF CirrusInit, CirrusInv, Depths

LEMMA ScanNextInv == ASSUME CirrusInv, ScanNext PROVE CirrusInv'
<1>1. CASE ProgramMode
  <2>1. PICK m \in Modes : Port([Disarmed EXCEPT !.unlocked = TRUE, !.running = TRUE, !.extended = TRUE,
                  !.width = m.width, !.height = m.height, !.height_hi = m.height_hi, !.pitch = m.pitch,
                  !.pitch_hi = m.pitch_hi, !.start = m.start, !.hidden_dac = m.depth])
    BY <1>1 DEF ProgramMode
  <2>2. /\ m.width \in Nat /\ m.height \in Nat /\ m.height_hi \in Nat /\ m.pitch \in Nat
        /\ m.pitch_hi \in Nat /\ m.start \in Nat /\ m.depth \in Depths
    BY CirrusAssumption DEF Depths
  <2> QED
    BY <2>1, <2>2 DEF Port, Disarmed, CirrusInv
<1>2. CASE write_sequencer
  BY <1>2 DEF write_sequencer, Port, Disarmed, CirrusInv
<1>3. CASE write_crtc
  <2>1. 0..ByteSpan - 1 \subseteq Nat
    BY CirrusAssumption
  <2>3. CASE \E v \in 0..ByteSpan - 1 :
                Port(IF regs.protect THEN Disarmed ELSE [Disarmed EXCEPT !.width = v])
    BY <2>1, <2>3 DEF Port, Disarmed, CirrusInv
  <2>4. CASE \E v \in 0..1 : Port(IF regs.protect THEN Disarmed ELSE [Disarmed EXCEPT !.height_hi = v])
    BY <2>4 DEF Port, Disarmed, CirrusInv
  <2>5. CASE \/ \E v \in 0..ByteSpan - 1 : Port([Disarmed EXCEPT !.height = v])
             \/ \E v \in BOOLEAN : Port([Disarmed EXCEPT !.doublescan = v])
             \/ \E v \in 0..ByteSpan - 1 : Port([Disarmed EXCEPT !.pitch = v])
    BY <2>1, <2>5 DEF Port, Disarmed, CirrusInv
  <2>6. CASE \E v \in 0..ByteSpan - 1 : Port([Disarmed EXCEPT !.start = v])
    BY <2>1, <2>6 DEF Port, Disarmed, CirrusInv
  <2>9. CASE \E v \in 0..3 : Port([Disarmed EXCEPT !.panning = v])
    <3>1. PICK v \in 0..3 : Port([Disarmed EXCEPT !.panning = v])
      BY <2>9
    <3>2. v \in Nat
      OBVIOUS
    <3> QED
      BY <3>1, <3>2 DEF Port, Disarmed, CirrusInv
  <2>7. CASE \E v \in 0..1 : Port(IF regs.unlocked THEN [Disarmed EXCEPT !.pitch_hi = v] ELSE Disarmed)
    BY <2>7 DEF Port, Disarmed, CirrusInv
  <2>8. CASE \E b \in BOOLEAN, v \in {"disabled", "clear", "enabled"} :
                Port([Disarmed EXCEPT !.protect = b, !.vint = v, !.vblank_pending = @ /\ v # "clear"])
    BY <2>8 DEF Port, Disarmed, CirrusInv
  <2> QED
    BY <1>3, <2>3, <2>4, <2>5, <2>6, <2>7, <2>8, <2>9 DEF write_crtc
<1>4. CASE read_pel_mask_or_hidden_dac
  BY <1>4 DEF read_pel_mask_or_hidden_dac, CirrusInv
<1>5. CASE write_pel_mask_or_hidden_dac
  BY <1>5 DEF write_pel_mask_or_hidden_dac, Port, Disarmed, CirrusInv, Depths
<1>6. CASE signal_vertical_retrace
  BY <1>6 DEF signal_vertical_retrace, CirrusInv
<1> QED
  BY <1>1, <1>2, <1>3, <1>4, <1>5, <1>6 DEF ScanNext

LEMMA CirrusInvPicture == CirrusInv => CirrusPictureInVram
<1> SUFFICES ASSUME CirrusInv, decoded_mode,
                    NEW x \in 0..ScanOut.width - 1, NEW y \in 0..ScanOut.height - 1
             PROVE  PixelOffsets(x, y) \subseteq 0..VramBytes - 1
  BY DEF CirrusPictureInVram
<1>1. /\ ScanOut.width \in Nat /\ ScanOut.height \in Nat /\ ScanOut.stride \in Nat /\ ScanOut.start \in Nat
  BY CirrusAssumption DEF ScanOut, CirrusInv
<1>2. DepthBytes[depth] \in {1, 2, 3}
  BY DEF decoded_mode, depth, DepthBytes, CirrusInv, Depths
<1> DEFINE n == DepthBytes[depth]
           w == ScanOut.width
           h == ScanOut.height
           p == ScanOut.stride
           s == ScanOut.start
<1>3. p >= w * n /\ s + (h - 1) * p + w * n <= VramBytes
  BY DEF decoded_mode
<1>4. PixelOffsets(x, y) = (s + y * p + x * n) .. (s + y * p + x * n + n - 1)
  BY DEF PixelOffsets
<1> HIDE DEF n, w, h, p, s
<1>5. n \in {1, 2, 3} /\ w \in Nat /\ h \in Nat /\ p \in Nat /\ s \in Nat /\ x \in 0..w - 1 /\ y \in 0..h - 1
  BY <1>1, <1>2 DEF n, w, h, p, s
<1>6. y * p <= (h - 1) * p /\ y * p \in Nat
  <2>1. y \in Nat /\ h - 1 \in Nat /\ y <= h - 1
    BY <1>5
  <2> QED
    BY <2>1, <1>5, MulMonotone
<1>7. x * n + n <= w * n /\ x * n \in Nat
  BY <1>5
<1> QED
  BY <1>3, <1>4, <1>5, <1>6, <1>7, CirrusAssumption

(***************************************************************************)
(* Whatever order the registers of either board are written in, half a     *)
(* mode at a time, with products that would wrap or fields of two modes    *)
(* mixed, no pixel of the mode the host scans out lies outside VRAM: the   *)
(* check of mode_fits and the one at the end of decoded_mode suffice, for  *)
(* every size of the memory and every width of the registers.              *)
(***************************************************************************)
THEOREM PicturesAlwaysStayInVram == GraphicsSpec => []PicturesStayInVram
<1> DEFINE Inv == RtgInv /\ CirrusInv
<1>1. RtgInit /\ CirrusInit => Inv
  BY RtgInitInv, CirrusInitInv
<1>2. Inv /\ [\/ RtgNext /\ UNCHANGED cirrusVars
              \/ ScanNext /\ UNCHANGED rtg]_<<rtg, cirrusVars>> => Inv'
  <2> SUFFICES ASSUME Inv, [\/ RtgNext /\ UNCHANGED cirrusVars
                            \/ ScanNext /\ UNCHANGED rtg]_<<rtg, cirrusVars>>
               PROVE  Inv'
    OBVIOUS
  <2>1. UNCHANGED cirrusVars => CirrusInv'
    BY DEF cirrusVars, CirrusInv
  <2>2. UNCHANGED rtg => RtgInv'
    BY DEF RtgInv, mode_fits, Fits
  <2> QED
    BY <2>1, <2>2, RtgNextInv, ScanNextInv
<1>3. Inv => PicturesStayInVram
  BY RtgInvPicture, CirrusInvPicture DEF PicturesStayInVram
<1> QED
  BY <1>1, <1>2, <1>3, PTL DEF GraphicsSpec

-----------------------------------------------------------------------------
(* The Mirage card.                                                        *)

\* The bytes of the model: where an initial byte comes from, or which byte of
\* its transfer a written one is.
Values == Nat \cup (Nat \X Nat \X Nat)
Sector == [1..SECTOR_BYTES -> Values]
Disk == [Attached -> [0..Sectors - 1 -> Sector]]

Transfers == {"READ", "WRITE"}
Reading == {"ReadPending", "ReadReady"}
Writing == {"WritePending", "WriteReady", "WriteCommitting"}

MirageType ==
    /\ DOMAIN card = {"unit_select", "lba", "count", "status", "xfer_complete", "state", "active_unit",
                      "current_lba", "sectors_left", "ticks_left", "sector_buf", "buf_pos"}
    /\ card.unit_select \in Nat /\ card.lba \in Nat /\ card.count \in Nat
    /\ card.state \in Reading \cup Writing \cup {"Idle", "FlushPending"}
    /\ card.active_unit \in Nat /\ card.current_lba \in Nat /\ card.sectors_left \in Nat
    /\ card.ticks_left \in Nat /\ card.sector_buf \in Sector /\ card.buf_pos \in Nat
    /\ disk \in Disk
    /\ DOMAIN job = {"asked", "moved", "before", "commands"}
    /\ job.asked \in [op : Transfers \cup {"none", "FLUSH", "other"}, unit : Nat, lba : Nat, count : Nat]
    /\ job.moved \in Seq(Values)
    /\ job.before \in Disk

\* Sectors of the command the card has gone past, and how many it has stored.
Passed == card.current_lba - job.asked.lba
At == Passed * SECTOR_BYTES
Stored == IF card.state = "Idle" /\ card.status = {} THEN job.asked.count ELSE Passed

\* The command in flight is the one that was asked for, in the range checked
\* when it was accepted, whatever the registers say by now.
Ranges ==
    LET a == job.asked IN
    /\ a.op \in Transfers => a.unit \in Attached /\ a.count >= 1 /\ a.lba + a.count <= Sectors
    /\ a.op \notin Transfers => job.moved = << >>
    /\ card.state \in Reading => a.op = "READ"
    /\ card.state \in Writing => a.op = "WRITE"
    /\ card.state = "FlushPending" => a.op = "FLUSH"
    /\ card.state \in Reading \cup Writing =>
          /\ card.active_unit = a.unit /\ card.current_lba >= a.lba /\ card.sectors_left >= 1
          /\ card.current_lba + card.sectors_left = a.lba + a.count
          /\ card.status \in {{"BUSY"}, {"DRQ"}}
    /\ card.state = "Idle" => card.status \in {{}, {"ERR"}}

\* How much has moved in each state, and what the FIFO holds of it.
Position ==
    LET a == job.asked
        moved == Len(job.moved)
    IN
    /\ card.state = "ReadPending" => moved = At
    /\ card.state = "ReadReady" => /\ moved = At + card.buf_pos /\ card.buf_pos < SECTOR_BYTES
                                   /\ card.sector_buf = job.before[a.unit][card.current_lba]
    /\ card.state = "WritePending" => moved = 0 /\ Passed = 0
    /\ card.state = "WriteReady" => /\ moved = At + card.buf_pos /\ card.buf_pos < SECTOR_BYTES
                                    /\ \A i \in 1..card.buf_pos : card.sector_buf[i] = job.moved[At + i]
    /\ card.state = "WriteCommitting" =>
          /\ moved = At + SECTOR_BYTES
          /\ \A i \in 1..SECTOR_BYTES : card.sector_buf[i] = job.moved[At + i]
    /\ card.state = "Idle" /\ a.op \in Transfers =>
          /\ card.status = {} => moved = a.count * SECTOR_BYTES
          /\ card.status = {"ERR"} => /\ Passed \in 0..a.count - 1
                                      /\ moved = IF a.op = "READ" THEN At ELSE At + SECTOR_BYTES

Contents ==
    LET a == job.asked IN
    \A u \in Attached, s \in 0..Sectors - 1 :
        IF a.op = "WRITE" /\ u = a.unit /\ s >= a.lba /\ s < a.lba + Stored
        THEN \A i \in 1..SECTOR_BYTES : disk[u][s][i] = job.moved[(s - a.lba) * SECTOR_BYTES + i]
        ELSE disk[u][s] = job.before[u][s]

Delivered == job.asked.op = "READ" => \A k \in 1..Len(job.moved) : job.moved[k] = Asked(k)

MirageInv == MirageType /\ Ranges /\ Position /\ Contents /\ Delivered

-----------------------------------------------------------------------------
LEMMA SectorDivision ==
    ASSUME NEW q \in Nat, NEW r \in 0 .. SECTOR_BYTES - 1
    PROVE  /\ (q * SECTOR_BYTES + r) \div SECTOR_BYTES = q
           /\ (q * SECTOR_BYTES + r) % SECTOR_BYTES = r
BY MirageAssumption

\* The range check keeps the sector address off the end of its register:
\* while sectors are left after this one, the next address is the next number.
LEMMA NextLbaIsNext ==
    ASSUME MirageInv, card.state \in Reading \cup Writing, card.sectors_left # 1
    PROVE  NextLba(card.current_lba) = card.current_lba + 1
<1> DEFINE a == job.asked
<1>1. /\ a.lba \in Nat /\ a.count \in Nat /\ card.current_lba \in Nat /\ card.sectors_left \in Nat
      /\ Sectors \in Nat /\ RegMod \in Nat \ {0} /\ Sectors <= RegMod
  BY MirageAssumption DEF MirageInv, MirageType
<1>2. /\ card.sectors_left >= 1 /\ card.current_lba + card.sectors_left = a.lba + a.count
      /\ a.lba + a.count <= Sectors
  BY DEF MirageInv, Ranges, Transfers, Reading, Writing
<1>3. card.current_lba + 1 \in 0..RegMod - 1
  BY <1>1, <1>2
<1> QED
  BY <1>1, <1>3 DEF NextLba

\* What Position says of how far a transfer has got.
LEMMA MovedBounds ==
    ASSUME MirageType, Ranges, Position, job.asked.op \in Transfers
    PROVE  /\ Passed \in Int /\ (card.state # "Idle" \/ card.status # {} => Passed \in 0..job.asked.count - 1)
           /\ Stored \in Nat /\ Stored <= job.asked.count
           /\ At \in Int /\ Stored * SECTOR_BYTES <= Len(job.moved)
           /\ Len(job.moved) <= job.asked.count * SECTOR_BYTES
<1> DEFINE a == job.asked
           n == Len(job.moved)
<1>1. /\ a.lba \in Nat /\ a.count \in Nat /\ a.unit \in Nat /\ card.current_lba \in Nat
      /\ card.sectors_left \in Nat /\ card.buf_pos \in Nat /\ n \in Nat /\ SECTOR_BYTES \in Nat \ {0}
  BY MirageAssumption, LenProperties DEF MirageType
<1>2. card.state \in Reading \cup Writing \cup {"Idle"}
  BY DEF MirageType, Ranges, Transfers
<1>3. Passed \in Int /\ At \in Int
  BY <1>1 DEF Passed, At
<1>4. CASE card.state = "Idle" /\ card.status = {}
  <2>1. n = a.count * SECTOR_BYTES
    BY <1>4 DEF Position
  <2>2. Stored = a.count
    BY <1>4 DEF Stored
  <2> QED
    BY <1>1, <1>3, <1>4, <2>1, <2>2
<1>5. CASE ~(card.state = "Idle" /\ card.status = {})
  <2>1. Stored = Passed
    BY <1>5 DEF Stored
  <2>2. Passed \in 0..a.count - 1
    <3>1. CASE card.state = "Idle"
      BY <3>1, <1>5 DEF Ranges, Position
    <3>2. CASE card.state \in Reading \cup Writing
      BY <3>2, <1>1 DEF Ranges, Passed
    <3> QED
      BY <3>1, <3>2, <1>2
  <2>3. At <= n /\ n <= At + SECTOR_BYTES
    <3>1. CASE card.state = "Idle"
      BY <3>1, <1>1, <1>3, <1>5 DEF Ranges, Position
    <3>2. CASE card.state \in Reading \cup Writing
      <4>1. CASE card.state = "WritePending"
        BY <4>1, <1>1 DEF Position, At
      <4> QED
        BY <4>1, <3>2, <1>1, <1>3 DEF Position, Reading, Writing
    <3> QED
      BY <3>1, <3>2, <1>2
  <2>4. Passed \in Nat /\ Passed + 1 <= a.count
    BY <2>2, <1>1
  <2>5. (Passed + 1) * SECTOR_BYTES <= a.count * SECTOR_BYTES
    BY <2>4, <1>1, MulMonotone
  <2>6. (Passed + 1) * SECTOR_BYTES = At + SECTOR_BYTES /\ At \in Nat
    BY <2>4, <1>1, MulNext DEF At
  <2>7. a.count * SECTOR_BYTES \in Nat
    BY <1>1
  <2>8. Stored * SECTOR_BYTES = At
    BY <2>1 DEF At
  <2>9. n <= a.count * SECTOR_BYTES
    <3> DEFINE all == a.count * SECTOR_BYTES
               more == (Passed + 1) * SECTOR_BYTES
    <3>1. all \in Nat /\ more <= all /\ more = At + SECTOR_BYTES /\ At \in Nat
      BY <2>5, <2>6, <2>7
    <3> HIDE DEF all, more
    <3>2. n <= all
      BY <3>1, <2>3, <1>1
    <3> QED
      BY <3>2 DEF all
  <2>10. Stored \in Nat /\ Stored <= a.count
    BY <2>1, <2>4, <1>1
  <2>11. Stored * SECTOR_BYTES <= n
    BY <2>3, <2>8
  <2> QED
    BY <2>2, <2>9, <2>10, <2>11, <1>3
<1> QED
  BY <1>4, <1>5

LEMMA MirageInitInv == MirageInit => MirageInv
<1> SUFFICES ASSUME MirageInit PROVE MirageInv
  OBVIOUS
<1>1. disk \in Disk
  <2>1. \A u \in Attached, s \in 0..Sectors - 1, i \in 1..SECTOR_BYTES : <<u, s, i>> \in Values
    <3> SUFFICES ASSUME NEW u \in Attached, NEW s \in 0..Sectors - 1, NEW i \in 1..SECTOR_BYTES
                 PROVE  <<u, s, i>> \in Values
      OBVIOUS
    <3>1. u \in Nat /\ s \in Nat /\ i \in Nat
      BY MirageAssumption
    <3> QED
      BY <3>1 DEF Values
  <2>2. disk = [u \in Attached |-> [s \in 0..Sectors - 1 |-> [i \in 1..SECTOR_BYTES |-> <<u, s, i>>]]]
    BY DEF MirageInit
  <2>3. ASSUME NEW u \in Attached, NEW s \in 0..Sectors - 1
        PROVE  [i \in 1..SECTOR_BYTES |-> <<u, s, i>>] \in Sector
    BY <2>1 DEF Sector
  <2> QED
    BY <2>2, <2>3, Zenon DEF Disk
<1>2. [i \in 1..SECTOR_BYTES |-> 0] \in Sector
  BY DEF Sector, Values
<1>3. /\ card.state = "Idle" /\ card.status = {} /\ job.asked = NoJob /\ job.moved = << >>
      /\ job.before = disk
  BY DEF MirageInit
<1>4. NoJob \in [op : Transfers \cup {"none", "FLUSH", "other"}, unit : Nat, lba : Nat, count : Nat]
  BY DEF NoJob
<1>5. MirageType
  <2>1. << >> \in Seq(Values)
    OBVIOUS
  <2> QED
    BY <1>1, <1>2, <1>4, <2>1 DEF MirageInit, MirageType
<1>6. job.asked.op = "none"
  BY <1>3 DEF NoJob
<1> QED
  BY <1>3, <1>5, <1>6 DEF MirageInv, Ranges, Position, Contents, Delivered, Transfers, Reading, Writing

\* A step that does not store and only appends to what has moved.
LEMMA ContentsKept ==
    ASSUME MirageInv, disk' = disk, job'.asked = job.asked, job'.before = job.before,
           job.asked.op = "WRITE" => Stored' = Stored,
           \A k \in 1..Len(job.moved) : job'.moved[k] = job.moved[k]
    PROVE  Contents'
<1> DEFINE a == job.asked
<1>1. CASE a.op # "WRITE"
  BY <1>1 DEF Contents, MirageInv
<1>2. CASE a.op = "WRITE"
  <2>1. /\ Stored \in Nat /\ Stored * SECTOR_BYTES <= Len(job.moved) /\ a.lba \in Nat
        /\ Len(job.moved) \in Nat /\ SECTOR_BYTES \in Nat \ {0} /\ Sectors \in Nat
    BY <1>2, MovedBounds, MirageAssumption, LenProperties DEF MirageInv, Transfers, MirageType
  <2>2. ASSUME NEW s \in 0..Sectors - 1, s >= a.lba, s < a.lba + Stored, NEW i \in 1..SECTOR_BYTES
        PROVE  job'.moved[(s - a.lba) * SECTOR_BYTES + i] = job.moved[(s - a.lba) * SECTOR_BYTES + i]
    <3> DEFINE q == s - a.lba
               all == Stored * SECTOR_BYTES
               lo == q * SECTOR_BYTES
    <3>1. q \in Nat /\ q + 1 <= Stored
      BY <2>1, <2>2
    <3>2. (q + 1) * SECTOR_BYTES <= all /\ (q + 1) * SECTOR_BYTES = lo + SECTOR_BYTES /\ lo \in Nat
      <4>1. q + 1 \in Nat /\ SECTOR_BYTES \in Nat
        BY <3>1, <2>1
      <4>2. (q + 1) * SECTOR_BYTES <= all
        BY <4>1, <3>1, <2>1, MulMonotone
      <4> HIDE DEF q
      <4>3. (q + 1) * SECTOR_BYTES = lo + SECTOR_BYTES /\ lo \in Nat
        BY <4>1, <3>1, MulNext
      <4> QED
        BY <4>2, <4>3
    <3>3. all <= Len(job.moved) /\ all \in Nat
      BY <2>1
    <3> HIDE DEF all, lo
    <3>4. lo + i \in 1..Len(job.moved)
      BY <3>2, <3>3, <2>1
    <3> QED
      BY <3>4 DEF lo
  <2>3. Stored' = Stored
    BY <1>2
  <2> QED
    BY <2>2, <2>3 DEF Contents, MirageInv
<1> QED
  BY <1>1, <1>2

\* A step that leaves the transfer alone.
LEMMA QuietStep ==
    ASSUME MirageInv, MirageType', UNCHANGED <<disk, job>>,
           card'.status = card.status, card'.state = card.state, card'.active_unit = card.active_unit,
           card'.current_lba = card.current_lba, card'.sectors_left = card.sectors_left,
           card'.sector_buf = card.sector_buf, card'.buf_pos = card.buf_pos
    PROVE  MirageInv'
<1>1. Passed' = Passed /\ At' = At /\ Stored' = Stored
  BY DEF Passed, At, Stored
<1>2. Contents'
  BY <1>1, ContentsKept
<1>3. Ranges'
  BY DEF Ranges, MirageInv
<1>4. Position'
  BY <1>1 DEF Position, MirageInv
<1>5. Delivered'
  BY DEF Delivered, MirageInv, Asked
<1> QED
  BY <1>2, <1>3, <1>4, <1>5 DEF MirageInv

LEMMA SetRegisterStep == ASSUME MirageInv, SetRegister PROVE MirageInv'
<1>1. /\ UNCHANGED <<disk, job>> /\ DOMAIN card' = DOMAIN card
      /\ card'.status = card.status /\ card'.state = card.state /\ card'.active_unit = card.active_unit
      /\ card'.current_lba = card.current_lba /\ card'.sectors_left = card.sectors_left
      /\ card'.sector_buf = card.sector_buf /\ card'.buf_pos = card.buf_pos
      /\ card'.ticks_left = card.ticks_left
      /\ card'.unit_select \in Nat /\ card'.lba \in Nat /\ card'.count \in Nat
  <2>1. /\ DOMAIN card = {"unit_select", "lba", "count", "status", "xfer_complete", "state", "active_unit",
                         "current_lba", "sectors_left", "ticks_left", "sector_buf", "buf_pos"}
        /\ card.unit_select \in Nat /\ card.lba \in Nat /\ card.count \in Nat
    BY DEF MirageInv, MirageType
  <2>2. UNCHANGED <<disk, job>>
    BY DEF SetRegister
  <2>3. \/ \E u \in Nat : card' = [card EXCEPT !.unit_select = u]
        \/ \E l \in Nat : card' = [card EXCEPT !.lba = l]
        \/ \E n \in Nat : card' = [card EXCEPT !.count = n]
        \/ card' = [card EXCEPT !.xfer_complete = FALSE]
    BY MirageAssumption DEF SetRegister
  <2> QED
    BY <2>1, <2>2, <2>3
<1>2. MirageType'
  BY <1>1 DEF MirageInv, MirageType
<1> QED
  BY <1>1, <1>2, QuietStep

\* The card's record, for steps given by EXCEPT.
CardFields == {"unit_select", "lba", "count", "status", "xfer_complete", "state", "active_unit",
               "current_lba", "sectors_left", "ticks_left", "sector_buf", "buf_pos"}

\* A command is accepted: what was in flight is over, and nothing has moved yet.
Accepted ==
    /\ DOMAIN card' = CardFields
    /\ card'.unit_select = card.unit_select /\ card'.lba = card.lba /\ card'.count = card.count
    /\ card'.sector_buf = card.sector_buf
    /\ DOMAIN job' = {"asked", "moved", "before", "commands"} /\ job'.moved = << >> /\ job'.before = disk
    /\ disk' = disk

LEMMA CommandCases ==
    ASSUME MirageInv, do_command, card.state = "Idle"
    PROVE  /\ Accepted
           /\ \/ /\ job'.asked = NoJob /\ card'.state = "Idle" /\ card'.status = {"ERR"}
                 /\ card'.sectors_left = 0 /\ card'.ticks_left = card.ticks_left
                 /\ card'.active_unit = card.active_unit /\ card'.current_lba = card.current_lba
                 /\ card'.buf_pos = card.buf_pos
              \/ \E cmd \in {"READ", "WRITE"} :
                    /\ card.unit_select \in Attached /\ card.count # 0 /\ card.lba + card.count <= Sectors
                    /\ card'.state = IF cmd = "READ" THEN "ReadPending" ELSE "WritePending"
                    /\ card'.status = {"BUSY"} /\ card'.ticks_left = 1
                    /\ card'.active_unit = card.unit_select /\ card'.current_lba = card.lba
                    /\ card'.sectors_left = card.count /\ card'.buf_pos \in Nat
                    /\ job'.asked = [op |-> cmd, unit |-> card.unit_select,
                                     lba |-> card.lba, count |-> card.count]
              \/ /\ card'.state = "FlushPending" /\ card'.status = {"BUSY"} /\ card'.ticks_left = 1
                 /\ card'.active_unit = card.unit_select /\ card'.current_lba = card.current_lba
                 /\ card'.sectors_left = card.sectors_left /\ card'.buf_pos = card.buf_pos
                 /\ job'.asked = [op |-> "FLUSH", unit |-> card.unit_select,
                                  lba |-> card.lba, count |-> card.count]
<1> DEFINE known == card.unit_select < UNIT_COUNT /\ card.unit_select \in Attached
<1>1. PICK cmd \in {"READ", "WRITE", "FLUSH", "other"}, c \in {card'} :
         /\ card' = c
         /\ c = CASE ~known \/ cmd = "other" -> Failed(card)
                  [] known /\ cmd = "READ" -> BeginTransfer(card, "ReadPending")
                  [] known /\ cmd = "WRITE" -> BeginTransfer(card, "WritePending")
                  [] known /\ cmd = "FLUSH" -> Begun(card, "FlushPending", card.unit_select)
         /\ job' = [job EXCEPT !.commands = @ + 1, !.moved = << >>, !.before = disk,
                       !.asked = IF c.state = "Idle" THEN NoJob
                                 ELSE [op |-> cmd, unit |-> card.unit_select,
                                       lba |-> card.lba, count |-> card.count]]
         /\ disk' = disk
  BY DEF do_command
<1>2. DOMAIN card = CardFields /\ DOMAIN job = {"asked", "moved", "before", "commands"} /\ card.buf_pos \in Nat
  BY DEF MirageInv, MirageType, CardFields
<1>3. /\ DOMAIN job' = {"asked", "moved", "before", "commands"} /\ job'.moved = << >> /\ job'.before = disk
      /\ job'.asked = IF c.state = "Idle" THEN NoJob
                      ELSE [op |-> cmd, unit |-> card.unit_select, lba |-> card.lba, count |-> card.count]
  BY <1>1, <1>2
<1>4. CASE c = Failed(card)
  BY <1>1, <1>2, <1>3, <1>4 DEF Failed, Accepted, CardFields
<1>5. CASE known /\ cmd = "FLUSH"
  <2>1. c = Begun(card, "FlushPending", card.unit_select)
    BY <1>1, <1>5
  <2> QED
    BY <1>1, <1>2, <1>3, <1>5, <2>1 DEF Begun, Accepted, CardFields
<1>6. CASE known /\ cmd \in {"READ", "WRITE"} /\ c # Failed(card)
  <2> DEFINE st == IF cmd = "READ" THEN "ReadPending" ELSE "WritePending"
  <2>1. c = BeginTransfer(card, st)
    BY <1>1, <1>6
  <2>2. ~(card.count = 0 \/ card.lba + card.count > Sectors)
    BY <2>1, <1>6 DEF BeginTransfer
  <2>3. c = [Begun(card, st, card.unit_select) EXCEPT !.current_lba = card.lba, !.sectors_left = card.count,
              !.buf_pos = IF st = "WritePending" THEN 0 ELSE @]
    BY <2>1, <2>2 DEF BeginTransfer
  <2>4. card.lba + card.count <= Sectors
    BY <2>2, MirageAssumption DEF MirageInv, MirageType
  <2>5. st \in {"ReadPending", "WritePending"}
    OBVIOUS
  <2>6. /\ DOMAIN c = CardFields /\ c.state = st /\ c.status = {"BUSY"} /\ c.ticks_left = 1
        /\ c.active_unit = card.unit_select /\ c.current_lba = card.lba /\ c.sectors_left = card.count
        /\ c.buf_pos \in Nat /\ c.unit_select = card.unit_select /\ c.lba = card.lba
        /\ c.count = card.count /\ c.sector_buf = card.sector_buf
    <3> HIDE DEF st
    <3> QED
      BY <2>3, <1>2 DEF Begun, CardFields
  <2>7. c.state # "Idle"
    BY <2>5, <2>6
  <2>8. job'.asked = [op |-> cmd, unit |-> card.unit_select, lba |-> card.lba, count |-> card.count]
    BY <2>7, <1>3
  <2>9. Accepted
    BY <1>1, <1>3, <2>6 DEF Accepted
  <2> QED
    BY <1>1, <1>6, <2>2, <2>4, <2>6, <2>8, <2>9
<1> QED
  BY <1>1, <1>4, <1>5, <1>6

LEMMA CommandStep == ASSUME MirageInv, do_command PROVE MirageInv'
<1>1. CASE card.state # "Idle"
  <2>1. UNCHANGED mirageVars
    BY <1>1 DEF do_command
  <2>2. MirageType'
    BY <2>1 DEF mirageVars, MirageType, MirageInv
  <2> QED
    BY <2>1, <2>2, QuietStep DEF mirageVars
<1>2. CASE card.state = "Idle"
  <2> DEFINE ops == Transfers \cup {"none", "FLUSH", "other"}
             asked(op) == [op |-> op, unit |-> card.unit_select, lba |-> card.lba, count |-> card.count]
  <2>1. Accepted
    BY <1>2, CommandCases
  <2>2. /\ card.unit_select \in Nat /\ card.lba \in Nat /\ card.count \in Nat /\ card.active_unit \in Nat
        /\ card.current_lba \in Nat /\ card.sectors_left \in Nat /\ card.ticks_left \in Nat
        /\ card.sector_buf \in Sector /\ card.buf_pos \in Nat /\ disk \in Disk
    BY DEF MirageInv, MirageType
  <2>3. NoJob \in [op : ops, unit : Nat, lba : Nat, count : Nat]
    BY DEF NoJob
  <2>4. \A op \in ops : asked(op) \in [op : ops, unit : Nat, lba : Nat, count : Nat]
    BY <2>2
  <2>5. << >> \in Seq(Values)
    OBVIOUS
  <2>6. MirageType'
    <3>1. /\ job'.asked \in [op : ops, unit : Nat, lba : Nat, count : Nat]
          /\ card'.state \in {"Idle", "ReadPending", "WritePending", "FlushPending"}
          /\ card'.active_unit \in Nat /\ card'.current_lba \in Nat /\ card'.sectors_left \in Nat
          /\ card'.ticks_left \in Nat /\ card'.buf_pos \in Nat
      BY <1>2, <2>2, <2>3, <2>4, CommandCases DEF Transfers
    <3> QED
      BY <3>1, <2>1, <2>2, <2>5 DEF MirageType, Accepted, CardFields, Reading, Writing
  <2>7. CASE job'.asked = NoJob /\ card'.state = "Idle" /\ card'.status = {"ERR"}
    <3>1. job'.asked.op = "none"
      BY <2>7 DEF NoJob
    <3> QED
      BY <2>1, <2>6, <2>7, <3>1 DEF MirageInv, Ranges, Position, Contents, Delivered, Transfers, Reading,
                                    Writing, Accepted
  <2>8. CASE card'.state = "FlushPending" /\ job'.asked = asked("FLUSH")
    <3>1. job'.asked.op = "FLUSH"
      BY <2>8
    <3> QED
      BY <2>1, <2>6, <2>8, <3>1 DEF MirageInv, Ranges, Position, Contents, Delivered, Transfers, Reading,
                                    Writing, Accepted
  <2>9. ASSUME NEW cmd \in {"READ", "WRITE"},
               card.unit_select \in Attached, card.count # 0, card.lba + card.count <= Sectors,
               card'.state = IF cmd = "READ" THEN "ReadPending" ELSE "WritePending",
               card'.status = {"BUSY"}, card'.active_unit = card.unit_select, card'.current_lba = card.lba,
               card'.sectors_left = card.count, job'.asked = asked(cmd)
        PROVE  MirageInv'
    <3>1. /\ job'.asked.op = cmd /\ job'.asked.unit = card.unit_select /\ job'.asked.lba = card.lba
          /\ job'.asked.count = card.count
      BY <2>9
    <3>2. Passed' = 0 /\ At' = 0 /\ Stored' = 0
      BY <2>2, <2>9, <3>1, MirageAssumption DEF Passed, At, Stored
    <3>3. Ranges'
      BY <2>1, <2>2, <2>9, <3>1 DEF Ranges, Transfers, Reading, Writing
    <3>4. Position'
      BY <2>1, <2>9, <3>2 DEF Position, Accepted
    <3>5. Contents'
      <4>1. ASSUME NEW s \in 0..Sectors - 1 PROVE ~(s >= card.lba /\ s < card.lba + 0)
        BY <2>2, MirageAssumption
      <4> QED
        BY <2>1, <3>1, <3>2, <4>1 DEF Contents, Accepted
    <3>6. Delivered'
      BY <2>1 DEF Delivered, Accepted
    <3> QED
      BY <2>6, <3>3, <3>4, <3>5, <3>6 DEF MirageInv
  <2> QED
    BY <1>2, <2>7, <2>8, <2>9, CommandCases
<1> QED
  BY <1>1, <1>2

\* A step of the transfer itself: the command stays the one asked for.
InFlight ==
    /\ DOMAIN card' = CardFields
    /\ card'.unit_select = card.unit_select /\ card'.lba = card.lba /\ card'.count = card.count
    /\ card'.active_unit = card.active_unit
    /\ job'.asked = job.asked /\ job'.before = job.before
    /\ DOMAIN job' = DOMAIN job

\* The device failed: nothing was stored, and the command is over.
LEMMA FailedStep ==
    ASSUME MirageInv, InFlight, UNCHANGED <<disk, job>>, card.state \in {"ReadPending", "WriteCommitting"},
           card'.state = "Idle", card'.status = {"ERR"}, card'.sectors_left = 0,
           card'.current_lba = card.current_lba, card'.sector_buf = card.sector_buf,
           card'.buf_pos = card.buf_pos, card'.ticks_left \in Nat
    PROVE  MirageInv'
<1>1. MirageType'
  BY DEF MirageInv, MirageType, InFlight, CardFields
<1>2. job.asked.op \in Transfers /\ card.state # "Idle"
  BY DEF MirageInv, Ranges, Transfers, Reading, Writing
<1>3. Passed' = Passed /\ At' = At /\ Stored' = Stored
  BY <1>2 DEF Passed, At, Stored
<1>4. Passed \in 0..job.asked.count - 1
  BY <1>2, MovedBounds DEF MirageInv
<1>5. Ranges'
  BY DEF Ranges, MirageInv, Reading, Writing
<1>6. Position'
  BY <1>3, <1>4 DEF Position, MirageInv, Ranges, Reading, Writing
<1>7. Contents'
  BY <1>3, ContentsKept
<1>8. Delivered'
  BY DEF Delivered, MirageInv, Asked
<1> QED
  BY <1>1, <1>5, <1>6, <1>7, <1>8 DEF MirageInv

LEMMA DiskSector == \A d \in Disk, u \in Attached, s \in 0..Sectors - 1 : d[u][s] \in Sector
BY Zenon DEF Disk

\* A sector was read into the FIFO.
LEMMA FetchStep ==
    ASSUME MirageInv, InFlight, UNCHANGED <<disk, job>>, card.state = "ReadPending",
           card'.state = "ReadReady", card'.status = {"DRQ"}, card'.buf_pos = 0,
           card'.sector_buf = disk[card.active_unit][card.current_lba],
           card'.current_lba = card.current_lba, card'.sectors_left = card.sectors_left,
           card'.ticks_left \in Nat
    PROVE  MirageInv'
<1> DEFINE a == job.asked
<1>1. /\ a.op = "READ" /\ card.active_unit = a.unit /\ a.unit \in Attached
      /\ card.current_lba + card.sectors_left = a.lba + a.count /\ card.sectors_left >= 1
      /\ a.lba + a.count <= Sectors
  BY DEF MirageInv, Ranges, Transfers, Reading
<1>2. card.current_lba \in 0..Sectors - 1
  BY <1>1, MirageAssumption DEF MirageInv, MirageType
<1>3. disk[a.unit][card.current_lba] = job.before[a.unit][card.current_lba]
  BY <1>1, <1>2 DEF MirageInv, Contents
<1>4. disk[a.unit][card.current_lba] \in Sector
  BY <1>1, <1>2, DiskSector DEF MirageInv, MirageType
<1>5. MirageType'
  BY <1>1, <1>4 DEF MirageInv, MirageType, InFlight, CardFields, Reading
<1>6. Passed' = Passed /\ At' = At /\ At \in Int
  BY MirageAssumption DEF Passed, At, MirageInv, MirageType
<1>7. Ranges'
  BY DEF Ranges, MirageInv, Reading, Writing, InFlight
<1>8. Position'
  BY <1>1, <1>3, <1>6, MirageAssumption DEF Position, MirageInv
<1>9. Contents'
  BY <1>1, ContentsKept DEF InFlight
<1>10. Delivered'
  BY DEF Delivered, MirageInv, Asked
<1> QED
  BY <1>5, <1>7, <1>8, <1>9, <1>10 DEF MirageInv

\* The FIFO is ready to be filled.
LEMMA PrepareStep ==
    ASSUME MirageInv, InFlight, UNCHANGED <<disk, job>>, card.state = "WritePending",
           card'.state = "WriteReady", card'.status = {"DRQ"}, card'.buf_pos = 0,
           card'.sector_buf = card.sector_buf, card'.current_lba = card.current_lba,
           card'.sectors_left = card.sectors_left, card'.ticks_left \in Nat
    PROVE  MirageInv'
<1>1. MirageType'
  BY DEF MirageInv, MirageType, InFlight, CardFields, Writing
<1>2. Passed' = Passed /\ At' = At /\ Stored' = Stored
  BY DEF Passed, At, Stored
<1>3. Ranges'
  BY DEF Ranges, MirageInv, Reading, Writing, InFlight
<1>4. Position'
  <2>1. Len(job.moved) = 0 /\ Passed = 0 /\ At = 0
    BY MirageAssumption DEF Position, MirageInv, At
  <2> QED
    BY <1>2, <2>1, MirageAssumption DEF Position
<1>5. Contents'
  BY <1>2, ContentsKept DEF InFlight
<1>6. Delivered'
  BY DEF Delivered, MirageInv, Asked
<1> QED
  BY <1>1, <1>3, <1>4, <1>5, <1>6 DEF MirageInv

\* A sector was stored.
LEMMA CommitStep ==
    ASSUME MirageInv, InFlight, job' = job, card.state = "WriteCommitting",
           disk' = [disk EXCEPT ![card.active_unit][card.current_lba] = card.sector_buf],
           card'.sector_buf = card.sector_buf, card'.buf_pos \in Nat, card'.ticks_left \in Nat,
           card'.sectors_left = card.sectors_left - 1,
           \/ /\ card.sectors_left = 1 /\ card'.state = "Idle" /\ card'.status = {}
              /\ card'.current_lba = card.current_lba
           \/ /\ card.sectors_left # 1 /\ card'.state = "WriteReady" /\ card'.status = {"DRQ"}
              /\ card'.current_lba = card.current_lba + 1 /\ card'.buf_pos = 0
    PROVE  MirageInv'
<1> DEFINE a == job.asked
           u0 == a.unit
           s0 == card.current_lba
<1>1. /\ a.op = "WRITE" /\ card.active_unit = u0 /\ u0 \in Attached /\ s0 >= a.lba
      /\ s0 + card.sectors_left = a.lba + a.count /\ card.sectors_left >= 1
      /\ a.lba + a.count <= Sectors /\ a.count >= 1
  BY DEF MirageInv, Ranges, Transfers, Writing
<1>2. /\ s0 \in Nat /\ a.lba \in Nat /\ a.count \in Nat /\ card.sectors_left \in Nat /\ Sectors \in Nat
      /\ card.sector_buf \in Sector /\ disk \in Disk /\ SECTOR_BYTES \in Nat \ {0} /\ DOMAIN card = CardFields
  BY MirageAssumption DEF MirageInv, MirageType, CardFields
<1>3. s0 \in 0..Sectors - 1
  BY <1>1, <1>2
<1>4. /\ disk' \in Disk /\ disk'[u0][s0] = card.sector_buf
      /\ \A u \in Attached, s \in 0..Sectors - 1 : u # u0 \/ s # s0 => disk'[u][s] = disk[u][s]
  BY <1>1, <1>2, <1>3 DEF Disk
<1>5. MirageType'
  <2>1. /\ card'.sectors_left \in Nat /\ card'.current_lba \in Nat
        /\ card'.state \in {"Idle", "WriteReady"}
    BY <1>1, <1>2
  <2> QED
    BY <2>1, <1>2, <1>4 DEF MirageInv, MirageType, InFlight, CardFields, Writing
<1>6. /\ Stored = Passed /\ Passed = s0 - a.lba /\ Passed \in Nat /\ Stored' = Passed + 1
      /\ Len(job.moved) = At + SECTOR_BYTES
      /\ \A i \in 1..SECTOR_BYTES : card.sector_buf[i] = job.moved[At + i]
  <2>1. Stored = Passed /\ Passed = s0 - a.lba
    BY DEF Stored, Passed
  <2>2. Passed \in Nat
    BY <2>1, <1>1, <1>2
  <2>3. Stored' = Passed + 1
    <3>1. CASE card'.state = "Idle"
      <4>1. card.sectors_left = 1 /\ Stored' = a.count
        BY <3>1 DEF Stored
      <4>2. a.count = (s0 - a.lba) + 1
        BY <4>1, <1>1, <1>2
      <4> QED
        BY <4>1, <4>2, <2>1
    <3>2. CASE card'.state = "WriteReady"
      <4>1. card'.current_lba = s0 + 1 /\ Stored' = card'.current_lba - a.lba
        BY <3>2 DEF Stored, Passed
      <4> QED
        BY <4>1, <2>1, <1>2
    <3> QED
      BY <3>1, <3>2
  <2> QED
    BY <2>1, <2>2, <2>3 DEF MirageInv, Position
<1>7. (Passed + 1) * SECTOR_BYTES = At + SECTOR_BYTES /\ At \in Nat
  BY <1>2, <1>6, MulNext DEF At
<1>8. Ranges'
  <2>1. /\ card'.active_unit = u0 /\ job'.asked = a /\ card'.state \in {"Idle", "WriteReady"}
        /\ card'.state = "Idle" => card'.status = {}
    BY <1>1 DEF InFlight
  <2>2. card'.state = "WriteReady" =>
          /\ card'.current_lba >= a.lba /\ card'.sectors_left >= 1 /\ card'.status = {"DRQ"}
          /\ card'.current_lba + card'.sectors_left = a.lba + a.count
    BY <1>1, <1>2
  <2> QED
    BY <2>1, <2>2, <1>1 DEF Ranges, Transfers, Reading, Writing
<1>9. Position'
  <2>1. CASE card'.state = "Idle"
    <3>1. a.count = Passed + 1
      <4>1. card.sectors_left = 1
        BY <2>1
      <4> QED
        BY <4>1, <1>1, <1>2, <1>6
    <3>2. Len(job.moved) = a.count * SECTOR_BYTES
      BY <3>1, <1>6, <1>7
    <3> QED
      BY <2>1, <3>2 DEF Position
  <2>2. CASE card'.state = "WriteReady"
    <3>1. Passed' = Passed + 1 /\ card'.buf_pos = 0
      BY <2>2, <1>2, <1>6 DEF Passed
    <3>2. At' = At + SECTOR_BYTES
      BY <3>1, <1>7 DEF At
    <3>3. Len(job.moved) = At' + 0 /\ 0 < SECTOR_BYTES
      BY <3>2, <1>2, <1>6, <1>7
    <3>4. 1..0 = {}
      OBVIOUS
    <3> QED
      BY <2>2, <3>1, <3>3, <3>4 DEF Position
  <2> QED
    BY <2>1, <2>2
<1>10. Contents'
  <2> SUFFICES ASSUME NEW u \in Attached, NEW s \in 0..Sectors - 1
               PROVE  IF u = u0 /\ s >= a.lba /\ s < a.lba + (Passed + 1)
                      THEN \A i \in 1..SECTOR_BYTES : disk'[u][s][i] = job.moved[(s - a.lba) * SECTOR_BYTES + i]
                      ELSE disk'[u][s] = job.before[u][s]
    BY <1>1, <1>6 DEF Contents
  <2>1. CASE u = u0 /\ s = s0
    <3>1. s >= a.lba /\ s < a.lba + (Passed + 1) /\ s - a.lba = Passed
      BY <2>1, <1>1, <1>2, <1>6
    <3>2. (s - a.lba) * SECTOR_BYTES = At
      BY <3>1 DEF At
    <3> QED
      BY <2>1, <3>1, <3>2, <1>4, <1>6
  <2>2. CASE ~(u = u0 /\ s = s0)
    <3>1. disk'[u][s] = disk[u][s]
      BY <2>2, <1>4
    <3>2. u = u0 => (s < a.lba + (Passed + 1) <=> s < a.lba + Stored)
      <4> SUFFICES ASSUME u = u0 PROVE s < a.lba + (Passed + 1) <=> s < a.lba + Stored
        OBVIOUS
      <4>1. s # s0 /\ s \in Nat
        BY <2>2, <1>2
      <4>2. Passed = s0 - a.lba /\ Stored = s0 - a.lba
        BY <1>6
      <4>3. s < a.lba + ((s0 - a.lba) + 1) <=> s < a.lba + (s0 - a.lba)
        BY <4>1, <1>2
      <4> QED
        BY <4>2, <4>3
    <3> QED
      BY <3>1, <3>2, <1>1 DEF MirageInv, Contents
  <2> QED
    BY <2>1, <2>2
<1>11. Delivered'
  BY <1>1 DEF Delivered
<1> QED
  BY <1>5, <1>8, <1>9, <1>10, <1>11 DEF MirageInv

LEMMA TickStep == ASSUME MirageInv, tick PROVE MirageInv'
<1> DEFINE c == [card EXCEPT !.ticks_left = @ - 1]
<1>1. PICK ok \in BOOLEAN :
        /\ card' = IF c.ticks_left > 0 THEN c
                   ELSE CASE c.state = "ReadPending" -> complete_read_fetch(c, ok)
                          [] c.state = "WritePending" -> complete_write_prepare(c)
                          [] c.state = "WriteCommitting" -> complete_write_commit(c, ok)
                          [] c.state = "FlushPending" -> complete_flush(c)
                          [] OTHER -> c
        /\ disk' = IF c.ticks_left = 0 /\ c.state = "WriteCommitting" /\ ok
                   THEN [disk EXCEPT ![c.active_unit][c.current_lba] = c.sector_buf]
                   ELSE disk
  BY DEF tick
<1>2. job' = job /\ card.ticks_left > 0
  BY DEF tick
<1>3. /\ DOMAIN c = CardFields /\ c.ticks_left = card.ticks_left - 1
      /\ c.unit_select = card.unit_select /\ c.lba = card.lba /\ c.count = card.count
      /\ c.status = card.status /\ c.state = card.state /\ c.active_unit = card.active_unit
      /\ c.current_lba = card.current_lba /\ c.sectors_left = card.sectors_left
      /\ c.sector_buf = card.sector_buf /\ c.buf_pos = card.buf_pos
  BY DEF MirageInv, MirageType, CardFields
<1>4. c.ticks_left \in Nat
  BY <1>2, <1>3 DEF MirageInv, MirageType
<1>5. card.sectors_left \in Nat /\ card.buf_pos \in Nat
  BY DEF MirageInv, MirageType
<1> HIDE DEF c
<1>6. c.ticks_left = 0 \/ c.ticks_left > 0
  BY <1>4
<1>7. CASE card' = c
  <2>1. disk' = disk
    <3>1. CASE c.ticks_left = 0 /\ c.state = "WriteCommitting" /\ ok
      <4>1. card' = complete_write_commit(c, ok)
        BY <3>1, <1>1
      <4>2. card'.state # "WriteCommitting"
        BY <3>1, <4>1, <1>3 DEF complete_write_commit, CardFields
      <4> QED
        BY <4>2, <3>1, <1>7
    <3> QED
      BY <3>1, <1>1
  <2>2. MirageType'
    BY <1>2, <1>3, <1>4, <1>7, <2>1 DEF MirageInv, MirageType, CardFields
  <2> QED
    BY <1>2, <1>3, <1>7, <2>1, <2>2, QuietStep
<1>8. CASE c.ticks_left = 0 /\ card.state = "ReadPending"
  <2>1. card' = complete_read_fetch(c, ok) /\ disk' = disk
    BY <1>1, <1>3, <1>8
  <2>2. CASE ~ok
    <3>1. card' = Failed(c)
      BY <2>1, <2>2 DEF complete_read_fetch
    <3>2. InFlight
      BY <3>1, <1>2, <1>3 DEF Failed, InFlight, CardFields
    <3>3. /\ card'.state = "Idle" /\ card'.status = {"ERR"} /\ card'.sectors_left = 0
          /\ card'.current_lba = card.current_lba /\ card'.sector_buf = card.sector_buf
          /\ card'.buf_pos = card.buf_pos /\ card'.ticks_left \in Nat
      BY <3>1, <1>3, <1>4 DEF Failed, CardFields
    <3> QED
      BY <3>2, <3>3, <2>1, <1>2, <1>8, FailedStep
  <2>3. CASE ok
    <3>1. card' = [c EXCEPT !.sector_buf = disk[c.active_unit][c.current_lba], !.buf_pos = 0,
                            !.state = "ReadReady", !.status = {"DRQ"}, !.xfer_complete = TRUE]
      BY <2>1, <2>3 DEF complete_read_fetch
    <3>2. InFlight
      BY <3>1, <1>2, <1>3 DEF InFlight, CardFields
    <3>3. /\ card'.state = "ReadReady" /\ card'.status = {"DRQ"} /\ card'.buf_pos = 0
          /\ card'.sector_buf = disk[card.active_unit][card.current_lba]
          /\ card'.current_lba = card.current_lba /\ card'.sectors_left = card.sectors_left
          /\ card'.ticks_left \in Nat
      BY <3>1, <1>3, <1>4 DEF CardFields
    <3> QED
      BY <3>2, <3>3, <2>1, <1>2, <1>8, FetchStep
  <2> QED
    BY <2>2, <2>3
<1>9. CASE c.ticks_left = 0 /\ card.state = "WritePending"
  <2>1. card' = complete_write_prepare(c) /\ disk' = disk
    BY <1>1, <1>3, <1>9
  <2>2. InFlight
    BY <2>1, <1>2, <1>3 DEF InFlight, CardFields, complete_write_prepare
  <2>3. /\ card'.state = "WriteReady" /\ card'.status = {"DRQ"} /\ card'.buf_pos = 0
        /\ card'.sector_buf = card.sector_buf /\ card'.current_lba = card.current_lba
        /\ card'.sectors_left = card.sectors_left /\ card'.ticks_left \in Nat
    BY <2>1, <1>3, <1>4 DEF CardFields, complete_write_prepare
  <2> QED
    BY <2>1, <2>2, <2>3, <1>2, <1>9, PrepareStep
<1>10. CASE c.ticks_left = 0 /\ card.state = "WriteCommitting"
  <2>1. card' = complete_write_commit(c, ok)
    BY <1>1, <1>3, <1>10
  <2>2. CASE ~ok
    <3>1. card' = Failed(c) /\ disk' = disk
      BY <2>1, <2>2, <1>1 DEF complete_write_commit
    <3>2. InFlight
      BY <3>1, <1>2, <1>3 DEF Failed, InFlight, CardFields
    <3>3. /\ card'.state = "Idle" /\ card'.status = {"ERR"} /\ card'.sectors_left = 0
          /\ card'.current_lba = card.current_lba /\ card'.sector_buf = card.sector_buf
          /\ card'.buf_pos = card.buf_pos /\ card'.ticks_left \in Nat
      BY <3>1, <1>3, <1>4 DEF Failed, CardFields
    <3> QED
      BY <3>1, <3>2, <3>3, <1>2, <1>10, FailedStep
  <2>3. CASE ok
    <3>1. disk' = [disk EXCEPT ![card.active_unit][card.current_lba] = card.sector_buf]
      BY <2>3, <1>1, <1>3, <1>10
    <3> DEFINE d == [c EXCEPT !.sectors_left = @ - 1, !.xfer_complete = TRUE]
    <3>2. card' = IF d.sectors_left = 0 THEN [d EXCEPT !.state = "Idle", !.status = {}]
                  ELSE [d EXCEPT !.current_lba = NextLba(@), !.buf_pos = 0, !.state = "WriteReady",
                                 !.status = {"DRQ"}]
      BY <2>1, <2>3 DEF complete_write_commit
    <3>3. /\ DOMAIN d = CardFields /\ d.sectors_left = card.sectors_left - 1
          /\ d.unit_select = card.unit_select /\ d.lba = card.lba /\ d.count = card.count
          /\ d.active_unit = card.active_unit /\ d.current_lba = card.current_lba
          /\ d.sector_buf = card.sector_buf /\ d.buf_pos = card.buf_pos /\ d.ticks_left = c.ticks_left
      BY <1>3 DEF CardFields
    <3> HIDE DEF d
    <3>4. InFlight
      BY <3>2, <3>3, <1>2 DEF InFlight, CardFields
    <3>7. d.sectors_left # 0 => NextLba(d.current_lba) = card.current_lba + 1
      BY <3>3, <1>5, <1>10, NextLbaIsNext DEF Writing
    <3>5. /\ card'.sector_buf = card.sector_buf /\ card'.buf_pos \in Nat /\ card'.ticks_left \in Nat
          /\ card'.sectors_left = card.sectors_left - 1
          /\ \/ /\ d.sectors_left = 0 /\ card'.state = "Idle" /\ card'.status = {}
                /\ card'.current_lba = card.current_lba
             \/ /\ d.sectors_left # 0 /\ card'.state = "WriteReady" /\ card'.status = {"DRQ"}
                /\ card'.current_lba = card.current_lba + 1 /\ card'.buf_pos = 0
      BY <3>2, <3>3, <3>7, <1>4, <1>5 DEF CardFields
    <3>6. d.sectors_left = 0 <=> card.sectors_left = 1
      BY <3>3, <1>5
    <3> QED
      BY <3>1, <3>4, <3>5, <3>6, <1>2, <1>10, CommitStep
  <2> QED
    BY <2>2, <2>3
<1>11. CASE c.ticks_left = 0 /\ card.state = "FlushPending"
  <2>1. card' = complete_flush(c) /\ disk' = disk
    BY <1>1, <1>3, <1>11
  <2>2. /\ DOMAIN card' = CardFields /\ card'.state = "Idle" /\ card'.status = {} /\ card'.ticks_left \in Nat
        /\ card'.unit_select = card.unit_select /\ card'.lba = card.lba /\ card'.count = card.count
        /\ card'.active_unit = card.active_unit /\ card'.sectors_left = card.sectors_left
        /\ card'.current_lba = card.current_lba /\ card'.sector_buf = card.sector_buf
        /\ card'.buf_pos = card.buf_pos
    BY <2>1, <1>3, <1>4 DEF complete_flush, CardFields
  <2>3. job.asked.op = "FLUSH"
    BY <1>11 DEF MirageInv, Ranges
  <2>4. MirageType'
    BY <2>1, <2>2, <1>2 DEF MirageInv, MirageType, CardFields
  <2>5. Contents'
    BY <2>1, <2>3, <1>2, ContentsKept
  <2> QED
    BY <2>1, <2>2, <2>3, <2>4, <2>5, <1>2
       DEF MirageInv, Ranges, Position, Delivered, Transfers, Reading, Writing
<1>12. CASE c.ticks_left > 0
  <2>1. card' = c
    BY <1>1, <1>12
  <2> QED
    BY <2>1, <1>7
<1>13. CASE /\ c.ticks_left = 0
            /\ card.state \notin {"ReadPending", "WritePending", "WriteCommitting", "FlushPending"}
  <2>1. card' = c
    BY <1>1, <1>3, <1>13
  <2> QED
    BY <2>1, <1>7
<1> QED
  BY <1>6, <1>8, <1>9, <1>10, <1>11, <1>12, <1>13

\* One more byte has moved.
LEMMA AppendFacts ==
    ASSUME MirageType, NEW b \in Values, NEW m, m = Append(job.moved, b)
    PROVE  /\ m \in Seq(Values) /\ Len(m) = Len(job.moved) + 1 /\ Len(job.moved) \in Nat
           /\ m[Len(job.moved) + 1] = b
           /\ \A k \in 1..Len(job.moved) : m[k] = job.moved[k]
<1>1. job.moved \in Seq(Values)
  BY DEF MirageType
<1> QED
  BY <1>1, AppendProperties, LenProperties

LEMMA DataReadStep == ASSUME MirageInv, data_read PROVE MirageInv'
<1> DEFINE a == job.asked
           n == Len(job.moved)
           b == card.sector_buf[card.buf_pos + 1]
           c == [card EXCEPT !.buf_pos = @ + 1]
<1>1. /\ card.state = "ReadReady"
      /\ card' = CASE c.buf_pos < SECTOR_BYTES -> c
                   [] c.buf_pos >= SECTOR_BYTES /\ c.sectors_left = 1 ->
                          [c EXCEPT !.sectors_left = 0, !.state = "Idle", !.status = {}]
                   [] OTHER -> [c EXCEPT !.sectors_left = @ - 1, !.current_lba = NextLba(@),
                                          !.state = "ReadPending", !.status = {"BUSY"}, !.ticks_left = 1]
      /\ job' = [job EXCEPT !.moved = Append(@, b)]
      /\ disk' = disk
  BY DEF data_read
<1>2. /\ DOMAIN c = CardFields /\ c.buf_pos = card.buf_pos + 1 /\ c.ticks_left = card.ticks_left
      /\ c.unit_select = card.unit_select /\ c.lba = card.lba /\ c.count = card.count
      /\ c.status = card.status /\ c.state = card.state /\ c.active_unit = card.active_unit
      /\ c.current_lba = card.current_lba /\ c.sectors_left = card.sectors_left
      /\ c.sector_buf = card.sector_buf
  BY DEF MirageInv, MirageType, CardFields
<1>3. /\ a.op = "READ" /\ card.active_unit = a.unit /\ card.current_lba >= a.lba
      /\ a.unit \in Attached /\ card.sectors_left >= 1 /\ a.lba + a.count <= Sectors
      /\ card.current_lba + card.sectors_left = a.lba + a.count /\ card.status \in {{"BUSY"}, {"DRQ"}}
      /\ a.count >= 1
  BY <1>1 DEF MirageInv, Ranges, Reading, Transfers
<1>4. /\ a.lba \in Nat /\ a.count \in Nat /\ card.current_lba \in Nat /\ card.sectors_left \in Nat
      /\ card.buf_pos \in Nat /\ SECTOR_BYTES \in Nat \ {0} /\ card.sector_buf \in Sector
      /\ DOMAIN job = {"asked", "moved", "before", "commands"} /\ card.ticks_left \in Nat
  BY MirageAssumption DEF MirageInv, MirageType
<1>5. /\ n = At + card.buf_pos /\ card.buf_pos < SECTOR_BYTES
      /\ card.sector_buf = job.before[a.unit][card.current_lba]
  BY <1>1 DEF MirageInv, Position
<1>6. b \in Values
  BY <1>4, <1>5 DEF Sector
<1>7. /\ DOMAIN job' = DOMAIN job /\ job'.asked = a /\ job'.before = job.before
      /\ job'.moved = Append(job.moved, b)
  BY <1>1, <1>4
<1>8. /\ job'.moved \in Seq(Values) /\ Len(job'.moved) = n + 1 /\ n \in Nat /\ job'.moved[n + 1] = b
      /\ \A k \in 1..n : job'.moved[k] = job.moved[k]
  <2>1. MirageType
    BY DEF MirageInv
  <2>2. PICK m : m = job'.moved
    OBVIOUS
  <2>3. m = Append(job.moved, b)
    BY <2>2, <1>7
  <2> HIDE DEF b
  <2>4. m \in Seq(Values) /\ Len(m) = n + 1 /\ n \in Nat /\ m[n + 1] = b /\ \A k \in 1..n : m[k] = job.moved[k]
    BY <2>1, <2>3, <1>6, AppendFacts, Zenon
  <2> QED
    BY <2>2, <2>4, Zenon
<1>9. Passed = card.current_lba - a.lba /\ Passed \in Nat /\ Passed + 1 <= a.count
  BY <1>3, <1>4 DEF Passed
<1>10. (Passed + 1) * SECTOR_BYTES = At + SECTOR_BYTES
  BY <1>4, <1>9, MulNext DEF At
<1>16. At \in Nat
  BY <1>4, <1>9, MulNext DEF At
<1>11. Delivered'
  <2>1. ASSUME NEW k \in 1..n PROVE job'.moved[k] = Asked(k)'
    <3>1. Asked(k)' = Asked(k)
      BY <1>7 DEF Asked
    <3> QED
      BY <3>1, <1>3, <1>8 DEF MirageInv, Delivered
  <2>2. ASSUME NEW k, k = n + 1 PROVE job'.moved[k] = Asked(k)'
    <3>1. k - 1 = Passed * SECTOR_BYTES + card.buf_pos
      <4>1. k - 1 = At + card.buf_pos
        BY <2>2, <1>4, <1>5, <1>8, <1>16
      <4> QED
        BY <4>1 DEF At
    <3>2. card.buf_pos \in 0..SECTOR_BYTES - 1
      BY <1>4, <1>5
    <3>3. (k - 1) \div SECTOR_BYTES = Passed /\ (k - 1) % SECTOR_BYTES = card.buf_pos
      BY <3>1, <3>2, <1>9, SectorDivision
    <3>4. a.lba + Passed = card.current_lba
      BY <1>4, <1>9
    <3>5. Asked(k)' = job.before[a.unit][a.lba + Passed][card.buf_pos + 1]
      BY <3>3, <1>7 DEF Asked
    <3> QED
      BY <2>2, <3>4, <3>5, <1>5, <1>8
  <2>3. ASSUME NEW k \in 1..Len(job'.moved) PROVE job'.moved[k] = Asked(k)'
    <3>1. k \in 1..n \/ k = n + 1
      BY <1>8
    <3> QED
      BY <3>1, <2>1, <2>2
  <2> QED
    BY <2>3 DEF Delivered
<1>12. Contents'
  BY <1>1, <1>3, <1>7, <1>8, ContentsKept
<1>17. /\ disk' \in Disk /\ DOMAIN job' = {"asked", "moved", "before", "commands"}
       /\ job'.asked \in [op : Transfers \cup {"none", "FLUSH", "other"}, unit : Nat, lba : Nat, count : Nat]
       /\ job'.moved \in Seq(Values) /\ job'.before \in Disk
  BY <1>1, <1>4, <1>7, <1>8 DEF MirageInv, MirageType
<1>18. /\ card.unit_select \in Nat /\ card.lba \in Nat /\ card.count \in Nat /\ card.active_unit \in Nat
       /\ card.state \in Reading
  BY <1>1 DEF MirageInv, MirageType, Reading
<1> HIDE DEF c
<1>13. CASE c.buf_pos < SECTOR_BYTES
  <2>1. card' = c
    BY <1>1, <1>2, <1>4, <1>13
  <2>2. MirageType'
    <3>1. /\ DOMAIN card' = CardFields /\ card'.buf_pos \in Nat /\ card'.ticks_left \in Nat
          /\ card'.unit_select \in Nat /\ card'.lba \in Nat /\ card'.count \in Nat
          /\ card'.state \in Reading /\ card'.active_unit \in Nat
          /\ card'.current_lba \in Nat /\ card'.sectors_left \in Nat /\ card'.sector_buf \in Sector
      BY <2>1, <1>2, <1>4, <1>18
    <3> QED
      BY <3>1, <1>17 DEF MirageType, CardFields
  <2>3. Ranges'
    BY <2>1, <1>1, <1>2, <1>3, <1>7 DEF Ranges, MirageInv, Transfers, Reading, Writing
  <2>4. Passed' = Passed /\ At' = At
    BY <2>1, <1>2, <1>7 DEF Passed, At
  <2>5. n + 1 = At + (card.buf_pos + 1)
    BY <1>4, <1>5, <1>16
  <2>6. Position'
    BY <2>1, <2>4, <2>5, <1>1, <1>2, <1>5, <1>7, <1>8, <1>13 DEF Position
  <2> QED
    BY <2>2, <2>3, <2>6, <1>11, <1>12 DEF MirageInv
<1>14. CASE c.buf_pos >= SECTOR_BYTES /\ c.sectors_left = 1
  <2>1. card' = [c EXCEPT !.sectors_left = 0, !.state = "Idle", !.status = {}]
    BY <1>1, <1>2, <1>4, <1>14
  <2>2. /\ DOMAIN card' = CardFields /\ card'.state = "Idle" /\ card'.status = {} /\ card'.sectors_left = 0
        /\ card'.buf_pos = card.buf_pos + 1 /\ card'.ticks_left = card.ticks_left
        /\ card'.unit_select = card.unit_select /\ card'.lba = card.lba /\ card'.count = card.count
        /\ card'.active_unit = card.active_unit /\ card'.current_lba = card.current_lba
        /\ card'.sector_buf = card.sector_buf
    BY <2>1, <1>2 DEF CardFields
  <2>3. MirageType'
    <3>1. card'.buf_pos \in Nat /\ card'.sectors_left \in Nat
      BY <2>2, <1>4
    <3> QED
      BY <3>1, <2>2, <1>4, <1>17, <1>18 DEF MirageType, CardFields
  <2>4. Ranges'
    BY <2>2, <1>3, <1>7 DEF Ranges, Transfers, Reading, Writing
  <2>5. card.buf_pos + 1 = SECTOR_BYTES /\ card.sectors_left = 1
    BY <1>2, <1>4, <1>5, <1>14
  <2>6. a.count = Passed + 1
    BY <2>5, <1>3, <1>4, <1>9
  <2>7. n + 1 = At + SECTOR_BYTES
    BY <2>5, <1>4, <1>5, <1>16
  <2>8. n + 1 = a.count * SECTOR_BYTES
    BY <2>6, <2>7, <1>10
  <2>9. Position'
    BY <2>2, <2>8, <1>7, <1>8 DEF Position
  <2> QED
    BY <2>3, <2>4, <2>9, <1>11, <1>12 DEF MirageInv
<1>15. CASE c.buf_pos >= SECTOR_BYTES /\ c.sectors_left # 1
  <2>1. card' = [c EXCEPT !.sectors_left = @ - 1, !.current_lba = NextLba(@),
                          !.state = "ReadPending", !.status = {"BUSY"}, !.ticks_left = 1]
    BY <1>1, <1>2, <1>4, <1>15
  <2>0. NextLba(c.current_lba) = card.current_lba + 1
    BY <1>1, <1>2, <1>15, NextLbaIsNext DEF Reading
  <2>2. /\ DOMAIN card' = CardFields /\ card'.state = "ReadPending" /\ card'.status = {"BUSY"}
        /\ card'.sectors_left = card.sectors_left - 1 /\ card'.current_lba = card.current_lba + 1
        /\ card'.buf_pos = card.buf_pos + 1 /\ card'.ticks_left = 1
        /\ card'.unit_select = card.unit_select /\ card'.lba = card.lba /\ card'.count = card.count
        /\ card'.active_unit = card.active_unit /\ card'.sector_buf = card.sector_buf
    BY <2>1, <2>0, <1>2 DEF CardFields
  <2>3. card.sectors_left - 1 \in Nat /\ card.sectors_left - 1 >= 1
    BY <1>2, <1>3, <1>4, <1>15
  <2>4. MirageType'
    <3>1. card'.current_lba \in Nat /\ card'.sectors_left \in Nat /\ card'.buf_pos \in Nat
      BY <2>2, <2>3, <1>4
    <3>2. card'.state \in Reading /\ card'.ticks_left \in Nat
      BY <2>2 DEF Reading
    <3> QED
      BY <3>1, <3>2, <2>2, <1>4, <1>17, <1>18 DEF MirageType, CardFields
  <2>5. /\ card'.current_lba >= a.lba /\ card'.sectors_left >= 1
        /\ card'.current_lba + card'.sectors_left = a.lba + a.count
    BY <2>2, <2>3, <1>3, <1>4
  <2>6. Ranges'
    BY <2>2, <2>5, <1>3, <1>7 DEF Ranges, Transfers, Reading, Writing
  <2>7. card.buf_pos + 1 = SECTOR_BYTES
    BY <1>2, <1>4, <1>5, <1>15
  <2>8. n + 1 = At + SECTOR_BYTES
    BY <2>7, <1>4, <1>5, <1>16
  <2>9. Passed' = Passed + 1
    BY <2>2, <1>4, <1>7, <1>9 DEF Passed
  <2>10. At' = n + 1
    BY <2>8, <2>9, <1>10 DEF At
  <2>11. Position'
    BY <2>2, <2>10, <1>7, <1>8 DEF Position
  <2> QED
    BY <2>4, <2>6, <2>11, <1>11, <1>12 DEF MirageInv
<1> QED
  BY <1>2, <1>4, <1>13, <1>14, <1>15

LEMMA DataWriteStep == ASSUME MirageInv, data_write PROVE MirageInv'
<1> DEFINE a == job.asked
           n == Len(job.moved)
           at == card.buf_pos + 1
           b == n + 1
           c == [card EXCEPT !.sector_buf[card.buf_pos + 1] = b, !.buf_pos = @ + 1]
<1>1. /\ card.state = "WriteReady"
      /\ card' = IF c.buf_pos < SECTOR_BYTES THEN c
                 ELSE [c EXCEPT !.state = "WriteCommitting", !.status = {"BUSY"}, !.ticks_left = 1]
      /\ job' = [job EXCEPT !.moved = Append(@, b)]
      /\ disk' = disk
  BY DEF data_write
<1>2. /\ a.op = "WRITE" /\ card.active_unit = a.unit /\ card.current_lba >= a.lba
      /\ card.sectors_left >= 1 /\ card.current_lba + card.sectors_left = a.lba + a.count
      /\ a.unit \in Attached /\ a.lba + a.count <= Sectors /\ card.status \in {{"BUSY"}, {"DRQ"}}
      /\ a.count >= 1
  BY <1>1 DEF MirageInv, Ranges, Writing, Transfers
<1>3. /\ a.lba \in Nat /\ a.count \in Nat /\ card.current_lba \in Nat /\ card.sectors_left \in Nat
      /\ card.buf_pos \in Nat /\ SECTOR_BYTES \in Nat \ {0} /\ card.sector_buf \in Sector
      /\ DOMAIN job = {"asked", "moved", "before", "commands"} /\ DOMAIN card = CardFields
      /\ job.moved \in Seq(Values) /\ card.ticks_left \in Nat
  BY MirageAssumption DEF MirageInv, MirageType, CardFields
<1>4. /\ n = At + card.buf_pos /\ card.buf_pos < SECTOR_BYTES
      /\ \A i \in 1..card.buf_pos : card.sector_buf[i] = job.moved[At + i]
  BY <1>1 DEF MirageInv, Position
<1>5. n \in Nat /\ b \in Values
  BY <1>3, LenProperties DEF Values
<1>6. /\ DOMAIN job' = DOMAIN job /\ job'.asked = a /\ job'.before = job.before
      /\ job'.moved = Append(job.moved, b)
  BY <1>1, <1>3
<1>7. /\ job'.moved \in Seq(Values) /\ Len(job'.moved) = n + 1 /\ job'.moved[n + 1] = b
      /\ \A k \in 1..n : job'.moved[k] = job.moved[k]
  BY <1>5, <1>6, AppendFacts DEF MirageInv
<1>8. Passed = card.current_lba - a.lba /\ Passed \in Nat
  BY <1>2, <1>3 DEF Passed
<1>9. At \in Nat
  BY <1>3, <1>8, MulNext DEF At
<1>10. at \in 1..SECTOR_BYTES
  BY <1>3, <1>4
<1> DEFINE buf == [card.sector_buf EXCEPT ![at] = b]
<1>11. /\ buf \in Sector /\ buf[at] = b
       /\ \A i \in 1..SECTOR_BYTES : i # at => buf[i] = card.sector_buf[i]
  <2> HIDE DEF at, b
  <2> QED
    BY <1>3, <1>5, <1>10 DEF Sector
<1>12. \A i \in 1..at : buf[i] = job'.moved[At + i]
  <2> SUFFICES ASSUME NEW i \in 1..at PROVE buf[i] = job'.moved[At + i]
    OBVIOUS
  <2>1. CASE i = at
    <3>1. At + i = n + 1
      BY <2>1, <1>3, <1>4, <1>9
    <3> QED
      BY <3>1, <2>1, <1>7, <1>11
  <2>2. CASE i # at
    <3>1. i \in 1..card.buf_pos /\ i \in 1..SECTOR_BYTES /\ At + i \in 1..n
      BY <2>2, <1>3, <1>4, <1>9
    <3> HIDE DEF buf, at
    <3> QED
      BY <3>1, <2>2, <1>4, <1>7, <1>11
  <2> QED
    BY <2>1, <2>2
<1>13. /\ DOMAIN c = CardFields /\ c.buf_pos = at /\ c.ticks_left = card.ticks_left /\ c.sector_buf = buf
       /\ c.unit_select = card.unit_select /\ c.lba = card.lba /\ c.count = card.count
       /\ c.status = card.status /\ c.state = card.state /\ c.active_unit = card.active_unit
       /\ c.current_lba = card.current_lba /\ c.sectors_left = card.sectors_left
  BY <1>3 DEF CardFields
<1> HIDE DEF c, buf
<1>14. n + 1 = At + at
  BY <1>3, <1>4, <1>9
<1>15. /\ DOMAIN card' = CardFields /\ card'.buf_pos = at /\ card'.sector_buf = buf
       /\ card'.unit_select = card.unit_select /\ card'.lba = card.lba /\ card'.count = card.count
       /\ card'.active_unit = card.active_unit /\ card'.current_lba = card.current_lba
       /\ card'.sectors_left = card.sectors_left /\ card'.ticks_left \in Nat
       /\ card'.status \in {{"BUSY"}, {"DRQ"}}
       /\ card'.state = IF at < SECTOR_BYTES THEN "WriteReady" ELSE "WriteCommitting"
  <2>1. CASE c.buf_pos < SECTOR_BYTES
    BY <2>1, <1>1, <1>2, <1>3, <1>13
  <2>2. CASE ~(c.buf_pos < SECTOR_BYTES)
    <3>1. card' = [c EXCEPT !.state = "WriteCommitting", !.status = {"BUSY"}, !.ticks_left = 1]
      BY <2>2, <1>1
    <3> HIDE DEF at
    <3> QED
      BY <2>2, <3>1, <1>13 DEF CardFields
  <2> QED
    BY <2>1, <2>2
<1>16. card'.state \in Writing /\ card'.state \in {"WriteReady", "WriteCommitting"}
  BY <1>15 DEF Writing
<1>17. Passed' = Passed /\ At' = At /\ Stored' = Stored
  BY <1>1, <1>6, <1>15, <1>16 DEF Passed, At, Stored
<1>18. MirageType'
  BY <1>1, <1>3, <1>6, <1>7, <1>11, <1>15, <1>16 DEF MirageInv, MirageType, CardFields
<1>19. Ranges'
  BY <1>2, <1>6, <1>15, <1>16 DEF Ranges, Transfers, Reading, Writing
<1>20. Position'
  <2>1. CASE at < SECTOR_BYTES
    BY <2>1, <1>6, <1>7, <1>12, <1>14, <1>15, <1>17 DEF Position
  <2>2. CASE ~(at < SECTOR_BYTES)
    <3>1. at = SECTOR_BYTES
      BY <2>2, <1>3, <1>10
    <3> QED
      BY <2>2, <3>1, <1>6, <1>7, <1>12, <1>14, <1>15, <1>17 DEF Position
  <2> QED
    BY <2>1, <2>2
<1>21. Contents'
  BY <1>1, <1>6, <1>7, <1>17, ContentsKept
<1>22. Delivered'
  BY <1>2, <1>6 DEF Delivered
<1> QED
  BY <1>18, <1>19, <1>20, <1>21, <1>22 DEF MirageInv

LEMMA MirageNextInv == MirageInv /\ [MirageNext]_mirageVars => MirageInv'
<1> SUFFICES ASSUME MirageInv, [MirageNext]_mirageVars PROVE MirageInv'
  OBVIOUS
<1>1. CASE UNCHANGED mirageVars
  <2>1. MirageType'
    BY <1>1 DEF mirageVars, MirageType, MirageInv
  <2> QED
    BY <1>1, <2>1, QuietStep DEF mirageVars
<1> QED
  BY <1>1, SetRegisterStep, CommandStep, TickStep, DataReadStep, DataWriteStep DEF MirageNext

LEMMA MirageInvTransfers == MirageInv => TransfersAreTheSectorsAsked
<1> SUFFICES ASSUME MirageInv PROVE TransfersAreTheSectorsAsked
  OBVIOUS
<1> DEFINE a == job.asked
           n == Len(job.moved)
<1>1. /\ a.lba \in Nat /\ a.count \in Nat /\ n \in Nat /\ SECTOR_BYTES \in Nat \ {0} /\ Sectors \in Nat
      /\ job.moved \in Seq(Values)
  BY MirageAssumption, LenProperties DEF MirageInv, MirageType
<1>2. n <= a.count * SECTOR_BYTES
  <2>1. CASE a.op \in Transfers
    BY <2>1, MovedBounds DEF MirageInv
  <2>2. CASE a.op \notin Transfers
    <3>1. n = 0
      BY <2>2 DEF MirageInv, Ranges
    <3>2. a.count * SECTOR_BYTES \in Nat
      BY <1>1
    <3> QED
      BY <3>1, <3>2
  <2> QED
    BY <2>1, <2>2
<1>3. a.op = "READ" => \A k \in 1..n : job.moved[k] = Asked(k)
  BY DEF MirageInv, Delivered
<1>4. a.op \in {"READ", "WRITE"} /\ card.state = "Idle" /\ "ERR" \notin card.status => n = a.count * SECTOR_BYTES
  BY DEF MirageInv, Ranges, Position, Transfers
<1>5. a.op = "WRITE" => Committed = Stored
  <2> SUFFICES ASSUME a.op = "WRITE" PROVE Committed = Stored
    OBVIOUS
  <2>1. /\ Passed \in Int /\ (card.state # "Idle" \/ card.status # {} => Passed \in 0..a.count - 1)
        /\ card.state \in Writing \cup {"Idle"} /\ card.buf_pos \in Nat
    BY MovedBounds DEF MirageInv, Transfers, Ranges, MirageType
  <2>2. CASE card.state = "Idle" /\ card.status = {}
    <3>1. n = a.count * SECTOR_BYTES + 0 /\ 0 \in 0..SECTOR_BYTES - 1
      BY <2>2, <1>1, <1>4
    <3>2. n \div SECTOR_BYTES = a.count
      BY <3>1, <1>1, SectorDivision
    <3> QED
      BY <2>2, <3>2 DEF Committed, Stored
  <2>3. CASE card.state = "WriteCommitting" \/ (card.state = "Idle" /\ card.status # {})
    <3>1. n = At + SECTOR_BYTES /\ Passed \in Nat
      BY <2>1, <2>3 DEF MirageInv, Position, Ranges, Transfers
    <3>2. (Passed + 1) * SECTOR_BYTES = At + SECTOR_BYTES /\ Passed + 1 \in Nat
      BY <3>1, <1>1, MulNext DEF At
    <3>3. n = (Passed + 1) * SECTOR_BYTES + 0 /\ 0 \in 0..SECTOR_BYTES - 1
      BY <3>1, <3>2, <1>1
    <3>4. n \div SECTOR_BYTES = Passed + 1
      BY <3>2, <3>3, <1>1, SectorDivision
    <3>5. card.state = "WriteCommitting" \/ card.status = {"ERR"}
      BY <2>3 DEF MirageInv, Ranges
    <3>6. Stored = Passed
      BY <2>3 DEF Stored
    <3> QED
      BY <3>1, <3>4, <3>5, <3>6 DEF Committed
  <2>4. CASE card.state \in {"WritePending", "WriteReady"}
    <3>1. Stored = Passed /\ Passed \in Nat /\ card.status # {"ERR"} /\ card.state # "WriteCommitting"
      <4>1. card.state \in Writing /\ card.state # "Idle" /\ card.state # "WriteCommitting"
        BY <2>4 DEF Writing
      <4>2. card.status \in {{"BUSY"}, {"DRQ"}}
        BY <4>1 DEF MirageInv, Ranges
      <4>3. Stored = Passed /\ card.status # {"ERR"}
        BY <4>1, <4>2 DEF Stored
      <4> QED
        BY <4>1, <4>3, <2>1, <1>1
    <3>2. \E r \in 0..SECTOR_BYTES - 1 : n = Passed * SECTOR_BYTES + r
      <4>1. CASE card.state = "WritePending"
        BY <4>1, <1>1 DEF MirageInv, Position
      <4>2. CASE card.state = "WriteReady"
        <5>1. n = At + card.buf_pos /\ card.buf_pos < SECTOR_BYTES
          BY <4>2 DEF MirageInv, Position
        <5>2. card.buf_pos \in 0..SECTOR_BYTES - 1
          BY <5>1, <2>1, <1>1
        <5> QED
          BY <5>1, <5>2 DEF At
      <4> QED
        BY <4>1, <4>2, <2>4
    <3>3. n \div SECTOR_BYTES = Passed
      BY <3>1, <3>2, SectorDivision
    <3> QED
      BY <3>1, <3>3 DEF Committed
  <2> QED
    BY <2>1, <2>2, <2>3, <2>4 DEF Writing
<1>6. ASSUME NEW u \in Attached, NEW s \in 0..Sectors - 1
      PROVE  disk[u][s] = IF a.op = "WRITE" /\ u = a.unit /\ s - a.lba \in 0..Committed - 1
                          THEN SubSeq(job.moved, (s - a.lba) * SECTOR_BYTES + 1, (s - a.lba + 1) * SECTOR_BYTES)
                          ELSE job.before[u][s]
  <2>1. CASE ~(a.op = "WRITE" /\ u = a.unit)
    BY <2>1 DEF MirageInv, Contents
  <2>2. CASE a.op = "WRITE" /\ u = a.unit
    <3>1. /\ Committed = Stored /\ Stored \in Nat /\ Stored * SECTOR_BYTES <= n
      BY <2>2, <1>5, MovedBounds DEF MirageInv, Transfers
    <3>2. s - a.lba \in 0..Committed - 1 <=> s >= a.lba /\ s < a.lba + Stored
      BY <3>1, <1>1
    <3>3. CASE ~(s >= a.lba /\ s < a.lba + Stored)
      BY <3>2, <3>3 DEF MirageInv, Contents
    <3>4. CASE s >= a.lba /\ s < a.lba + Stored
      <4> DEFINE q == s - a.lba
                 lo == q * SECTOR_BYTES
                 hi == (q + 1) * SECTOR_BYTES
      <4>1. \A i \in 1..SECTOR_BYTES : disk[u][s][i] = job.moved[lo + i]
        BY <2>2, <3>4 DEF MirageInv, Contents
      <4>2. disk[u][s] \in Sector
        BY DiskSector DEF MirageInv, MirageType
      <4>3. q \in Nat /\ q + 1 <= Stored
        BY <3>1, <3>4, <1>1
      <4>4. hi <= Stored * SECTOR_BYTES
        <5>1. q + 1 \in Nat /\ q + 1 <= Stored
          BY <4>3
        <5> HIDE DEF q
        <5> QED
          BY <5>1, <3>1, <1>1, MulMonotone
      <4>5. hi = lo + SECTOR_BYTES /\ lo \in Nat
        <5> HIDE DEF q
        <5> QED
          BY <4>3, <1>1, MulNext
      <4> HIDE DEF q, lo, hi
      <4>6. hi <= n
        <5> DEFINE all == Stored * SECTOR_BYTES
        <5>1. all <= n /\ hi <= all /\ all \in Int
          BY <4>4, <3>1, <1>1
        <5> HIDE DEF all
        <5> QED
          BY <5>1, <4>5, <1>1
      <4>7. SubSeq(job.moved, lo + 1, hi) = [i \in 1..SECTOR_BYTES |-> job.moved[lo + i]]
        <5> DEFINE sub == SubSeq(job.moved, lo + 1, hi)
        <5>1. hi - (lo + 1) + 1 = SECTOR_BYTES /\ lo + 1 \in Int /\ hi \in Int /\ lo + 1 <= hi
          BY <4>5, <1>1
        <5>2. \A i \in (lo + 1)..hi : i \in 1..n
          BY <4>5, <4>6, <1>1
        <5>3. \A i \in (lo + 1)..hi : job.moved[i] \in Values
          BY <5>2, <1>1
        <5>4. /\ sub \in Seq(Values) /\ Len(sub) = SECTOR_BYTES
              /\ \A i \in 1..SECTOR_BYTES : sub[i] = job.moved[(lo + 1) + i - 1]
          BY <5>1, <5>3, SubSeqProperties
        <5>5. \A i \in 1..SECTOR_BYTES : (lo + 1) + i - 1 = lo + i
          BY <4>5, <1>1
        <5>6. \A i \in 1..SECTOR_BYTES : sub[i] = job.moved[lo + i]
          BY <5>4, <5>5
        <5> HIDE DEF sub
        <5>7. DOMAIN sub = 1..SECTOR_BYTES /\ sub = [i \in DOMAIN sub |-> sub[i]]
          BY <5>4
        <5>8. sub = [i \in 1..SECTOR_BYTES |-> job.moved[lo + i]]
          BY <5>6, <5>7
        <5> QED
          BY <5>8 DEF sub
      <4>8. disk[u][s] = [i \in 1..SECTOR_BYTES |-> job.moved[lo + i]]
        BY <4>1, <4>2 DEF Sector
      <4>9. disk[u][s] = SubSeq(job.moved, (s - a.lba) * SECTOR_BYTES + 1, (s - a.lba + 1) * SECTOR_BYTES)
        BY <4>7, <4>8 DEF lo, hi, q
      <4> QED
        BY <4>9, <3>2, <3>4, <2>2
    <3> QED
      BY <3>3, <3>4
  <2> QED
    BY <2>1, <2>2
<1> QED
  BY <1>2, <1>3, <1>4, <1>6 DEF TransfersAreTheSectorsAsked

(***************************************************************************)
(* The Mirage card for every sector size, device and number of commands:   *)
(* unit, address and count are latched when a command is accepted, so no   *)
(* later register write redirects a transfer; the FIFO neither skips nor   *)
(* repeats a byte at a sector boundary; and a failed access leaves every   *)
(* sector either as it was or as it was written, never a mixture.          *)
(***************************************************************************)
THEOREM MirageMovesWhatWasAsked == MirageSpec => []TransfersAreTheSectorsAsked
BY MirageInitInv, MirageNextInv, MirageInvTransfers, PTL DEF MirageSpec
=============================================================================
