--------------------------- MODULE GraphicsBoards ---------------------------
(***************************************************************************)
(* What the host scans out: the mode of the RTG board and the one decoded  *)
(* from the Cirrus Logic CL-GD542x behind the Graffity board.              *)
(*                                                                         *)
(* The RTG board (rtgboard.rs): the guest stages a mode in the SET_*       *)
(* registers, byte lane by byte lane, and COMMIT applies it if the catalog *)
(* has it and the whole picture fits the board's VRAM.  Registers are u32  *)
(* (Words values here); the arithmetic of the check is checked arithmetic. *)
(* VRAM is plain memory behind the window and is left out, and so are the  *)
(* read-only registers that show the catalog and the applied mode.         *)
(*                                                                         *)
(* The Cirrus registers a display mode is made of (cirrus.rs): the         *)
(* extension lock, sequencer and CRTC, the hidden DAC register behind four *)
(* reads of the pixel mask, the vertical interrupt, and the mode the host  *)
(* decodes from them.  An index port write and the data port access after  *)
(* it are one access.  Registers are kept as the values of the fields the  *)
(* chip decodes.  The palette DAC and the attribute controller change only *)
(* colours and are left out; CirrusBlit models the blitter.                *)
(***************************************************************************)
EXTENDS Integers

CONSTANTS
    Words,          \* the register width: values are 0..Words-1 (2^32 in the code)
    VramLen,        \* bytes of VRAM
    Catalog,        \* set of [width, height, format]: the modes offered
    SizeValues,     \* widths and heights the guest stages
    SpanValues      \* strides and offsets the guest stages

ASSUME RtgAssumption ==
    /\ Words \in Nat /\ VramLen \in Nat
    /\ SizeValues \subseteq Nat /\ SpanValues \subseteq Nat

VARIABLE rtg        \* the staged registers, status bits, and the applied mode

INVALID == "INVALID"
Formats == {"RGB_565", "RGBX_8888", INVALID}

bytes_per_pixel == [f \in Formats \ {INVALID} |-> IF f = "RGB_565" THEN 2 ELSE 4]

NoMode == [width |-> 0, height |-> 0, format |-> INVALID, stride |-> 0, fb_offset |-> 0]

RtgInit == rtg = [set |-> NoMode, status |-> {}, current |-> NoMode]

(* checked_mul, checked_add: an overflow refuses the mode. *)
Fits(n) == n < Words

mode_fits_wrapping(m) ==
    /\ m.format # INVALID
    /\ m.stride >= (m.width * bytes_per_pixel[m.format]) % Words
    /\ (m.fb_offset + ((m.height * m.stride) % Words)) % Words <= VramLen

mode_fits(m) ==
    /\ m.format # INVALID
    /\ Fits(m.width * bytes_per_pixel[m.format])
    /\ m.stride >= m.width * bytes_per_pixel[m.format]
    /\ Fits(m.height * m.stride)
    /\ Fits(m.fb_offset + m.height * m.stride)
    /\ m.fb_offset + m.height * m.stride <= VramLen

commit ==
    LET ok == /\ [width |-> rtg.set.width, height |-> rtg.set.height, format |-> rtg.set.format]
                    \in Catalog
              /\ mode_fits(rtg.set)
    IN  rtg' = IF ok THEN [rtg EXCEPT !.current = rtg.set, !.status = {"APPLIED"}]
               ELSE [rtg EXCEPT !.status = {"REJECTED"}]

(* write: a staged register takes a new value, or STATUS bits are cleared. *)
WriteRegister ==
    \/ \E v \in SizeValues : rtg' = [rtg EXCEPT !.set.width = v]
    \/ \E v \in SizeValues : rtg' = [rtg EXCEPT !.set.height = v]
    \/ \E f \in Formats : rtg' = [rtg EXCEPT !.set.format = f]
    \/ \E v \in SpanValues : rtg' = [rtg EXCEPT !.set.stride = v]
    \/ \E v \in SpanValues : rtg' = [rtg EXCEPT !.set.fb_offset = v]
    \/ \E s \in SUBSET {"APPLIED", "REJECTED"} : rtg' = [rtg EXCEPT !.status = @ \ s]

RtgNext == WriteRegister \/ commit

-----------------------------------------------------------------------------
(* Every byte of every pixel of the applied mode is a byte of VRAM, no two
   rows share one, and the mode is one of the catalog's. *)
RtgPictureInVram ==
    LET m == rtg.current IN
    m # NoMode =>
      /\ [width |-> m.width, height |-> m.height, format |-> m.format] \in Catalog
      /\ \A y \in 0..m.height - 1, b \in 0..m.width * bytes_per_pixel[m.format] - 1 :
            m.fb_offset + y * m.stride + b < VramLen
      /\ m.height > 1 => m.stride >= m.width * bytes_per_pixel[m.format]

-----------------------------------------------------------------------------
(* The Cirrus chip. *)

CONSTANTS
    CharCell,       \* pixels of a character, bytes of a pitch unit (8)
    ByteSpan,       \* values of a register byte, as far as the overflow bits go (256)
    MinDim, MaxDim, \* the dimensions a mode may have (16, 4096)
    VramBytes,      \* bytes of VRAM
    Modes,          \* the CRTC settings a guest programs
    MaxPorts        \* bound: port writes

ASSUME CirrusAssumption ==
    /\ CharCell \in Nat /\ ByteSpan \in Nat /\ VramBytes \in Nat
    /\ Modes \subseteq [width : 0..ByteSpan - 1, height : 0..ByteSpan - 1, height_hi : 0..1,
                        pitch : 0..ByteSpan - 1, pitch_hi : 0..1, start : 0..ByteSpan - 1,
                        depth : {"Bpp8", "Bpp15", "Bpp16", "Bpp24", "clocked", "none"}]

VARIABLES
    regs,       \* sr, crtc and hidden DAC fields, hidden_dac_arm, vblank_pending
    ports       \* port writes made

cirrusVars == <<regs, ports>>

CirrusInit ==
    /\ regs = [unlocked |-> FALSE, running |-> FALSE, screen_off |-> FALSE, extended |-> FALSE,
               clock |-> 0, width |-> 0, height |-> 0, height_hi |-> 0, doublescan |-> FALSE,
               pitch |-> 0, pitch_hi |-> 0, start |-> 0, panning |-> 0, protect |-> FALSE,
               vint |-> "clear", hidden_dac |-> "Bpp8", hidden_dac_arm |-> 0,
               vblank_pending |-> FALSE]
    /\ ports = 0

-----------------------------------------------------------------------------
(* Ports.  Any access but the pixel mask's disarms the hidden DAC. *)

Port(r) ==
    /\ ports < MaxPorts
    /\ ports' = ports + 1
    /\ regs' = r

Disarmed == [regs EXCEPT !.hidden_dac_arm = 0]

(* write_sequencer: SR6 is the lock; SR7 and above need it open. *)
write_sequencer ==
    \/ \E u \in BOOLEAN : Port([Disarmed EXCEPT !.unlocked = u])
    \/ \E v \in BOOLEAN : Port([Disarmed EXCEPT !.running = v])
    \/ \E v \in BOOLEAN : Port([Disarmed EXCEPT !.screen_off = v])
    \/ \E e \in BOOLEAN, c \in {0, 2, 4} :
          Port(IF regs.unlocked THEN [Disarmed EXCEPT !.extended = e, !.clock = c] ELSE Disarmed)

(* write_crtc: CR11 bit 7 protects CR0 to CR7 (of CR7 only a bit no mode
   uses is still written); CR1B is an extension register; a write of CR11
   with its clear bit at 0 acknowledges the vertical interrupt. *)
write_crtc ==
    \/ \E v \in 0..ByteSpan - 1 :
          Port(IF regs.protect THEN Disarmed ELSE [Disarmed EXCEPT !.width = v])
    \/ \E v \in 0..1 :
          Port(IF regs.protect THEN Disarmed ELSE [Disarmed EXCEPT !.height_hi = v])
    \/ \E v \in 0..ByteSpan - 1 : Port([Disarmed EXCEPT !.height = v])
    \/ \E v \in BOOLEAN : Port([Disarmed EXCEPT !.doublescan = v])
    \/ \E v \in 0..ByteSpan - 1 : Port([Disarmed EXCEPT !.pitch = v])
    \/ \E v \in 0..ByteSpan - 1 : Port([Disarmed EXCEPT !.start = v])
    \/ \E v \in 0..3 : Port([Disarmed EXCEPT !.panning = v])
    \/ \E v \in 0..1 :
          Port(IF regs.unlocked THEN [Disarmed EXCEPT !.pitch_hi = v] ELSE Disarmed)
    \/ \E p \in BOOLEAN, v \in {"disabled", "clear", "enabled"} :
          Port([Disarmed EXCEPT !.protect = p, !.vint = v,
                                !.vblank_pending = @ /\ v # "clear"])

(* The whole CRTC programmed for one mode, the protection off. *)
ProgramMode ==
    /\ ports = 0
    /\ \E m \in Modes :
        Port([Disarmed EXCEPT !.unlocked = TRUE, !.running = TRUE, !.extended = TRUE,
                  !.width = m.width, !.height = m.height, !.height_hi = m.height_hi, !.pitch = m.pitch,
                  !.pitch_hi = m.pitch_hi, !.start = m.start, !.hidden_dac = m.depth])

(* The pixel mask port: with the extensions open, the fifth access in a row
   is the hidden DAC register. *)
read_pel_mask_or_hidden_dac ==
    /\ regs' = [regs EXCEPT !.hidden_dac_arm = IF ~regs.unlocked \/ @ >= 4 THEN 0 ELSE @ + 1]
    /\ UNCHANGED ports

write_pel_mask_or_hidden_dac ==
    \E d \in {"Bpp8", "Bpp15", "Bpp16", "Bpp24", "clocked", "none"} :
        Port([Disarmed EXCEPT !.hidden_dac =
                  IF regs.unlocked /\ regs.hidden_dac_arm >= 4 THEN d ELSE @])

vertical_interrupt_enabled == regs.vint = "enabled"

signal_vertical_retrace ==
    /\ vertical_interrupt_enabled
    /\ regs' = [regs EXCEPT !.vblank_pending = TRUE]
    /\ UNCHANGED ports

-----------------------------------------------------------------------------
(* decoded_mode: what the host scans out. *)

DepthBytes == [Bpp8 |-> 1, Bpp15 |-> 2, Bpp16 |-> 2, Bpp24 |-> 3]

depth ==
    IF regs.hidden_dac = "clocked"
    THEN CASE regs.clock = 4 -> "Bpp24" [] regs.clock = 2 -> "Bpp16" [] OTHER -> "Bpp8"
    ELSE regs.hidden_dac

Dim(n) == n \in MinDim..MaxDim

ScanOut ==
    [width |-> (regs.width + 1) * CharCell,
     height |-> (regs.height + regs.height_hi * ByteSpan + 1) * (IF regs.doublescan THEN 2 ELSE 1),
     stride |-> (regs.pitch + regs.pitch_hi * ByteSpan) * CharCell,
     start |-> regs.start * 4 + regs.panning]

decoded_mode ==
    /\ regs.running /\ ~regs.screen_off /\ regs.extended /\ depth # "none"
    /\ Dim(ScanOut.width) /\ Dim(ScanOut.height) /\ ScanOut.stride # 0
    /\ ScanOut.stride >= ScanOut.width * DepthBytes[depth]
    /\ ScanOut.start + (ScanOut.height - 1) * ScanOut.stride
          + ScanOut.width * DepthBytes[depth] <= VramBytes

(* render_rtg: the VRAM offsets a host window of that size reads for pixel (x, y). *)
PixelOffsets(x, y) ==
    LET row_start == ScanOut.start + y * ScanOut.stride
        off == row_start + x * DepthBytes[depth]
    IN  off..off + DepthBytes[depth] - 1

ScanNext ==
    \/ ProgramMode
    \/ ports > 0 /\ (\/ write_sequencer \/ write_crtc \/ read_pel_mask_or_hidden_dac
                          \/ write_pel_mask_or_hidden_dac)
    \/ signal_vertical_retrace

(* A mode the chip decodes is one the renderer can draw from VRAM alone:
   whatever mixture of old and new register values a mode change passes
   through, no pixel reads past the end of VRAM. *)
CirrusPictureInVram ==
    decoded_mode =>
        \A x \in 0..ScanOut.width - 1, y \in 0..ScanOut.height - 1 :
            PixelOffsets(x, y) \subseteq 0..VramBytes - 1

-----------------------------------------------------------------------------
(* Both boards. *)

GraphicsSpec ==
    /\ RtgInit /\ CirrusInit
    /\ [][\/ RtgNext /\ UNCHANGED cirrusVars
          \/ ScanNext /\ UNCHANGED rtg]_<<rtg, cirrusVars>>

(* The host only ever scans out VRAM: the mode the RTG board has applied and
   the mode decoded from the Cirrus registers both lie inside it. *)
PicturesStayInVram == RtgPictureInVram /\ CirrusPictureInVram

=============================================================================
