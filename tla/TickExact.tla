----------------------------- MODULE TickExact -----------------------------
(***************************************************************************)
(* The devices of MachineBus (crates/machine-core/src/lib.rs) that move    *)
(* with guest time, as one value: the beam, both CIAs, a board with an     *)
(* engine that is polled once per raster line (hostblk, pktport, mirage,   *)
(* pcibridge), the graphics card's retrace interrupt, and INTREQ.  The     *)
(* operators are what time and one register access do to that value; when  *)
(* they are applied is EagerTime's and TimeBase's business.                *)
(*                                                                         *)
(* The beam counter is kept modulo one frame and the frame count modulo    *)
(* two, which is all that any of the code below looks at.                  *)
(***************************************************************************)
EXTENDS Cia

CONSTANTS
    ColourClock,    \* CPU_CLOCKS_PER_COLOUR_CLOCK, 4 in the code
    LineLength,     \* PAL_COLOUR_CLOCKS_PER_LINE, 227
    LinesPerFrame   \* 312 or 313

ASSUME BeamAssumption ==
    ColourClock \in Nat \ {0} /\ LineLength \in Nat \ {0} /\ LinesPerFrame \in Nat \ {0}

NewDevices ==
    [total_colour_clocks |-> 0, carry |-> 0, odd_frame |-> FALSE, intreq |-> {},
     cia_a |-> NewCia, cia_b |-> NewCia,
     board |-> [queued |-> FALSE, irq |-> FALSE],
     card  |-> [enabled |-> FALSE, vblank_pending |-> FALSE]]

card_irq_pending(card) == card.vblank_pending /\ card.enabled

(***************************************************************************)
(* Time.                                                                   *)
(***************************************************************************)
ColourClocks(d, cpu_clocks) == (d.carry + cpu_clocks) \div ColourClock
LinesStarted(d, cpu_clocks) ==
    ((d.total_colour_clocks + ColourClocks(d, cpu_clocks)) \div LineLength)
        - (d.total_colour_clocks \div LineLength)
FramesWrapped(d, cpu_clocks) ==
    (d.total_colour_clocks + ColourClocks(d, cpu_clocks)) \div (LineLength * LinesPerFrame)

(* `signal_vertical_retrace`: latched only while the interrupt is enabled. *)
Retrace(card) == [card EXCEPT !.vblank_pending = @ \/ card.enabled]

(* A board's engine at a line start finishes what was queued. *)
BoardTick(board) == [queued |-> FALSE, irq |-> board.irq \/ board.queued]

(* `tick_exact`, with Chipset::tick. *)
tick_exact(d, cpu_clocks) ==
    LET lines  == LinesStarted(d, cpu_clocks)
        frames == FramesWrapped(d, cpu_clocks)
        a      == CiaTick(TodTicks(d.cia_a, frames), cpu_clocks)
        b      == CiaTick(TodTicks(d.cia_b, lines), cpu_clocks)
        board  == IF lines > 0 THEN BoardTick(d.board) ELSE d.board
        card   == IF frames > 0 THEN Retrace(d.card) ELSE d.card
    IN  [total_colour_clocks |->
            (d.total_colour_clocks + ColourClocks(d, cpu_clocks)) % (LineLength * LinesPerFrame),
         carry     |-> (d.carry + cpu_clocks) % ColourClock,
         odd_frame |-> d.odd_frame # (frames % 2 = 1),
         cia_a |-> a, cia_b |-> b, board |-> board, card |-> card,
         intreq |-> d.intreq
            \cup If(frames > 0, "VERTB")
            \cup If(card_irq_pending(card) \/ (lines > 0 /\ board.irq) \/ irq_pending(a), "PORTS")
            \cup If(irq_pending(b), "EXTER")]

clocks_until_line_boundary(d) ==
    (LineLength - (d.total_colour_clocks % LineLength)) * ColourClock - d.carry

(* `recompute_next_event`. *)
next_event(d) ==
    LET deadlines == {clocks_until_line_boundary(d)}
                         \cup clocks_until_event(d.cia_a) \cup clocks_until_event(d.cia_b)
        nearest   == CHOOSE c \in deadlines : \A other \in deadlines : c <= other
    IN  IF nearest < 1 THEN 1 ELSE nearest

(***************************************************************************)
(* Register accesses.  `r` and `w` name the chip, "A" or "B", and the      *)
(* register.                                                               *)
(***************************************************************************)
Cr11Values == {"enabled", "disabled", "clear"}

(* A level-triggered source that still asserts raises its bit again. *)
reassert_level_irqs(d) ==
    [d EXCEPT !.intreq =
        @ \cup If(irq_pending(d.cia_a) \/ card_irq_pending(d.card), "PORTS")
          \cup If(irq_pending(d.cia_b), "EXTER")]

CiaValue(d, r) ==
    read(IF r.cia = "A" THEN d.cia_a ELSE d.cia_b, r).value
CiaRead(d, r) ==
    IF r.cia = "A" THEN [d EXCEPT !.cia_a = read(@, r).cia]
                   ELSE [d EXCEPT !.cia_b = read(@, r).cia]
CiaWrite(d, w) ==
    reassert_level_irqs(
        IF w.cia = "A" THEN [d EXCEPT !.cia_a = write(@, w)]
                       ELSE [d EXCEPT !.cia_b = write(@, w)])

(* The beam, derived from the one counter whenever it is asked for. *)
hpos(d) == d.total_colour_clocks % LineLength
vpos(d) == (d.total_colour_clocks \div LineLength) % LinesPerFrame

(* VPOSR has the long-frame bit and the line's bit 8, VHPOSR the low bytes. *)
vposr(d) == <<d.odd_frame, (vpos(d) \div 256) % 2>>
vhposr(d) == <<vpos(d) % 256, hpos(d) % 256>>
CustomValue(d) == <<vposr(d), vhposr(d), d.intreq>>

IntreqWrite(d, set, bits) ==
    reassert_level_irqs([d EXCEPT !.intreq = IF set THEN @ \cup bits ELSE @ \ bits])

(* A doorbell only queues: the engine runs at the next line start.  Every
   write to the board raises PORTS if the board asserts. *)
BoardWrite(d, ack) ==
    LET board == IF ack THEN [d.board EXCEPT !.irq = FALSE]
                        ELSE [d.board EXCEPT !.queued = TRUE]
    IN  [d EXCEPT !.board = board, !.intreq = @ \cup If(board.irq, "PORTS")]

(* CR11: "clear" (bit 4 low) acknowledges and disarms, "disabled" (bit 5)
   leaves a latched retrace pending. *)
CardWrite(d, cr11) ==
    reassert_level_irqs(
        [d EXCEPT !.card = [enabled |-> cr11 = "enabled",
                            vblank_pending |-> @.vblank_pending /\ cr11 # "clear"]])
=============================================================================
