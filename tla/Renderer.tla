------------------------------ MODULE Renderer ------------------------------
(***************************************************************************)
(* The planar display (render.rs): at the end of a frame the copper list   *)
(* is walked once, its WAITs cut the frame into bands of lines with the    *)
(* registers in force there, and the bitplanes and the pointer sprite are  *)
(* painted band by band into the host's frame buffer.  A list is a         *)
(* sequence of instructions, a bitplane word a tuple of W pixels, a colour *)
(* a number; pointers and modulos count words.  Colours stay register      *)
(* values: their widening to 24 bits loses nothing.                        *)
(***************************************************************************)
EXTENDS Integers, Sequences, SequencesExt, FiniteSetsExt, Bitwise

CONSTANTS
    COPPER_INSTR_BUDGET,\* instructions walked at most (4096)
    MAX_BANDS,          \* bands kept (16)
    MAX_DDF_WORDS,      \* words fetched per line at most (128)
    MAX_PLANES,         \* bitplanes shown at most (5)
    Lines,              \* span of a WAIT's vertical position (256)
    PW,                 \* pixels of a bitplane word (16)
    SpriteColors,       \* the colour register before the sprite's (16)
    HSpan,              \* what DIWSTOP adds to its horizontal byte (256)
    StdStart, StdDdf,   \* the window start and fetch start of an ordinary screen ($81, $38)
    FbWidth, FbHeight,  \* the host's frame buffer
    PlaneRam,           \* the bitplane words in chip RAM, indexed from 0
    Sprite,             \* sprite 0: [vstart, vstop, hstart, rows]
    Screens,            \* register files the guest sets up
    Lists,              \* copper lists it starts from
    Instructions,       \* copper instructions the guest writes
    MaxList             \* bound: instructions of the list

VARIABLES
    chip,   \* the display registers of the chipset
    copper, \* the copper list in chip RAM
    shown   \* the frame buffer, or Unrendered

rendererVars == <<chip, copper, shown>>

Unrendered == << >>

RendererInit == chip \in Screens /\ copper \in Lists /\ shown = Unrendered

-----------------------------------------------------------------------------
(* apply_move: DMACON sets or clears the bits named, the others are stored. *)
apply_move(state, i) ==
    CASE i.reg = "color" -> [state EXCEPT !.color[i.index] = i.val]
      [] i.reg = "dmacon" -> [state EXCEPT !.dmacon = IF i.set THEN @ \cup i.val ELSE @ \ i.val]
      [] OTHER -> [state EXCEPT ![i.reg] = i.val]

bitplane_dma_enabled(b) == {"DMAEN", "BPLEN"} \subseteq b.dmacon

(* The first line not before from_line whose masked low bits match. *)
wait_vertical_target(vp, ve, from_line) ==
    Min({l \in from_line..from_line + Lines - 1 : ((l % Lines) & ve) = (vp & ve)})

open(bands, new_start, state) ==
    LET closed == [bands EXCEPT !.state[Len(bands.state)] = state] IN
    IF Len(bands.start) < MAX_BANDS
    THEN [start |-> Append(bands.start, new_start), state |-> Append(closed.state, state)]
    ELSE closed

finalize(bands, state) == [bands EXCEPT !.state[Len(bands.state)] = state]

band_index_for_line(bands, line) ==
    Max({k \in 1..Len(bands.start) : bands.start[k] <= line})

(* Past the list's end chip RAM reads as a MOVE to a register nobody has. *)
Instr(pc) == IF pc \in 1..Len(copper) THEN copper[pc] ELSE [op |-> "nop"]

CopperStep(acc) ==
    LET i == Instr(acc.pc)
        next == [acc EXCEPT !.pc = @ + 1]
    IN  CASE i.op = "nop" \/ i.op = "skip" -> next
          [] i.op = "end" -> [acc EXCEPT !.running = FALSE]
          [] i.op = "move" -> [next EXCEPT !.state = apply_move(@, i)]
          [] i.op = "copjmp1" -> [acc EXCEPT !.pc = acc.state.cop1lc]
          [] i.op = "copjmp2" -> [acc EXCEPT !.pc = acc.state.cop2lc]
          [] i.op = "wait" ->
                LET target == wait_vertical_target(i.vp, i.ve, acc.line) IN
                IF i.ve # 0 /\ target > acc.line
                THEN [next EXCEPT !.bands = open(@, target, acc.state), !.line = target]
                ELSE next

run_copper(regs) ==
    FoldLeft(LAMBDA acc, n : IF acc.running THEN CopperStep(acc) ELSE acc,
             [pc |-> regs.cop1lc, line |-> 0, state |-> regs, running |-> TRUE,
              bands |-> [start |-> <<0>>, state |-> <<regs>>]],
             [n \in 1..COPPER_INSTR_BUDGET |-> n])

-----------------------------------------------------------------------------
(* decode_band: what the registers mean on the screen. *)
decode_band(b) ==
    LET bits == IF b.hires THEN 2 ELSE 1
        units == ((b.ddfstop - b.ddfstrt) + (PW \div 2) - 1) \div (PW \div 2) + 1
        words == units * bits
        x0 == (b.hstart \div 2) * 2
        x1 == ((b.hstop + HSpan) \div 2) * 2
    IN  [planes |-> IF b.planes > MAX_PLANES THEN MAX_PLANES ELSE b.planes,
         lace |-> b.lace,
         diw_x0 |-> x0, diw_x1 |-> IF x1 > x0 THEN x1 ELSE x0,
         diw_y0 |-> b.vstart, diw_y1 |-> IF b.vstop > b.vstart THEN b.vstop ELSE b.vstart,
         ddf_words |-> IF b.ddfstop < b.ddfstrt THEN 0
                       ELSE IF words > MAX_DDF_WORDS THEN MAX_DDF_WORDS ELSE words,
         bits |-> bits,
         shift |-> (b.hstart - StdStart
                      - 2 * (b.ddfstrt - (StdDdf + (IF b.hires THEN PW \div 4 ELSE 0))) - b.pf1h)
                   * bits]

BlankWord == [i \in 1..PW |-> 0]
read_word(addr) == IF addr \in DOMAIN PlaneRam THEN PlaneRam[addr] ELSE BlankWord

(* Pixel number px of a line fetched from the plane pointers pt. *)
pixel_color_index(pt, planes, px) ==
    LET BitOf(p) == read_word(pt[p] + px \div PW)[(px % PW) + 1] * 2^(p - 1)
    IN  FoldLeft(LAMBDA a, p : a + BitOf(p), 0, [p \in 1..planes |-> p])

Blanked(b, g) ==
    g.planes = 0 \/ g.ddf_words = 0 \/ g.diw_x1 <= g.diw_x0 \/ ~bitplane_dma_enabled(b)

(* One row painted from pointers pt with band registers b, over the old row. *)
PaintRow(row, b, pt) ==
    LET g == decode_band(b) IN
    IF Blanked(b, g) THEN [x \in 0..FbWidth - 1 |-> b.color[0]]
    ELSE [x \in 0..FbWidth - 1 |->
            IF x \notin g.diw_x0..g.diw_x1 - 1 THEN row[x]
            ELSE LET src == (x - g.diw_x0) * g.bits + g.shift IN
                 b.color[IF src \in 0..g.ddf_words * PW - 1
                         THEN pixel_color_index(pt, g.planes, src) ELSE 0]]

advance_plane_ptr(pt, b, g) ==
    [p \in DOMAIN pt |-> IF p <= g.planes
                         THEN pt[p] + g.ddf_words + b.mod[IF p % 2 = 1 THEN 1 ELSE 2]
                         ELSE pt[p]]

Shifted(pt, words) == [p \in DOMAIN pt |-> pt[p] + words]

(* The window's lines over all bands, and whether any band is interlaced. *)
Extent(bands) ==
    LET geoms == {decode_band(bands.state[k]) : k \in 1..Len(bands.state)}
        open_ == {g \in geoms : g.diw_y1 > g.diw_y0}
    IN  [empty |-> open_ = {},
         y0 |-> IF open_ = {} THEN 0 ELSE Min({g.diw_y0 : g \in open_}),
         y1 |-> IF open_ = {} THEN 0 ELSE Max({g.diw_y1 : g \in open_}),
         lace |-> \E g \in geoms : g.lace]

FieldOf_joined(lace, row) == 1

FieldOf(lace, row) == IF lace THEN (row % 2) + 1 ELSE 1

draw_bitplanes(state, bands, fb) ==
    LET e == Extent(bands)
        rows == (e.y1 - e.y0) * (IF e.lace THEN 2 ELSE 1)
        top == decode_band(bands.state[band_index_for_line(bands, e.y0)])
        start == <<state.bplpt,
                   IF e.lace THEN Shifted(state.bplpt, top.ddf_words) ELSE state.bplpt>>
        Row(acc, row) ==
            LET field == FieldOf(e.lace, row)
                line == e.y0 + (IF e.lace THEN row \div 2 ELSE row)
                y == e.y0 + row
                b == bands.state[band_index_for_line(bands, line)]
                g == decode_band(b)
                fb2 == IF y < FbHeight THEN [acc.fb EXCEPT ![y] = PaintRow(@, b, acc.pt[field])]
                       ELSE acc.fb
            IN  [fb |-> fb2, pt |-> IF Blanked(b, g) THEN acc.pt
                                    ELSE [acc.pt EXCEPT ![field] = advance_plane_ptr(@, b, g)]]
    IN  IF e.empty THEN fb
        ELSE FoldLeft(Row, [fb |-> fb, pt |-> start], [n \in 1..rows |-> n - 1]).fb

(* Colours of the band the sprite starts in; value 0 is transparent. *)
draw_sprite0(bands, fb) ==
    LET b == bands.state[band_index_for_line(bands, Sprite.vstart)]
        x0 == (Sprite.hstart \div 2) * 2
        ValueAt(x, y) == IF y \in Sprite.vstart..Sprite.vstop - 1 /\ x \in x0..x0 + PW - 1
                         THEN Sprite.rows[y - Sprite.vstart + 1][x - x0 + 1] ELSE 0
    IN  [y \in DOMAIN fb |-> [x \in DOMAIN fb[y] |->
            IF ValueAt(x, y) = 0 THEN fb[y][x] ELSE b.color[SpriteColors + ValueAt(x, y)]]]

render ==
    LET w == run_copper(chip)
        bands == finalize(w.bands, w.state)
        blank == [y \in 0..FbHeight - 1 |-> [x \in 0..FbWidth - 1 |-> bands.state[1].color[0]]]
    IN  draw_sprite0(bands, draw_bitplanes(w.state, bands, blank))

(* The guest extends its list while the last frame is on show; a frame ends. *)
RendererNext ==
    \/ /\ Len(copper) < MaxList
       /\ \E i \in Instructions : copper' = Append(copper, i)
       /\ shown' = Unrendered
       /\ UNCHANGED chip
    \/ /\ shown = Unrendered
       /\ shown' = render
       /\ UNCHANGED <<chip, copper>>

-----------------------------------------------------------------------------
(* A display that follows the beam: a line has the registers of the last
   instruction executed before the beam left it. *)

Trace ==
    LET Walk(acc, n) ==
            IF ~acc.at.running THEN acc
            ELSE LET next == CopperStep(acc.at)
                 IN  [at |-> next, trace |-> Append(acc.trace, [line |-> next.line, state |-> next.state])]
        from == [pc |-> chip.cop1lc, line |-> 0, state |-> chip, running |-> TRUE,
                 bands |-> [start |-> <<0>>, state |-> <<chip>>]]
    IN  FoldLeft(Walk, [at |-> from, trace |-> <<[line |-> 0, state |-> chip]>>],
                 [n \in 1..COPPER_INSTR_BUDGET |-> n]).trace

RegsAt(trace, line) == trace[Max({k \in 1..Len(trace) : trace[k].line <= line})].state

(* The window is the union of every line's; rows of an interlaced screen
   alternate between two fields, the second one memory row further on. *)
BeamPicture(trace) ==
    LET final == trace[Len(trace)].state
        regs == {RegsAt(trace, trace[k].line) : k \in 1..Len(trace)}
        windows == {decode_band(b) : b \in regs}
        lit == {g \in windows : g.diw_y1 > g.diw_y0}
        lace == \E g \in windows : g.lace
        y0 == Min({g.diw_y0 : g \in lit})
        y1 == Max({g.diw_y1 : g \in lit})
        LineOf(row) == IF lace THEN y0 + row \div 2 ELSE y0 + row
        RowRegs == [row \in 0..2 * (y1 - y0) |-> RegsAt(trace, LineOf(row))]
        Fetches(row) == ~Blanked(RowRegs[row], decode_band(RowRegs[row]))
        Earlier(row) == {q \in 0..row - 1 : Fetches(q) /\ (lace => q % 2 = row % 2)}
        Advance(q, p) == LET g == decode_band(RowRegs[q]) IN
                         IF p > g.planes THEN 0
                         ELSE g.ddf_words + RowRegs[q].mod[IF p % 2 = 1 THEN 1 ELSE 2]
        Pointer(row) ==
            [p \in DOMAIN final.bplpt |->
                final.bplpt[p] + MapThenSumSet(LAMBDA q : Advance(q, p), Earlier(row))
                  + (IF lace /\ row % 2 = 1 THEN decode_band(RowRegs[0]).ddf_words ELSE 0)]
        backdrop == RegsAt(trace, 0).color[0]
    IN  [y \in 0..FbHeight - 1 |->
            IF lit = {} \/ y \notin y0..y0 + (y1 - y0) * (IF lace THEN 2 ELSE 1) - 1
            THEN [x \in 0..FbWidth - 1 |-> backdrop]
            ELSE PaintRow([x \in 0..FbWidth - 1 |-> backdrop], RowRegs[y - y0], Pointer(y - y0))]

(* The picture painted in one pass at the end of the frame is the one a
   display following the beam shows, as long as the list splits the frame into
   no more bands than are kept: every line has the registers the copper had
   set by then, whatever WAITs, masks and jumps led there, lines without
   bitplane DMA hold the plane pointers still, and the two fields of an
   interlaced screen weave.  (Plane pointers are taken as the list leaves them,
   and the sprite's colours from its first line.) *)
RenderedLineByLine ==
    LET trace == Trace
        splits == {trace[k].line : k \in 1..Len(trace)}
        colors == RegsAt(trace, Sprite.vstart).color
        x0 == (Sprite.hstart \div 2) * 2
        picture == BeamPicture(trace)
    IN  shown # Unrendered /\ Cardinality(splits) <= MAX_BANDS =>
          \A y \in 0..FbHeight - 1, x \in 0..FbWidth - 1 :
              LET over == IF y \in Sprite.vstart..Sprite.vstop - 1 /\ x \in x0..x0 + PW - 1
                          THEN Sprite.rows[y - Sprite.vstart + 1][x - x0 + 1] ELSE 0
              IN  shown[y][x] = IF over = 0 THEN picture[y][x] ELSE colors[SpriteColors + over]

=============================================================================
