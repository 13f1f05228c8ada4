------------------------------- MODULE Blitter -------------------------------
(***************************************************************************)
(* The chipset's blitter (blitter.rs).  A write of BLTSIZE runs the whole  *)
(* operation before it returns (run_blitter in lib.rs), so a blit is one   *)
(* step over chip RAM: an area blit word by word through the three source  *)
(* channels, or a line pixel by pixel.  A word is a tuple of W bits,       *)
(* leftmost first; pointers and modulos count words (bit 0 of both is      *)
(* dropped by the code); chip RAM wraps.                                   *)
(***************************************************************************)
EXTENDS Integers, Sequences, FiniteSets, SequencesExt

CONSTANTS
    W,              \* bits of a word (16)
    RamWords,       \* words of chip RAM
    AreaBlits,      \* register settings of the area blits tried
    LineBlits,      \* register settings of the lines tried
    MaxRuns         \* bound: blits run

VARIABLES
    ram,    \* chip RAM
    blt,    \* the blitter's registers, BZERO included
    prior   \* history: blits run, the registers and the RAM the last one began with

blitterVars == <<ram, blt, prior>>

Blank == [i \in 1..W |-> 0]
Solid == [i \in 1..W |-> 1]
Chip(ptr) == ptr % RamWords
ReadWord(mem, ptr) == mem[Chip(ptr)]
WriteWord(mem, ptr, value) == [mem EXCEPT ![Chip(ptr)] = value]

Idle == [mode |-> "none", zero |-> TRUE, bltddat |-> Blank]

BlitterInit ==
    /\ ram = [a \in 0..RamWords - 1 |-> [i \in 1..W |-> ((a * 5 + i * i) \div 3) % 2]]
    /\ blt = Idle
    /\ prior = [runs |-> 0, blt |-> Idle, ram |-> ram]

-----------------------------------------------------------------------------
(* The word operations.  lf is the set of <<a, b, c>> bits that give a 1. *)

minterm(lf, a, b, c) == [i \in 1..W |-> IF <<a[i], b[i], c[i]>> \in lf THEN 1 ELSE 0]

WordAnd(a, b) == [i \in 1..W |-> a[i] * b[i]]

shift_combine(prev, cur, n, desc) ==
    IF desc THEN SubSeq(cur \o prev, n + 1, n + W) ELSE SubSeq(prev \o cur, W - n + 1, 2 * W - n)

(* Right to left: a 1 toggles the fill for the bits to its left. *)
apply_fill(d, state, ife) ==
    FoldRight(LAMBDA bit, acc :
                 [state |-> (acc.state + bit) % 2,
                  word |-> <<IF ife THEN (IF acc.state = 1 THEN 1 ELSE bit)
                             ELSE (bit + acc.state) % 2>> \o acc.word],
              d, [state |-> state, word |-> << >>])

-----------------------------------------------------------------------------
(* Area blits (execute_area): acc carries the moving pointers, the previous
   words of A and B, the fill carry of the row, BZERO and the RAM. *)

Step(r) == IF r.desc THEN -1 ELSE 1
Filling(r) == r.desc /\ r.fill # "no"

AreaWord(r, acc, k) ==
    LET a_raw == IF "A" \in r.use THEN ReadWord(acc.ram, acc.pt["A"]) ELSE r.dat["A"]
        a_first == IF k = 1 THEN WordAnd(a_raw, r.bltafwm) ELSE a_raw
        a_masked == IF k = r.width_words THEN WordAnd(a_first, r.bltalwm) ELSE a_first
        a == shift_combine(acc.a_prev, a_masked, r.ash, r.desc)
        b_raw == ReadWord(acc.ram, acc.pt["B"])
        b == IF "B" \in r.use THEN shift_combine(acc.b_prev, b_raw, r.bsh, r.desc) ELSE r.dat["B"]
        c == IF "C" \in r.use THEN ReadWord(acc.ram, acc.pt["C"]) ELSE acc.cdat
        m == minterm(r.lf, a, b, c)
        f == apply_fill(m, acc.state, r.fill = "ife")
        d == IF Filling(r) THEN f.word ELSE m
    IN  [acc EXCEPT !.a_prev = a_masked, !.b_prev = IF "B" \in r.use THEN b_raw ELSE @,
                    !.cdat = c, !.state = IF Filling(r) THEN f.state ELSE @,
                    !.zero = @ /\ d = Blank, !.last_d = d,
                    !.ram = IF "D" \in r.use THEN WriteWord(@, acc.pt["D"], d) ELSE @,
                    !.pt = [ch \in DOMAIN @ |-> IF ch \in r.use THEN @[ch] + Step(r) ELSE @[ch]]]

AreaRow_keeping_the_carry(r, acc, row) ==
    LET done == FoldLeft(LAMBDA s, k : AreaWord(r, s, k), acc,
                         [k \in 1..r.width_words |-> k])
    IN  [done EXCEPT !.pt = [ch \in DOMAIN @ |-> IF ch \in r.use
                                                 THEN @[ch] + Step(r) * r.modulo[ch] ELSE @[ch]]]

(* The shifters run on from row to row; the fill carry starts anew. *)
AreaRow(r, acc, row) ==
    LET done == FoldLeft(LAMBDA s, k : AreaWord(r, s, k), [acc EXCEPT !.state = r.fci],
                         [k \in 1..r.width_words |-> k])
    IN  [done EXCEPT !.pt = [ch \in DOMAIN @ |-> IF ch \in r.use
                                                 THEN @[ch] + Step(r) * r.modulo[ch] ELSE @[ch]]]

execute_area(r) ==
    LET acc == FoldLeft(LAMBDA s, row : AreaRow(r, s, row),
                        [ram |-> ram, pt |-> r.pt, a_prev |-> Blank, b_prev |-> Blank,
                         cdat |-> r.dat["C"], state |-> r.fci, zero |-> TRUE, last_d |-> Blank],
                        [row \in 1..r.height_rows |-> row])
    IN  /\ ram' = acc.ram
        /\ blt' = [r EXCEPT !.pt = acc.pt, !.dat["C"] = acc.cdat, !.zero = acc.zero,
                            !.bltddat = acc.last_d]

-----------------------------------------------------------------------------
(* Lines (execute_line): acc carries the column in the word, the pointer of
   the row, the error and its sign, and whether the row has its dot. *)

line_step_x(acc, dx) ==
    LET n == acc.ash + dx IN
    [acc EXCEPT !.ash = n % W, !.cpt = IF n \in 0..W - 1 THEN @ ELSE @ + dx]

line_step_y(r, acc, dy) ==
    [acc EXCEPT !.cpt = @ + dy * r.bplmod, !.one_dot = FALSE]

Dir(back) == IF back THEN -1 ELSE 1

line_step_sometimes(r, acc) ==
    IF r.sud THEN line_step_y(r, acc, Dir(r.sul)) ELSE line_step_x(acc, Dir(r.sul))

line_step_always(r, acc) ==
    IF r.sud THEN line_step_x(acc, Dir(r.aul)) ELSE line_step_y(r, acc, Dir(r.aul))

LinePixel(r, acc) ==
    LET pixel == ~r.sing \/ ~acc.one_dot
        a == shift_combine(Blank, WordAnd(r.adat, r.bltafwm), acc.ash, FALSE)
        b == IF acc.bdat[W] = 1 THEN Solid ELSE Blank
        c == ReadWord(acc.ram, acc.cpt)
        d == minterm(r.lf, a, b, c)
        dotted == [acc EXCEPT !.one_dot = TRUE]
        minor == IF acc.sign THEN dotted ELSE line_step_sometimes(r, dotted)
        moved == line_step_always(r, minor)
        err == acc.acc + (IF acc.sign THEN r.bmod ELSE r.amod)
    IN  [moved EXCEPT !.acc = err, !.sign = err < 0, !.zero = @ /\ d = Blank,
                      !.ram = IF pixel THEN WriteWord(@, acc.dpt, d) ELSE @,
                      !.dpt = moved.cpt, !.bdat = Tail(@) \o <<Head(@)>>, !.last_d = d]

execute_line(r) ==
    LET rot == SubSeq(r.bdat, W - r.bsh + 1, W) \o SubSeq(r.bdat, 1, W - r.bsh)
        acc == FoldLeft(LAMBDA s, k : LinePixel(r, s),
                        [ram |-> ram, ash |-> r.ash, cpt |-> r.cpt, dpt |-> r.cpt, acc |-> r.acc,
                         sign |-> r.sign, one_dot |-> FALSE, bdat |-> rot, zero |-> TRUE,
                         last_d |-> Blank],
                        [k \in 1..r.height_rows |-> k])
    IN  /\ ram' = acc.ram
        /\ blt' = [r EXCEPT !.ash = acc.ash, !.cpt = acc.cpt, !.acc = acc.acc, !.sign = acc.sign,
                            !.bsh = (r.bsh - r.height_rows) % W, !.zero = acc.zero,
                            !.bltddat = acc.last_d]

-----------------------------------------------------------------------------
(* BLTSIZE after the other registers: execute_logged. *)
BlitterNext ==
    /\ prior.runs < MaxRuns
    /\ \E r \in AreaBlits \cup LineBlits :
        /\ prior' = [runs |-> prior.runs + 1, blt |-> r, ram |-> ram]
        /\ IF r.mode = "line" THEN execute_line(r) ELSE execute_area(r)

-----------------------------------------------------------------------------
(* An area blit as a stream of pixels in drawing order: pixel s of a row-major
   walk (mirrored when descending), word s \div W of it. *)

PixelCount(r) == r.height_rows * r.width_words * W

(* The address of the n-th word a channel visits, from 0. *)
WordAt(r, ch, n) ==
    Chip(r.pt[ch] + Step(r) * (n + (n \div r.width_words) * r.modulo[ch]))

(* Bit number i, from 0, of a word in drawing order. *)
InOrder(r, word, i) == IF r.desc THEN word[W - i] ELSE word[i + 1]

(* Stream A before the shift: memory or data register, under the masks. *)
StreamA(r, s) ==
    IF s < 0 THEN 0
    ELSE LET n == s \div W
             k == n % r.width_words
             raw == IF "A" \in r.use THEN prior.ram[WordAt(r, "A", n)] ELSE r.dat["A"]
         IN  InOrder(r, raw, s % W)
               * (IF k = 0 THEN InOrder(r, r.bltafwm, s % W) ELSE 1)
               * (IF k = r.width_words - 1 THEN InOrder(r, r.bltalwm, s % W) ELSE 1)

StreamB(r, s) ==
    IF "B" \notin r.use THEN InOrder(r, r.dat["B"], s % W)
    ELSE IF s < r.bsh THEN 0
    ELSE InOrder(r, prior.ram[WordAt(r, "B", (s - r.bsh) \div W)], (s - r.bsh) % W)

StreamC(r, s) ==
    IF "C" \in r.use THEN InOrder(r, prior.ram[WordAt(r, "C", s \div W)], s % W)
    ELSE InOrder(r, r.dat["C"], s % W)

Combined(r, s) ==
    IF <<StreamA(r, s - r.ash), StreamB(r, s), StreamC(r, s)>> \in r.lf THEN 1 ELSE 0

(* Pixels of the same row drawn before s that are 1: their parity is the fill. *)
Inside(r, s) ==
    (r.fci + Cardinality({q \in (s - (s % (r.width_words * W)))..s - 1 : Combined(r, q) = 1})) % 2

StreamD(r, s) ==
    CASE ~Filling(r) -> Combined(r, s)
      [] Filling(r) /\ r.fill = "ife" -> IF Inside(r, s) = 1 THEN 1 ELSE Combined(r, s)
      [] OTHER -> (Combined(r, s) + Inside(r, s)) % 2

(* No word is drawn twice or read after it is drawn. *)
AreaSound(r) ==
    LET n == r.height_rows * r.width_words IN
    "D" \in r.use => \A i, j \in 0..n - 1 : i < j =>
        /\ WordAt(r, "D", i) # WordAt(r, "D", j)
        /\ \A ch \in {"A", "B", "C"} \cap r.use : WordAt(r, "D", i) # WordAt(r, ch, j)

AreaIsItsPixels(r) ==
    /\ \A n \in 0..r.height_rows * r.width_words - 1, i \in 0..W - 1 :
          "D" \in r.use => InOrder(r, ram[WordAt(r, "D", n)], i) = StreamD(r, n * W + i)
    /\ \A a \in 0..RamWords - 1 :
          (\A n \in 0..r.height_rows * r.width_words - 1 :
               "D" \notin r.use \/ WordAt(r, "D", n) # a) => ram[a] = prior.ram[a]
    /\ blt.zero = (\A s \in 0..PixelCount(r) - 1 : StreamD(r, s) = 0)

(* A line of r.major steps along the major axis and r.minor along the other:
   pixel k is k along the first and the nearest whole step along the second. *)
MinorAt(r, k) == (2 * k * r.minor + r.major) \div (2 * r.major)

PixelOf(r, k) ==
    LET along == k * Dir(r.aul)
        across == MinorAt(r, k) * Dir(r.sul)
        row == IF r.sud THEN across ELSE along
        column == r.ash + (IF r.sud THEN along ELSE across)
    IN  [word |-> Chip(r.cpt + row * r.bplmod + column \div W), bit |-> (column % W) + 1, row |-> row]

(* With SING only the first pixel of each row is drawn. *)
Drawn(r) ==
    {k \in 0..r.height_rows - 1 : r.sing => k = 0 \/ PixelOf(r, k).row # PixelOf(r, k - 1).row}

LineIsItsPixels(r) ==
    \A a \in 0..RamWords - 1, i \in 1..W :
        LET hits == {k \in Drawn(r) : PixelOf(r, k).word = a /\ PixelOf(r, k).bit = i}
            texture(k) == r.bdat[((W - 1 - r.bsh + k) % W) + 1]
        IN  ram[a][i] = IF hits = {} THEN prior.ram[a][i]
                        ELSE LET k == CHOOSE h \in hits : TRUE
                             IN  IF <<1, texture(k), prior.ram[a][i]>> \in r.lf THEN 1 ELSE 0

(* An area blit is the pixelwise logic function of three shifted, masked
   pixel streams, filled row by row; a line is the nearest-pixel line through
   its end points in any of the eight octants, textured, and with one dot per
   row when asked.  Nothing else in chip RAM changes, and BZERO tells whether
   any pixel came out set. *)
BlitterDrawsItsPixels ==
    LET r == prior.blt IN
    /\ r.mode = "area" /\ AreaSound(r) => AreaIsItsPixels(r)
    /\ r.mode = "line" => LineIsItsPixels(r)

=============================================================================
