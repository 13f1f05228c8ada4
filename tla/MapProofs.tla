------------------------------ MODULE MapProofs ------------------------------
(***************************************************************************)
(* What the machine's run checks on one machine, for every configuration   *)
(* of it: any amount of VRAM and fast RAM, any length of the chain, any    *)
(* allocator that keeps boards inside the Zorro spaces, an image of any    *)
(* size, with or without an extension ROM or a shared fast RAM region; and *)
(* on the PCI bus behind the bridge board, any functions with registers of *)
(* any sizes, numbered and ordered in any way.                             *)
(***************************************************************************)
EXTENDS DirectMap, PciBus, FiniteSetTheorems, SequenceTheorems, TLAPS

-----------------------------------------------------------------------------
(* The inductive invariant.  The boards of the chain are what their type   *)
(* byte says; they are placed in order, inside their Zorro space, apart    *)
(* from one another; the cached windows, the table and the reservation are *)
(* functions of the placements and the overlay.                            *)

IsZ3(b) == /\ b.board_type \in 128..191 /\ b.flags = 48
           /\ b.board_type % 8 \in 0..6 /\ b.size = ExtendedSize(b.board_type % 8)
IsZ2(b) == /\ b.board_type \in 192..255 /\ b.flags = 0
           /\ b.size = ZorroIISize(b.board_type % 8)
GoodBoard(b) == /\ b.manufacturer \in {2011, 2092}
                /\ b.name \notin {"chip", "fast"}
                /\ b.name = "fastram" => IsZ3(b)
                /\ IsZ3(b) \/ IsZ2(b)
GoodChain(s) == /\ Len(s) \in Nat /\ DOMAIN s = 1..Len(s)
                /\ \A i \in 1..Len(s) : GoodBoard(s[i])
                /\ \A i, j \in 1..Len(s) : s[i].name = s[j].name => i = j

WindowType == [base : Int, size : Int]
InSpace(w, b) == \/ IsZ3(b) /\ 4096 <= w.base /\ w.base + w.size <= 65536
                 \/ IsZ2(b) /\ 32 <= w.base /\ w.base + w.size <= 160
                 \/ IsZ2(b) /\ 233 <= w.base /\ w.base + w.size <= 240
Apart(v, w) == v.base + v.size <= w.base \/ w.base + w.size <= v.base

ChainInv == /\ GoodChain(specs)
            /\ current \in 1..(Len(specs) + 1)
            /\ z3_base_hi \in Int
PlacedInv ==
    /\ placed \in [Slots -> WindowType]
    /\ \A i \in Slots : placed[i] # NotPlaced =>
          i < current /\ placed[i].size = specs[i].size /\ InSpace(placed[i], specs[i])
    /\ \A i, j \in Slots : placed[i] # NotPlaced /\ placed[j] # NotPlaced /\ i # j =>
          Apart(placed[i], placed[j])
WindowsInv ==
    /\ overlay \in BOOLEAN
    /\ fast_window = WindowOf("fastram")
    /\ pcibridge_window = WindowOf("pcibridge")
TableInv ==
    /\ fingerprint = Fingerprint
    /\ pages = [overlay |-> overlay, placements |-> placed, fast |-> fast_ram_window,
                alias |-> fast_alias]
FixedMaps == << [base |-> ROM_BASE, len |-> ROM_END - ROM_BASE, what |-> "rom"],
                [base |-> 0, len |-> CHIP_RAM_END, what |-> "chip"] >>
FastMap(w) == [base |-> w.base, len |-> w.size, what |-> "fast"]
AliasInv ==
    \/ fast_alias = NotPlaced /\ reservation = FixedMaps
    \/ /\ fast_alias # NotPlaced /\ fast_alias = fast_ram_window /\ FastShared
       /\ reservation = <<FastMap(fast_alias)>> \o FixedMaps

MapInv == ChainInv /\ PlacedInv /\ WindowsInv /\ TableInv /\ AliasInv

-----------------------------------------------------------------------------
(* The chain's boards.                                                     *)

\* The size code of a length is always one of the table's.
LEMMA FirstFitInRange ==
    ASSUME NEW sizes \in Seq(Nat), Len(sizes) >= 1, NEW len \in Nat
    PROVE  FirstFit(sizes, len) \in 1..Len(sizes)
<1> DEFINE S == Smaller(sizes, len)
<1>1. Len(sizes) \in Nat /\ DOMAIN sizes = 1..Len(sizes)
  BY LenProperties
<1>2. IsFiniteSet(1..Len(sizes)) /\ Cardinality(1..Len(sizes)) = Len(sizes)
  BY <1>1, FS_Interval
<1>3. S \subseteq 1..Len(sizes)
  BY <1>1 DEF Smaller
<1>4. IsFiniteSet(S) /\ Cardinality(S) <= Len(sizes) /\ (Cardinality(S) = Len(sizes) => S = 1..Len(sizes))
  BY <1>2, <1>3, FS_Subset
<1>5. Cardinality(S) \in Nat
  BY <1>4, FS_CardinalityType
<1>6. CASE S = DOMAIN sizes
  BY <1>1, <1>6 DEF FirstFit
<1>7. CASE S # DOMAIN sizes
  <2>1. FirstFit(sizes, len) = Cardinality(S) + 1
    BY <1>7 DEF FirstFit
  <2> QED
    BY <2>1, <1>1, <1>4, <1>5, <1>7
<1> QED
  BY <1>6, <1>7

LEMMA SizeTables ==
    /\ ZORRO_II_SIZES \in Seq(Nat) /\ Len(ZORRO_II_SIZES) = 8
    /\ EXTENDED_SIZES \in Seq(Nat) /\ Len(EXTENDED_SIZES) = 7
  BY DEF ZORRO_II_SIZES, EXTENDED_SIZES

LEMMA TwoPages == zorro_ii_size_code(2) = 2
<1>1. Smaller(ZORRO_II_SIZES, 2) = {1}
  BY DEF Smaller, ZORRO_II_SIZES
<1>2. DOMAIN ZORRO_II_SIZES = 1..8
  BY DEF ZORRO_II_SIZES
<1>3. Cardinality({1}) = 1
  BY FS_Singleton
<1>4. 2 \in 1..8 /\ 2 \notin {1}
  OBVIOUS
<1>5. FirstFit(ZORRO_II_SIZES, 2) = 2
  BY <1>1, <1>2, <1>3, <1>4 DEF FirstFit
<1> QED
  BY <1>5 DEF zorro_ii_size_code

\* The boards one by one.
OwnName(name) == name \notin {"chip", "fast"}
Answers(b, name) == GoodBoard(b) /\ b.name = name

LEMMA Spec3IsGood ==
    ASSUME NEW name, OwnName(name),
           NEW type \in 0..63, NEW product, NEW diag, NEW size,
           type % 8 \in 0..6, size = ExtendedSize(type % 8)
    PROVE  Answers(Spec3(name, type, product, diag, size), name)
<1> DEFINE b == Spec3(name, type, product, diag, size)
<1>1. /\ b.name = name /\ b.board_type = 128 + type /\ b.flags = 48
      /\ b.manufacturer = 2011 /\ b.size = ExtendedSize(type % 8)
  BY DEF Spec3, ERT_ZORROIII, ERFF_ZORRO_III, ERFF_EXTENDED
<1>2. (128 + type) % 8 = type % 8 /\ 128 + type \in 128..191
  OBVIOUS
<1>3. IsZ3(b)
  BY <1>1, <1>2 DEF IsZ3
<1> QED
  BY <1>1, <1>3 DEF GoodBoard, Answers, OwnName

LEMMA Spec2IsGood ==
    ASSUME NEW name, OwnName(name), name # "fastram",
           NEW type \in 0..63, NEW product, NEW diag, NEW size, size = ZorroIISize(type % 8)
    PROVE  /\ Answers(Spec2(name, type, product, diag, size), name)
           /\ Answers(Graffity(Spec2(name, type, product, diag, size)), name)
<1> DEFINE b == Spec2(name, type, product, diag, size)
<1> DEFINE g == Graffity(b)
<1>1. /\ b.name = name /\ b.board_type = 192 + type /\ b.flags = 0
      /\ b.manufacturer = 2011 /\ b.size = ZorroIISize(type % 8)
  BY DEF Spec2, ERT_ZORROII
<1>2. /\ g.name = name /\ g.board_type = 192 + type /\ g.flags = 0
      /\ g.manufacturer = 2092 /\ g.size = ZorroIISize(type % 8)
  BY DEF Spec2, ERT_ZORROII, Graffity
<1>3. (192 + type) % 8 = type % 8 /\ 192 + type \in 192..255
  OBVIOUS
<1>4. IsZ2(b) /\ IsZ2(g)
  BY <1>1, <1>2, <1>3 DEF IsZ2
<1> QED
  BY <1>1, <1>2, <1>4 DEF GoodBoard, Answers, OwnName


\* The names the boards answer to, in the order they are attached.
Names == IF FastPages > 0
         THEN <<"hostblk", "pktport", "vram", "regs", "fastram", "input", "rtg", "pcibridge">>
         ELSE <<"hostblk", "pktport", "vram", "regs", "input", "rtg", "pcibridge">>

AreInOrder(s, a, b, c, d, m, f, g, h) ==
    /\ Len(s) = 7 + Len(m) /\ DOMAIN s = 1..Len(s)
    /\ s[1] = a /\ s[2] = b /\ s[3] = c /\ s[4] = d
    /\ Len(m) = 1 => s[5] = m[1]
    /\ s[5 + Len(m)] = f /\ s[6 + Len(m)] = g /\ s[7 + Len(m)] = h

LEMMA Chain8 ==
    ASSUME NEW a, NEW b, NEW c, NEW d, NEW m, NEW f, NEW g, NEW h,
           m = << >> \/ \E e : m = <<e>>
    PROVE  AreInOrder(((<<a, b>> \o <<c, d>>) \o m) \o <<f, g, h>>, a, b, c, d, m, f, g, h)
<1>1. PICK S : /\ <<a, b>> \in Seq(S) /\ <<c, d>> \in Seq(S) /\ m \in Seq(S) /\ <<f, g, h>> \in Seq(S)
               /\ Len(m) \in {0, 1}
  <2>1. CASE m = << >>
    <3> WITNESS {a, b, c, d, f, g, h}
    <3> QED
      BY <2>1
  <2>2. CASE \E e : m = <<e>>
    <3>1. PICK e : m = <<e>>
      BY <2>2
    <3> WITNESS {a, b, c, d, e, f, g, h}
    <3> QED
      BY <3>1
  <2> QED
    BY <2>1, <2>2
<1> DEFINE p == <<a, b>> \o <<c, d>>
           q == p \o m
           s == q \o <<f, g, h>>
<1>2. p \in Seq(S) /\ Len(p) = 4 /\ p[1] = a /\ p[2] = b /\ p[3] = c /\ p[4] = d
  <2>1. Len(<<a, b>>) = 2 /\ Len(<<c, d>>) = 2
    OBVIOUS
  <2> QED
    BY <1>1, <2>1, ConcatProperties
<1> HIDE DEF p
<1>3. q \in Seq(S) /\ Len(q) = 4 + Len(m) /\ (\A i \in 1..4 : q[i] = p[i]) /\ (Len(m) = 1 => q[5] = m[1])
  <2>0. p \in Seq(S) /\ m \in Seq(S)
    BY <1>1, <1>2
  <2>1. /\ q \in Seq(S) /\ Len(q) = Len(p) + Len(m)
        /\ \A i \in 1..Len(p) + Len(m) : q[i] = IF i <= Len(p) THEN p[i] ELSE m[i - Len(p)]
    BY ONLY <2>0, ConcatProperties
  <2> QED
    BY <2>1, <1>1, <1>2
<1> HIDE DEF q
<1>4. /\ s \in Seq(S) /\ Len(s) = 7 + Len(m) /\ (\A i \in 1..(4 + Len(m)) : s[i] = q[i])
      /\ s[5 + Len(m)] = f /\ s[6 + Len(m)] = g /\ s[7 + Len(m)] = h
  <2>1. Len(<<f, g, h>>) = 3
    OBVIOUS
  <2> QED
    BY <1>1, <1>3, <2>1, ConcatProperties
<1> HIDE DEF s
<1>5. DOMAIN s = 1..Len(s)
  BY <1>4, LenProperties
<1>6. AreInOrder(s, a, b, c, d, m, f, g, h)
  BY <1>1, <1>2, <1>3, <1>4, <1>5 DEF AreInOrder
<1> QED
  BY <1>6 DEF s, q, p

LEMMA AttachedBoards ==
    /\ Len(Attached) \in Nat /\ DOMAIN Attached = 1..Len(Attached)
    /\ Len(Attached) = Len(Names)
    /\ \A i \in 1..Len(Attached) : GoodBoard(Attached[i]) /\ Attached[i].name = Names[i]
<1> DEFINE v == zorro_ii_size_code(VramPages)
           vb == Graffity(Spec2("vram", v, 34, 0, ZorroIISize(v)))
           rb == Graffity(Spec2("regs", 2, 33, 0, 2))
           f == extended_size_code(FastPages)
           fb == Spec3("fastram", 32 + f, 2, 0, ExtendedSize(f))
<1>1. Answers(HostblkBoard, "hostblk")
  <2>a. OwnName("hostblk") /\ "hostblk" # "fastram"
    BY DEF OwnName
  <2>1. HostblkBoard = Spec3("hostblk", 16, 1, 4096, 256)
    BY DEF HostblkBoard, ERTF_DIAGVALID
  <2>2. 256 = ExtendedSize(16 % 8) /\ 16 \in 0..63 /\ 16 % 8 \in 0..6
    BY DEF ExtendedSize, EXTENDED_SIZES
  <2>3. \A diag : Answers(Spec3("hostblk", 16, 1, diag, 256), "hostblk")
    BY <2>2, <2>a, Spec3IsGood
  <2> QED
    BY <2>1, <2>3
<1>2. Answers(InputBoard, "input")
  <2>a. OwnName("input") /\ "input" # "fastram"
    BY DEF OwnName
  <2>1. InputBoard = Spec3("input", 16, 3, 4096, 256)
    BY DEF InputBoard, ERTF_DIAGVALID
  <2>2. 256 = ExtendedSize(16 % 8) /\ 16 \in 0..63 /\ 16 % 8 \in 0..6
    BY DEF ExtendedSize, EXTENDED_SIZES
  <2>3. \A diag : Answers(Spec3("input", 16, 3, diag, 256), "input")
    BY <2>2, <2>a, Spec3IsGood
  <2> QED
    BY <2>1, <2>3
<1>3. Answers(RtgBoardSpec, "rtg")
  <2>a. OwnName("rtg") /\ "rtg" # "fastram"
    BY DEF OwnName
  <2>1. RtgBoardSpec = Spec3("rtg", 0, 4, 0, 256)
    BY DEF RtgBoardSpec
  <2>2. 256 = ExtendedSize(0 % 8) /\ 0 \in 0..63 /\ 0 % 8 \in 0..6
    BY DEF ExtendedSize, EXTENDED_SIZES
  <2> QED
    BY <2>1, <2>2, <2>a, Spec3IsGood, Zenon
<1>3a. Answers(PciBridgeBoard, "pcibridge")
  <2>a. OwnName("pcibridge") /\ "pcibridge" # "fastram"
    BY DEF OwnName
  <2>1. PciBridgeBoard = Spec3("pcibridge", 0, 6, 0, 256)
    BY DEF PciBridgeBoard
  <2>2. 256 = ExtendedSize(0 % 8) /\ 0 \in 0..63 /\ 0 % 8 \in 0..6
    BY DEF ExtendedSize, EXTENDED_SIZES
  <2> QED
    BY <2>1, <2>2, <2>a, Spec3IsGood, Zenon
<1>4. Answers(PktportBoard, "pktport")
  <2>a. OwnName("pktport") /\ "pktport" # "fastram"
    BY DEF OwnName
  <2>1. PktportBoard = Spec2("pktport", 17, 5, 4096, 1)
    BY DEF PktportBoard, ERTF_DIAGVALID
  <2>2. 1 = ZorroIISize(17 % 8) /\ 17 \in 0..63
    BY DEF ZorroIISize, ZORRO_II_SIZES
  <2>3. \A diag : Answers(Spec2("pktport", 17, 5, diag, 1), "pktport")
    BY <2>2, <2>a, Spec2IsGood, Zenon
  <2> QED
    BY <2>1, <2>3
<1>5. Answers(vb, "vram")
  <2>a. OwnName("vram") /\ "vram" # "fastram"
    BY DEF OwnName
  <2>0. ZORRO_II_SIZES \in Seq(Nat) /\ Len(ZORRO_II_SIZES) = 8 /\ Len(ZORRO_II_SIZES) >= 1 /\ VramPages \in Nat
    BY SizeTables, ChainAssumption
  <2>1. FirstFit(ZORRO_II_SIZES, VramPages) \in 1..8
    BY <2>0, FirstFitInRange, Zenon
  <2>2. v \in 0..63 /\ v % 8 = v
    BY <2>1 DEF zorro_ii_size_code
  <2> HIDE DEF v
  <2> QED
    BY <2>2, <2>a, Spec2IsGood, Zenon
<1>6. Answers(rb, "regs")
  <2>a. OwnName("regs") /\ "regs" # "fastram"
    BY DEF OwnName
  <2>1. 2 = ZorroIISize(2 % 8) /\ 2 \in 0..63
    BY DEF ZorroIISize, ZORRO_II_SIZES
  <2> QED
    BY <2>1, <2>a, Spec2IsGood, Zenon
<1>7. Answers(fb, "fastram")
  <2>a. OwnName("fastram")
    BY DEF OwnName
  <2>0. EXTENDED_SIZES \in Seq(Nat) /\ Len(EXTENDED_SIZES) = 7 /\ Len(EXTENDED_SIZES) >= 1 /\ FastPages \in Nat
    BY SizeTables, ChainAssumption
  <2>1. FirstFit(EXTENDED_SIZES, FastPages) \in 1..7
    BY <2>0, FirstFitInRange, Zenon
  <2>2. (32 + f) % 8 \in 0..6 /\ (32 + f) % 8 = f /\ 32 + f \in 0..63
    BY <2>1 DEF extended_size_code
  <2> HIDE DEF f
  <2> QED
    BY <2>2, <2>a, Spec3IsGood, Zenon
<1>8. board_specs(VramPages) = <<vb, rb>>
  BY TwoPages DEF board_specs, ZorroIISize, ZORRO_II_SIZES
<1>9. autoconfig_board_spec(FastPages) = fb
  BY DEF autoconfig_board_spec, ERTF_MEMLIST
<1> HIDE DEF vb, rb, fb, v, f
<1> DEFINE mid == IF FastPages > 0 THEN <<fb>> ELSE << >>
<1>10. Attached = ((<<HostblkBoard, PktportBoard>> \o <<vb, rb>>) \o mid)
                     \o <<InputBoard, RtgBoardSpec, PciBridgeBoard>>
  BY <1>8, <1>9 DEF Attached
<1>11. mid = << >> \/ \E e : mid = <<e>>
  OBVIOUS
<1> HIDE DEF mid
<1>12. /\ Len(Attached) = 7 + Len(mid) /\ DOMAIN Attached = 1..Len(Attached)
       /\ Attached[1] = HostblkBoard /\ Attached[2] = PktportBoard
       /\ Attached[3] = vb /\ Attached[4] = rb /\ (Len(mid) = 1 => Attached[5] = mid[1])
       /\ Attached[5 + Len(mid)] = InputBoard /\ Attached[6 + Len(mid)] = RtgBoardSpec
       /\ Attached[7 + Len(mid)] = PciBridgeBoard
  <2>1. AreInOrder(Attached, HostblkBoard, PktportBoard, vb, rb, mid, InputBoard, RtgBoardSpec,
                   PciBridgeBoard)
    BY <1>10, <1>11, Chain8, Zenon
  <2> QED
    BY <2>1 DEF AreInOrder
<1>13. CASE FastPages > 0
  <2>1. Len(mid) = 1 /\ mid[1] = fb
    BY <1>13 DEF mid
  <2>2. /\ Len(Attached) = 8 /\ Attached[5] = fb /\ Attached[6] = InputBoard
        /\ Attached[7] = RtgBoardSpec /\ Attached[8] = PciBridgeBoard
    BY <1>12, <2>1
  <2>3. /\ Len(Names) = 8 /\ Names[1] = "hostblk" /\ Names[2] = "pktport" /\ Names[3] = "vram"
        /\ Names[4] = "regs" /\ Names[5] = "fastram" /\ Names[6] = "input" /\ Names[7] = "rtg"
        /\ Names[8] = "pcibridge"
    BY <1>13 DEF Names
  <2>4. ASSUME NEW i \in 1..8 PROVE Answers(Attached[i], Names[i])
    <3>1. i \in {1, 2, 3, 4, 5, 6, 7, 8}
      OBVIOUS
    <3> QED
      BY <3>1, <2>2, <2>3, <1>1, <1>2, <1>3, <1>3a, <1>4, <1>5, <1>6, <1>7, <1>12, Zenon
  <2> QED
    BY <2>2, <2>3, <2>4, <1>12 DEF Answers
<1>14. CASE ~(FastPages > 0)
  <2>1. Len(mid) = 0
    BY <1>14 DEF mid
  <2>2. /\ Len(Attached) = 7 /\ Attached[5] = InputBoard
        /\ Attached[6] = RtgBoardSpec /\ Attached[7] = PciBridgeBoard
    BY <1>12, <2>1
  <2>3. /\ Len(Names) = 7 /\ Names[1] = "hostblk" /\ Names[2] = "pktport" /\ Names[3] = "vram"
        /\ Names[4] = "regs" /\ Names[5] = "input" /\ Names[6] = "rtg"
        /\ Names[7] = "pcibridge"
    BY <1>14 DEF Names
  <2>4. ASSUME NEW i \in 1..7 PROVE Answers(Attached[i], Names[i])
    <3>1. i \in {1, 2, 3, 4, 5, 6, 7}
      OBVIOUS
    <3> QED
      BY <3>1, <2>2, <2>3, <1>1, <1>2, <1>3, <1>3a, <1>4, <1>5, <1>6, <1>12, Zenon
  <2> QED
    BY <2>2, <2>3, <2>4, <1>12 DEF Answers
<1> QED
  BY <1>13, <1>14

LEMMA NamesDiffer ==
    /\ Len(Names) \in Nat
    /\ \A i, j \in 1..Len(Names) : Names[i] = Names[j] => i = j
<1>1. CASE FastPages > 0
  BY <1>1 DEF Names
<1>2. CASE ~(FastPages > 0)
  BY <1>2 DEF Names
<1> QED
  BY <1>1, <1>2

LEMMA ChainIsGood == GoodChain(add_board(Attached))
<1> DEFINE n == IF Len(Attached) <= MAX_BOARDS THEN Len(Attached) ELSE MAX_BOARDS
           s == add_board(Attached)
<1>1. Len(Attached) \in Nat /\ n \in 0..Len(Attached)
  BY AttachedBoards, NamesDiffer, ChainAssumption
<1>2. s = SubSeq(Attached, 1, n)
  BY DEF add_board
<1>3. Len(s) = n /\ DOMAIN s = 1..n /\ \A i \in 1..n : s[i] = Attached[i]
  BY <1>1, <1>2
<1>4. \A i \in 1..n : GoodBoard(s[i]) /\ s[i].name = Names[i] /\ i \in 1..Len(Names)
  BY <1>1, <1>3, AttachedBoards
<1> HIDE DEF n, s
<1>5. \A i, j \in 1..n : s[i].name = s[j].name => i = j
  BY <1>4, NamesDiffer
<1>6. GoodChain(s)
  BY <1>1, <1>3, <1>4, <1>5 DEF GoodChain
<1> QED
  BY <1>6 DEF s


-----------------------------------------------------------------------------
(* What expansion.library learns from the nybbles is what the board is.    *)

Bytes == 0..255

LEMMA GuestReads ==
    ASSUME current \in Slots, NEW n \in 0..15, NEW v \in Bytes,
           rom_bytes(specs[current])[n] = v
    PROVE  GuestByte(n) = v
<1> DEFINE physical == IF n = 0 THEN v ELSE 255 - v
<1>0. v \in 0..255
  BY DEF Bytes
<1>1. physical \in 0..255
  BY <1>0
<1>2. /\ (4 * n) % 2 = 0 /\ (4 * n) \div 4 = n /\ (4 * n) % 4 = 0
      /\ (4 * n + 2) % 2 = 0 /\ (4 * n + 2) \div 4 = n /\ (4 * n + 2) % 4 = 2
  OBVIOUS
<1>3. autoconfig_read(4 * n) = 16 * (physical \div 16)
  BY <1>2 DEF autoconfig_read, AUTOCONFIG_ROM_BYTES
<1>4. autoconfig_read(4 * n + 2) = 16 * (physical % 16)
  BY <1>2 DEF autoconfig_read, AUTOCONFIG_ROM_BYTES
<1> HIDE DEF physical
<1>5. ((16 * (physical \div 16)) \div 16) * 16 + (16 * (physical % 16)) \div 16 = physical
  BY <1>1
<1>6. GuestByte(n) = IF n = 0 THEN physical ELSE 255 - physical
  BY <1>3, <1>4, <1>5 DEF GuestByte
<1> QED
  BY <1>0, <1>6 DEF physical

LEMMA NoBoardNoGuest ==
    ASSUME current \notin Slots
    PROVE  ~GuestSeesBoard
<1>1. ASSUME NEW off PROVE autoconfig_read(off) = 255
  BY DEF autoconfig_read, OPEN_BUS_BYTE
<1>2. GuestByte(4) = 0 /\ GuestByte(5) = 0
  BY <1>1 DEF GuestByte
<1> QED
  BY <1>2 DEF GuestSeesBoard

LEMMA BoardSizes ==
    ASSUME NEW b
    PROVE  /\ IsZ3(b) => ~IsZ2(b) /\ \E k \in DOMAIN EXTENDED_SIZES : b.size = EXTENDED_SIZES[k]
           /\ IsZ2(b) => ~IsZ3(b) /\ \E k \in DOMAIN ZORRO_II_SIZES : b.size = ZORRO_II_SIZES[k]
           /\ IsZ3(b) \/ IsZ2(b) => b.size \in Nat \ {0}
<1>1. /\ DOMAIN EXTENDED_SIZES = 1..7 /\ DOMAIN ZORRO_II_SIZES = 1..8
      /\ \A k \in 1..7 : EXTENDED_SIZES[k] \in Nat \ {0}
      /\ \A k \in 1..8 : ZORRO_II_SIZES[k] \in Nat \ {0}
  BY DEF EXTENDED_SIZES, ZORRO_II_SIZES
<1>2. ASSUME IsZ3(b) PROVE ~IsZ2(b) /\ \E k \in 1..7 : b.size = EXTENDED_SIZES[k]
  <2>1. b.board_type \in 128..191 /\ b.board_type % 8 \in 0..6
        /\ b.size = EXTENDED_SIZES[(b.board_type % 8) + 1]
    BY <1>2 DEF IsZ3, ExtendedSize
  <2>2. ~IsZ2(b)
    BY <2>1 DEF IsZ2
  <2>3. (b.board_type % 8) + 1 \in 1..7
    BY <2>1
  <2> QED
    BY <2>1, <2>2, <2>3
<1>3. ASSUME IsZ2(b) PROVE ~IsZ3(b) /\ \E k \in 1..8 : b.size = ZORRO_II_SIZES[k]
  <2> DEFINE code == b.board_type % 8
  <2>1. b.board_type \in 192..255 /\ b.size = IF code = 0 THEN ZORRO_II_SIZES[8] ELSE ZORRO_II_SIZES[code]
    BY <1>3 DEF IsZ2, ZorroIISize
  <2>2. ~IsZ3(b)
    BY <2>1 DEF IsZ3
  <2>3. code \in 0..7
    BY <2>1
  <2> HIDE DEF code
  <2>4. (IF code = 0 THEN 8 ELSE code) \in 1..8
    BY <2>3
  <2> QED
    BY <2>1, <2>2, <2>4
<1> QED
  BY <1>1, <1>2, <1>3

LEMMA GuestKnows ==
    ASSUME ChainInv, GuestSeesBoard
    PROVE  /\ current \in Slots
           /\ GuestSeesZ3 <=> IsZ3(specs[current])
           /\ IsType(ERT_ZORROIII) <=> IsZ3(specs[current])
           /\ IsType(ERT_ZORROII) <=> IsZ2(specs[current])
           /\ GuestSize = specs[current].size
<1> DEFINE b == specs[current]
<1>1. current \in Slots
  BY NoBoardNoGuest
<1>2. GoodBoard(b)
  BY <1>1 DEF ChainInv, GoodChain, Slots
<1>3. rom_bytes(b)[0] = b.board_type /\ rom_bytes(b)[2] = b.flags
  BY DEF rom_bytes, AUTOCONFIG_ROM_BYTES
<1>4. b.board_type \in Bytes /\ b.flags \in Bytes
  BY <1>2 DEF GoodBoard, IsZ3, IsZ2, Bytes
<1>5. GuestByte(0) = b.board_type /\ GuestByte(2) = b.flags
  <2>1. 0 \in 0..15 /\ 2 \in 0..15
    OBVIOUS
  <2> QED
    BY <2>1, <1>1, <1>3, <1>4, GuestReads, Zenon
<1>6. CASE IsZ3(b)
  <2>1. b.board_type \in 128..191 /\ b.flags = 48 /\ b.size = ExtendedSize(b.board_type % 8) /\ ~IsZ2(b)
    BY <1>6, BoardSizes DEF IsZ3
  <2>2. (b.board_type \div 64) * 64 = 128 /\ (48 \div 32) % 2 = 1
    BY <2>1
  <2> QED
    BY <1>1, <1>5, <1>6, <2>1, <2>2 DEF GuestSeesZ3, GuestSize, IsType, ERT_ZORROIII, ERT_ZORROII, ERFF_EXTENDED
<1>7. CASE IsZ2(b)
  <2>1. b.board_type \in 192..255 /\ b.flags = 0 /\ b.size = ZorroIISize(b.board_type % 8) /\ ~IsZ3(b)
    BY <1>7, BoardSizes DEF IsZ2
  <2>2. (b.board_type \div 64) * 64 = 192 /\ (0 \div 32) % 2 = 0
    BY <2>1
  <2> QED
    BY <1>1, <1>5, <1>7, <2>1, <2>2 DEF GuestSeesZ3, GuestSize, IsType, ERT_ZORROIII, ERT_ZORROII, ERFF_EXTENDED
<1> QED
  BY <1>2, <1>6, <1>7 DEF GoodBoard


-----------------------------------------------------------------------------
(* A step of the chain places the current board or leaves the placements.  *)

\* What every step does to the chain: it never touches a placed board.
ChainStep ==
    /\ specs' = specs /\ ChainInv' /\ PlacedInv'
    /\ \A i \in Slots : placed[i] # NotPlaced => placed'[i] = placed[i]

LEMMA ConfigureStep ==
    ASSUME ChainInv, PlacedInv, current \in Slots, NEW base \in Int, Configure(base),
           InSpace([base |-> base, size |-> specs[current].size], specs[current]),
           Free(base, specs[current].size, Taken)
    PROVE  ChainStep
<1> DEFINE w == [base |-> base, size |-> specs[current].size]
<1>1. /\ placed' = [placed EXCEPT ![current] = w] /\ current' = current + 1
      /\ z3_base_hi' = NoByte /\ specs' = specs /\ Slots' = Slots
  BY DEF Configure, Slots
<1>2. GoodBoard(specs[current]) /\ Len(specs) \in Nat /\ current \in 1..Len(specs)
  BY DEF ChainInv, GoodChain, Slots
<1>3. specs[current].size \in Nat \ {0}
  BY <1>2, BoardSizes DEF GoodBoard
<1>4. w \in WindowType /\ w.base = base /\ w.size = specs[current].size
  BY <1>3 DEF WindowType
<1>5. ChainInv'
  BY <1>1, <1>2 DEF ChainInv, NoByte
<1>6. placed[current] = NotPlaced
  BY <1>2 DEF PlacedInv, Slots
<1>7. /\ placed' \in [Slots -> WindowType] /\ placed'[current] = w
      /\ \A i \in Slots : i # current => placed'[i] = placed[i]
  BY <1>1, <1>4 DEF PlacedInv
<1>8. ASSUME NEW i \in Slots, placed[i] # NotPlaced PROVE Apart(w, placed[i])
  BY <1>4, <1>8 DEF Free, Taken, Apart
<1> HIDE DEF w
<1>9. ASSUME NEW i \in Slots, placed'[i] # NotPlaced
      PROVE  i < current' /\ placed'[i].size = specs[i].size /\ InSpace(placed'[i], specs[i])
  <2>1. CASE i = current
    BY <2>1, <1>1, <1>2, <1>4, <1>7 DEF w
  <2>2. CASE i # current
    <3>1. placed'[i] = placed[i] /\ i < current
      BY <2>2, <1>7, <1>9 DEF PlacedInv
    <3>2. i < current'
      BY <3>1, <1>1, <1>2 DEF Slots
    <3> QED
      BY <3>1, <3>2, <1>9 DEF PlacedInv
  <2> QED
    BY <2>1, <2>2
<1>10. ASSUME NEW i \in Slots, NEW j \in Slots, placed'[i] # NotPlaced, placed'[j] # NotPlaced, i # j
       PROVE  Apart(placed'[i], placed'[j])
  <2>1. CASE i = current
    BY <2>1, <1>7, <1>8, <1>10
  <2>2. CASE j = current
    BY <2>2, <1>7, <1>8, <1>10 DEF Apart
  <2>3. CASE i # current /\ j # current
    BY <2>3, <1>7, <1>10 DEF PlacedInv
  <2> QED
    BY <2>1, <2>2, <2>3
<1>11. PlacedInv'
  BY <1>1, <1>7, <1>9, <1>10 DEF PlacedInv
<1>12. \A i \in Slots : placed[i] # NotPlaced => placed'[i] = placed[i]
  BY <1>6, <1>7
<1> QED
  BY <1>1, <1>5, <1>11, <1>12 DEF ChainStep

LEMMA RetireStep ==
    ASSUME ChainInv, PlacedInv, current \in Slots, Retire
    PROVE  ChainStep
<1>1. /\ placed' = placed /\ current' = current + 1 /\ z3_base_hi' = NoByte /\ specs' = specs
      /\ Slots' = Slots
  BY DEF Retire, Slots
<1>2. Len(specs) \in Nat /\ current \in 1..Len(specs)
  BY DEF ChainInv, GoodChain, Slots
<1>3. ChainInv'
  BY <1>1, <1>2 DEF ChainInv, NoByte
<1>4. \A i \in Slots : i < current => i < current'
  BY <1>1, <1>2 DEF Slots
<1>5. PlacedInv'
  BY <1>1, <1>4 DEF PlacedInv
<1> QED
  BY <1>1, <1>3, <1>5 DEF ChainStep

\* The slots the allocator hands out.
LEMMA SlotInSpace ==
    ASSUME ChainInv, GuestSeesBoard, NEW slots, NEW base \in Candidates(slots),
           \/ GuestSeesZ3 /\ slots = Z3Slots
           \/ ~GuestSeesZ3 /\ slots = Z2Slots
    PROVE  /\ base \in Nat /\ Free(base, specs[current].size, Taken)
           /\ InSpace([base |-> base, size |-> specs[current].size], specs[current])
<1> DEFINE b == specs[current]
           w == [base |-> base, size |-> b.size]
<1>1. /\ current \in Slots /\ (GuestSeesZ3 <=> IsZ3(b)) /\ GuestSize = b.size
  BY GuestKnows
<1>2. base \in slots /\ base % b.size = 0 /\ Free(base, b.size, Taken)
  BY <1>1 DEF Candidates, Fitting
<1>3. base \in Nat
  <2>1. Z2Slots \subseteq Nat /\ Z3Slots \subseteq Nat
    BY SlotAssumption
  <2> QED
    BY <2>1, <1>2
<1>4. w.base = base /\ w.size = b.size
  OBVIOUS
<1>5. CASE IsZ3(b)
  <2>1. PICK k \in DOMAIN EXTENDED_SIZES : b.size = EXTENDED_SIZES[k]
    BY <1>5, BoardSizes
  <2>2. base \in Z3Slots
    BY <1>1, <1>2, <1>5
  <2>3. 4096 <= base /\ base + b.size <= 65536
    BY <2>1, <2>2, <1>2, SlotAssumption
  <2>4. InSpace(w, b)
    BY <2>3, <1>4, <1>5 DEF InSpace
  <2> QED
    BY <2>4, <1>2, <1>3
<1>6. CASE ~IsZ3(b)
  <2>0. IsZ2(b)
    BY <1>6, <1>1 DEF ChainInv, GoodChain, GoodBoard, Slots
  <2>1. PICK k \in DOMAIN ZORRO_II_SIZES : b.size = ZORRO_II_SIZES[k]
    BY <2>0, BoardSizes
  <2>2. base \in Z2Slots
    BY <1>1, <1>2, <1>6
  <2>3. \/ 32 <= base /\ base + b.size <= 160
        \/ 233 <= base /\ base + b.size <= 240
    BY <2>1, <2>2, <1>2, SlotAssumption
  <2>4. InSpace(w, b)
    BY <2>3, <1>4, <2>0 DEF InSpace
  <2> QED
    BY <2>4, <1>2, <1>3
<1> QED
  BY <1>5, <1>6


LEMMA KeptStep ==
    ASSUME ChainInv, PlacedInv, UNCHANGED <<specs, placed, current>>, z3_base_hi' \in Int
    PROVE  ChainStep
<1>1. specs' = specs /\ placed' = placed /\ current' = current /\ Slots' = Slots
  BY DEF Slots
<1>2. ChainInv'
  BY <1>1 DEF ChainInv
<1>3. PlacedInv'
  BY <1>1 DEF PlacedInv
<1> QED
  BY <1>1, <1>2, <1>3 DEF ChainStep

LEMMA NextChainStep ==
    ASSUME ChainInv, PlacedInv, DMNext
    PROVE  ChainStep
<1>1. CASE PlaceZ3Hi
  <2>1. PICK base \in Candidates(Z3Slots) : autoconfig_write(Z3_BASEADDRESS, base \div 256)
    BY <1>1 DEF PlaceZ3Hi, write_autoconfig
  <2>2. GuestSeesBoard /\ GuestSeesZ3
    BY <1>1 DEF PlaceZ3Hi
  <2>3. base \in Nat
    BY <2>1, <2>2, SlotInSpace
  <2>4. IsType(ERT_ZORROIII)
    BY <2>2, GuestKnows
  <2>5. z3_base_hi' = base \div 256 /\ UNCHANGED <<specs, placed, current>>
    BY <2>1, <2>4 DEF autoconfig_write, Z3_BASEADDRESS, BASEADDRESS, SHUTUP
  <2>6. base \div 256 \in Int
    BY <2>3
  <2> QED
    BY <2>5, <2>6, KeptStep
<1>2. CASE PlaceZ3Lo
  <2>1. PICK base \in Candidates(Z3Slots) :
           base \div 256 = z3_base_hi /\ autoconfig_write(Z3_BASEADDRESS + 1, base % 256)
    BY <1>2 DEF PlaceZ3Lo, write_autoconfig
  <2>2. GuestSeesBoard /\ GuestSeesZ3 /\ z3_base_hi # NoByte
    BY <1>2 DEF PlaceZ3Lo
  <2>3. /\ base \in Nat /\ Free(base, specs[current].size, Taken)
        /\ InSpace([base |-> base, size |-> specs[current].size], specs[current])
    BY <2>1, <2>2, SlotInSpace
  <2>4. IsType(ERT_ZORROIII) /\ current \in Slots
    BY <2>2, GuestKnows
  <2>5. Configure(z3_base_hi * 256 + (base % 256))
    <3> DEFINE v == base % 256
               to == z3_base_hi * 256 + v
    <3>1. autoconfig_write(69, v)
      BY <2>1 DEF Z3_BASEADDRESS
    <3> HIDE DEF v
    <3>2. autoconfig_write(69, v) => Configure(to)
      <4>1. 69 # Z3_BASEADDRESS /\ 69 = Z3_BASEADDRESS + 1 /\ 69 # BASEADDRESS /\ 69 # SHUTUP
        BY DEF Z3_BASEADDRESS, BASEADDRESS, SHUTUP
      <4> QED
        BY <2>2, <2>4, <4>1 DEF autoconfig_write
    <3> QED
      BY <3>1, <3>2 DEF v
  <2>6. (base \div 256) * 256 + (base % 256) = base
    BY <2>3
  <2>7. Configure(base) /\ base \in Int
    BY <2>1, <2>3, <2>5, <2>6
  <2> QED
    BY <2>3, <2>4, <2>7, ConfigureStep
<1>3. CASE PlaceZ2
  <2>1. PICK base \in Candidates(Z2Slots) : autoconfig_write(BASEADDRESS, base)
    BY <1>3 DEF PlaceZ2, write_autoconfig
  <2>2. GuestSeesBoard /\ ~GuestSeesZ3
    BY <1>3 DEF PlaceZ2
  <2>3. /\ base \in Nat /\ Free(base, specs[current].size, Taken)
        /\ InSpace([base |-> base, size |-> specs[current].size], specs[current])
    BY <2>1, <2>2, SlotInSpace
  <2>4. current \in Slots /\ ~IsZ3(specs[current]) /\ (IsType(ERT_ZORROII) <=> IsZ2(specs[current]))
    BY <2>2, GuestKnows
  <2>5. IsType(ERT_ZORROII)
    BY <2>4 DEF ChainInv, GoodChain, GoodBoard, Slots
  <2>6. Configure(base) /\ base \in Int
    BY <2>1, <2>3, <2>5 DEF autoconfig_write, Z3_BASEADDRESS, BASEADDRESS, SHUTUP
  <2> QED
    BY <2>3, <2>4, <2>6, ConfigureStep
<1>4. CASE ShutUp
  <2>1. GuestSeesBoard /\ autoconfig_write(SHUTUP, 0)
    BY <1>4 DEF ShutUp, write_autoconfig
  <2>2. current \in Slots
    BY <2>1, GuestKnows
  <2>3. Retire
    BY <2>1, <2>2 DEF autoconfig_write, Z3_BASEADDRESS, BASEADDRESS, SHUTUP
  <2> QED
    BY <2>2, <2>3, RetireStep
<1>5. CASE FlipOverlay
  <2>1. UNCHANGED <<specs, placed, current>> /\ z3_base_hi' = z3_base_hi
    BY <1>5 DEF FlipOverlay, write_cia, autoconfigVars
  <2>2. z3_base_hi' \in Int
    BY <2>1 DEF ChainInv
  <2> QED
    BY <2>1, <2>2, KeptStep
<1> QED
  BY <1>1, <1>2, <1>3, <1>4, <1>5 DEF DMNext

LEMMA NextWindows ==
    ASSUME ChainInv, PlacedInv, WindowsInv, DMNext
    PROVE  WindowsInv' /\ sync
<1>1. CASE FlipOverlay
  <2>1. /\ overlay' = ~overlay /\ specs' = specs /\ placed' = placed /\ sync
        /\ fast_window' = fast_window /\ pcibridge_window' = pcibridge_window
    BY <1>1 DEF FlipOverlay, write_cia, autoconfigVars
  <2>2. WindowOf("fastram")' = WindowOf("fastram") /\ WindowOf("pcibridge")' = WindowOf("pcibridge")
    BY <2>1 DEF WindowOf, BoardNamed, Slots, placement
  <2> QED
    BY <2>1, <2>2 DEF WindowsInv
<1>2. CASE ~FlipOverlay
  <2>1. refresh_windows /\ overlay' = overlay /\ sync
    BY <1>2 DEF DMNext, PlaceZ3Hi, PlaceZ3Lo, PlaceZ2, ShutUp, write_autoconfig
  <2> QED
    BY <2>1 DEF WindowsInv, refresh_windows
<1> QED
  BY <1>1, <1>2

-----------------------------------------------------------------------------
(* Fast RAM's window.                                                      *)

\* The slot of a board that is in the chain, and its window.
LEMMA NamedBoard ==
    ASSUME ChainInv, PlacedInv, NEW n, WindowOf(n) # NotPlaced
    PROVE  /\ BoardNamed(n) \in Slots /\ WindowOf(n) = placed[BoardNamed(n)]
           /\ specs[BoardNamed(n)].name = n
<1>1. BoardNamed(n) # 0
  BY DEF WindowOf
<1>2. \E i \in Slots : specs[i].name = n
  BY <1>1 DEF BoardNamed
<1>3. BoardNamed(n) \in Slots /\ specs[BoardNamed(n)].name = n
  BY <1>2 DEF BoardNamed
<1> QED
  BY <1>1, <1>3 DEF WindowOf, placement

LEMMA FastWindow ==
    ASSUME ChainInv, PlacedInv, WindowsInv, fast_window # NotPlaced
    PROVE  /\ \E i \in Slots : fast_window = placed[i] /\ specs[i].name = "fastram"
           /\ fast_window \in WindowType
           /\ fast_window.base >= 4096 /\ fast_window.base + fast_window.size <= 65536
           /\ fast_window.size > 0
<1> DEFINE i == BoardNamed("fastram")
<1>1. i \in Slots /\ fast_window = placed[i] /\ specs[i].name = "fastram"
  BY NamedBoard DEF WindowsInv
<1> HIDE DEF i
<1>2. GoodBoard(specs[i])
  BY <1>1 DEF ChainInv, GoodChain, Slots
<1>3. IsZ3(specs[i]) /\ ~IsZ2(specs[i]) /\ specs[i].size \in Nat \ {0}
  BY <1>1, <1>2, BoardSizes DEF GoodBoard
<1>4. placed[i] \in WindowType /\ InSpace(placed[i], specs[i]) /\ placed[i].size = specs[i].size
  BY <1>1 DEF PlacedInv
<1>5. placed[i].base >= 4096 /\ placed[i].base + placed[i].size <= 65536
  BY <1>3, <1>4 DEF InSpace, WindowType
<1> QED
  BY <1>1, <1>3, <1>4, <1>5

LEMMA FastRam ==
    ASSUME ChainInv, PlacedInv, WindowsInv, fast_ram_window # NotPlaced
    PROVE  /\ fast_window # NotPlaced /\ fast_ram_window \in WindowType
           /\ fast_ram_window.base = fast_window.base
           /\ fast_ram_window.size <= fast_window.size /\ fast_ram_window.size <= FastPages
           /\ fast_ram_window.size > 0
<1>1. fast_window # NotPlaced /\ FastPages \in Nat \ {0}
  BY ChainAssumption DEF fast_ram_window
<1>2. fast_window \in WindowType /\ fast_window.size > 0
  BY <1>1, FastWindow
<1>3. fast_ram_window = [base |-> fast_window.base,
                         size |-> IF fast_window.size < FastPages THEN fast_window.size ELSE FastPages]
  BY <1>1 DEF fast_ram_window, Window
<1> QED
  BY <1>1, <1>2, <1>3 DEF WindowType


-----------------------------------------------------------------------------
(* sync keeps the table and the alias in step with the map.                *)

LEMMA FastRamStays ==
    ASSUME ChainInv, PlacedInv, WindowsInv, ChainStep, WindowsInv'
    PROVE  fast_ram_window # NotPlaced => fast_ram_window' = fast_ram_window
<1>1. SUFFICES ASSUME fast_ram_window # NotPlaced PROVE fast_window' = fast_window
  BY DEF fast_ram_window
<1>2. fast_window # NotPlaced
  BY <1>1 DEF fast_ram_window
<1> DEFINE i == BoardNamed("fastram")
<1>3. i \in Slots /\ fast_window = placed[i]
  BY <1>2, NamedBoard DEF WindowsInv
<1>4. i # 0 /\ i' = i
  BY <1>2 DEF WindowsInv, WindowOf, ChainStep, BoardNamed, Slots
<1>5. fast_window' = placed'[i]
  BY <1>4 DEF WindowsInv, WindowOf, placement
<1> QED
  BY <1>2, <1>3, <1>5 DEF ChainStep

LEMMA SyncKeeps ==
    ASSUME MapInv, ChainStep, WindowsInv', sync
    PROVE  TableInv' /\ AliasInv'
<1>0. ChainInv /\ PlacedInv /\ WindowsInv /\ TableInv /\ AliasInv
  BY DEF MapInv
<1>1. fingerprint = [overlay |-> overlay, placements |-> placed, fast |-> fast_ram_window]
  BY <1>0 DEF TableInv, Fingerprint
<1>2. fast_ram_window # NotPlaced => fast_ram_window' = fast_ram_window
  BY <1>0, FastRamStays
<1>3. CASE Fingerprint' = fingerprint
  <2>1. UNCHANGED directVars
    BY <1>3 DEF sync
  <2>2. /\ reservation' = reservation /\ pages' = pages
        /\ fast_alias' = fast_alias /\ fingerprint' = fingerprint
    BY <2>1 DEF directVars
  <2>3. Fingerprint' = [overlay |-> overlay', placements |-> placed', fast |-> fast_ram_window']
    BY DEF Fingerprint
  <2>4. overlay' = overlay /\ placed' = placed /\ fast_ram_window' = fast_ram_window
    BY <1>1, <1>3, <2>3
  <2>5. TableInv'
    BY <1>0, <1>3, <2>2, <2>4 DEF TableInv
  <2>6. AliasInv'
    BY <1>0, <2>2, <2>4 DEF AliasInv
  <2> QED
    BY <2>5, <2>6
<1>4. CASE Fingerprint' # fingerprint
  <2> DEFINE aliasing == fast_ram_window' # fingerprint.fast /\ FastShared /\ fast_ram_window' # NotPlaced
  <2>1. /\ IF aliasing THEN alias(fast_ram_window') ELSE UNCHANGED <<reservation, fast_alias>>
        /\ pages' = [overlay |-> overlay', placements |-> placed', fast |-> fast_ram_window',
                     alias |-> fast_alias']
        /\ fingerprint' = Fingerprint'
    BY <1>4 DEF sync
  <2>2. TableInv'
    BY <2>1 DEF TableInv
  <2>3. fingerprint.fast = fast_ram_window
    BY <1>1
  <2>4. CASE aliasing
    <3>1. fast_ram_window = NotPlaced
      BY <2>3, <2>4, <1>2
    <3>2. reservation = FixedMaps
      BY <3>1, <1>0 DEF AliasInv
    <3>3. alias(fast_ram_window') /\ FastShared /\ fast_ram_window' # NotPlaced
      BY <2>1, <2>4
    <3>4. CASE /\ reservation' = <<FastMap(fast_ram_window')>> \o reservation
               /\ fast_alias' = fast_ram_window'
      <4>1. reservation' = <<FastMap(fast_alias')>> \o FixedMaps
        BY <3>2, <3>4
      <4> QED
        BY <2>2, <3>3, <3>4, <4>1 DEF AliasInv
    <3>5. CASE reservation' = reservation /\ fast_alias' = NotPlaced
      BY <2>2, <3>2, <3>5 DEF AliasInv
    <3> QED
      BY <3>3, <3>4, <3>5 DEF alias, FastMap
  <2>5. CASE ~aliasing
    <3>1. reservation' = reservation /\ fast_alias' = fast_alias
      BY <2>1, <2>5
    <3>2. fast_alias # NotPlaced => fast_ram_window' = fast_ram_window
      BY <1>0, <1>2 DEF AliasInv
    <3>3. AliasInv'
      BY <1>0, <3>1, <3>2 DEF AliasInv
    <3> QED
      BY <2>2, <3>3
  <2> QED
    BY <2>4, <2>5
<1> QED
  BY <1>3, <1>4

\* MapInv holds in every reachable state.
LEMMA MapInvariant == DMSpec => []MapInv
<1>1. DMInit => MapInv
  <2> SUFFICES ASSUME DMInit PROVE MapInv
    OBVIOUS
  <2>1. /\ specs = add_board(Attached) /\ placed = [i \in Slots |-> NotPlaced] /\ current = 1
        /\ z3_base_hi = NoByte /\ overlay = TRUE /\ fast_window = NotPlaced
        /\ pcibridge_window = NotPlaced
    BY DEF DMInit, MapInit, AutoConfigInit
  <2>2. ChainInv
    BY <2>1, ChainIsGood DEF ChainInv, GoodChain, NoByte
  <2>3. \A i \in Slots : placed[i] = NotPlaced
    BY <2>1
  <2>4. PlacedInv
    <3>1. NotPlaced \in WindowType
      BY DEF NotPlaced, WindowType
    <3> QED
      BY <3>1, <2>1, <2>3 DEF PlacedInv
  <2>5. \A n : WindowOf(n) = NotPlaced
    BY <2>2, <2>3, <2>4, NamedBoard
  <2>6. WindowsInv
    BY <2>1, <2>5 DEF WindowsInv
  <2>7. TableInv /\ AliasInv
    BY DEF DMInit, DirectInit, TableInv, AliasInv, FixedMaps
  <2> QED
    BY <2>2, <2>4, <2>6, <2>7 DEF MapInv
<1>2. MapInv /\ [DMNext]_<<mapVars, directVars>> => MapInv'
  <2> SUFFICES ASSUME MapInv, [DMNext]_<<mapVars, directVars>> PROVE MapInv'
    OBVIOUS
  <2>1. CASE DMNext
    <3>1. ChainStep
      BY <2>1, NextChainStep DEF MapInv
    <3>2. WindowsInv' /\ sync
      BY <2>1, NextWindows DEF MapInv
    <3>3. TableInv' /\ AliasInv'
      BY <3>1, <3>2, SyncKeeps
    <3> QED
      BY <3>1, <3>2, <3>3 DEF MapInv, ChainStep
  <2>2. CASE UNCHANGED <<mapVars, directVars>>
    <3>1. /\ specs' = specs /\ placed' = placed /\ current' = current /\ z3_base_hi' = z3_base_hi
          /\ overlay' = overlay /\ fast_window' = fast_window /\ pcibridge_window' = pcibridge_window
          /\ reservation' = reservation /\ pages' = pages /\ fast_alias' = fast_alias
          /\ fingerprint' = fingerprint
      BY <2>2 DEF mapVars, directVars, autoconfigVars
    <3>2. ChainInv'
      BY <3>1 DEF MapInv, ChainInv
    <3>3. PlacedInv'
      BY <3>1 DEF MapInv, PlacedInv, Slots
    <3>4. WindowsInv'
      BY <3>1 DEF MapInv, WindowsInv, WindowOf, BoardNamed, Slots, placement
    <3>5. fast_ram_window' = fast_ram_window
      BY <3>1 DEF fast_ram_window
    <3>6. TableInv'
      BY <3>1, <3>5 DEF MapInv, TableInv, Fingerprint
    <3>7. AliasInv'
      BY <3>1, <3>5 DEF MapInv, AliasInv
    <3> QED
      BY <3>2, <3>3, <3>4, <3>6, <3>7 DEF MapInv
  <2> QED
    BY <2>1, <2>2
<1> QED
  BY <1>1, <1>2, PTL DEF DMSpec


-----------------------------------------------------------------------------
(* The decode, over every address.                                         *)

Addresses == {a \in [p : Nat, o : Nat] : a.p < PAGE_COUNT /\ a.o < PAGE_SIZE}

LEMMA AddressBounds ==
    ASSUME NEW a \in Addresses
    PROVE  a.p \in Nat /\ a.p < 65536 /\ a.o \in Nat /\ a.o < 65536 /\ a = Addr(a.p, a.o)
  BY DEF Addresses, PAGE_COUNT, PAGE_SIZE, Addr

LEMMA BoardsAway ==
    ASSUME MapInv, NEW i \in Slots, NEW p \in Nat, Covers(placed[i], p)
    PROVE  /\ placed[i] # NotPlaced
           /\ (32 <= p /\ p < 160) \/ (233 <= p /\ p < 240) \/ 4096 <= p
           /\ specs[i].name = "fastram" => 4096 <= p
<1>1. placed[i] # NotPlaced /\ p >= placed[i].base /\ p - placed[i].base < placed[i].size
  BY DEF Covers
<1>2. placed[i] \in WindowType /\ InSpace(placed[i], specs[i])
  BY <1>1 DEF MapInv, PlacedInv
<1>3. placed[i].base \in Int /\ placed[i].size \in Int
  BY <1>2 DEF WindowType
<1>4. specs[i].name = "fastram" => ~IsZ2(specs[i])
  BY BoardSizes DEF MapInv, ChainInv, GoodChain, GoodBoard, Slots
<1> DEFINE base == placed[i].base
           size == placed[i].size
<1>5. \/ 4096 <= base /\ base + size <= 65536
      \/ IsZ2(specs[i]) /\ 32 <= base /\ base + size <= 160
      \/ IsZ2(specs[i]) /\ 233 <= base /\ base + size <= 240
  BY <1>2 DEF InSpace
<1>6. base \in Int /\ size \in Int /\ p >= base /\ p - base < size
  BY <1>1, <1>3
<1> HIDE DEF base, size
<1>7. 4096 <= p \/ (IsZ2(specs[i]) /\ ((32 <= p /\ p < 160) \/ (233 <= p /\ p < 240)))
  BY <1>5, <1>6
<1> QED
  BY <1>1, <1>4, <1>7

LEMMA OneBoard ==
    ASSUME MapInv, NEW i \in Slots, NEW j \in Slots, NEW p \in Nat,
           Covers(placed[i], p), Covers(placed[j], p)
    PROVE  i = j
<1>1. /\ placed[i] # NotPlaced /\ p >= placed[i].base /\ p - placed[i].base < placed[i].size
      /\ placed[j] # NotPlaced /\ p >= placed[j].base /\ p - placed[j].base < placed[j].size
  BY DEF Covers
<1>2. /\ placed[i].base \in Int /\ placed[i].size \in Int
      /\ placed[j].base \in Int /\ placed[j].size \in Int
  BY DEF MapInv, PlacedInv, WindowType
<1>3. ~Apart(placed[i], placed[j])
  BY <1>1, <1>2 DEF Apart
<1> QED
  BY <1>1, <1>3 DEF MapInv, PlacedInv

LEMMA BoardAt ==
    ASSUME MapInv, NEW p \in Nat
    PROVE  /\ \A i \in Slots : Covers(placed[i], p) => board_at(p) = i
           /\ (\A i \in Slots : ~Covers(placed[i], p)) => board_at(p) = 0
<1>1. ASSUME NEW i \in Slots, Covers(placed[i], p) PROVE board_at(p) = i
  <2>0. Slots = 1..Len(specs) /\ Len(specs) \in Nat
    BY DEF MapInv, ChainInv, GoodChain, Slots
  <2>1. \A j \in 1..(i - 1) : ~Covers(placed[j], p)
    <3> SUFFICES ASSUME NEW j \in 1..(i - 1), Covers(placed[j], p) PROVE FALSE
      OBVIOUS
    <3>1. j \in Slots /\ j # i
      BY <2>0
    <3> QED
      BY <3>1, <1>1, OneBoard
  <2> DEFINE First(k) == Covers(placed[k], p) /\ \A j \in 1..(k - 1) : ~Covers(placed[j], p)
  <2>2. board_at(p) = CHOOSE k \in Slots : First(k)
    BY <1>1 DEF board_at
  <2>3. First(i)
    BY <1>1, <2>1
  <2>4. board_at(p) \in Slots /\ First(board_at(p))
    BY <2>2, <2>3, Zenon
  <2> QED
    BY <2>4, <1>1, OneBoard
<1>2. ASSUME \A i \in Slots : ~Covers(placed[i], p) PROVE board_at(p) = 0
  BY <1>2 DEF board_at
<1> QED
  BY <1>1, <1>2

\* The cached windows are windows of placed boards.
LEMMA CachedWindows ==
    ASSUME MapInv, NEW p \in Nat
    PROVE  /\ Covers(fast_window, p) => \E i \in Slots :
                 Covers(placed[i], p) /\ fast_window = placed[i] /\ specs[i].name = "fastram"
           /\ Covers(pcibridge_window, p) => \E i \in Slots : Covers(placed[i], p)
<1>1. ASSUME Covers(fast_window, p)
      PROVE  \E i \in Slots : Covers(placed[i], p) /\ fast_window = placed[i] /\ specs[i].name = "fastram"
  <2>1. fast_window # NotPlaced
    BY <1>1 DEF Covers
  <2> QED
    BY <2>1, <1>1, FastWindow DEF MapInv
<1>2. ASSUME Covers(pcibridge_window, p) PROVE \E i \in Slots : Covers(placed[i], p)
  <2>1. WindowOf("pcibridge") # NotPlaced /\ pcibridge_window = WindowOf("pcibridge")
    BY <1>2 DEF Covers, MapInv, WindowsInv
  <2>2. BoardNamed("pcibridge") \in Slots /\ pcibridge_window = placed[BoardNamed("pcibridge")]
    BY <2>1, NamedBoard DEF MapInv
  <2> QED
    BY <2>2, <1>2
<1> QED
  BY <1>1, <1>2

InChip(a) == a.p < 32 /\ ~(overlay /\ a.p < 8)
InFast(a) == Covers(fast_alias, a.p)
InRom(a) == RomFull /\ a.p \in 248..255

LEMMA Aliased ==
    ASSUME MapInv, NEW a \in Addresses, InFast(a)
    PROVE  /\ fast_alias = fast_ram_window /\ fast_alias \in WindowType
           /\ fast_alias.base = fast_window.base /\ fast_alias.size <= FastPages
           /\ Covers(fast_window, a.p) /\ a.p >= 4096
           /\ reservation = <<FastMap(fast_alias)>> \o FixedMaps
<1>1. fast_alias # NotPlaced /\ a.p >= fast_alias.base /\ a.p - fast_alias.base < fast_alias.size
  BY DEF InFast, Covers
<1>2. fast_alias = fast_ram_window /\ reservation = <<FastMap(fast_alias)>> \o FixedMaps
  BY <1>1 DEF MapInv, AliasInv
<1>3. /\ fast_window # NotPlaced /\ fast_alias \in WindowType /\ fast_alias.base = fast_window.base
      /\ fast_alias.size <= fast_window.size /\ fast_alias.size <= FastPages
  BY <1>1, <1>2, FastRam DEF MapInv
<1>4. fast_window \in WindowType /\ fast_window.base >= 4096
  BY <1>3, FastWindow DEF MapInv
<1>5. Covers(fast_window, a.p) /\ a.p >= 4096
  <2>1. /\ a.p \in Nat /\ fast_alias.base \in Int /\ fast_alias.size \in Int
        /\ fast_window.base \in Int /\ fast_window.size \in Int
    BY <1>3, <1>4, AddressBounds DEF WindowType
  <2>2. a.p >= fast_window.base /\ a.p - fast_window.base < fast_window.size
    BY <2>1, <1>1, <1>3
  <2> QED
    BY <2>1, <2>2, <1>3, <1>4 DEF Covers
<1> QED
  BY <1>2, <1>3, <1>5


\* A page's type says which region it lies in.
LEMMA PageTypes ==
    ASSUME MapInv, NEW a \in Addresses
    PROVE  /\ page_type(a) = "Ram" => InChip(a) \/ InFast(a)
           /\ page_type(a) = "Rom" => InRom(a)
           /\ page_type(a) = "OpenBus" =>
                 /\ \A i \in Slots : ~Covers(placed[i], a.p)
                 /\ FixedType(overlay, a.p) = "OpenBus"
<1> DEFINE boards == {i \in Slots : Covers(placed[i], a.p)}
           hit == \E i \in boards : /\ fast_ram_window # NotPlaced
                                    /\ placed[i].base = fast_ram_window.base
                                    /\ Covers(fast_alias, a.p)
<1>1. /\ pages.overlay = overlay /\ pages.placements = placed
      /\ pages.fast = fast_ram_window /\ pages.alias = fast_alias
  BY DEF MapInv, TableInv
<1>2. page_type(a) = IF hit THEN "Ram" ELSE IF boards # {} THEN "Io" ELSE FixedType(overlay, a.p)
  BY <1>1 DEF page_type, build_page_table
<1>3. hit => InFast(a)
  BY DEF InFast
<1>4. boards = {} => \A i \in Slots : ~Covers(placed[i], a.p)
  OBVIOUS
<1>5. FixedType(overlay, a.p) = "Ram" => InChip(a)
  BY DEF FixedType, InChip, CHIP_RAM_END, OVERLAY_END
<1>6. FixedType(overlay, a.p) = "Rom" => InRom(a)
  BY DEF FixedType, InRom, ROM_BASE, ROM_END
<1> HIDE DEF boards, hit
<1> QED
  BY <1>2, <1>3, <1>4, <1>5, <1>6

LEMMA MappedStorage ==
    ASSUME MapInv, NEW a \in Addresses
    PROVE  /\ InChip(a) => Mapped(a) = At("chip", a.p, a.o)
           /\ InRom(a) => Mapped(a) = At("rom", a.p - 248, a.o)
           /\ InFast(a) => Mapped(a) = At("fast", a.p - fast_alias.base, a.o)
<1> DEFINE R == reservation
           covering == {k \in DOMAIN R : a.p >= R[k].base /\ a.p - R[k].base < R[k].len}
           first == CHOOSE j \in covering : \A i \in covering : j <= i
<1>0. a.p \in Nat
  BY AddressBounds
<1>1. ASSUME NEW k, covering = {k}, k \in Nat
      PROVE  Mapped(a) = At(R[k].what, a.p - R[k].base, a.o)
  <2>1. first = k
    BY <1>1
  <2> QED
    BY <1>1, <2>1 DEF Mapped
<1>2. CASE fast_alias = NotPlaced
  <2>1. /\ DOMAIN R = {1, 2} /\ R[1].base = 248 /\ R[1].len = 8 /\ R[1].what = "rom"
        /\ R[2].base = 0 /\ R[2].len = 32 /\ R[2].what = "chip"
    BY <1>2 DEF MapInv, AliasInv, FixedMaps, ROM_BASE, ROM_END, CHIP_RAM_END
  <2>2. ~InFast(a)
    BY <1>2 DEF InFast, Covers
  <2>3. InChip(a) => covering = {2}
    BY <2>1, <1>0 DEF InChip
  <2>4. InRom(a) => covering = {1}
    BY <2>1, <1>0 DEF InRom
  <2>5. InChip(a) => Mapped(a) = At("chip", a.p - 0, a.o)
    BY <1>1, <2>1, <2>3
  <2>6. InRom(a) => Mapped(a) = At("rom", a.p - 248, a.o)
    BY <1>1, <2>1, <2>4
  <2> QED
    BY <2>2, <2>5, <2>6, <1>0
<1>3. CASE fast_alias # NotPlaced
  <2>1. R = <<FastMap(fast_alias)>> \o FixedMaps /\ fast_alias = fast_ram_window
    BY <1>3 DEF MapInv, AliasInv
  <2>2. fast_alias \in WindowType /\ fast_alias.base >= 4096
    BY <1>3, <2>1, FastRam, FastWindow DEF MapInv
  <2>3. /\ DOMAIN R = {1, 2, 3} /\ R[1] = FastMap(fast_alias)
        /\ R[2].base = 248 /\ R[2].len = 8 /\ R[2].what = "rom"
        /\ R[3].base = 0 /\ R[3].len = 32 /\ R[3].what = "chip"
    BY <2>1 DEF FixedMaps, ROM_BASE, ROM_END, CHIP_RAM_END
  <2>4. /\ R[1].base = fast_alias.base /\ R[1].len = fast_alias.size /\ R[1].what = "fast"
        /\ fast_alias.base \in Int /\ fast_alias.size \in Int
    BY <2>2, <2>3 DEF FastMap, WindowType
  <2>5. InChip(a) => covering = {3}
    BY <2>2, <2>3, <2>4, <1>0 DEF InChip
  <2>6. InRom(a) => covering = {2}
    BY <2>2, <2>3, <2>4, <1>0 DEF InRom
  <2>7. InFast(a) => covering = {1}
    BY <2>2, <2>3, <2>4, <1>0 DEF InFast, Covers
  <2>8. InChip(a) => Mapped(a) = At("chip", a.p - 0, a.o)
    BY <1>1, <2>3, <2>5
  <2>9. InRom(a) => Mapped(a) = At("rom", a.p - 248, a.o)
    BY <1>1, <2>3, <2>6
  <2>10. InFast(a) => Mapped(a) = At("fast", a.p - fast_alias.base, a.o)
    BY <1>1, <2>4, <2>7
  <2> QED
    BY <2>8, <2>9, <2>10, <1>0
<1> QED
  BY <1>2, <1>3


-----------------------------------------------------------------------------
(* An access that does not wrap meets the pages of its first and last byte,*)
(* and in storage both lie in one region.                                  *)

LEMMA PlusBytes ==
    ASSUME NEW a \in Addresses, NEW k \in Nat, k <= 3
    PROVE  /\ Plus(a, k) \in Addresses
           /\ Plus(a, k).o = (a.o + k) % 65536
           /\ a.p + ((a.o + k) \div 65536) < 65536 =>
                 Plus(a, k).p = a.p + ((a.o + k) \div 65536)
<1>1. a.p \in Nat /\ a.p < 65536 /\ a.o \in Nat /\ a.o < 65536
  BY AddressBounds
<1> DEFINE c == (a.o + k) \div 65536
           p == (a.p + c) % 65536
           o == (a.o + k) % 65536
<1>2. c \in Nat /\ o \in Nat /\ o < 65536
  BY <1>1
<1> HIDE DEF c, o
<1>3. p \in Nat /\ p < 65536 /\ (a.p + c < 65536 => p = a.p + c)
  BY <1>1, <1>2
<1> HIDE DEF p
<1>4. Plus(a, k) = [p |-> p, o |-> o]
  BY DEF Plus, Addr, PAGE_SIZE, PAGE_COUNT, p, o, c
<1>5. Plus(a, k) \in Addresses
  BY <1>2, <1>3, <1>4 DEF Addresses, PAGE_SIZE, PAGE_COUNT
<1>6. Plus(a, k).p = p /\ Plus(a, k).o = o
  BY <1>4
<1> QED
  BY <1>3, <1>5, <1>6 DEF c, o

LEMMA Between ==
    ASSUME NEW a \in Addresses, NEW n \in {1, 2, 4}, ~Wraps(a, n), NEW k \in 1..n
    PROVE  /\ Plus(a, k - 1) \in Addresses
           /\ Plus(a, k - 1).p = a.p + ((a.o + (k - 1)) \div 65536)
           /\ Plus(a, k - 1).o = (a.o + (k - 1)) % 65536
           /\ a.p <= Plus(a, k - 1).p /\ Plus(a, k - 1).p <= Plus(a, n - 1).p
           /\ Plus(a, n - 1) \in Addresses
           /\ Plus(a, n - 1).p <= a.p + 1
           /\ a.p * 65536 + a.o + n <= (Plus(a, n - 1).p + 1) * 65536
           /\ Plus(a, k - 1).p = a.p \/ Plus(a, k - 1).p = Plus(a, n - 1).p
<1>1. a.p \in Nat /\ a.p < 65536 /\ a.o \in Nat /\ a.o < 65536
  BY AddressBounds
<1>2. ~(a.p = 65535 /\ a.o + n > 65536)
  BY DEF Wraps, PAGE_COUNT, PAGE_SIZE
<1> DEFINE j == k - 1
           l == n - 1
           ck == (a.o + j) \div 65536
           cl == (a.o + l) \div 65536
<1>3. j \in Nat /\ l \in Nat /\ j <= l /\ l <= 3
  OBVIOUS
<1>3a. n = l + 1
  OBVIOUS
<1> HIDE DEF j, l
<1>4. ck \in {0, 1} /\ cl \in {0, 1} /\ ck <= cl /\ (cl = 1 <=> a.o + l >= 65536)
  BY <1>1, <1>3
<1> HIDE DEF ck, cl
<1>5. a.p + ck < 65536 /\ a.p + cl < 65536
  BY <1>1, <1>2, <1>3, <1>3a, <1>4
<1>6. /\ Plus(a, j) \in Addresses /\ Plus(a, j).p = a.p + ck /\ Plus(a, j).o = (a.o + j) % 65536
      /\ Plus(a, l) \in Addresses /\ Plus(a, l).p = a.p + cl
  BY <1>3, <1>5, PlusBytes DEF ck, cl
<1>7. a.p * 65536 + a.o + n <= (a.p + cl + 1) * 65536
  BY <1>1, <1>3, <1>3a, <1>4
<1>8. a.p <= a.p + ck /\ a.p + ck <= a.p + cl /\ a.p + cl <= a.p + 1 /\ (ck = cl \/ a.p + ck = a.p)
  BY <1>1, <1>4
<1> QED
  BY <1>6, <1>7, <1>8 DEF j, l, ck

MappedAs(a, n, K, B) ==
    \A k \in 1..n : Mapped(Plus(a, k - 1)) = At(K, Plus(a, k - 1).p - B, Plus(a, k - 1).o)

RunsAs(a, n, K, B) ==
    [k \in 1..n |-> Mapped(Plus(a, k - 1))] = Run(At(K, a.p - B, a.o), n)

LEMMA RunOf ==
    ASSUME NEW a \in Addresses, NEW n \in {1, 2, 4}, ~Wraps(a, n), NEW K, NEW B \in Int,
           MappedAs(a, n, K, B)
    PROVE  RunsAs(a, n, K, B)
<1>1. a.p \in Nat /\ a.o \in Nat
  BY AddressBounds
<1> DEFINE m == At(K, a.p - B, a.o)
<1>2. m.kind = K /\ m.p = a.p - B /\ m.o = a.o
  BY DEF At
<1> HIDE DEF m
<1>3. ASSUME NEW k \in 1..n
      PROVE  Mapped(Plus(a, k - 1)) =
                At(m.kind, m.p + (m.o + k - 1) \div PAGE_SIZE, (m.o + k - 1) % PAGE_SIZE)
  <2> DEFINE c == (a.o + (k - 1)) \div 65536
             o == (a.o + (k - 1)) % 65536
  <2>1. Plus(a, k - 1).p = a.p + c /\ Plus(a, k - 1).o = o
    BY Between
  <2>2. c \in Int
    BY <1>1
  <2>3. (m.o + k - 1) \div PAGE_SIZE = c /\ (m.o + k - 1) % PAGE_SIZE = o
    <3>1. m.o + k - 1 = a.o + (k - 1)
      BY <1>1, <1>2
    <3> QED
      BY <3>1 DEF PAGE_SIZE
  <2> HIDE DEF c, o
  <2>4. a.p + c - B = m.p + c
    BY <1>1, <1>2, <2>2
  <2>5. Mapped(Plus(a, k - 1)) = At(K, a.p + c - B, o)
    <3>1. Mapped(Plus(a, k - 1)) = At(K, Plus(a, k - 1).p - B, Plus(a, k - 1).o)
      BY <1>3, Zenon DEF MappedAs
    <3>2. Plus(a, k - 1).p - B = a.p + c - B
      BY <1>1, <2>1, <2>2
    <3> QED
      BY <3>1, <3>2, <2>1, Zenon
  <2> QED
    BY <1>2, <2>3, <2>4, <2>5
<1>4. [k \in 1..n |-> Mapped(Plus(a, k - 1))] =
      [k \in 1..n |-> At(m.kind, m.p + (m.o + k - 1) \div PAGE_SIZE, (m.o + k - 1) % PAGE_SIZE)]
  BY <1>3, Zenon
<1> QED
  BY <1>4 DEF Run, m, RunsAs

Storage(a) == InChip(a) \/ InFast(a) \/ InRom(a)

LEMMA StorageSpan ==
    ASSUME MapInv, NEW a \in Addresses, NEW n \in {1, 2, 4}, ~Wraps(a, n),
           Storage(a), Storage(Plus(a, n - 1))
    PROVE  /\ fast_region(a, n) = Mapped(a) /\ Mapped(a) # None /\ ~IsCustom(a)
           /\ ~InRom(a) => fast_region_mut(a, n) = Mapped(a)
           /\ [k \in 1..n |-> Mapped(Plus(a, k - 1))] = Run(Mapped(a), n)
<1> DEFINE z == Plus(a, n - 1)
<1>0. a.p \in Nat /\ a.p < 65536 /\ a.o \in Nat /\ a.o < 65536
  BY AddressBounds
<1>1. /\ z \in Addresses /\ a.p <= z.p /\ z.p <= a.p + 1
      /\ a.p * 65536 + a.o + n <= (z.p + 1) * 65536 /\ z.p \in Nat
  <2>1. 1 \in 1..n
    OBVIOUS
  <2>2. z \in Addresses /\ z.p <= a.p + 1 /\ a.p * 65536 + a.o + n <= (z.p + 1) * 65536
    BY <2>1, Between
  <2>3. a.p <= Plus(a, 1 - 1).p /\ Plus(a, 1 - 1).p <= z.p /\ Plus(a, 1 - 1) \in Addresses
    BY <2>1, Between
  <2> HIDE DEF z
  <2> QED
    BY <2>2, <2>3, <1>0, AddressBounds
<1>2. ASSUME NEW k \in 1..n
      PROVE  LET x == Plus(a, k - 1)
             IN  x \in Addresses /\ x.p \in Nat /\ a.p <= x.p /\ x.p <= z.p
  <2> DEFINE x == Plus(a, k - 1)
  <2>1. x \in Addresses /\ a.p <= x.p /\ x.p <= z.p
    BY Between
  <2> HIDE DEF x
  <2>2. x.p \in Nat
    BY <2>1, AddressBounds
  <2> QED
    BY <2>1, <2>2 DEF x
<1> HIDE DEF z
<1>3. CASE InChip(a)
  <2>1. a.p < 32 /\ ~(overlay /\ a.p < 8)
    BY <1>3 DEF InChip
  <2>2. z.p < 32
    <3>1. InFast(z) => z.p >= 4096
      BY <1>1, Aliased
    <3> QED
      BY <3>1, <2>1, <1>0, <1>1 DEF Storage, InChip, InRom, z
  <2>3. Mapped(a) = At("chip", a.p, a.o) /\ Mapped(a) # None
    BY <1>3, MappedStorage DEF At, None
  <2>4. Fits(a.o, a.p, CHIP_RAM_END, n)
    BY <2>2, <1>0, <1>1 DEF Fits, CHIP_RAM_END, PAGE_SIZE
  <2>5. fast_region(a, n) = Mapped(a) /\ fast_region_mut(a, n) = Mapped(a)
    BY <2>1, <2>3, <2>4 DEF fast_region, fast_region_mut, CHIP_RAM_END, OVERLAY_END
  <2>6. ~IsCustom(a)
    BY <2>1, <1>0 DEF IsCustom, CUSTOM_PAGE
  <2>7. ASSUME NEW k \in 1..n
        PROVE  Mapped(Plus(a, k - 1)) = At("chip", Plus(a, k - 1).p - 0, Plus(a, k - 1).o)
    <3> DEFINE x == Plus(a, k - 1)
    <3>1. x \in Addresses /\ x.p \in Nat /\ a.p <= x.p /\ x.p <= z.p
      BY <1>2
    <3> HIDE DEF x
    <3>2. InChip(x)
      BY <3>1, <2>1, <2>2, <1>0, <1>1 DEF InChip
    <3>3. Mapped(x) = At("chip", x.p, x.o) /\ x.p - 0 = x.p
      BY <3>1, <3>2, MappedStorage
    <3> QED
      BY <3>3 DEF x
  <2>8. [k \in 1..n |-> Mapped(Plus(a, k - 1))] = Run(At("chip", a.p - 0, a.o), n)
    <3>1. MappedAs(a, n, "chip", 0) /\ 0 \in Int
      BY <2>7 DEF MappedAs
    <3>2. RunsAs(a, n, "chip", 0)
      BY <3>1, RunOf, Zenon
    <3> QED
      BY <3>2 DEF RunsAs
  <2>9. a.p - 0 = a.p
    BY <1>0
  <2> QED
    BY <2>3, <2>5, <2>6, <2>8, <2>9
<1>4. CASE InFast(a)
  <2> DEFINE B == fast_alias.base
  <2>1. /\ fast_alias \in WindowType /\ B = fast_window.base /\ fast_alias.size <= FastPages
        /\ Covers(fast_window, a.p) /\ a.p >= 4096
    BY <1>4, Aliased
  <2>2. B \in Int /\ fast_alias.size \in Int /\ fast_alias # NotPlaced /\ a.p >= B
    BY <1>4, <2>1 DEF WindowType, InFast, Covers
  <2>3. z.p - B < fast_alias.size /\ InFast(z)
    <3>1. InFast(z)
      BY <2>1, <1>0, <1>1 DEF Storage, InChip, InRom, z
    <3> QED
      BY <3>1 DEF InFast, Covers
  <2>4. Mapped(a) = At("fast", a.p - B, a.o) /\ Mapped(a) # None
    BY <1>4, MappedStorage DEF At, None
  <2>5. Fits(a.o, a.p - B, FastPages, n)
    <3>1. FastPages \in Nat
      BY ChainAssumption
    <3>2. z.p + 1 <= B + FastPages
      BY <3>1, <2>1, <2>2, <2>3, <1>1
    <3> HIDE DEF B
    <3>3. (a.p - B) * 65536 + a.o + n <= FastPages * 65536
      BY <3>1, <3>2, <2>2, <1>0, <1>1
    <3> QED
      BY <3>3 DEF Fits, PAGE_SIZE
  <2>6. fast_region(a, n) = Mapped(a) /\ fast_region_mut(a, n) = Mapped(a)
    <3>1. ~(a.p < CHIP_RAM_END)
      BY <2>1, <1>0 DEF CHIP_RAM_END
    <3> QED
      BY <3>1, <2>1, <2>4, <2>5 DEF fast_region, fast_region_mut
  <2>7. ~IsCustom(a)
    BY <2>1, <1>0 DEF IsCustom, CUSTOM_PAGE
  <2>8. ASSUME NEW k \in 1..n
        PROVE  Mapped(Plus(a, k - 1)) = At("fast", Plus(a, k - 1).p - B, Plus(a, k - 1).o)
    <3> DEFINE x == Plus(a, k - 1)
    <3>1. x \in Addresses /\ x.p \in Nat /\ a.p <= x.p /\ x.p <= z.p
      BY <1>2
    <3> HIDE DEF x
    <3>2. x.p >= B /\ x.p - B < fast_alias.size
      <4> HIDE DEF B
      <4> QED
        BY <3>1, <2>2, <2>3, <1>0, <1>1
    <3>3. InFast(x)
      BY <3>2, <2>2 DEF InFast, Covers
    <3>4. Mapped(x) = At("fast", x.p - B, x.o)
      BY <3>1, <3>3, MappedStorage
    <3> QED
      BY <3>4 DEF x
  <2> HIDE DEF B
  <2>9. [k \in 1..n |-> Mapped(Plus(a, k - 1))] = Run(At("fast", a.p - B, a.o), n)
    <3>1. MappedAs(a, n, "fast", B)
      BY <2>8, Zenon DEF MappedAs
    <3>2. RunsAs(a, n, "fast", B)
      BY <3>1, <2>2, RunOf, Zenon
    <3> QED
      BY <3>2 DEF RunsAs
  <2> QED
    BY <2>4, <2>6, <2>7, <2>9
<1>5. CASE InRom(a)
  <2>1. RomFull /\ a.p >= 248 /\ a.p <= 255
    BY <1>5 DEF InRom
  <2>2. z.p <= 255
    <3>1. InFast(z) => z.p >= 4096
      BY <1>1, Aliased
    <3> QED
      BY <3>1, <2>1, <1>0, <1>1 DEF Storage, InChip, InRom, z
  <2>3. Mapped(a) = At("rom", a.p - 248, a.o) /\ Mapped(a) # None
    BY <1>5, MappedStorage DEF At, None
  <2>4. Fits(a.o, a.p - ROM_BASE, ROM_END - ROM_BASE, n)
    BY <2>1, <2>2, <1>0, <1>1 DEF Fits, ROM_BASE, ROM_END, PAGE_SIZE
  <2>5. fast_region(a, n) = Mapped(a)
    <3>1. ~(a.p < CHIP_RAM_END) /\ a.p \in ROM_BASE..(ROM_END - 1)
      BY <2>1, <1>0 DEF CHIP_RAM_END, ROM_BASE, ROM_END
    <3>2. ~Covers(fast_window, a.p)
      BY <2>1, <1>0, CachedWindows, BoardsAway
    <3> QED
      BY <3>1, <3>2, <2>1, <2>3, <2>4 DEF fast_region, ROM_BASE
  <2>6. ~IsCustom(a)
    BY <2>1, <1>0 DEF IsCustom, CUSTOM_PAGE
  <2>7. ASSUME NEW k \in 1..n
        PROVE  Mapped(Plus(a, k - 1)) = At("rom", Plus(a, k - 1).p - 248, Plus(a, k - 1).o)
    <3> DEFINE x == Plus(a, k - 1)
    <3>1. x \in Addresses /\ x.p \in Nat /\ a.p <= x.p /\ x.p <= z.p
      BY <1>2
    <3> HIDE DEF x
    <3>2. InRom(x)
      BY <3>1, <2>1, <2>2, <1>0, <1>1 DEF InRom
    <3>3. Mapped(x) = At("rom", x.p - 248, x.o)
      BY <3>1, <3>2, MappedStorage
    <3> QED
      BY <3>3 DEF x
  <2>8. [k \in 1..n |-> Mapped(Plus(a, k - 1))] = Run(At("rom", a.p - 248, a.o), n)
    <3>1. MappedAs(a, n, "rom", 248) /\ 248 \in Int
      BY <2>7 DEF MappedAs
    <3>2. RunsAs(a, n, "rom", 248)
      BY <3>1, RunOf
    <3> QED
      BY <3>2 DEF RunsAs
  <2> QED
    BY <2>3, <2>5, <2>6, <2>8, <1>5
<1> QED
  BY <1>3, <1>4, <1>5 DEF Storage


\* A page no board covers and no fixed region claims.
Floats(a) == /\ \A i \in Slots : ~Covers(placed[i], a.p)
             /\ FixedType(overlay, a.p) = "OpenBus"

LEMMA FloatingByte ==
    ASSUME MapInv, NEW a \in Addresses, Floats(a)
    PROVE  /\ \A n : fast_region(a, n) = None /\ fast_region_mut(a, n) = None
           /\ \A n : ~pcibridge_aperture_sized(a, n)
           /\ ~IsCustom(a) /\ read_byte(a) = OpenBus /\ write_byte(a) = OpenBus
<1>0. a.p \in Nat
  BY AddressBounds
<1>1. /\ ~(a.p < CHIP_RAM_END) /\ a.p \notin CIA_BASE..(CIA_END - 1) /\ a.p # CUSTOM_PAGE
      /\ a.p # AUTOCONFIG_PAGE /\ a.p \notin EXT_ROM_BASE..(EXT_ROM_END - 1)
      /\ a.p \notin ROM_BASE..(ROM_END - 1)
  BY DEF Floats, FixedType
<1>2. ~Covers(fast_window, a.p) /\ ~Covers(pcibridge_window, a.p)
  BY <1>0, CachedWindows DEF Floats
<1>3. board_at(a.p) = 0
  BY <1>0, BoardAt DEF Floats
<1>4. \A n : fast_region(a, n) = None /\ fast_region_mut(a, n) = None
  BY <1>1, <1>2 DEF fast_region, fast_region_mut
<1>5. \A n : ~pcibridge_aperture_sized(a, n)
  BY <1>2 DEF pcibridge_aperture_sized
<1>6. ~IsCustom(a)
  BY <1>1 DEF IsCustom
<1>7. ~(overlay /\ a.p < OVERLAY_END)
  BY <1>0, <1>1 DEF OVERLAY_END, CHIP_RAM_END
<1>8. read_byte(a) = OpenBus
  BY <1>1, <1>3, <1>4, <1>6, <1>7 DEF read_byte
<1>9. write_byte(a) = OpenBus
  BY <1>1, <1>3, <1>4, <1>6 DEF write_byte, write_byte_slow
<1> QED
  BY <1>4, <1>5, <1>6, <1>8, <1>9

LEMMA FloatingAccess ==
    ASSUME MapInv, NEW a \in Addresses, NEW n \in {1, 2, 4}, ~Wraps(a, n),
           Floats(a), Floats(Plus(a, n - 1))
    PROVE  /\ BusRead(a, n) = [k \in 1..n |-> OpenBus]
           /\ BusWrite(a, n) = [k \in 1..n |-> OpenBus]
<1> DEFINE b(k) == Plus(a, k - 1)
<1>1. ASSUME NEW k \in 1..n PROVE b(k) \in Addresses /\ Floats(b(k))
  <2>1. b(k) \in Addresses /\ (b(k).p = a.p \/ b(k).p = Plus(a, n - 1).p)
    BY Between
  <2> QED
    BY <2>1 DEF Floats
<1>2. CASE n = 1
  <2>1. read_byte(a) = OpenBus /\ write_byte(a) = OpenBus
    BY FloatingByte
  <2>2. BusRead(a, n) = <<read_byte(a)>> /\ BusWrite(a, n) = <<write_byte(a)>>
    BY <1>2 DEF BusRead, BusWrite
  <2>3. [k \in 1..1 |-> OpenBus] = <<OpenBus>>
    OBVIOUS
  <2> QED
    BY <1>2, <2>1, <2>2, <2>3
<1>w. ASSUME NEW x \in Addresses, Floats(x), Plus(x, 1) \in Addresses, Floats(Plus(x, 1))
      PROVE  read_word(x) = <<OpenBus, OpenBus>> /\ write_word(x) = <<OpenBus, OpenBus>>
  <2>1. /\ fast_region(x, 2) = None /\ fast_region_mut(x, 2) = None
        /\ ~pcibridge_aperture_sized(x, 2) /\ ~IsCustom(x)
        /\ read_byte(x) = OpenBus /\ write_byte(x) = OpenBus
    BY <1>w, FloatingByte
  <2>2. read_byte(Plus(x, 1)) = OpenBus /\ write_byte(Plus(x, 1)) = OpenBus
    BY <1>w, FloatingByte
  <2> QED
    BY <2>1, <2>2 DEF read_word, write_word
<1>3. CASE n = 2
  <2>1. Plus(a, 1) \in Addresses /\ Floats(Plus(a, 1))
    <3>1. 2 \in 1..n /\ 2 - 1 = 1
      BY <1>3
    <3> QED
      BY <3>1, <1>1
  <2>2. read_word(a) = <<OpenBus, OpenBus>> /\ write_word(a) = <<OpenBus, OpenBus>>
    BY <2>1, <1>w
  <2>3. BusRead(a, n) = read_word(a) /\ BusWrite(a, n) = write_word(a)
    BY <1>3 DEF BusRead, BusWrite
  <2>4. [k \in 1..2 |-> OpenBus] = <<OpenBus, OpenBus>>
    OBVIOUS
  <2> QED
    BY <1>3, <2>2, <2>3, <2>4
<1>4. CASE n = 4
  <2>1. /\ Plus(a, 1) \in Addresses /\ Floats(Plus(a, 1))
        /\ Plus(a, 2) \in Addresses /\ Floats(Plus(a, 2))
        /\ Plus(a, 3) \in Addresses /\ Floats(Plus(a, 3))
    <3>1. /\ 2 \in 1..n /\ 2 - 1 = 1 /\ 3 \in 1..n /\ 3 - 1 = 2 /\ 4 \in 1..n /\ 4 - 1 = 3
      BY <1>4
    <3> QED
      BY <3>1, <1>1
  <2>2. Plus(Plus(a, 2), 1) \in Addresses /\ Floats(Plus(Plus(a, 2), 1))
    <3> DEFINE y == Plus(a, 2)
    <3>1. y \in Addresses /\ y.p = a.p + ((a.o + 2) \div 65536) /\ y.o = (a.o + 2) % 65536
      <4>1. 3 \in 1..n /\ 3 - 1 = 2
        BY <1>4
      <4> QED
        BY <4>1, Between
    <3>2. /\ Plus(a, 3) \in Addresses
          /\ Plus(a, 3).p = a.p + ((a.o + 3) \div 65536) /\ Plus(a, 3).o = (a.o + 3) % 65536
      <4>1. 4 \in 1..n /\ 4 - 1 = 3
        BY <1>4
      <4> QED
        BY <4>1, Between
    <3>3. a.p \in Nat /\ a.o \in Nat /\ a.o < 65536 /\ Plus(a, 3).p < 65536
      BY <3>2, AddressBounds
    <3> HIDE DEF y
    <3>4. Plus(y, 1) \in Addresses
      BY <3>1, PlusBytes
    <3>5. y.p + ((y.o + 1) \div 65536) = Plus(a, 3).p
      BY <3>1, <3>2, <3>3
    <3>6. Plus(y, 1).p = Plus(a, 3).p
      <4>1. y.p + ((y.o + 1) \div 65536) < 65536 => Plus(y, 1).p = y.p + ((y.o + 1) \div 65536)
        BY <3>1, PlusBytes
      <4> QED
        BY <4>1, <3>3, <3>5
    <3> QED
      BY <3>4, <3>6, <2>1 DEF Floats, y
  <2>3. /\ read_word(a) = <<OpenBus, OpenBus>> /\ write_word(a) = <<OpenBus, OpenBus>>
        /\ read_word(Plus(a, 2)) = <<OpenBus, OpenBus>> /\ write_word(Plus(a, 2)) = <<OpenBus, OpenBus>>
    BY <2>1, <2>2, <1>w
  <2>4. /\ fast_region(a, 4) = None /\ fast_region_mut(a, 4) = None
        /\ ~pcibridge_aperture_sized(a, 4)
    BY FloatingByte
  <2>5. /\ BusRead(a, n) = read_word(a) \o read_word(Plus(a, 2))
        /\ BusWrite(a, n) = write_word(a) \o write_word(Plus(a, 2))
    BY <1>4, <2>4 DEF BusRead, BusWrite, read_long, write_long
  <2>6. <<OpenBus, OpenBus>> \o <<OpenBus, OpenBus>> = [k \in 1..4 |-> OpenBus]
    OBVIOUS
  <2> QED
    BY <1>4, <2>3, <2>5, <2>6
<1> QED
  BY <1>2, <1>3, <1>4


-----------------------------------------------------------------------------
(* The three properties.                                                   *)

LEMMA ProbesAreAddresses ==
    ASSUME MapInv
    PROVE  Probes \subseteq Addresses
<1>1. ASSUME NEW p \in ProbePages, NEW o \in Offsets PROVE Addr(p, o) \in Addresses
  <2>1. p \in 0..(PAGE_COUNT - 1) /\ o \in 0..(PAGE_SIZE - 1)
    BY DirectMapAssumption DEF ProbePages
  <2>2. PAGE_COUNT \in Nat /\ PAGE_SIZE \in Nat
    BY DEF PAGE_COUNT, PAGE_SIZE
  <2>3. p \in Nat /\ p < PAGE_COUNT /\ o \in Nat /\ o < PAGE_SIZE
    BY <2>1, <2>2
  <2> QED
    BY <2>3 DEF Addr, Addresses
<1>2. Addr(CUSTOM_PAGE, CUSTOM_OFF - 2) \in Addresses /\ Addr(CUSTOM_PAGE, CUSTOM_OFF) \in Addresses
  BY DEF Addr, Addresses, CUSTOM_PAGE, CUSTOM_OFF, PAGE_COUNT, PAGE_SIZE
<1> QED
  BY <1>1, <1>2 DEF Probes

\* Not only at the probes: every address, in every width.
AgreesEverywhere ==
    \A a \in Addresses, n \in Widths :
        /\ dm_read(a, n) # Fallthrough => dm_read(a, n) = BusRead(a, n)
        /\ dm_write(a, n) # Fallthrough => dm_write(a, n) = BusWrite(a, n)

LEMMA MapInvAgrees == MapInv => AgreesEverywhere /\ DirectMapAgrees
<1>a. MapInv /\ AgreesEverywhere => DirectMapAgrees
  BY ProbesAreAddresses DEF AgreesEverywhere, DirectMapAgrees
<1> SUFFICES ASSUME MapInv, NEW a \in Addresses, NEW n \in Widths
             PROVE  /\ dm_read(a, n) # Fallthrough => dm_read(a, n) = BusRead(a, n)
                    /\ dm_write(a, n) # Fallthrough => dm_write(a, n) = BusWrite(a, n)
  BY <1>a DEF AgreesEverywhere
<1>1. a \in Addresses /\ n \in {1, 2, 4}
  BY DEF Widths
<1> DEFINE z == Plus(a, n - 1)
<1>2. CASE Wraps(a, n)
  BY <1>2 DEF dm_read, dm_write
<1>3. CASE ~Wraps(a, n)
  <2>0. z \in Addresses
    <3>1. 1 \in 1..n
      BY <1>1
    <3> QED
      BY <1>1, <1>3, <3>1, Between
  <2>1. access_pages(a, n) = {page_type(a), page_type(z)}
    BY DEF access_pages
  <2> DEFINE bytes == [k \in 1..n |-> Mapped(Plus(a, k - 1))]
  <2>2. ASSUME page_type(a) \in {"Ram", "Rom"}, page_type(z) \in {"Ram", "Rom"}
        PROVE  /\ bytes = BusRead(a, n)
               /\ page_type(a) = "Ram" => bytes = BusWrite(a, n)
    <3>1. Storage(a) /\ Storage(z)
      BY <2>2, <2>0, <1>1, PageTypes DEF Storage
    <3>2. /\ fast_region(a, n) = Mapped(a) /\ Mapped(a) # None /\ ~IsCustom(a)
          /\ ~InRom(a) => fast_region_mut(a, n) = Mapped(a)
          /\ bytes = Run(Mapped(a), n)
      BY <1>1, <1>3, <3>1, StorageSpan
    <3>3. page_type(a) = "Ram" => ~InRom(a)
      <4> SUFFICES ASSUME page_type(a) = "Ram", InRom(a) PROVE FALSE
        OBVIOUS
      <4>1. InChip(a) \/ InFast(a)
        BY <1>1, PageTypes
      <4>2. a.p \in Nat /\ a.p >= 248 /\ a.p <= 255
        BY <1>1, AddressBounds DEF InRom
      <4>3. InFast(a) => a.p >= 4096
        BY <1>1, Aliased
      <4> QED
        BY <4>1, <4>2, <4>3 DEF InChip
    <3> DEFINE m == Mapped(a)
    <3>4. CASE n = 1
      <4>1. Plus(a, 1 - 1) = a
        <5>1. /\ Plus(a, 0).o = (a.o + 0) % 65536 /\ Plus(a, 0) \in Addresses
              /\ a.p + ((a.o + 0) \div 65536) < 65536 => Plus(a, 0).p = a.p + ((a.o + 0) \div 65536)
          BY <1>1, PlusBytes
        <5>2. a.p \in Nat /\ a.p < 65536 /\ a.o \in Nat /\ a.o < 65536 /\ a = Addr(a.p, a.o)
          BY <1>1, AddressBounds
        <5>3. Plus(a, 0).o = a.o /\ Plus(a, 0).p = a.p
          BY <5>1, <5>2
        <5>4. Plus(a, 0) = Addr(Plus(a, 0).p, Plus(a, 0).o)
          BY <5>1, AddressBounds
        <5>5. Plus(a, 0) = a
          BY <5>2, <5>3, <5>4
        <5> QED
          BY <5>5
      <4>2. bytes = <<Mapped(a)>>
        <5>1. [k \in 1..1 |-> Mapped(Plus(a, k - 1))] = <<Mapped(Plus(a, 1 - 1))>>
          OBVIOUS
        <5> QED
          BY <3>4, <4>1, <5>1
      <4>3. read_byte(a) = Mapped(a) /\ (~InRom(a) => write_byte(a) = Mapped(a))
        BY <3>2, <3>4 DEF read_byte, write_byte
      <4> QED
        BY <3>3, <3>4, <4>2, <4>3 DEF BusRead, BusWrite
    <3>5. CASE n = 2
      <4>1. read_word(a) = Run(Mapped(a), 2) /\ (~InRom(a) => write_word(a) = Run(Mapped(a), 2))
        BY <3>2, <3>5 DEF read_word, write_word
      <4>2. BusRead(a, 2) = read_word(a) /\ BusWrite(a, 2) = write_word(a)
        BY DEF BusRead, BusWrite
      <4> QED
        BY <3>2, <3>3, <3>5, <4>1, <4>2
    <3>6. CASE n = 4
      <4>1. read_long(a) = Run(Mapped(a), 4) /\ (~InRom(a) => write_long(a) = Run(Mapped(a), 4))
        BY <3>2, <3>6 DEF read_long, write_long
      <4>2. BusRead(a, 4) = read_long(a) /\ BusWrite(a, 4) = write_long(a)
        BY DEF BusRead, BusWrite
      <4> QED
        BY <3>2, <3>3, <3>6, <4>1, <4>2
    <3> QED
      BY <1>1, <3>4, <3>5, <3>6
  <2>3. ASSUME page_type(a) = "OpenBus", page_type(z) = "OpenBus"
        PROVE  /\ [k \in 1..n |-> OpenBus] = BusRead(a, n)
               /\ [k \in 1..n |-> OpenBus] = BusWrite(a, n)
    <3>1. Floats(a) /\ Floats(z)
      BY <2>0, <2>3, <1>1, PageTypes DEF Floats
    <3> QED
      BY <3>1, <1>1, <1>3, FloatingAccess
  <2>4. dm_read(a, n) # Fallthrough => dm_read(a, n) = BusRead(a, n)
    <3>1. CASE access_pages(a, n) \subseteq {"Ram", "Rom"}
      <4>1. dm_read(a, n) = bytes
        BY <3>1, <1>3 DEF dm_read
      <4> QED
        BY <4>1, <3>1, <2>1, <2>2
    <3>2. CASE ~(access_pages(a, n) \subseteq {"Ram", "Rom"}) /\ access_pages(a, n) = {"OpenBus"}
      <4>1. dm_read(a, n) = [k \in 1..n |-> OpenBus]
        BY <3>2, <1>3 DEF dm_read
      <4>2. page_type(a) = "OpenBus" /\ page_type(z) = "OpenBus"
        BY <3>2, <2>1
      <4> QED
        BY <4>1, <4>2, <2>3
    <3>3. CASE ~(access_pages(a, n) \subseteq {"Ram", "Rom"}) /\ access_pages(a, n) # {"OpenBus"}
      BY <3>3, <1>3 DEF dm_read
    <3> QED
      BY <3>1, <3>2, <3>3
  <2>5. dm_write(a, n) # Fallthrough => dm_write(a, n) = BusWrite(a, n)
    <3>1. CASE access_pages(a, n) = {"Ram"}
      <4>1. dm_write(a, n) = bytes
        BY <3>1, <1>3 DEF dm_write
      <4>2. page_type(a) = "Ram" /\ page_type(z) = "Ram"
        BY <3>1, <2>1
      <4> QED
        BY <4>1, <4>2, <2>2
    <3>2. CASE access_pages(a, n) = {"OpenBus"}
      <4>1. access_pages(a, n) # {"Ram"}
        BY <3>2
      <4>2. dm_write(a, n) = [k \in 1..n |-> OpenBus]
        BY <3>2, <4>1, <1>3 DEF dm_write
      <4>3. page_type(a) = "OpenBus" /\ page_type(z) = "OpenBus"
        BY <3>2, <2>1
      <4> QED
        BY <4>2, <4>3, <2>3
    <3>3. CASE access_pages(a, n) # {"Ram"} /\ access_pages(a, n) # {"OpenBus"}
      BY <3>3, <1>3 DEF dm_write
    <3> QED
      BY <3>1, <3>2, <3>3
  <2> QED
    BY <2>4, <2>5
<1> QED
  BY <1>2, <1>3


\* The fast RAM board's slot is the cached one.
LEMMA FastBoard ==
    ASSUME MapInv, NEW i \in Slots, specs[i].name = "fastram"
    PROVE  fast_window = placed[i]
<1>1. \A j \in Slots : specs[j].name = "fastram" => j = i
  BY DEF MapInv, ChainInv, GoodChain, Slots
<1>2. BoardNamed("fastram") = i
  BY <1>1 DEF BoardNamed
<1>3. i # 0
  BY DEF Slots
<1> QED
  BY <1>2, <1>3 DEF WindowOf, placement, MapInv, WindowsInv

LEMMA FitsOne ==
    ASSUME NEW a \in Addresses, NEW q \in Int, NEW limit \in Int
    PROVE  Fits(a.o, q, limit, 1) <=> q < limit
<1>1. a.o \in Nat /\ a.o < 65536
  BY AddressBounds
<1>2. q * 65536 + a.o + 1 <= limit * 65536 <=> q < limit
  BY <1>1
<1> QED
  BY <1>2 DEF Fits, PAGE_SIZE

\* A byte write that is not to storage reaches no RAM.
LEMMA SlowWrites ==
    ASSUME MapInv, NEW a \in Addresses, fast_region_mut(a, 1) = None
    PROVE  write_byte_slow(a).kind \notin {"chip", "fast"}
<1>0. a.p \in Nat
  BY AddressBounds
<1>1. ASSUME board_at(a.p) # 0 PROVE BoardByte(a).kind \notin {"chip", "fast"}
  <2> DEFINE i == board_at(a.p)
  <2>1. i \in Slots /\ Covers(placed[i], a.p)
    <3>1. PICK j \in Slots : Covers(placed[j], a.p)
      BY <1>0, <1>1, BoardAt
    <3> QED
      BY <3>1, <1>0, BoardAt
  <2> HIDE DEF i
  <2>2. CASE specs[i].name # "fastram"
    <3>1. BoardByte(a).kind = specs[i].name
      BY <2>2 DEF BoardByte, At, i
    <3>2. specs[i].name \notin {"chip", "fast"}
      BY <2>1 DEF MapInv, ChainInv, GoodChain, GoodBoard, Slots
    <3> QED
      BY <3>1, <3>2
  <2>3. CASE specs[i].name = "fastram"
    <3>1. fast_window = placed[i] /\ a.p >= 4096
      BY <1>0, <2>1, <2>3, FastBoard, BoardsAway
    <3>2. fast_window.base \in Int /\ FastPages \in Int /\ a.p - fast_window.base \in Int
      BY <1>0, <2>1, <3>1, ChainAssumption DEF MapInv, PlacedInv, WindowType
    <3>3. ~(a.p < CHIP_RAM_END)
      BY <1>0, <3>1 DEF CHIP_RAM_END
    <3>4. ~Fits(a.o, a.p - fast_window.base, FastPages, 1)
      <4> SUFFICES ASSUME Fits(a.o, a.p - fast_window.base, FastPages, 1) PROVE FALSE
        OBVIOUS
      <4>1. fast_region_mut(a, 1) = At("fast", a.p - fast_window.base, a.o)
        BY <3>1, <3>3, <2>1 DEF fast_region_mut
      <4> QED
        BY <4>1 DEF At, None
    <3>5. ~(a.p - fast_window.base < FastPages)
      BY <3>2, <3>4, FitsOne
    <3>6. BoardByte(a) = OpenBus
      BY <2>3, <3>1, <3>5 DEF BoardByte, i
    <3> QED
      BY <3>6 DEF OpenBus, At
  <2> QED
    BY <2>2, <2>3
<1>2. /\ At("autoconfig", 0, a.o).kind = "autoconfig" /\ At("cia", a.p, a.o).kind = "cia"
      /\ At("custom", 0, a.o).kind = "custom" /\ OpenBus.kind = "open"
  BY DEF At, OpenBus
<1>3. \/ write_byte_slow(a) = At("autoconfig", 0, a.o) \/ write_byte_slow(a) = At("cia", a.p, a.o)
      \/ write_byte_slow(a) = At("custom", 0, a.o) \/ write_byte_slow(a) = OpenBus
      \/ board_at(a.p) # 0 /\ write_byte_slow(a) = BoardByte(a)
  BY DEF write_byte_slow
<1> QED
  BY <1>1, <1>2, <1>3

\* Not only at the probes: every address.
DmaAgreesEverywhere ==
    \A a \in Addresses :
        /\ ram_slice(a, 1) # None => write_byte(a) = ram_slice(a, 1)
        /\ write_byte(a).kind \in {"chip", "fast"} => ram_slice(a, 1) = write_byte(a)

LEMMA MapInvDma == MapInv => DmaAgreesEverywhere /\ DmaSeesWhatTheCpuWrites
<1>a. MapInv /\ DmaAgreesEverywhere => DmaSeesWhatTheCpuWrites
  BY ProbesAreAddresses DEF DmaAgreesEverywhere, DmaSeesWhatTheCpuWrites
<1> SUFFICES ASSUME MapInv, NEW a \in Addresses
             PROVE  /\ ram_slice(a, 1) # None => write_byte(a) = ram_slice(a, 1)
                    /\ write_byte(a).kind \in {"chip", "fast"} => ram_slice(a, 1) = write_byte(a)
  BY <1>a DEF DmaAgreesEverywhere
<1>1. a \in Addresses /\ a.p \in Nat
  BY AddressBounds
<1>2. ram_slice(a, 1) = fast_region_mut(a, 1)
  <2>1. CASE a.p < CHIP_RAM_END
    <3>1. Fits(a.o, a.p, CHIP_RAM_END, 1)
      BY <1>1, <2>1, FitsOne DEF CHIP_RAM_END
    <3>2. At("chip", a.p, a.o) # None
      BY DEF At, None
    <3> QED
      BY <2>1, <3>1, <3>2 DEF ram_slice, chip_ram_span, fast_region_mut
  <2>2. CASE ~(a.p < CHIP_RAM_END)
    BY <2>2 DEF ram_slice, chip_ram_span, fast_ram_span, fast_region_mut
  <2> QED
    BY <2>1, <2>2
<1>3. CASE fast_region_mut(a, 1) # None
  BY <1>2, <1>3 DEF write_byte
<1>4. CASE fast_region_mut(a, 1) = None
  <2>1. write_byte(a) = write_byte_slow(a)
    BY <1>4 DEF write_byte
  <2> QED
    BY <1>1, <1>2, <1>4, <2>1, SlowWrites
<1> QED
  BY <1>3, <1>4

\* Not only at the first byte of a page: every address of a board's window.
BoardsAnswerEverywhere ==
    \A i \in Slots, a \in Addresses :
        Covers(placed[i], a.p) => board_at(a.p) = i /\ read_byte(a) = BoardByte(a)

\* The pages of a board's window are in the space and the window covers them.
LEMMA WindowPages ==
    ASSUME MapInv, NEW i \in Slots, placed[i] # NotPlaced,
           NEW p \in placed[i].base..(placed[i].base + placed[i].size - 1)
    PROVE  Addr(p, 0) \in Addresses /\ Addr(p, 0).p = p /\ Covers(placed[i], p)
<1> DEFINE w == placed[i]
<1>1. w \in WindowType /\ w.size = specs[i].size /\ InSpace(w, specs[i])
  BY DEF MapInv, PlacedInv
<1>2. w.size \in Nat \ {0}
  BY <1>1, BoardSizes DEF MapInv, ChainInv, GoodChain, GoodBoard, Slots
<1>3. w.base \in Int /\ w.base >= 32 /\ w.base + w.size <= 65536
  <2>1. w.base \in Int
    BY <1>1 DEF WindowType
  <2> QED
    BY <2>1, <1>1, <1>2 DEF InSpace
<1>a. p \in w.base..(w.base + w.size - 1)
  OBVIOUS
<1> HIDE DEF w
<1>4. p \in Nat /\ p < 65536 /\ p >= w.base /\ p - w.base < w.size
  BY <1>a, <1>2, <1>3
<1>5. Covers(placed[i], p)
  BY <1>4 DEF Covers, w
<1> QED
  BY <1>4, <1>5 DEF Addr, Addresses, PAGE_COUNT, PAGE_SIZE

LEMMA MapInvPlaced == MapInv => BoardsAnswerEverywhere /\ PlacedBoardsAnswer
<1>a. MapInv /\ BoardsAnswerEverywhere => PlacedBoardsAnswer
  <2> SUFFICES ASSUME MapInv, BoardsAnswerEverywhere, NEW i \in Slots, placed[i] # NotPlaced,
                      NEW p \in placed[i].base..(placed[i].base + placed[i].size - 1)
               PROVE  board_at(p) = i /\ read_byte(Addr(p, 0)) = BoardByte(Addr(p, 0))
    BY DEF PlacedBoardsAnswer
  <2>1. Addr(p, 0) \in Addresses /\ Addr(p, 0).p = p /\ Covers(placed[i], p)
    BY WindowPages
  <2> QED
    BY <2>1 DEF BoardsAnswerEverywhere
<1> SUFFICES ASSUME MapInv, NEW i \in Slots, NEW a \in Addresses, Covers(placed[i], a.p)
             PROVE  board_at(a.p) = i /\ read_byte(a) = BoardByte(a)
  BY <1>a DEF BoardsAnswerEverywhere
<1> DEFINE p == a.p
<1>4. p \in Nat /\ p < 65536
  BY AddressBounds
<1>5. Covers(placed[i], p)
  OBVIOUS
<1>b. placed[i] # NotPlaced /\ placed[i].base \in Int
  BY <1>5 DEF Covers, MapInv, PlacedInv, WindowType
<1>8. a \in Addresses /\ a.p = p
  OBVIOUS
<1> HIDE DEF p
<1>6. board_at(p) = i
  BY <1>4, <1>5, BoardAt
<1>7. (32 <= p /\ p < 160) \/ (233 <= p /\ p < 240) \/ 4096 <= p
  BY <1>4, <1>5, BoardsAway
<1>9. /\ ~(p < CHIP_RAM_END) /\ ~(p < OVERLAY_END) /\ p # AUTOCONFIG_PAGE
      /\ p \notin CIA_BASE..(CIA_END - 1) /\ p # CUSTOM_PAGE
      /\ p \notin EXT_ROM_BASE..(EXT_ROM_END - 1) /\ p \notin ROM_BASE..(ROM_END - 1)
  BY <1>4, <1>7 DEF CHIP_RAM_END, OVERLAY_END, AUTOCONFIG_PAGE, CIA_BASE, CIA_END, CUSTOM_PAGE,
                    EXT_ROM_BASE, EXT_ROM_END, ROM_BASE, ROM_END
<1>10. i # 0
  BY DEF Slots
<1>11. CASE fast_region(a, 1) = None
  BY <1>6, <1>8, <1>9, <1>10, <1>11 DEF read_byte, IsCustom
<1>12. CASE fast_region(a, 1) # None
  <2>1. Covers(fast_window, p) /\ Fits(a.o, p - fast_window.base, FastPages, 1)
        /\ fast_region(a, 1) = At("fast", p - fast_window.base, a.o)
    BY <1>8, <1>9, <1>12 DEF fast_region
  <2>2. fast_window = placed[i] /\ specs[i].name = "fastram"
    <3>1. PICK j \in Slots : Covers(placed[j], p) /\ fast_window = placed[j] /\ specs[j].name = "fastram"
      BY <1>4, <2>1, CachedWindows
    <3> QED
      BY <3>1, <1>4, <1>5, OneBoard
  <2>3. p - fast_window.base < FastPages
    <3>1. p - fast_window.base \in Int /\ FastPages \in Int
      BY <1>4, <1>b, <2>2, ChainAssumption
    <3> QED
      BY <3>1, <2>1, <1>8, FitsOne
  <2>4. BoardByte(a) = At("fast", p - fast_window.base, a.o)
    BY <1>6, <1>8, <2>2, <2>3 DEF BoardByte
  <2>5. read_byte(a) = fast_region(a, 1)
    BY <1>12 DEF read_byte
  <2> QED
    BY <1>6, <1>8, <2>1, <2>4, <2>5
<1> QED
  BY <1>8, <1>11, <1>12

\* Whatever the direct map answers itself is what MachineBus would have
\* answered, at every address and width: after any sequence of placements, refusals,
\* failed aliases and overlay flips, for every configuration of the machine
\* (DirectMap::read, write and sync against MachineBus's decode).
THEOREM DirectMapAlwaysAgrees == DMSpec => []AgreesEverywhere /\ []DirectMapAgrees
  BY MapInvariant, MapInvAgrees, PTL

\* A device's DMA and the CPU's writes reach the same RAM bytes, however the
\* boards were placed (GuestRam::ram_slice against MachineBus::write_byte).
THEOREM DmaAlwaysSeesWhatTheCpuWrites == DMSpec => []DmaAgreesEverywhere /\ []DmaSeesWhatTheCpuWrites
  BY MapInvariant, MapInvDma, PTL

\* A placed board is the one that answers, at every address of the window it
\* decodes, so that no two windows overlap: for every amount of VRAM and fast
\* RAM, and whatever the allocator, the type byte the guest sized it by is
\* never short (AutoConfig::board_at, zorro_ii_size_code, extended_size_code).
THEOREM PlacedBoardsAlwaysAnswer == DMSpec => []BoardsAnswerEverywhere /\ []PlacedBoardsAnswer
  BY MapInvariant, MapInvPlaced, PTL
-----------------------------------------------------------------------------
(***************************************************************************)
(* The PCI bus.  Beside what each variable may hold, the invariant says    *)
(* which functions decode, what each base address register holds, that     *)
(* the recorded boards are apart and where their registers say they are,   *)
(* and what the enumeration has read at each of its steps.                 *)
(***************************************************************************)
Lanes == [1..4 -> 0..OnesByte]
Boards == [dev : Nat, bar : Bars, pci : Nat, size : Nat]

\* Where the enumeration is: at a function that answered; among its BARs.
Walking == {"orig", "probe", "size", "restore", "assign"}
Found == Walking \cup {"pin", "command", "decode_off", "enable", "header"}
Places == Found \cup {"vendor", "present", "aperture", "ready"}

Statuses == {Idle, "COMPLETED", "REJECTED"}
CfgType == [dev : Nat, off : Nat, reserved : BOOLEAN, width : Nat, data : Lanes, status : Statuses]
PrmType == [pc : Places, dev : Nat, bar : Bars, orig : Lanes, size : Nat, next_free : Nat, boards : SUBSET Boards]

PciTypes ==
    /\ command \in [Fns -> 0..7]
    /\ bar_regs \in [Fns -> [Bars -> 0..Span - 1]]
    /\ cfg \in CfgType
    /\ prm \in PrmType
    /\ prm.next_free >= PCI_MEM_BASE /\ prm.next_free <= PCI_MEM_BASE + PCI_MEM_BYTES

\* Only functions the enumeration has left decode.
Decoders ==
    \A f \in Fns : HasMemory(f) => \/ Functions[f].dev < prm.dev
                                   \/ Functions[f].dev = prm.dev /\ prm.pc = "header"

\* A register is clear, or probed just now, or where it was recorded.
Registers ==
    \A f \in Fns, b \in Bars :
        \/ bar_regs[f][b] = 0
        \/ /\ Functions[f].bars[b] # 0
           /\ \/ [dev |-> Functions[f].dev, bar |-> b, pci |-> bar_regs[f][b], size |-> Functions[f].bars[b]]
                     \in prm.boards
              \/ /\ Functions[f].dev = prm.dev /\ b = prm.bar /\ prm.pc \in {"size", "restore"}
                 /\ bar_regs[f][b] = Span - Functions[f].bars[b]

\* A recorded board's register, and its decoding once its function is done.
Recorded(r, f) ==
    /\ Functions[f].dev = r.dev /\ Functions[f].bars[r.bar] = r.size /\ bar_regs[f][r.bar] = r.pci
    /\ r.dev < prm.dev \/ prm.pc = "header" => HasMemory(f)
RecordedBoards ==
    \A r \in prm.boards :
        /\ r.dev <= prm.dev
        /\ r.dev = prm.dev => prm.pc \in Walking \cup {"enable", "header"}
        /\ r.dev = prm.dev /\ prm.pc \in Walking => r.bar < prm.bar
        /\ r.pci >= PCI_MEM_BASE /\ r.pci + r.size <= prm.next_free /\ r.size # 0
        /\ \E f \in Fns : Recorded(r, f)
BoardsApart ==
    \A q, r \in prm.boards : q = r \/ q.pci + q.size <= r.pci \/ r.pci + r.size <= q.pci

\* What the enumeration knows of the function it is at.
Progress ==
    /\ prm.pc = "present" /\ FnAt(prm.dev) = {} => \A k \in 1..2 : Result[k] = OnesByte
    /\ prm.pc \in Found => FnAt(prm.dev) # {}
    /\ prm.pc = "probe" => \A k \in 1..4 : Result[k] = 0
    /\ prm.pc \in {"size", "restore"} => \A k \in 1..4 : prm.orig[k] = 0
    /\ prm.pc = "ready" => aperture_base = PCI_MEM_BASE
    /\ \A f \in FnAt(prm.dev) :
          LET size == Functions[f].bars[prm.bar]
              reg  == bar_regs[f][prm.bar]
          IN  /\ prm.pc \in {"size", "restore"} => reg = IF size = 0 THEN 0 ELSE Span - size
              /\ prm.pc = "restore" => Result = ToLanes(reg)
              /\ prm.pc = "assign" => prm.size = size /\ size # 0 /\ reg = 0

PciInv == PciTypes /\ Decoders /\ Registers /\ RecordedBoards /\ BoardsApart /\ Progress
-----------------------------------------------------------------------------
(* Numbers in byte lanes *)

Digits(a, b, c, d) == a + Radix * (b + Radix * (c + Radix * d))
Cut(x, e) == x - (x % e)
\* A lane of a value cut down to a multiple of e in lane l.
Masked(l, e, k, x) == CASE k < l -> 0 [] k = l -> Cut(x, e) [] k > l -> x

LEMMA Quotient ==
    ASSUME NEW n \in Nat \ {0}, NEW q \in Nat, NEW r \in 0 .. n - 1
    PROVE  (n * q + r) \div n = q /\ (n * q + r) % n = r
OBVIOUS

LEMMA Division ==
    ASSUME NEW n \in Nat \ {0}, NEW x \in Nat
    PROVE  x \div n \in Nat /\ x % n \in 0 .. n - 1 /\ x = n * (x \div n) + (x % n)
OBVIOUS

LEMMA ProductNat == ASSUME NEW m \in Nat, NEW n \in Nat PROVE m * n \in Nat
OBVIOUS

LEMMA ProductPos == ASSUME NEW m \in Nat \ {0}, NEW n \in Nat \ {0} PROVE m * n \in Nat \ {0}
OBVIOUS

LEMMA ProductLess ==
    ASSUME NEW m \in Nat \ {0}, NEW x \in Nat, NEW n \in Nat, x <= n - 1
    PROVE  m * x <= m * n - m
OBVIOUS

\* A digit in front of a number below w.
LEMMA InFront ==
    ASSUME NEW w \in Nat \ {0}, NEW n \in Nat \ {0}, NEW low \in 0..w - 1, NEW x \in 0..n - 1
    PROVE  low + w * x \in 0..w * n - 1
<1>1. w * x <= w * n - w
  BY ProductLess
<1>2. w * x \in Nat /\ w * n \in Nat
  BY ProductNat
<1> HIDE DEF Digits
<1> QED
  BY <1>1, <1>2

LEMMA Weights ==
    /\ Radix \in Nat \ {0} /\ Radix >= 8 /\ OnesByte \in Nat /\ OnesByte >= 7 /\ OnesByte = Radix - 1
    /\ Radix * Radix \in Nat \ {0} /\ Radix * Radix * Radix \in Nat \ {0} /\ Span \in Nat \ {0}
    /\ Span = Radix * (Radix * Radix * Radix)
<1>1. Radix \in Nat \ {0} /\ Radix >= 8
  BY PciAssumption
<1>2. Radix * Radix \in Nat \ {0}
  BY <1>1, ProductPos
<1>3. Radix * Radix * Radix \in Nat \ {0}
  BY <1>1, <1>2, ProductPos
<1>4. Radix * Radix * Radix * Radix \in Nat \ {0}
  BY <1>1, <1>3, ProductPos
<1>5. Radix * Radix * Radix * Radix = Radix * (Radix * Radix * Radix)
  BY <1>1
<1> QED
  BY <1>1, <1>2, <1>3, <1>4, <1>5 DEF OnesByte, Span

\* Lanes are digits: what is below a lane, and what is from it on.
LEMMA DigitParts ==
    ASSUME NEW a \in 0..OnesByte, NEW b \in 0..OnesByte, NEW c \in 0..OnesByte, NEW d \in 0..OnesByte
    PROVE  /\ a + Radix * b \in 0 .. (Radix * Radix) - 1
           /\ a + Radix * (b + Radix * c) \in 0 .. (Radix * Radix * Radix) - 1
           /\ c + Radix * d \in Nat /\ b + Radix * (c + Radix * d) \in Nat
           /\ Digits(a, b, c, d) = Radix * (b + Radix * (c + Radix * d)) + a
           /\ Digits(a, b, c, d) = (Radix * Radix) * (c + Radix * d) + (a + Radix * b)
           /\ Digits(a, b, c, d) = (Radix * Radix * Radix) * d + (a + Radix * (b + Radix * c))
           /\ Digits(a, b, c, d) \in 0..Span - 1
<1>1. Radix \in Nat \ {0} /\ a \in 0..Radix - 1 /\ b \in 0..Radix - 1 /\ c \in 0..Radix - 1 /\ d \in 0..Radix - 1
  BY Weights
<1>2. a + Radix * b \in 0 .. (Radix * Radix) - 1
  BY <1>1, InFront
<1>3. a + Radix * (b + Radix * c) \in 0 .. (Radix * Radix * Radix) - 1
  <2>1. (a + Radix * b) + (Radix * Radix) * c \in 0 .. (Radix * Radix) * Radix - 1
    BY <1>1, <1>2, Weights, InFront
  <2>2. (a + Radix * b) + (Radix * Radix) * c = a + Radix * (b + Radix * c)
    BY <1>1
  <2> QED
    BY <2>1, <2>2
<1>4. c + Radix * d \in Nat /\ b + Radix * (c + Radix * d) \in Nat
  <2>1. Radix * d \in Nat
    BY <1>1, ProductNat
  <2>2. Radix * (c + Radix * d) \in Nat
    BY <1>1, <2>1, ProductNat
  <2> QED
    BY <1>1, <2>1, <2>2
<1>5. Digits(a, b, c, d) = Radix * (b + Radix * (c + Radix * d)) + a
  BY <1>1, <1>4 DEF Digits
<1>6. Digits(a, b, c, d) = (Radix * Radix) * (c + Radix * d) + (a + Radix * b)
  BY <1>1, <1>4 DEF Digits
<1>7. Digits(a, b, c, d) = (Radix * Radix * Radix) * d + (a + Radix * (b + Radix * c))
  BY <1>1, <1>4 DEF Digits
<1>8. Digits(a, b, c, d) \in 0..Span - 1
  <2>1. (a + Radix * (b + Radix * c)) + (Radix * Radix * Radix) * d \in 0 .. (Radix * Radix * Radix) * Radix - 1
    BY <1>1, <1>3, Weights, InFront
  <2>2. (Radix * Radix * Radix) * d \in Int
    BY <1>1, Weights
  <2> QED
    BY <1>7, <1>3, <2>1, <2>2 DEF Span
<1> QED
  BY <1>2, <1>3, <1>4, <1>5, <1>6, <1>7, <1>8

LEMMA LaneOfDigits ==
    ASSUME NEW a \in 0..OnesByte, NEW b \in 0..OnesByte, NEW c \in 0..OnesByte, NEW d \in 0..OnesByte
    PROVE  /\ LaneOf(Digits(a, b, c, d), 0) = a /\ LaneOf(Digits(a, b, c, d), 1) = b
           /\ LaneOf(Digits(a, b, c, d), 2) = c /\ LaneOf(Digits(a, b, c, d), 3) = d
<1> DEFINE v == Digits(a, b, c, d)
           R2 == Radix * Radix
           R3 == Radix * Radix * Radix
           h1 == b + Radix * (c + Radix * d)
           h2 == c + Radix * d
           l2 == a + Radix * b
           l3 == a + Radix * (b + Radix * c)
<1>1. /\ Radix \in Nat \ {0} /\ R2 \in Nat \ {0} /\ R3 \in Nat \ {0}
      /\ a \in 0..Radix - 1 /\ b \in 0..Radix - 1 /\ c \in 0..Radix - 1 /\ d \in 0..Radix - 1
  BY Weights
<1>2. /\ l2 \in 0..R2 - 1 /\ l3 \in 0..R3 - 1 /\ h1 \in Nat /\ h2 \in Nat
      /\ v = Radix * h1 + a /\ v = R2 * h2 + l2 /\ v = R3 * d + l3 /\ v \in Nat
  BY DigitParts
<1>3. h1 = Radix * h2 + b /\ h2 = Radix * d + c /\ d = Radix * 0 + d
  BY <1>1, <1>2
<1> HIDE DEF v, R2, R3, h1, h2, l2, l3
<1>4. v \div 1 = v /\ v % Radix = a
  <2>1. (Radix * h1 + a) % Radix = a
    BY <1>1, <1>2, Quotient, Zenon
  <2> QED
    BY <2>1, <1>2
<1>5. v \div Radix = h1 /\ h1 % Radix = b
  <2>1. (Radix * h1 + a) \div Radix = h1
    BY <1>1, <1>2, Quotient, Zenon
  <2>2. (Radix * h2 + b) % Radix = b
    BY <1>1, <1>2, Quotient, Zenon
  <2> QED
    BY ONLY <2>1, <2>2, <1>2, <1>3, Zenon
<1>6. v \div R2 = h2 /\ h2 % Radix = c
  <2>1. (R2 * h2 + l2) \div R2 = h2
    BY <1>1, <1>2, Quotient, Zenon
  <2>2. d \in Nat
    BY <1>1
  <2>3. (Radix * d + c) % Radix = c
    BY <1>1, <2>2, Quotient, Zenon
  <2> QED
    BY ONLY <2>1, <2>3, <1>2, <1>3, Zenon
<1>7. v \div R3 = d /\ d % Radix = d
  <2>1. d % Radix = d /\ d \in Nat
    BY <1>1
  <2>2. (R3 * d + l3) \div R3 = d
    BY <1>1, <1>2, <2>1, Quotient, Zenon
  <2> QED
    BY ONLY <2>1, <2>2, <1>2, Zenon
<1> QED
  BY <1>4, <1>5, <1>6, <1>7 DEF LaneOf, Weight, v, R2, R3

IsLanes(a, b, c, d) == a \in 0..OnesByte /\ b \in 0..OnesByte /\ c \in 0..OnesByte /\ d \in 0..OnesByte
SetDigits(a, b, c, d, x) ==
    /\ SetLane(Digits(a, b, c, d), 0, x) = Digits(x, b, c, d)
    /\ SetLane(Digits(a, b, c, d), 1, x) = Digits(a, x, c, d)
    /\ SetLane(Digits(a, b, c, d), 2, x) = Digits(a, b, x, d)
    /\ SetLane(Digits(a, b, c, d), 3, x) = Digits(a, b, c, x)

LEMMA SetLaneDigits ==
    ASSUME NEW a, NEW b, NEW c, NEW d, NEW x, IsLanes(a, b, c, d), x \in 0..OnesByte
    PROVE  SetDigits(a, b, c, d, x)
<1>0. a \in 0..OnesByte /\ b \in 0..OnesByte /\ c \in 0..OnesByte /\ d \in 0..OnesByte
  BY DEF IsLanes
<1>1. Radix \in Nat /\ a \in Int /\ b \in Int /\ c \in Int /\ d \in Int /\ x \in Int
  BY <1>0, Weights
<1>2. Digits(a, b, c, d) + (x - a) * 1 = Digits(x, b, c, d)
  BY <1>1 DEF Digits
<1>3. Digits(a, b, c, d) + (x - b) * Radix = Digits(a, x, c, d)
  BY <1>1 DEF Digits
<1>4. Digits(a, b, c, d) + (x - c) * (Radix * Radix) = Digits(a, b, x, d)
  BY <1>1 DEF Digits
<1>5. Digits(a, b, c, d) + (x - d) * (Radix * Radix * Radix) = Digits(a, b, c, x)
  BY <1>1 DEF Digits
<1> QED
  BY <1>0, <1>2, <1>3, <1>4, <1>5, LaneOfDigits DEF SetLane, Weight, SetDigits

\* Every 32-bit value is its lanes.
LEMMA ValueOfLanes ==
    ASSUME NEW v \in 0..Span - 1
    PROVE  /\ \A k \in 0..3 : LaneOf(v, k) \in 0..OnesByte
           /\ v = Digits(LaneOf(v, 0), LaneOf(v, 1), LaneOf(v, 2), LaneOf(v, 3))
<1> DEFINE q1 == v \div Radix
           q2 == q1 \div Radix
           q3 == q2 \div Radix
           a == v % Radix
           b == q1 % Radix
           c == q2 % Radix
<1>1. Radix \in Nat \ {0} /\ v \in Nat /\ OnesByte = Radix - 1
  BY Weights
<1>2. q1 \in Nat /\ a \in 0..Radix - 1 /\ v = Radix * q1 + a
  BY <1>1, Division
<1> HIDE DEF q1, a
<1>3. q2 \in Nat /\ b \in 0..Radix - 1 /\ q1 = Radix * q2 + b
  BY <1>1, <1>2, Division
<1> HIDE DEF q2, b
<1>4. q3 \in Nat /\ c \in 0..Radix - 1 /\ q2 = Radix * q3 + c
  BY <1>1, <1>3, Division
<1> HIDE DEF q3, c
<1>5. q3 < Radix
  <2>1. SUFFICES ASSUME q3 >= Radix PROVE FALSE
    BY <1>1, <1>4
  <2>2. (Radix * Radix * Radix) * Radix <= (Radix * Radix * Radix) * q3
    <3>1. \A m, n, k \in Nat : m <= n => k * m <= k * n
      OBVIOUS
    <3> QED
      BY <3>1, <2>1, <1>1, <1>4, Weights
  <2>3. v = (Radix * Radix * Radix) * q3 + (a + Radix * b + Radix * (Radix * c))
    BY <1>1, <1>2, <1>3, <1>4
  <2>4. Radix * b \in Nat /\ Radix * (Radix * c) \in Nat
    BY <1>1, <1>3, <1>4, ProductNat
  <2>5. (Radix * Radix * Radix) * Radix = Span /\ (Radix * Radix * Radix) * q3 \in Int
    BY <1>1, <1>4, Weights DEF Span
  <2> QED
    BY <2>2, <2>3, <2>4, <2>5, <1>2, Weights
<1>6. v = Digits(a, b, c, q3)
  BY <1>1, <1>2, <1>3, <1>4 DEF Digits
<1>7. a \in 0..OnesByte /\ b \in 0..OnesByte /\ c \in 0..OnesByte /\ q3 \in 0..OnesByte
  BY <1>1, <1>2, <1>3, <1>4, <1>5
<1>8. LaneOf(v, 0) = a /\ LaneOf(v, 1) = b /\ LaneOf(v, 2) = c /\ LaneOf(v, 3) = q3
  BY <1>6, <1>7, LaneOfDigits
<1> QED
  BY <1>6, <1>7, <1>8

\* Cutting below a lane and inside it: e divides Radix.
DividesLane(e) == e \in Nat \ {0} /\ \E m \in Nat : Radix = e * m
DigitArgs(w, low, x, h, e) ==
    w \in Nat \ {0} /\ low \in 0..w - 1 /\ x \in 0..OnesByte /\ h \in Nat /\ DividesLane(e)
DigitCut(w, low, x, h, e) == AlignDown(w * (x + Radix * h) + low, e * w) = w * (Cut(x, e) + Radix * h)

LEMMA AlignDigit ==
    ASSUME NEW w, NEW low, NEW x, NEW h, NEW e, DigitArgs(w, low, x, h, e)
    PROVE  DigitCut(w, low, x, h, e)
<1>0. w \in Nat \ {0} /\ low \in 0..w - 1 /\ x \in 0..OnesByte /\ h \in Nat /\ e \in Nat \ {0}
  BY DEF DigitArgs, DividesLane
<1>m. PICK m \in Nat : Radix = e * m
  BY DEF DigitArgs, DividesLane
<1> DEFINE q == x \div e
           r == x % e
           y == q + m * h
           rest == low + w * r
           s == e * w
<1>1. q \in Nat /\ r \in 0..e - 1 /\ x = e * q + r /\ Radix \in Nat
  <2>1. x \in Nat /\ Radix \in Nat
    BY <1>0, Weights
  <2> QED
    BY <1>0, <2>1, Division, Zenon
<1> HIDE DEF q, r
<1>2. rest \in 0..w * e - 1
  BY <1>0, <1>1, InFront
<1>3. s \in Nat \ {0} /\ s = w * e
  BY <1>0, ProductPos
<1>4. y \in Nat
  BY <1>0, <1>m, <1>1, ProductNat
<1>5. w * (x + Radix * h) + low = s * y + rest
  <2>1. Radix * h = e * (m * h)
    BY <1>0, <1>m, <1>1
  <2>2. x + Radix * h = e * y + r
    BY <1>0, <1>m, <1>1, <2>1, ProductNat
  <2>3. w * (x + Radix * h) = w * (e * y) + w * r
    BY <1>0, <2>2, <1>1, <1>4, ProductNat
  <2>4. w * (e * y) = s * y
    BY <1>0, <1>3, <1>4
  <2>5. s * y \in Int /\ w * r \in Int /\ w * (x + Radix * h) \in Int
    BY <1>0, <1>1, <1>3, <1>4, <2>3, <2>4, ProductNat
  <2> HIDE DEF s, y
  <2> QED
    BY <1>0, <2>3, <2>4, <2>5
<1>6. (s * y + rest) % s = rest
  <2> HIDE DEF s, y, rest
  <2> QED
    BY <1>2, <1>3, <1>4, Quotient
<1>7. w * (Cut(x, e) + Radix * h) = w * (x + Radix * h) - w * r
  <2>1. Cut(x, e) = x - r
    BY DEF Cut, r
  <2> QED
    BY <1>0, <2>1, <1>1, ProductNat
<1>8. w * (x + Radix * h) \in Int /\ w * r \in Int
  BY <1>0, <1>m, <1>1, ProductNat
<1>9. AlignDown(w * (x + Radix * h) + low, s) = (w * (x + Radix * h) + low) - rest
  BY <1>5, <1>6, Zenon DEF AlignDown
<1> QED
  BY <1>0, <1>2, <1>7, <1>8, <1>9 DEF DigitCut

LEMMA CutDigit ==
    ASSUME NEW x \in 0..OnesByte, NEW e \in Nat \ {0}
    PROVE  Cut(x, e) \in 0..OnesByte /\ Cut(Cut(x, e), e) = Cut(x, e)
<1> DEFINE q == x \div e
           r == x % e
<1>1. q \in Nat /\ r \in 0..e - 1 /\ x = e * q + r /\ OnesByte \in Nat
  <2>1. x \in Nat /\ OnesByte \in Nat
    BY Weights
  <2> QED
    BY <2>1, Division, Zenon
<1>2. Cut(x, e) = x - r
  BY DEF Cut
<1> HIDE DEF q, r
<1>3. e * q \in Nat
  BY <1>1, ProductNat
<1>4. (e * q + 0) % e = 0
  BY <1>1, Quotient
<1> QED
  BY <1>1, <1>2, <1>3, <1>4 DEF Cut

LEMMA MaskedDigit ==
    ASSUME NEW l \in 0..3, NEW e \in Nat \ {0}, NEW k \in 0..3, NEW x \in 0..OnesByte
    PROVE  Masked(l, e, k, x) \in 0..OnesByte /\ Masked(l, e, k, Masked(l, e, k, x)) = Masked(l, e, k, x)
<1>1. 0 \in 0..OnesByte
  BY Weights
<1>2. Cut(x, e) \in 0..OnesByte /\ Cut(Cut(x, e), e) = Cut(x, e)
  BY CutDigit
<1>3. CASE k < l
  BY <1>1, <1>3 DEF Masked
<1>4. CASE k = l
  BY <1>2, <1>4 DEF Masked
<1>5. CASE k > l
  BY <1>5 DEF Masked
<1> QED
  BY <1>3, <1>4, <1>5

AlignedLanes(a, b, c, d, l, e) ==
    AlignDown(Digits(a, b, c, d), e * Weight(l))
        = Digits(Masked(l, e, 0, a), Masked(l, e, 1, b), Masked(l, e, 2, c), Masked(l, e, 3, d))

LEMMA AlignLanes ==
    ASSUME NEW a, NEW b, NEW c, NEW d, IsLanes(a, b, c, d), NEW l \in 0..3, NEW e, DividesLane(e)
    PROVE  AlignedLanes(a, b, c, d, l, e)
<1>0. a \in 0..OnesByte /\ b \in 0..OnesByte /\ c \in 0..OnesByte /\ d \in 0..OnesByte
  BY DEF IsLanes
<1>1. /\ Radix \in Nat \ {0} /\ a \in 0..Radix - 1 /\ b \in 0..Radix - 1 /\ c \in 0..Radix - 1 /\ d \in 0..Radix - 1
      /\ 0 \in Nat /\ 1 \in Nat \ {0} /\ e \in Nat \ {0}
  BY <1>0, Weights DEF DividesLane
<1>2. /\ Cut(a, e) \in Nat /\ Cut(b, e) \in Nat /\ Cut(c, e) \in Nat /\ Cut(d, e) \in Nat
  BY <1>0, <1>1, CutDigit
<1>3. CASE l = 0
  <2>1. b + Radix * (c + Radix * d) \in Nat /\ 0 \in 0..1 - 1
    BY <1>0, DigitParts
  <2>2. AlignDown(1 * (a + Radix * (b + Radix * (c + Radix * d))) + 0, e * 1)
          = 1 * (Cut(a, e) + Radix * (b + Radix * (c + Radix * d)))
    <3>1. DigitArgs(1, 0, a, b + Radix * (c + Radix * d), e)
      BY <1>0, <1>1, <2>1 DEF DigitArgs
    <3>2. DigitCut(1, 0, a, b + Radix * (c + Radix * d), e)
      BY <3>1, AlignDigit, Zenon
    <3> QED
      BY <3>2 DEF DigitCut
  <2>3. Radix * (b + Radix * (c + Radix * d)) \in Nat
    BY <1>1, <2>1, ProductNat
  <2>4. 1 * (a + Radix * (b + Radix * (c + Radix * d))) + 0 = Digits(a, b, c, d)
    BY <1>1, <2>1, <2>3 DEF Digits
  <2>5. 1 * (Cut(a, e) + Radix * (b + Radix * (c + Radix * d))) = Digits(Cut(a, e), b, c, d)
    BY <1>2, <2>1, <2>3 DEF Digits
  <2>6. e * 1 = e * Weight(l)
    BY <1>3 DEF Weight
  <2>7. Masked(l, e, 0, a) = Cut(a, e) /\ Masked(l, e, 1, b) = b /\ Masked(l, e, 2, c) = c /\ Masked(l, e, 3, d) = d
    BY <1>3 DEF Masked
  <2> QED
    BY ONLY <2>2, <2>4, <2>5, <2>6, <2>7, Zenon DEF AlignedLanes
<1>4. CASE l = 1
  <2>1. c + Radix * d \in Nat /\ a \in 0..Radix - 1
    BY <1>1, <1>0, DigitParts
  <2>2. AlignDown(Radix * (b + Radix * (c + Radix * d)) + a, e * Radix)
          = Radix * (Cut(b, e) + Radix * (c + Radix * d))
    <3>1. DigitArgs(Radix, a, b, c + Radix * d, e)
      BY <1>0, <1>1, <2>1 DEF DigitArgs
    <3>2. DigitCut(Radix, a, b, c + Radix * d, e)
      BY <3>1, AlignDigit, Zenon
    <3> QED
      BY <3>2 DEF DigitCut
  <2>3. Radix * (b + Radix * (c + Radix * d)) + a = Digits(a, b, c, d)
    BY <1>0, DigitParts
  <2>4. Radix * (Cut(b, e) + Radix * (c + Radix * d)) = Digits(0, Cut(b, e), c, d)
    <3>1. Radix * (c + Radix * d) \in Nat
      BY <1>1, <2>1, ProductNat
    <3>2. Radix * (Cut(b, e) + Radix * (c + Radix * d)) \in Nat
      BY <3>1, <1>1, <1>2, ProductNat
    <3> QED
      BY <3>2 DEF Digits
  <2>5. e * Radix = e * Weight(l)
    BY <1>4 DEF Weight
  <2>6. Masked(l, e, 0, a) = 0 /\ Masked(l, e, 1, b) = Cut(b, e) /\ Masked(l, e, 2, c) = c /\ Masked(l, e, 3, d) = d
    BY <1>4 DEF Masked
  <2> QED
    BY ONLY <2>2, <2>3, <2>4, <2>5, <2>6, Zenon DEF AlignedLanes
<1>5. CASE l = 2
  <2>1. a + Radix * b \in 0..(Radix * Radix) - 1 /\ Radix * Radix \in Nat \ {0} /\ d \in Nat
    BY <1>1, <1>0, DigitParts, Weights
  <2>2. AlignDown((Radix * Radix) * (c + Radix * d) + (a + Radix * b), e * (Radix * Radix))
          = (Radix * Radix) * (Cut(c, e) + Radix * d)
    <3>1. DigitArgs(Radix * Radix, a + Radix * b, c, d, e)
      BY <1>0, <1>1, <2>1 DEF DigitArgs
    <3>2. DigitCut(Radix * Radix, a + Radix * b, c, d, e)
      BY <3>1, AlignDigit, Zenon
    <3> QED
      BY <3>2 DEF DigitCut
  <2>3. (Radix * Radix) * (c + Radix * d) + (a + Radix * b) = Digits(a, b, c, d)
    BY <1>0, DigitParts
  <2>4. (Radix * Radix) * (Cut(c, e) + Radix * d) = Digits(0, 0, Cut(c, e), d)
    <3>1. Cut(c, e) + Radix * d \in Int
      BY <1>1, <1>2, ProductNat
    <3>2. \A n \in Int : (Radix * Radix) * n = 0 + Radix * (0 + Radix * n)
      BY <1>1
    <3> QED
      BY <3>1, <3>2 DEF Digits
  <2>5. e * (Radix * Radix) = e * Weight(l)
    BY <1>5 DEF Weight
  <2>6. Masked(l, e, 0, a) = 0 /\ Masked(l, e, 1, b) = 0 /\ Masked(l, e, 2, c) = Cut(c, e) /\ Masked(l, e, 3, d) = d
    BY <1>5 DEF Masked
  <2> QED
    BY ONLY <2>2, <2>3, <2>4, <2>5, <2>6, Zenon DEF AlignedLanes
<1>6. CASE l = 3
  <2>1. /\ a + Radix * (b + Radix * c) \in 0..(Radix * Radix * Radix) - 1
        /\ Radix * Radix * Radix \in Nat \ {0} /\ 0 \in Nat
    BY <1>1, <1>0, DigitParts, Weights
  <2>2. AlignDown((Radix * Radix * Radix) * (d + Radix * 0) + (a + Radix * (b + Radix * c)), e * (Radix * Radix * Radix))
          = (Radix * Radix * Radix) * (Cut(d, e) + Radix * 0)
    <3>1. DigitArgs(Radix * Radix * Radix, a + Radix * (b + Radix * c), d, 0, e)
      BY <1>0, <1>1, <2>1 DEF DigitArgs
    <3>2. DigitCut(Radix * Radix * Radix, a + Radix * (b + Radix * c), d, 0, e)
      BY <3>1, AlignDigit, Zenon
    <3> QED
      BY <3>2 DEF DigitCut
  <2>3. d + Radix * 0 = d /\ Cut(d, e) + Radix * 0 = Cut(d, e)
    BY <1>1, <1>2
  <2>4. (Radix * Radix * Radix) * d + (a + Radix * (b + Radix * c)) = Digits(a, b, c, d)
    BY <1>0, DigitParts
  <2>5. (Radix * Radix * Radix) * Cut(d, e) = Digits(0, 0, 0, Cut(d, e))
    <3>1. \A n \in Int : (Radix * Radix * Radix) * n = 0 + Radix * (0 + Radix * (0 + Radix * n))
      BY <1>1
    <3> QED
      BY <3>1, <1>2 DEF Digits
  <2>6. e * (Radix * Radix * Radix) = e * Weight(l)
    BY <1>6 DEF Weight
  <2>7. Masked(l, e, 0, a) = 0 /\ Masked(l, e, 1, b) = 0 /\ Masked(l, e, 2, c) = 0 /\ Masked(l, e, 3, d) = Cut(d, e)
    BY <1>6 DEF Masked
  <2> QED
    BY ONLY <2>2, <2>3, <2>4, <2>5, <2>6, <2>7, Zenon DEF AlignedLanes
<1> QED
  BY <1>3, <1>4, <1>5, <1>6 DEF AlignedLanes

LEMMA AlignMultiple ==
    ASSUME NEW s \in Nat \ {0}, NEW k \in Nat, NEW r \in 0..s - 1
    PROVE  AlignDown(s * k + r, s) = s * k /\ s * k \in Nat
<1>1. (s * k + r) % s = r
  BY Quotient
<1>2. s * k \in Nat
  BY ProductNat
<1> QED
  BY <1>1, <1>2 DEF AlignDown

\* What the code's assertion on sizes means for the values a register takes.
SizeFacts(s) ==
    /\ s \in Nat \ {0} /\ s >= 16 /\ s < Span /\ s <= PCI_MEM_BASE
    /\ AlignDown(0, s) = 0 /\ AlignDown(Span - 1, s) = Span - s /\ AlignDown(Span - s, 16) = Span - s
    /\ \E l \in 0..3, e \in Nat \ {0} : DividesLane(e) /\ s = e * Weight(l)

LEMMA BarSizeFacts == ASSUME NEW s, IsBarSize(s) PROVE SizeFacts(s)
<1>1. PICK l \in 0..3, d \in 1..(Radix - 1) : Radix % d = 0 /\ s = d * Weight(l)
  BY DEF IsBarSize
<1>2. s % 16 = 0 /\ s <= PCI_MEM_BASE
  BY DEF IsBarSize
<1>3. Radix \in Nat \ {0} /\ Radix >= 8 /\ d \in Nat \ {0} /\ d < Radix /\ Radix % 4 = 0
  BY <1>1, Weights, PciAssumption
<1> DEFINE m == Radix \div d
           R2 == Radix * Radix
           R3 == Radix * Radix * Radix
<1>4. m \in Nat /\ Radix = d * m
  <2>1. m \in Nat /\ Radix = d * m + (Radix % d)
    BY <1>3, Division, Zenon
  <2>2. d * m \in Nat
    BY <2>1, <1>3, ProductNat, Zenon
  <2> HIDE DEF m
  <2> QED
    BY <2>1, <2>2, <1>1
<1>5. DividesLane(d)
  BY <1>3, <1>4 DEF DividesLane
<1> HIDE DEF m
<1>6. m >= 2
  <2>1. SUFFICES ASSUME m = 0 \/ m = 1 PROVE FALSE
    BY <1>4
  <2> QED
    BY <2>1, <1>3, <1>4
<1>7. R2 \in Nat \ {0} /\ R3 \in Nat \ {0} /\ Span \in Nat \ {0} /\ Span = Radix * R3 /\ R3 = Radix * R2 /\ R2 = Radix * Radix
  BY Weights, <1>3
<1>8. s \in Nat \ {0} /\ \E n \in Nat : n >= 2 /\ Span = s * n
  <2>0. \A x \in Nat \ {0} : m * x \in Nat /\ m * x >= 2
    <3>1. \A x \in Nat \ {0} : m * x >= m
      BY <1>4
    <3> QED
      BY <3>1, <1>4, <1>6, ProductNat
  <2>1. CASE l = 0
    <3>1. s = d
      BY <1>1, <1>3, <2>1 DEF Weight
    <3>2. Span = d * (m * R3)
      <4> HIDE DEF R3
      <4> QED
        BY <1>3, <1>4, <1>7
    <3>3. m * R3 \in Nat /\ m * R3 >= 2
      BY <2>0, <1>7, Zenon
    <3> HIDE DEF R3
    <3> QED
      BY <3>1, <3>2, <3>3, <1>3
  <2>2. CASE l = 1
    <3>1. s = d * Radix
      BY <1>1, <2>2 DEF Weight
    <3>2. Span = (d * Radix) * (m * R2)
      <4>1. Span = (d * m) * (Radix * R2)
        BY <1>4, <1>7
      <4> HIDE DEF R2, R3
      <4> QED
        BY <4>1, <1>3, <1>4, <1>7
    <3>3. s \in Nat \ {0}
      BY <3>1, <1>3, ProductPos
    <3> QED
      BY <3>1, <3>2, <3>3, <2>0, <1>7
  <2>3. CASE l = 2
    <3>1. s = d * R2
      BY <1>1, <2>3 DEF Weight
    <3>2. Span = (d * R2) * (m * Radix)
      <4>1. Span = (d * m) * (Radix * R2)
        BY <1>4, <1>7
      <4> HIDE DEF R2, R3
      <4> QED
        BY <4>1, <1>3, <1>4, <1>7
    <3>3. s \in Nat \ {0}
      <4> HIDE DEF R2
      <4> QED
        BY <3>1, <1>3, <1>7, ProductPos
    <3> QED
      BY <3>1, <3>2, <3>3, <2>0, <1>3
  <2>4. CASE l = 3
    <3>1. s = d * R3
      BY <1>1, <2>4 DEF Weight
    <3>2. Span = (d * R3) * m
      <4>1. Span = (d * m) * R3
        BY <1>4, <1>7
      <4> HIDE DEF R2, R3
      <4> QED
        BY <4>1, <1>3, <1>4, <1>7
    <3>3. s \in Nat \ {0}
      <4> HIDE DEF R3
      <4> QED
        BY <3>1, <1>3, <1>7, ProductPos
    <3> QED
      BY <3>1, <3>2, <3>3, <1>4, <1>6
  <2> QED
    BY <2>1, <2>2, <2>3, <2>4
<1>9. PICK n \in Nat : n >= 2 /\ Span = s * n
  BY <1>8
<1>10. s >= 16
  BY <1>2, <1>8
<1>11. Span = s * (n - 1) + s /\ s * (n - 1) \in Nat /\ s * (n - 1) >= s
  <2>1. n - 1 \in Nat /\ n - 1 >= 1
    BY <1>9
  <2>2. \A x \in Nat : x >= 1 => s * x >= s
    BY <1>8
  <2>3. s * (n - 1) + s = s * n
    BY <1>8, <1>9
  <2> QED
    BY <2>1, <2>2, <2>3, <1>8, <1>9, ProductNat
<1>12. s < Span
  BY <1>8, <1>11
<1>13. AlignDown(0, s) = 0
  <2>1. 0 \in 0..s - 1 /\ 0 \in Nat
    BY <1>8
  <2>2. AlignDown(s * 0 + 0, s) = s * 0
    BY <1>8, <2>1, AlignMultiple
  <2>3. s * 0 = 0 /\ s * 0 + 0 = 0
    BY <1>8
  <2> QED
    BY ONLY <2>2, <2>3, Zenon
<1>14. AlignDown(Span - 1, s) = Span - s
  <2>1. s - 1 \in 0..s - 1 /\ n - 1 \in Nat
    BY <1>8, <1>9
  <2>2. AlignDown(s * (n - 1) + (s - 1), s) = s * (n - 1)
    BY <1>8, <2>1, AlignMultiple
  <2> DEFINE z == s * (n - 1)
  <2>3. Span = z + s /\ z \in Nat
    BY <1>11
  <2> HIDE DEF z
  <2>4. Span - 1 = z + (s - 1) /\ Span - s = z
    BY <2>3, <1>8
  <2> QED
    BY <2>2, <2>4, Zenon DEF z
<1>15. AlignDown(Span - s, 16) = Span - s
  <2>1. Span % 16 = 0
    <3>1. Radix = 4 * (Radix \div 4) /\ Radix \div 4 \in Nat
      BY <1>3
    <3> DEFINE y == Radix \div 4
    <3>2. Span = 16 * (16 * (y * y * y * y))
      <4>1. \A x \in Nat : (4 * x) * (4 * x) * (4 * x) * (4 * x) = 16 * (16 * (x * x * x * x))
        OBVIOUS
      <4> QED
        BY <4>1, <3>1 DEF Span
    <3>3. y * y * y * y \in Nat
      BY <3>1, ProductNat
    <3> HIDE DEF y
    <3> QED
      BY <3>2, <3>3
  <2>2. (Span - s) % 16 = 0
    BY <2>1, <1>2, <1>7, <1>8, <1>12
  <2> QED
    BY <2>2, <1>7, <1>8 DEF AlignDown
<1> QED
  BY <1>1, <1>2, <1>3, <1>5, <1>8, <1>10, <1>12, <1>13, <1>14, <1>15 DEF SizeFacts

\* Four bytes written one after the other, each masked: the mask of the whole.
LEMMA FourBytes ==
    ASSUME NEW v \in 0..Span - 1, NEW s, SizeFacts(s),
           NEW x1 \in 0..OnesByte, NEW x2 \in 0..OnesByte, NEW x3 \in 0..OnesByte, NEW x4 \in 0..OnesByte
    PROVE  LET v1 == AlignDown(SetLane(v, 0, x1), s)
               v2 == AlignDown(SetLane(v1, 1, x2), s)
               v3 == AlignDown(SetLane(v2, 2, x3), s)
           IN  /\ AlignDown(SetLane(v3, 3, x4), s) = AlignDown(Digits(x1, x2, x3, x4), s)
               /\ AlignDown(Digits(x1, x2, x3, x4), s) \in 0..Span - 1
<1>1. PICK l \in 0..3, e \in Nat \ {0} : DividesLane(e) /\ s = e * Weight(l)
  BY DEF SizeFacts
<1> DEFINE M(k, x) == Masked(l, e, k, x)
<1>2. ASSUME NEW k \in 0..3, NEW x \in 0..OnesByte PROVE M(k, x) \in 0..OnesByte /\ M(k, M(k, x)) = M(k, x)
  BY MaskedDigit
<1>4. PICK a \in 0..OnesByte, b \in 0..OnesByte, c \in 0..OnesByte, d \in 0..OnesByte : v = Digits(a, b, c, d)
  BY ValueOfLanes
<1>5. /\ 0 \in 0..3 /\ 1 \in 0..3 /\ 2 \in 0..3 /\ 3 \in 0..3
      /\ x1 \in 0..OnesByte /\ x2 \in 0..OnesByte /\ x3 \in 0..OnesByte /\ x4 \in 0..OnesByte
  OBVIOUS
<1> DEFINE v1 == AlignDown(SetLane(v, 0, x1), s)
           v2 == AlignDown(SetLane(v1, 1, x2), s)
           v3 == AlignDown(SetLane(v2, 2, x3), s)
           v4 == AlignDown(SetLane(v3, 3, x4), s)
<1>9. Digits(M(0, x1), M(1, x2), M(2, x3), M(3, x4)) \in 0..Span - 1
  <2>1. M(0, x1) \in 0..OnesByte /\ M(1, x2) \in 0..OnesByte /\ M(2, x3) \in 0..OnesByte /\ M(3, x4) \in 0..OnesByte
    BY <1>2, <1>5
  <2> HIDE DEF M, v1, v2, v3, v4
  <2> QED
    BY <2>1, DigitParts
<1> DEFINE Cuts(p, q, r, t) == AlignDown(Digits(p, q, r, t), s) = Digits(M(0, p), M(1, q), M(2, r), M(3, t))
<1> HIDE DEF M
<1>3. ASSUME NEW p, NEW q, NEW r, NEW t, IsLanes(p, q, r, t)
      PROVE  Cuts(p, q, r, t)
  <2>1. AlignedLanes(p, q, r, t, l, e)
    BY <1>1, <1>3, AlignLanes, Zenon
  <2> QED
    BY <2>1, <1>1 DEF AlignedLanes, M
<1> HIDE DEF Cuts
<1>11. v1 = Digits(M(0, x1), M(1, b), M(2, c), M(3, d))
  <2>1. IsLanes(a, b, c, d) /\ IsLanes(x1, b, c, d)
    BY <1>4, <1>5, Zenon DEF IsLanes
  <2>2. SetDigits(a, b, c, d, x1)
    BY <2>1, <1>5, SetLaneDigits, Zenon
  <2>3. SetLane(v, 0, x1) = Digits(x1, b, c, d)
    BY <1>4, <2>2, Zenon DEF SetDigits
  <2>4. AlignDown(Digits(x1, b, c, d), s) = Digits(M(0, x1), M(1, b), M(2, c), M(3, d))
    <3>1. Cuts(x1, b, c, d)
      BY <2>1, <1>3, Zenon
    <3> QED
      BY <3>1, Zenon DEF Cuts
  <2> QED
    BY <2>1, <2>3, <2>4, Zenon
<1> HIDE DEF v1
<1>12. v2 = Digits(M(0, x1), M(1, x2), M(2, c), M(3, d))
  <2>1. IsLanes(M(0, x1), M(1, b), M(2, c), M(3, d)) /\ IsLanes(M(0, x1), x2, M(2, c), M(3, d))
        /\ M(0, M(0, x1)) = M(0, x1) /\ M(2, M(2, c)) = M(2, c) /\ M(3, M(3, d)) = M(3, d)
    BY <1>2, <1>4, <1>5, Zenon DEF IsLanes
  <2>2. SetDigits(M(0, x1), M(1, b), M(2, c), M(3, d), x2)
    BY <2>1, <1>5, SetLaneDigits, Zenon
  <2>3. SetLane(v1, 1, x2) = Digits(M(0, x1), x2, M(2, c), M(3, d))
    BY <1>11, <2>2, Zenon DEF SetDigits
  <2>4. AlignDown(Digits(M(0, x1), x2, M(2, c), M(3, d)), s) = Digits(M(0, M(0, x1)), M(1, x2), M(2, M(2, c)), M(3, M(3, d)))
    <3>1. Cuts(M(0, x1), x2, M(2, c), M(3, d))
      BY <2>1, <1>3, Zenon
    <3> QED
      BY <3>1, Zenon DEF Cuts
  <2> QED
    BY <2>1, <2>3, <2>4, Zenon
<1> HIDE DEF v2
<1>13. v3 = Digits(M(0, x1), M(1, x2), M(2, x3), M(3, d))
  <2>1. IsLanes(M(0, x1), M(1, x2), M(2, c), M(3, d)) /\ IsLanes(M(0, x1), M(1, x2), x3, M(3, d))
        /\ M(0, M(0, x1)) = M(0, x1) /\ M(1, M(1, x2)) = M(1, x2) /\ M(3, M(3, d)) = M(3, d)
    BY <1>2, <1>4, <1>5, Zenon DEF IsLanes
  <2>2. SetDigits(M(0, x1), M(1, x2), M(2, c), M(3, d), x3)
    BY <2>1, <1>5, SetLaneDigits, Zenon
  <2>3. SetLane(v2, 2, x3) = Digits(M(0, x1), M(1, x2), x3, M(3, d))
    BY <1>12, <2>2, Zenon DEF SetDigits
  <2>4. AlignDown(Digits(M(0, x1), M(1, x2), x3, M(3, d)), s) = Digits(M(0, M(0, x1)), M(1, M(1, x2)), M(2, x3), M(3, M(3, d)))
    <3>1. Cuts(M(0, x1), M(1, x2), x3, M(3, d))
      BY <2>1, <1>3, Zenon
    <3> QED
      BY <3>1, Zenon DEF Cuts
  <2> QED
    BY <2>1, <2>3, <2>4, Zenon
<1> HIDE DEF v3
<1>14. v4 = Digits(M(0, x1), M(1, x2), M(2, x3), M(3, x4))
  <2>1. IsLanes(M(0, x1), M(1, x2), M(2, x3), M(3, d)) /\ IsLanes(M(0, x1), M(1, x2), M(2, x3), x4)
        /\ M(0, M(0, x1)) = M(0, x1) /\ M(1, M(1, x2)) = M(1, x2) /\ M(2, M(2, x3)) = M(2, x3)
    BY <1>2, <1>4, <1>5, Zenon DEF IsLanes
  <2>2. SetDigits(M(0, x1), M(1, x2), M(2, x3), M(3, d), x4)
    BY <2>1, <1>5, SetLaneDigits, Zenon
  <2>3. SetLane(v3, 3, x4) = Digits(M(0, x1), M(1, x2), M(2, x3), x4)
    BY <1>13, <2>2, Zenon DEF SetDigits
  <2>4. AlignDown(Digits(M(0, x1), M(1, x2), M(2, x3), x4), s) = Digits(M(0, M(0, x1)), M(1, M(1, x2)), M(2, M(2, x3)), M(3, x4))
    <3>1. Cuts(M(0, x1), M(1, x2), M(2, x3), x4)
      BY <2>1, <1>3, Zenon
    <3> QED
      BY <3>1, Zenon DEF Cuts
  <2> QED
    BY <2>1, <2>3, <2>4, Zenon
<1> HIDE DEF v4
<1>15. AlignDown(Digits(x1, x2, x3, x4), s) = Digits(M(0, x1), M(1, x2), M(2, x3), M(3, x4))
  <2>1. IsLanes(x1, x2, x3, x4)
    BY <1>5, Zenon DEF IsLanes
  <2>2. Cuts(x1, x2, x3, x4)
    BY <2>1, <1>3, Zenon
  <2> QED
    BY <2>2, Zenon DEF Cuts
<1> QED
  BY <1>9, <1>14, <1>15, Zenon DEF v1, v2, v3, v4

\* What a write of a whole register leaves in it.
LEMMA BarWritten ==
    ASSUME NEW f \in Fns, NEW b \in Bars, bar_regs[f][b] \in 0..Span - 1,
           NEW data, Len(data) = 4, \A k \in 1..4 : data[k] \in 0..OnesByte
    PROVE  /\ BarAfter(f, BAR0 + 4 * (b - 1), data)
                  = IF Functions[f].bars[b] = 0 THEN bar_regs[f][b]
                    ELSE AlignDown(FromLanes(data), Functions[f].bars[b])
           /\ BarAfter(f, BAR0 + 4 * (b - 1), data) \in 0..Span - 1
<1> DEFINE o == BAR0 + 4 * (b - 1)
           v == bar_regs[f][b]
           s == Functions[f].bars[b]
<1>1. BarOf(o) = b /\ (o - BAR0) % 4 = 0
  BY DEF BarOf, BAR0, Bars
<1>2. BarAfter(f, o, data)
        = write_bar_byte(f, b, write_bar_byte(f, b, write_bar_byte(f, b, write_bar_byte(f, b, v,
              0, data[1]), 1, data[2]), 2, data[3]), 3, data[4])
  <2>1. /\ 0 + 1 - 1 = 0 /\ 0 + 2 - 1 = 1 /\ 0 + 3 - 1 = 2 /\ 0 + 4 - 1 = 3
        /\ ~(1 > 4) /\ ~(2 > 4) /\ ~(3 > 4) /\ ~(4 > 4)
    OBVIOUS
  <2> HIDE DEF o
  <2> QED
    BY <1>1, <2>1, Zenon DEF BarAfter
<1>3. CASE s = 0
  BY <1>2, <1>3 DEF write_bar_byte
<1>4. CASE s # 0
  <2>1. SizeFacts(s)
    BY <1>4, BarSizeFacts, PciAssumption
  <2>2. FromLanes(data) = Digits(data[1], data[2], data[3], data[4])
    BY DEF FromLanes, Digits
  <2>3. data[1] \in 0..OnesByte /\ data[2] \in 0..OnesByte /\ data[3] \in 0..OnesByte /\ data[4] \in 0..OnesByte
    OBVIOUS
  <2> HIDE DEF s, v
  <2>4. v \in 0..Span - 1
    BY DEF v
  <2>5. LET v1 == AlignDown(SetLane(v, 0, data[1]), s)
            v2 == AlignDown(SetLane(v1, 1, data[2]), s)
            v3 == AlignDown(SetLane(v2, 2, data[3]), s)
        IN  /\ AlignDown(SetLane(v3, 3, data[4]), s) = AlignDown(FromLanes(data), s)
            /\ AlignDown(FromLanes(data), s) \in 0..Span - 1
    BY <2>1, <2>2, <2>3, <2>4, FourBytes
  <2>6. BarAfter(f, o, data)
          = AlignDown(SetLane(AlignDown(SetLane(AlignDown(SetLane(AlignDown(SetLane(v,
                0, data[1]), s), 1, data[2]), s), 2, data[3]), s), 3, data[4]), s)
    BY <1>2, <1>4, Zenon DEF write_bar_byte, s
  <2> HIDE DEF o
  <2>7. BarAfter(f, o, data) = AlignDown(FromLanes(data), s) /\ AlignDown(FromLanes(data), s) \in 0..Span - 1
    BY <2>5, <2>6, Zenon
  <2> QED
    BY <2>7, <1>4, Zenon DEF s, o
<1> QED
  BY <1>3, <1>4

-----------------------------------------------------------------------------
(* One configuration cycle *)

LEMMA OneFunction ==
    ASSUME NEW dev, NEW f \in FnAt(dev)
    PROVE  f \in Fns /\ Functions[f].dev = dev /\ FnAt(dev) = {f} /\ (CHOOSE g \in FnAt(dev) : TRUE) = f
<1>1. f \in Fns /\ Functions[f].dev = dev
  BY DEF FnAt
<1>2. FnAt(dev) = {f}
  BY <1>1, PciAssumption DEF FnAt
<1> QED
  BY <1>1, <1>2

LEMMA LaneInByte == ASSUME NEW v \in Nat, NEW k \in 0..3 PROVE LaneOf(v, k) \in 0..OnesByte
<1>1. Weight(k) \in Nat \ {0} /\ Radix \in Nat \ {0} /\ OnesByte = Radix - 1
  BY Weights DEF Weight
<1>2. v \div Weight(k) \in Nat
  BY <1>1, Division
<1> QED
  BY <1>1, <1>2 DEF LaneOf

LEMMA ByteRead ==
    ASSUME PciTypes, NEW f \in Fns, NEW o \in Nat
    PROVE  read_config_byte(f, o) \in 0..OnesByte
<1>1. command[f] \in 0..OnesByte /\ 0 \in 0..OnesByte
  BY Weights DEF PciTypes
<1>2. ASSUME o \in {0, 1} PROVE Functions[f].vendor[o + 1] \in 0..OnesByte
  BY <1>2, PciAssumption
<1>3. Functions[f].pin \in 0..OnesByte
  BY PciAssumption
<1>4. ASSUME IsBar(o) PROVE LaneOf(bar_regs[f][BarOf(o)], (o - BAR0) % 4) \in 0..OnesByte
  <2>1. BarOf(o) \in Bars /\ (o - BAR0) % 4 \in 0..3
    BY <1>4 DEF IsBar, BarOf, BAR0, Bars
  <2>2. bar_regs[f][BarOf(o)] \in Nat
    BY <2>1, Weights DEF PciTypes
  <2> QED
    BY <2>1, <2>2, LaneInByte
<1> QED
  BY <1>1, <1>2, <1>3, <1>4 DEF read_config_byte, IsBar, BAR0, COMMAND, INTERRUPT_PIN

LEMMA FunctionIsSeq ==
    ASSUME NEW S, NEW n \in Nat, NEW s \in [1..n -> S] PROVE s \in Seq(S) /\ Len(s) = n
OBVIOUS

\* What a read of any width leaves in the data register.
LEMMA WidenedRead ==
    ASSUME PciTypes, NEW dev \in Nat, NEW off \in Nat, NEW width \in {1, 2, 4}
    PROVE  /\ Widen(config_read(dev, off, width)) \in Lanes /\ Len(config_read(dev, off, width)) = width
           /\ \A k \in 1..width : Widen(config_read(dev, off, width))[k] = config_read(dev, off, width)[k]
<1> DEFINE s == config_read(dev, off, width)
<1>1. s = [k \in 1..width |-> s[k]] /\ \A k \in 1..width : s[k] \in 0..OnesByte
  <2>1. CASE FnAt(dev) = {}
    BY <2>1, Weights DEF config_read, all_ones
  <2>2. ASSUME NEW f \in FnAt(dev) PROVE s = [k \in 1..width |-> s[k]] /\ \A k \in 1..width : s[k] \in 0..OnesByte
    <3>1. f \in Fns /\ s = [k \in 1..width |-> read_config_byte(f, off + k - 1)]
      BY OneFunction DEF config_read
    <3>2. \A k \in 1..width : off + k - 1 \in Nat
      OBVIOUS
    <3> QED
      BY <3>1, <3>2, ByteRead
  <2> QED
    BY <2>1, <2>2
<1>2. s \in [1..width -> 0..OnesByte] /\ width \in Nat
  <2> HIDE DEF s
  <2> QED
    BY <1>1
<1> HIDE DEF s
<1>3. s \in Seq(0..OnesByte) /\ Len(s) = width
  BY <1>2, FunctionIsSeq, Zenon
<1>4. Widen(s) \in Lanes /\ \A k \in 1..width : Widen(s)[k] = s[k]
  <2>1. 0 \in 0..OnesByte
    BY Weights
  <2> QED
    BY <1>2, <1>3, <2>1 DEF Widen, Lanes
<1> QED
  BY <1>3, <1>4 DEF s

LEMMA LibRead ==
    ASSUME PciTypes, NEW dev \in Nat, NEW off \in Nat, NEW width \in {1, 2, 4}, off % width = 0,
           cfg_cycle(dev, off, width, 0, Ones)
    PROVE  /\ command' = command /\ bar_regs' = bar_regs /\ cfg' \in CfgType
           /\ \A k \in 1..width : cfg'.data[k] = config_read(dev, off, width)[k]
           /\ width = 4 => cfg'.data = [k \in 1..4 |-> config_read(dev, off, 4)[k]]
<1> DEFINE c == [dev |-> dev, off |-> off, reserved |-> FALSE, width |-> width, data |-> cfg.data,
                 status |-> cfg.status]
           s == config_read(dev, off, width)
<1>1. cfg_op(c, 0)
  BY DEF cfg_cycle
<1>2. /\ c.dev = dev /\ c.off = off /\ c.reserved = FALSE /\ c.width = width /\ c \in CfgType
  <2>1. cfg \in CfgType /\ cfg.data \in Lanes /\ width \in Nat
    BY DEF PciTypes, CfgType
  <2>3. cfg.status \in Statuses
    BY <2>1 DEF CfgType
  <2> QED
    BY <2>1, <2>3 DEF CfgType
<1> HIDE DEF c
<1>3. /\ cfg' = [c EXCEPT !.status = "COMPLETED", !.data = Widen(s)]
      /\ command' = command /\ bar_regs' = bar_regs
  BY <1>1, <1>2 DEF cfg_op
<1>7. Widen(s) \in Lanes /\ Len(s) = width /\ \A k \in 1..width : Widen(s)[k] = s[k]
  BY WidenedRead, Zenon
<1> HIDE DEF s
<1>8. cfg'.data = Widen(s) /\ cfg' \in CfgType
  <2> DEFINE w == Widen(s)
  <2>1. cfg' = [c EXCEPT !.status = "COMPLETED", !.data = w] /\ w \in Lanes
    BY <1>3, <1>7
  <2> HIDE DEF w
  <2>2. cfg' = [dev |-> c.dev, off |-> c.off, reserved |-> c.reserved, width |-> c.width, data |-> w,
                status |-> "COMPLETED"]
    BY <2>1, <1>2 DEF CfgType
  <2>3. cfg' \in CfgType /\ cfg'.data = w
    <3>1. c.reserved \in BOOLEAN /\ c.dev \in Nat /\ c.off \in Nat /\ c.width \in Nat
      BY <1>2 DEF CfgType
    <3>2. w \in Lanes /\ "COMPLETED" \in Statuses
      BY <2>1 DEF Statuses
    <3> QED
      BY ONLY <2>2, <3>1, <3>2 DEF CfgType
  <2> QED
    BY <2>3 DEF w
<1>9. ASSUME width = 4 PROVE Widen(s) = [k \in 1..4 |-> s[k]]
  BY <1>7, <1>9 DEF Widen
<1> QED
  BY <1>3, <1>7, <1>8, <1>9 DEF s

LEMMA LibWrite ==
    ASSUME PciTypes, NEW dev \in Nat, NEW off \in Nat, NEW width \in {2, 4}, off % width = 0,
           NEW wdata \in Lanes, cfg_cycle(dev, off, width, 1, wdata)
    PROVE  /\ cfg' \in CfgType /\ config_write(dev, off, SubSeq(wdata, 1, width))
           /\ Len(SubSeq(wdata, 1, width)) = width
           /\ \A k \in 1..width : SubSeq(wdata, 1, width)[k] = wdata[k]
<1> DEFINE c == [dev |-> dev, off |-> off, reserved |-> FALSE, width |-> width, data |-> wdata,
                 status |-> cfg.status]
<1>1. cfg_op(c, 1)
  BY DEF cfg_cycle
<1>2. /\ c.dev = dev /\ c.off = off /\ c.reserved = FALSE /\ c.width = width /\ c.data = wdata /\ c \in CfgType
  <2>1. cfg \in CfgType /\ cfg.data \in Lanes /\ width \in Nat
    BY DEF PciTypes, CfgType
  <2>3. cfg.status \in Statuses
    BY <2>1 DEF CfgType
  <2> QED
    BY <2>1, <2>3 DEF CfgType
<1> HIDE DEF c
<1>3. cfg' = [c EXCEPT !.status = "COMPLETED"] /\ config_write(dev, off, SubSeq(wdata, 1, width))
  BY <1>1, <1>2 DEF cfg_op
<1>4. cfg' \in CfgType
  <2>1. cfg' = [dev |-> c.dev, off |-> c.off, reserved |-> c.reserved, width |-> c.width, data |-> c.data,
                status |-> "COMPLETED"]
    BY <1>2, <1>3 DEF CfgType
  <2>2. /\ c.reserved \in BOOLEAN /\ c.dev \in Nat /\ c.off \in Nat /\ c.width \in Nat /\ c.data \in Lanes
        /\ "COMPLETED" \in Statuses
    BY <1>2 DEF CfgType, Statuses
  <2> QED
    BY ONLY <2>1, <2>2 DEF CfgType
<1>5. /\ Len(SubSeq(wdata, 1, width)) = width - 1 + 1
      /\ \A k \in 1..(width - 1 + 1) : SubSeq(wdata, 1, width)[k] = wdata[1 + k - 1]
  <2>1. 1 \in Int /\ width \in Int /\ 1 <= width /\ \A k \in 1..width : wdata[k] \in 0..OnesByte
    BY DEF Lanes
  <2> QED
    BY <2>1, SubSeqProperties
<1> QED
  BY <1>3, <1>4, <1>5

\* Reading a register that is there, and a device that is not.
LEMMA BarRead ==
    ASSUME PciTypes, NEW dev \in Nat, NEW f \in FnAt(dev), NEW b \in Bars
    PROVE  [k \in 1..4 |-> config_read(dev, BAR0 + 4 * (b - 1), 4)[k]] = ToLanes(bar_regs[f][b])
<1> DEFINE o == BAR0 + 4 * (b - 1)
<1>1. f \in Fns /\ config_read(dev, o, 4) = [k \in 1..4 |-> read_config_byte(f, o + k - 1)]
  BY OneFunction DEF config_read
<1>2. ASSUME NEW k \in 1..4 PROVE read_config_byte(f, o + k - 1) = LaneOf(bar_regs[f][b], k - 1)
  <2>1. /\ IsBar(o + k - 1) /\ BarOf(o + k - 1) = b /\ ((o + k - 1) - BAR0) % 4 = k - 1
        /\ o + k - 1 # COMMAND /\ o + k - 1 \notin {0, 1} /\ o + k - 1 # INTERRUPT_PIN
    BY DEF IsBar, BarOf, BAR0, Bars, COMMAND, INTERRUPT_PIN
  <2> DEFINE x == o + k - 1
  <2> HIDE DEF x
  <2>2. read_config_byte(f, x) = LaneOf(bar_regs[f][b], k - 1)
    BY <2>1 DEF read_config_byte, x
  <2> QED
    BY <2>2 DEF x
<1> HIDE DEF o
<1>3. \A k \in 1..4 : config_read(dev, o, 4)[k] = LaneOf(bar_regs[f][b], k - 1)
  BY <1>1, <1>2
<1>4. [k \in 1..4 |-> config_read(dev, o, 4)[k]] = ToLanes(bar_regs[f][b])
  BY <1>3 DEF ToLanes
<1> QED
  BY <1>4 DEF o

LEMMA NobodyRead ==
    ASSUME NEW dev, FnAt(dev) = {}, NEW o
    PROVE  \A k \in 1..4 : config_read(dev, o, 4)[k] = OnesByte
BY DEF config_read, all_ones

LEMMA LanesBack ==
    ASSUME NEW v \in 0..Span - 1
    PROVE  ToLanes(v) \in Lanes /\ FromLanes(ToLanes(v)) = v
<1>1. /\ \A k \in 0..3 : LaneOf(v, k) \in 0..OnesByte
      /\ v = Digits(LaneOf(v, 0), LaneOf(v, 1), LaneOf(v, 2), LaneOf(v, 3))
  BY ValueOfLanes
<1>2. ToLanes(v) \in Lanes
  BY <1>1 DEF ToLanes, Lanes
<1>3. ToLanes(v)[1] = LaneOf(v, 0) /\ ToLanes(v)[2] = LaneOf(v, 1)
      /\ ToLanes(v)[3] = LaneOf(v, 2) /\ ToLanes(v)[4] = LaneOf(v, 3)
  BY DEF ToLanes
<1>4. FromLanes(ToLanes(v)) = Digits(LaneOf(v, 0), LaneOf(v, 1), LaneOf(v, 2), LaneOf(v, 3))
  BY <1>3 DEF FromLanes, Digits
<1> QED
  BY <1>1, <1>2, <1>4

\* A whole register written: only that one changes, to the masked value.
WrittenTo(f, b, w) ==
    /\ bar_regs' \in [Fns -> [Bars -> 0..Span - 1]] /\ command' = command
    /\ \A g \in Fns, a \in Bars : bar_regs'[g][a] = IF g = f /\ a = b THEN w ELSE bar_regs[g][a]

LEMMA BarWrite ==
    ASSUME PciTypes, NEW dev \in Nat, NEW f \in FnAt(dev), NEW b \in Bars, NEW wdata \in Lanes,
           cfg_cycle(dev, BAR0 + 4 * (b - 1), 4, 1, wdata)
    PROVE  /\ cfg' \in CfgType
           /\ WrittenTo(f, b, IF Functions[f].bars[b] = 0 THEN bar_regs[f][b]
                              ELSE AlignDown(FromLanes(wdata), Functions[f].bars[b]))
<1> DEFINE o == BAR0 + 4 * (b - 1)
           data == SubSeq(wdata, 1, 4)
           w == IF Functions[f].bars[b] = 0 THEN bar_regs[f][b]
                ELSE AlignDown(FromLanes(wdata), Functions[f].bars[b])
<1>1. o \in Nat /\ o % 4 = 0 /\ o # COMMAND /\ IsBar(o) /\ BarOf(o) = b
  BY DEF BAR0, Bars, COMMAND, IsBar, BarOf
<1>2. /\ cfg' \in CfgType /\ config_write(dev, o, data) /\ Len(data) = 4
      /\ \A k \in 1..4 : data[k] = wdata[k]
  <2>1. 4 \in {2, 4}
    OBVIOUS
  <2> HIDE DEF o
  <2> QED
    BY <1>1, <2>1, LibWrite DEF o
<1>3. f \in Fns /\ (CHOOSE g \in FnAt(dev) : TRUE) = f /\ FnAt(dev) # {}
  BY OneFunction
<1>4. \A k \in 1..4 : data[k] \in 0..OnesByte
  BY <1>2 DEF Lanes
<1>5. FromLanes(data) = FromLanes(wdata)
  BY <1>2 DEF FromLanes
<1>6. bar_regs[f][b] \in 0..Span - 1
  BY <1>3 DEF PciTypes
<1> HIDE DEF data
<1>7. BarAfter(f, o, data) = w /\ w \in 0..Span - 1
  BY <1>2, <1>3, <1>4, <1>5, <1>6, BarWritten
<1> HIDE DEF o, w
<1>8. command' = command /\ bar_regs' = [bar_regs EXCEPT ![f][b] = w]
  BY <1>1, <1>2, <1>3, <1>7 DEF config_write
<1>9. /\ bar_regs' \in [Fns -> [Bars -> 0..Span - 1]]
      /\ \A g \in Fns, a \in Bars : bar_regs'[g][a] = IF g = f /\ a = b THEN w ELSE bar_regs[g][a]
  BY <1>3, <1>7, <1>8 DEF PciTypes
<1> QED
  BY <1>2, <1>8, <1>9 DEF WrittenTo, w

LEMMA CommandWrite ==
    ASSUME PciTypes, NEW dev \in Nat, NEW f \in FnAt(dev), NEW x \in 0..OnesByte,
           cfg_cycle(dev, COMMAND, 2, 1, <<x, 0, 0, 0>>)
    PROVE  /\ cfg' \in CfgType /\ bar_regs' = bar_regs /\ command' \in [Fns -> 0..7]
           /\ \A g \in Fns : command'[g] = IF g = f THEN x % 8 ELSE command[g]
<1> DEFINE wdata == <<x, 0, 0, 0>>
           data == SubSeq(wdata, 1, 2)
<1>1. wdata \in Lanes
  <2>1. 0 \in 0..OnesByte
    BY Weights
  <2> QED
    BY <2>1 DEF Lanes
<1>2. wdata[1] = x /\ COMMAND \in Nat /\ COMMAND % 2 = 0 /\ ~IsBar(COMMAND) /\ 2 \in {2, 4} /\ 1 \in 1..2
  BY DEF COMMAND, IsBar, BAR0
<1> HIDE DEF wdata
<1>3. cfg' \in CfgType /\ config_write(dev, COMMAND, data) /\ data[1] = wdata[1]
  BY <1>1, <1>2, LibWrite DEF wdata
<1>4. f \in Fns /\ (CHOOSE g \in FnAt(dev) : TRUE) = f /\ FnAt(dev) # {}
  BY OneFunction
<1> HIDE DEF data
<1>5. bar_regs' = bar_regs /\ command' = [command EXCEPT ![f] = x % 8]
  BY <1>2, <1>3, <1>4 DEF config_write
<1>6. x % 8 \in 0..7
  BY Weights
<1> QED
  BY <1>3, <1>4, <1>5, <1>6 DEF PciTypes

-----------------------------------------------------------------------------
(* What a step leaves of the registers and the recorded boards *)

PciRest == Decoders /\ Registers /\ RecordedBoards /\ BoardsApart

\* Outside a function's registers the enumeration only looks.
LEMMA LookStep ==
    ASSUME PciInv, command' = command, bar_regs' = bar_regs, prm'.dev = prm.dev, prm'.boards = prm.boards,
           prm'.next_free = prm.next_free, prm.pc \notin Walking \cup {"enable", "header"}, prm'.pc # "header"
    PROVE  PciRest'
<1>1. \A f \in Fns : HasMemory(f)' = HasMemory(f)
  BY DEF HasMemory
<1>2. Decoders'
  BY <1>1 DEF PciInv, Decoders
<1>3. Registers'
  BY DEF PciInv, Registers, Walking
<1>4. ASSUME NEW r \in prm.boards PROVE r.dev < prm.dev
  <2>1. r.dev <= prm.dev /\ r.dev # prm.dev /\ r.dev \in Nat /\ prm.dev \in Nat
    BY DEF PciInv, RecordedBoards, PciTypes, PrmType, Boards
  <2> QED
    BY <2>1
<1>5. RecordedBoards'
  <2>1. ASSUME NEW r \in prm.boards
        PROVE  /\ r.dev < prm.dev /\ r.dev \in Nat /\ prm.dev \in Nat
               /\ r.pci >= PCI_MEM_BASE /\ r.pci + r.size <= prm.next_free /\ r.size # 0
               /\ \E f \in Fns : Recorded(r, f)'
    <3>1. /\ r.pci >= PCI_MEM_BASE /\ r.pci + r.size <= prm.next_free /\ r.size # 0
          /\ r.dev \in Nat /\ prm.dev \in Nat
      BY DEF PciInv, RecordedBoards, PciTypes, PrmType, Boards
    <3>2. PICK f \in Fns : Recorded(r, f)
      BY DEF PciInv, RecordedBoards
    <3>3. Recorded(r, f)'
      BY <3>2, <1>1, <1>4 DEF Recorded
    <3> QED
      BY <3>1, <3>3, <1>4
  <2> QED
    BY <2>1 DEF RecordedBoards
<1>6. BoardsApart'
  BY DEF PciInv, BoardsApart
<1> QED
  BY <1>2, <1>3, <1>5, <1>6 DEF PciRest

\* The next device.
LEMMA NextDevStep ==
    ASSUME PciInv, command' = command, bar_regs' = bar_regs, prm.pc \in {"present", "header"}, prm' = NextDev
    PROVE  PciRest' /\ prm' \in PrmType /\ prm'.pc \in {"vendor", "aperture"} /\ prm'.next_free = prm.next_free
<1>1. \A f \in Fns : HasMemory(f)' = HasMemory(f)
  BY DEF HasMemory
<1>2. prm \in PrmType /\ prm.dev \in Nat
  BY DEF PciInv, PciTypes, PrmType
<1>3. /\ prm'.dev = prm.dev + 1 /\ prm'.boards = prm.boards /\ prm'.next_free = prm.next_free
      /\ prm'.pc \in {"vendor", "aperture"} /\ prm' \in PrmType
  <2>1. PICK p \in {"vendor", "aperture"} : prm' = [prm EXCEPT !.pc = p, !.dev = prm.dev + 1]
    BY DEF NextDev
  <2>2. p \in Places /\ prm.dev + 1 \in Nat
    BY <1>2 DEF Places
  <2>3. prm'.dev = prm.dev + 1 /\ prm'.boards = prm.boards /\ prm'.next_free = prm.next_free /\ prm'.pc = p
    BY <1>2, <2>1 DEF PrmType
  <2>4. prm' \in PrmType
    BY <1>2, <2>1, <2>2 DEF PrmType
  <2> QED
    BY <2>3, <2>4
<1>4. Decoders'
  <2>1. ASSUME NEW f \in Fns, HasMemory(f) PROVE Functions[f].dev < prm.dev + 1
    <3>1. Functions[f].dev \in Nat /\ Functions[f].dev <= prm.dev
      BY <2>1, <1>2, PciAssumption DEF PciInv, Decoders
    <3> QED
      BY <3>1, <1>2
  <2> QED
    BY <2>1, <1>1, <1>3 DEF Decoders
<1>5. Registers'
  BY <1>3 DEF PciInv, Registers
<1>6. RecordedBoards'
  <2>1. ASSUME NEW r \in prm.boards
        PROVE  /\ r.dev < prm'.dev /\ r.dev \in Nat
               /\ r.pci >= PCI_MEM_BASE /\ r.pci + r.size <= prm.next_free /\ r.size # 0
               /\ \E f \in Fns : Recorded(r, f)'
    <3>1. /\ r.pci >= PCI_MEM_BASE /\ r.pci + r.size <= prm.next_free /\ r.size # 0
          /\ r.dev \in Nat /\ r.dev <= prm.dev
          /\ r.dev = prm.dev => prm.pc \in Walking \cup {"enable", "header"}
      BY <1>2 DEF PciInv, RecordedBoards, PrmType, Boards
    <3>2. PICK f \in Fns : Recorded(r, f)
      BY DEF PciInv, RecordedBoards
    <3>3. HasMemory(f)
      BY <3>1, <3>2, <1>2 DEF Recorded, Walking
    <3>4. Recorded(r, f)'
      BY <3>2, <3>3, <1>1 DEF Recorded
    <3> QED
      BY <3>1, <3>4, <1>2, <1>3
  <2>2. prm'.dev \in Nat
    BY <1>2, <1>3
  <2> QED
    BY <2>1, <2>2, <1>3 DEF RecordedBoards
<1>7. BoardsApart'
  BY <1>3 DEF PciInv, BoardsApart
<1> QED
  BY <1>3, <1>4, <1>5, <1>6, <1>7 DEF PciRest

\* Among a function's registers: one of them probed, put back or left alone.
LEMMA WalkStep ==
    ASSUME PciInv, prm.pc \in Walking, prm'.pc \in Walking \cup {"enable"}, prm'.dev = prm.dev,
           prm'.boards = prm.boards, prm'.next_free = prm.next_free, prm'.bar \in Bars,
           prm'.pc = "enable" \/ prm'.bar >= prm.bar,
           NEW f \in FnAt(prm.dev), NEW w, WrittenTo(f, prm.bar, w),
           \/ w = 0
           \/ /\ Functions[f].bars[prm.bar] # 0 /\ w = Span - Functions[f].bars[prm.bar]
              /\ prm'.pc \in {"size", "restore"} /\ prm'.bar = prm.bar
    PROVE  PciRest'
<1>1. \A g \in Fns : HasMemory(g)' = HasMemory(g)
  BY DEF HasMemory, WrittenTo
<1>2. prm.dev \in Nat /\ prm.bar \in Bars /\ f \in Fns /\ Functions[f].dev = prm.dev
  BY OneFunction DEF PciInv, PciTypes, PrmType
<1>3. Decoders'
  BY <1>1 DEF PciInv, Decoders, Walking
<1>4. Registers'
  <2>1. ASSUME NEW g \in Fns, NEW a \in Bars, ~(g = f /\ a = prm.bar), bar_regs[g][a] # 0
        PROVE  /\ Functions[g].bars[a] # 0 /\ bar_regs'[g][a] = bar_regs[g][a]
               /\ [dev |-> Functions[g].dev, bar |-> a, pci |-> bar_regs[g][a], size |-> Functions[g].bars[a]]
                     \in prm.boards
    <3>1. ~(Functions[g].dev = prm.dev /\ a = prm.bar)
      BY <2>1, <1>2, PciAssumption
    <3> QED
      BY <3>1, <2>1 DEF PciInv, Registers, WrittenTo
  <2>2. bar_regs'[f][prm.bar] = w
    BY <1>2 DEF WrittenTo
  <2>3. ASSUME NEW g \in Fns, NEW a \in Bars, bar_regs'[g][a] # 0
        PROVE  /\ Functions[g].bars[a] # 0
               /\ \/ [dev |-> Functions[g].dev, bar |-> a, pci |-> bar_regs'[g][a], size |-> Functions[g].bars[a]]
                         \in prm'.boards
                  \/ /\ Functions[g].dev = prm'.dev /\ a = prm'.bar /\ prm'.pc \in {"size", "restore"}
                     /\ bar_regs'[g][a] = Span - Functions[g].bars[a]
    <3>1. CASE g = f /\ a = prm.bar
      BY <3>1, <2>2, <2>3, <1>2
    <3>2. CASE ~(g = f /\ a = prm.bar)
      <4>1. bar_regs'[g][a] = bar_regs[g][a]
        BY <3>2 DEF WrittenTo
      <4> QED
        BY <4>1, <3>2, <2>1, <2>3
    <3> QED
      BY <3>1, <3>2
  <2> QED
    BY <2>3 DEF Registers
<1>5. RecordedBoards'
  <2>1. ASSUME NEW r \in prm.boards
        PROVE  /\ r.dev <= prm.dev /\ (r.dev = prm.dev => r.bar < prm.bar) /\ r.bar \in Bars
               /\ r.pci >= PCI_MEM_BASE /\ r.pci + r.size <= prm.next_free /\ r.size # 0
               /\ \E g \in Fns : Recorded(r, g)'
    <3>1. /\ r.pci >= PCI_MEM_BASE /\ r.pci + r.size <= prm.next_free /\ r.size # 0
          /\ r.dev \in Nat /\ r.dev <= prm.dev /\ r.bar \in Bars /\ (r.dev = prm.dev => r.bar < prm.bar)
      BY DEF PciInv, RecordedBoards, PciTypes, PrmType, Boards
    <3>2. PICK g \in Fns : Recorded(r, g)
      BY DEF PciInv, RecordedBoards
    <3>3. ~(g = f /\ r.bar = prm.bar)
      BY <3>1, <3>2, <1>2 DEF Recorded, Bars
    <3>4. bar_regs'[g][r.bar] = bar_regs[g][r.bar]
      BY <3>1, <3>3 DEF WrittenTo
    <3>5. Recorded(r, g)'
      BY <3>2, <3>4, <1>1 DEF Recorded, Walking
    <3> QED
      BY <3>1, <3>5
  <2>2. ASSUME NEW r \in prm'.boards
        PROVE  /\ r.dev <= prm'.dev
               /\ r.dev = prm'.dev => prm'.pc \in Walking \cup {"enable", "header"}
               /\ r.dev = prm'.dev /\ prm'.pc \in Walking => r.bar < prm'.bar
               /\ r.pci >= PCI_MEM_BASE /\ r.pci + r.size <= prm'.next_free /\ r.size # 0
               /\ \E g \in Fns : Recorded(r, g)'
    <3>1. "enable" \notin Walking
      BY DEF Walking
    <3>2. ASSUME r.dev = prm.dev, prm'.pc \in Walking PROVE r.bar < prm'.bar
      BY <3>1, <3>2, <2>1, <1>2 DEF Bars
    <3> QED
      BY <2>1, <3>2
  <2> QED
    BY <2>2 DEF RecordedBoards
<1>6. BoardsApart'
  BY DEF PciInv, BoardsApart
<1> QED
  BY <1>3, <1>4, <1>5, <1>6 DEF PciRest

\* A register that is neither probed nor recorded is clear.
LEMMA FreshBar ==
    ASSUME PciInv, prm.pc \in Walking \ {"size", "restore"}, NEW f \in FnAt(prm.dev)
    PROVE  bar_regs[f][prm.bar] = 0
<1>1. prm.dev \in Nat /\ prm.bar \in Bars /\ f \in Fns /\ Functions[f].dev = prm.dev
  BY OneFunction DEF PciInv, PciTypes, PrmType
<1>2. SUFFICES ASSUME bar_regs[f][prm.bar] # 0 PROVE FALSE
  OBVIOUS
<1> DEFINE r == [dev |-> Functions[f].dev, bar |-> prm.bar, pci |-> bar_regs[f][prm.bar],
                 size |-> Functions[f].bars[prm.bar]]
<1>3. r \in prm.boards
  BY <1>1, <1>2 DEF PciInv, Registers
<1>4. r.dev = prm.dev /\ r.bar = prm.bar
  BY <1>1
<1>5. r.bar < prm.bar
  BY <1>3, <1>4 DEF PciInv, RecordedBoards
<1> QED
  BY <1>1, <1>4, <1>5 DEF Bars

-----------------------------------------------------------------------------
(* The steps of the enumeration *)

LEMMA PcMoved ==
    ASSUME prm \in PrmType, NEW p \in Places, prm' = [prm EXCEPT !.pc = p]
    PROVE  /\ prm' \in PrmType /\ prm'.pc = p /\ prm'.dev = prm.dev /\ prm'.bar = prm.bar /\ prm'.orig = prm.orig
           /\ prm'.size = prm.size /\ prm'.next_free = prm.next_free /\ prm'.boards = prm.boards
BY DEF PrmType

LEMMA BarMoved ==
    ASSUME prm \in PrmType, prm' = NextBar
    PROVE  /\ prm' \in PrmType /\ prm'.pc \in {"orig", "enable"} /\ prm'.dev = prm.dev
           /\ prm'.pc = "enable" \/ prm'.bar >= prm.bar
           /\ prm'.next_free = prm.next_free /\ prm'.boards = prm.boards
<1> DEFINE p == IF prm.bar < 6 THEN "orig" ELSE "enable"
           b == IF prm.bar < 6 THEN prm.bar + 1 ELSE prm.bar
<1>1. prm' = [prm EXCEPT !.pc = p, !.bar = b]
  BY Zenon DEF NextBar
<1>2. prm.bar \in Bars
  BY DEF PrmType
<1>3. p \in Places /\ b \in Bars /\ p \in {"orig", "enable"} /\ (p = "enable" \/ b >= prm.bar)
  BY <1>2 DEF Places, Found, Walking, Bars
<1> HIDE DEF p, b
<1>4. /\ prm'.pc = p /\ prm'.bar = b /\ prm'.dev = prm.dev
      /\ prm'.next_free = prm.next_free /\ prm'.boards = prm.boards
  BY <1>1 DEF PrmType
<1>5. prm' \in PrmType
  BY <1>1, <1>3 DEF PrmType
<1> QED
  BY <1>3, <1>4, <1>5

LEMMA HereIsOne ==
    ASSUME PciInv, prm.pc \in Found
    PROVE  prm.dev \in Nat /\ prm.bar \in Bars /\ prm \in PrmType /\ PciTypes /\ \E f : f \in FnAt(prm.dev)
<1>1. FnAt(prm.dev) # {}
  BY DEF PciInv, Progress
<1> QED
  BY <1>1 DEF PciInv, PciTypes, PrmType

\* A place about which Progress says nothing.
LEMMA NothingKnown ==
    ASSUME \/ prm'.pc \in {"vendor", "aperture"}
           \/ /\ prm'.pc \in {"pin", "command", "decode_off", "orig", "enable", "header"}
              /\ FnAt(prm'.dev) # {}
    PROVE  Progress'
<1>1. /\ prm'.pc # "present" /\ (prm'.pc \in Found => FnAt(prm'.dev) # {}) /\ prm'.pc # "probe"
      /\ prm'.pc # "size" /\ prm'.pc # "restore" /\ prm'.pc # "assign" /\ prm'.pc # "ready"
  BY DEF Found, Walking
<1> QED
  BY <1>1 DEF Progress

LEMMA ReadVendorStep == ASSUME PciInv, ReadVendor PROVE PciInv'
<1>1. prm.pc = "vendor" /\ cfg_cycle(prm.dev, 0, 4, 0, Ones) /\ prm' = [prm EXCEPT !.pc = "present"]
  BY DEF ReadVendor, Read
<1>2. PciTypes /\ prm \in PrmType /\ prm.dev \in Nat /\ "present" \in Places
  BY DEF PciInv, PciTypes, PrmType, Places
<1>3. /\ command' = command /\ bar_regs' = bar_regs /\ cfg' \in CfgType
      /\ \A k \in 1..4 : cfg'.data[k] = config_read(prm.dev, 0, 4)[k]
  <2>1. 0 \in Nat /\ 4 \in {1, 2, 4} /\ 0 % 4 = 0
    OBVIOUS
  <2> QED
    BY <1>1, <1>2, <2>1, LibRead
<1>4. /\ prm' \in PrmType /\ prm'.pc = "present" /\ prm'.dev = prm.dev /\ prm'.next_free = prm.next_free
      /\ prm'.boards = prm.boards
  BY <1>1, <1>2, PcMoved
<1>5. PciTypes'
  BY <1>2, <1>3, <1>4 DEF PciTypes
<1>6. PciRest'
  BY <1>1, <1>3, <1>4, LookStep DEF Walking
<1>7. Progress'
  BY <1>3, <1>4, NobodyRead DEF Progress, Found, Walking, Result
<1> QED
  BY <1>5, <1>6, <1>7 DEF PciInv, PciRest

LEMMA AbsentStep == ASSUME PciInv, Absent PROVE PciInv'
<1>1. prm.pc = "present" /\ prm' = NextDev /\ command' = command /\ bar_regs' = bar_regs /\ cfg' = cfg
  BY DEF Absent
<1>2. PciRest' /\ prm' \in PrmType /\ prm'.pc \in {"vendor", "aperture"} /\ prm'.next_free = prm.next_free
  BY <1>1, NextDevStep
<1>3. PciTypes'
  BY <1>1, <1>2 DEF PciInv, PciTypes
<1>4. Progress'
  BY <1>2, NothingKnown
<1> QED
  BY <1>2, <1>3, <1>4 DEF PciInv, PciRest

LEMMA RecordFunctionStep == ASSUME PciInv, record_function PROVE PciInv'
<1>1. /\ prm.pc = "present" /\ SubSeq(Result, 1, 2) # all_ones(2) /\ prm' = [prm EXCEPT !.pc = "pin"]
      /\ command' = command /\ bar_regs' = bar_regs /\ cfg' = cfg
  BY DEF record_function
<1>2. prm \in PrmType /\ "pin" \in Places /\ Result \in Lanes
  BY DEF PciInv, PciTypes, Places, Found, Result, CfgType
<1>3. /\ prm' \in PrmType /\ prm'.pc = "pin" /\ prm'.dev = prm.dev /\ prm'.next_free = prm.next_free
      /\ prm'.boards = prm.boards
  BY <1>1, <1>2, PcMoved
<1>4. FnAt(prm.dev) # {}
  <2>1. SUFFICES ASSUME FnAt(prm.dev) = {} PROVE SubSeq(Result, 1, 2) = all_ones(2)
    BY <1>1
  <2> DEFINE R == Result
  <2>2. \A k \in 1..2 : R[k] = OnesByte
    BY <2>1, <1>1 DEF PciInv, Progress
  <2> HIDE DEF R
  <2>3. /\ SubSeq(R, 1, 2) \in Seq({OnesByte}) /\ Len(SubSeq(R, 1, 2)) = 2
        /\ \A k \in 1..2 : SubSeq(R, 1, 2)[k] = R[1 + k - 1]
    <3>1. \A k \in 1..2 : R[k] \in {OnesByte}
      BY <2>2
    <3>2. /\ SubSeq(R, 1, 2) \in Seq({OnesByte}) /\ Len(SubSeq(R, 1, 2)) = IF 1 <= 2 THEN 2 - 1 + 1 ELSE 0
          /\ \A k \in 1..2 - 1 + 1 : SubSeq(R, 1, 2)[k] = R[1 + k - 1]
      BY <3>1, SubSeqProperties
    <3> QED
      BY <3>2
  <2>4. SubSeq(R, 1, 2) = [k \in 1..2 |-> OnesByte]
    BY <2>2, <2>3
  <2> QED
    BY <2>4 DEF R, all_ones
<1>5. PciTypes'
  BY <1>1, <1>3 DEF PciInv, PciTypes
<1>6. PciRest'
  BY <1>1, <1>3, LookStep DEF Walking
<1>7. Progress'
  BY <1>3, <1>4, NothingKnown
<1> QED
  BY <1>5, <1>6, <1>7 DEF PciInv, PciRest

\* The two reads before the registers are touched.
LEMMA ReadPinStep == ASSUME PciInv, ReadPin PROVE PciInv'
<1>1. prm.pc = "pin" /\ cfg_cycle(prm.dev, INTERRUPT_PIN, 1, 0, Ones) /\ prm' = [prm EXCEPT !.pc = "command"]
  BY DEF ReadPin, Read
<1>2. /\ PciTypes /\ prm \in PrmType /\ prm.dev \in Nat /\ "command" \in Places /\ FnAt(prm.dev) # {}
      /\ prm.pc \notin Walking \cup {"enable", "header"}
  BY <1>1 DEF PciInv, PciTypes, PrmType, Places, Found, Progress, Walking
<1>3. command' = command /\ bar_regs' = bar_regs /\ cfg' \in CfgType
  <2>1. INTERRUPT_PIN \in Nat /\ 1 \in {1, 2, 4} /\ INTERRUPT_PIN % 1 = 0
    BY DEF INTERRUPT_PIN
  <2> QED
    BY <1>1, <1>2, <2>1, LibRead
<1>4. /\ prm' \in PrmType /\ prm'.pc = "command" /\ prm'.dev = prm.dev /\ prm'.next_free = prm.next_free
      /\ prm'.boards = prm.boards
  BY <1>1, <1>2, PcMoved
<1>5. PciTypes'
  BY <1>2, <1>3, <1>4 DEF PciTypes
<1>6. PciRest'
  BY <1>1, <1>2, <1>3, <1>4, LookStep
<1>7. Progress'
  BY <1>2, <1>4, NothingKnown
<1> QED
  BY <1>5, <1>6, <1>7 DEF PciInv, PciRest

LEMMA ReadCommandStep == ASSUME PciInv, ReadCommand PROVE PciInv'
<1>1. prm.pc = "command" /\ cfg_cycle(prm.dev, COMMAND, 2, 0, Ones) /\ prm' = [prm EXCEPT !.pc = "decode_off"]
  BY DEF ReadCommand, Read
<1>2. /\ PciTypes /\ prm \in PrmType /\ prm.dev \in Nat /\ "decode_off" \in Places /\ FnAt(prm.dev) # {}
      /\ prm.pc \notin Walking \cup {"enable", "header"}
  BY <1>1 DEF PciInv, PciTypes, PrmType, Places, Found, Progress, Walking
<1>3. command' = command /\ bar_regs' = bar_regs /\ cfg' \in CfgType
  <2>1. COMMAND \in Nat /\ 2 \in {1, 2, 4} /\ COMMAND % 2 = 0
    BY DEF COMMAND
  <2> QED
    BY <1>1, <1>2, <2>1, LibRead
<1>4. /\ prm' \in PrmType /\ prm'.pc = "decode_off" /\ prm'.dev = prm.dev /\ prm'.next_free = prm.next_free
      /\ prm'.boards = prm.boards
  BY <1>1, <1>2, PcMoved
<1>5. PciTypes'
  BY <1>2, <1>3, <1>4 DEF PciTypes
<1>6. PciRest'
  BY <1>1, <1>2, <1>3, <1>4, LookStep
<1>7. Progress'
  BY <1>2, <1>4, NothingKnown
<1> QED
  BY <1>5, <1>6, <1>7 DEF PciInv, PciRest

LEMMA ReadHeaderStep == ASSUME PciInv, ReadHeader PROVE PciInv'
<1>1. prm.pc = "header" /\ cfg_cycle(prm.dev, HEADER_TYPE, 1, 0, Ones) /\ prm' = NextDev
  BY DEF ReadHeader, Read
<1>2. PciTypes /\ prm.dev \in Nat
  BY DEF PciInv, PciTypes, PrmType
<1>3. command' = command /\ bar_regs' = bar_regs /\ cfg' \in CfgType
  <2>1. HEADER_TYPE \in Nat /\ 1 \in {1, 2, 4} /\ HEADER_TYPE % 1 = 0
    BY DEF HEADER_TYPE
  <2> QED
    BY <1>1, <1>2, <2>1, LibRead
<1>4. PciRest' /\ prm' \in PrmType /\ prm'.pc \in {"vendor", "aperture"} /\ prm'.next_free = prm.next_free
  BY <1>1, <1>3, NextDevStep
<1>5. PciTypes'
  BY <1>2, <1>3, <1>4 DEF PciTypes
<1>6. Progress'
  BY <1>4, NothingKnown
<1> QED
  BY <1>4, <1>5, <1>6 DEF PciInv, PciRest

\* COMMAND written between the registers' walk and the rest: only this
\* function's decoding changes, and nothing of it is recorded before the walk.
LEMMA ClearDecodeStep == ASSUME PciInv, ClearDecode PROVE PciInv'
<1> DEFINE cmd == Result[1]
           off == IF (cmd \div MEMORY_ENABLE) % 2 = 1 THEN cmd - MEMORY_ENABLE ELSE cmd
<1>1. /\ prm.pc = "decode_off" /\ cfg_cycle(prm.dev, COMMAND, 2, 1, <<off, 0, 0, 0>>)
      /\ prm' = [prm EXCEPT !.pc = "orig", !.bar = 1]
  BY DEF ClearDecode, Write
<1>2. PciTypes /\ prm \in PrmType /\ prm.dev \in Nat /\ cmd \in 0..OnesByte /\ OnesByte \in Nat
  BY Weights DEF PciInv, PciTypes, PrmType, Result, CfgType, Lanes
<1>3. off \in 0..OnesByte /\ ((off % 8) \div MEMORY_ENABLE) % 2 # 1
  <2> HIDE DEF cmd
  <2> QED
    BY <1>2 DEF MEMORY_ENABLE
<1>4. PICK f : f \in FnAt(prm.dev)
  BY <1>1, HereIsOne DEF Found
<1> HIDE DEF off
<1>5. /\ cfg' \in CfgType /\ bar_regs' = bar_regs /\ command' \in [Fns -> 0..7]
      /\ \A g \in Fns : command'[g] = IF g = f THEN off % 8 ELSE command[g]
  BY <1>1, <1>2, <1>3, <1>4, CommandWrite
<1>6. f \in Fns /\ Functions[f].dev = prm.dev
  BY <1>4, OneFunction
<1>7. /\ prm' \in PrmType /\ prm'.pc = "orig" /\ prm'.dev = prm.dev /\ prm'.next_free = prm.next_free
      /\ prm'.boards = prm.boards
  <2>1. "orig" \in Places /\ 1 \in Bars
    BY DEF Places, Found, Walking, Bars
  <2> QED
    BY <1>1, <1>2, <2>1 DEF PrmType
<1>8. PciTypes'
  BY <1>2, <1>5, <1>7 DEF PciTypes
<1>9. ~HasMemory(f)' /\ \A g \in Fns : g # f => HasMemory(g)' = HasMemory(g)
  BY <1>3, <1>5, <1>6 DEF HasMemory
<1>10. ASSUME NEW g \in Fns, Functions[g].dev = prm.dev PROVE g = f
  BY <1>6, <1>10, PciAssumption
<1>11. Decoders'
  BY <1>1, <1>7, <1>9 DEF PciInv, Decoders
<1>12. Registers'
  BY <1>1, <1>5, <1>7 DEF PciInv, Registers
<1>13. RecordedBoards'
  <2>1. ASSUME NEW r \in prm.boards
        PROVE  /\ r.dev < prm.dev /\ r.dev \in Nat
               /\ r.pci >= PCI_MEM_BASE /\ r.pci + r.size <= prm.next_free /\ r.size # 0
               /\ \E g \in Fns : Recorded(r, g)'
    <3>1. /\ r.pci >= PCI_MEM_BASE /\ r.pci + r.size <= prm.next_free /\ r.size # 0
          /\ r.dev \in Nat /\ r.dev <= prm.dev /\ r.dev # prm.dev
      BY <1>1 DEF PciInv, RecordedBoards, PciTypes, PrmType, Boards, Walking
    <3>2. PICK g \in Fns : Recorded(r, g)
      BY DEF PciInv, RecordedBoards
    <3>3. g # f
      BY <3>1, <3>2, <1>6 DEF Recorded
    <3>4. Recorded(r, g)'
      BY <3>1, <3>2, <3>3, <1>2, <1>5, <1>9 DEF Recorded
    <3> QED
      BY <3>1, <3>4, <1>2
  <2> QED
    BY <2>1, <1>2, <1>7 DEF RecordedBoards
<1>14. BoardsApart'
  BY <1>7 DEF PciInv, BoardsApart
<1>15. Progress'
  BY <1>4, <1>7, NothingKnown
<1> QED
  BY <1>8, <1>11, <1>12, <1>13, <1>14, <1>15 DEF PciInv

LEMMA EnableDecodeStep == ASSUME PciInv, EnableDecode PROVE PciInv'
<1> DEFINE x == MEMORY_ENABLE + BUS_MASTER
<1>1. prm.pc = "enable" /\ cfg_cycle(prm.dev, COMMAND, 2, 1, <<x, 0, 0, 0>>) /\ prm' = [prm EXCEPT !.pc = "header"]
  BY DEF EnableDecode, Write
<1>2. PciTypes /\ prm \in PrmType /\ prm.dev \in Nat /\ "header" \in Places
  BY DEF PciInv, PciTypes, PrmType, Places, Found
<1>3. x \in 0..OnesByte /\ ((x % 8) \div MEMORY_ENABLE) % 2 = 1
  BY Weights DEF MEMORY_ENABLE, BUS_MASTER
<1>4. PICK f : f \in FnAt(prm.dev)
  BY <1>1, HereIsOne DEF Found
<1> HIDE DEF x
<1>5. /\ cfg' \in CfgType /\ bar_regs' = bar_regs /\ command' \in [Fns -> 0..7]
      /\ \A g \in Fns : command'[g] = IF g = f THEN x % 8 ELSE command[g]
  BY <1>1, <1>2, <1>3, <1>4, CommandWrite
<1>6. f \in Fns /\ Functions[f].dev = prm.dev
  BY <1>4, OneFunction
<1>7. /\ prm' \in PrmType /\ prm'.pc = "header" /\ prm'.dev = prm.dev /\ prm'.next_free = prm.next_free
      /\ prm'.boards = prm.boards
  BY <1>1, <1>2, PcMoved
<1>8. PciTypes'
  BY <1>2, <1>5, <1>7 DEF PciTypes
<1>9. HasMemory(f)' /\ \A g \in Fns : g # f => HasMemory(g)' = HasMemory(g)
  BY <1>3, <1>5, <1>6 DEF HasMemory
<1>10. Decoders'
  BY <1>1, <1>6, <1>7, <1>9 DEF PciInv, Decoders
<1>11. Registers'
  BY <1>1, <1>5, <1>7 DEF PciInv, Registers
<1>12. RecordedBoards'
  <2>1. ASSUME NEW r \in prm.boards
        PROVE  /\ r.dev <= prm.dev
               /\ r.pci >= PCI_MEM_BASE /\ r.pci + r.size <= prm.next_free /\ r.size # 0
               /\ \E g \in Fns : Recorded(r, g)'
    <3>1. /\ r.pci >= PCI_MEM_BASE /\ r.pci + r.size <= prm.next_free /\ r.size # 0
          /\ r.dev \in Nat /\ r.dev <= prm.dev
      BY DEF PciInv, RecordedBoards, PciTypes, PrmType, Boards
    <3>2. PICK g \in Fns : Recorded(r, g)
      BY DEF PciInv, RecordedBoards
    <3>3. HasMemory(g)'
      <4>1. CASE g = f
        BY <4>1, <1>9
      <4>2. CASE g # f
        <5>1. r.dev # prm.dev
          BY <4>2, <3>2, <1>6, PciAssumption DEF Recorded
        <5>2. r.dev < prm.dev
          BY <5>1, <3>1, <1>2
        <5> QED
          BY <5>2, <4>2, <3>2, <1>9 DEF Recorded
      <4> QED
        BY <4>1, <4>2
    <3>4. Recorded(r, g)'
      BY <3>2, <3>3, <1>5 DEF Recorded
    <3> QED
      BY <3>1, <3>4
  <2>2. "header" \notin Walking
    BY DEF Walking
  <2> QED
    BY <2>1, <2>2, <1>7 DEF RecordedBoards
<1>13. BoardsApart'
  BY <1>7 DEF PciInv, BoardsApart
<1>14. Progress'
  BY <1>4, <1>7, NothingKnown
<1> QED
  BY <1>8, <1>10, <1>11, <1>12, <1>13, <1>14 DEF PciInv

-----------------------------------------------------------------------------
(* One base address register *)

LEMMA Unwritten ==
    ASSUME PciTypes, command' = command, bar_regs' = bar_regs, NEW f \in Fns, NEW b \in Bars
    PROVE  WrittenTo(f, b, bar_regs[f][b])
BY DEF WrittenTo, PciTypes

LEMMA ZeroLanes == \A k \in 0..3 : LaneOf(0, k) = 0
<1>1. ASSUME NEW k \in 0..3 PROVE LaneOf(0, k) = 0
  <2>1. Weight(k) \in Nat \ {0} /\ Radix \in Nat \ {0}
    BY Weights DEF Weight
  <2> QED
    BY <2>1 DEF LaneOf
<1> QED
  BY <1>1

LEMMA BarOrigStep == ASSUME PciInv, BarOrig PROVE PciInv'
<1>1. prm.pc = "orig" /\ cfg_cycle(prm.dev, BAR0 + 4 * (prm.bar - 1), 4, 0, Ones) /\ prm' = [prm EXCEPT !.pc = "probe"]
  BY DEF BarOrig, Read, BarOffset
<1>2. /\ PciTypes /\ prm \in PrmType /\ prm.dev \in Nat /\ prm.bar \in Bars
      /\ "probe" \in Places /\ prm.pc \in Walking \ {"size", "restore"}
  BY <1>1 DEF PciInv, PciTypes, PrmType, Places, Found, Walking
<1>3. PICK f : f \in FnAt(prm.dev)
  BY <1>1, HereIsOne DEF Found, Walking
<1>4. /\ command' = command /\ bar_regs' = bar_regs /\ cfg' \in CfgType
      /\ cfg'.data = [k \in 1..4 |-> config_read(prm.dev, BAR0 + 4 * (prm.bar - 1), 4)[k]]
  <2>1. BAR0 + 4 * (prm.bar - 1) \in Nat /\ 4 \in {1, 2, 4} /\ (BAR0 + 4 * (prm.bar - 1)) % 4 = 0
    BY <1>2 DEF BAR0, Bars
  <2> QED
    BY <1>1, <1>2, <2>1, LibRead
<1>5. cfg'.data = ToLanes(bar_regs[f][prm.bar])
  BY <1>2, <1>3, <1>4, BarRead
<1>6. bar_regs[f][prm.bar] = 0 /\ f \in Fns
  BY <1>2, <1>3, FreshBar, OneFunction
<1>7. /\ prm' \in PrmType /\ prm'.pc = "probe" /\ prm'.dev = prm.dev /\ prm'.bar = prm.bar
      /\ prm'.next_free = prm.next_free /\ prm'.boards = prm.boards
  BY <1>1, <1>2, PcMoved
<1>8. PciTypes'
  BY <1>2, <1>4, <1>7 DEF PciTypes
<1>9. PciRest'
  <2>1. WrittenTo(f, prm.bar, 0)
    BY <1>2, <1>4, <1>6, Unwritten
  <2>2. prm.pc \in Walking /\ prm'.pc \in Walking \cup {"enable"} /\ prm'.bar >= prm.bar /\ prm'.bar \in Bars
    BY <1>1, <1>2, <1>7 DEF Walking, Bars
  <2> QED
    BY <2>1, <2>2, <1>3, <1>7, WalkStep
<1>10. \A k \in 1..4 : cfg'.data[k] = 0
  BY <1>5, <1>6, ZeroLanes DEF ToLanes
<1>11. Progress'
  BY <1>3, <1>7, <1>10 DEF Progress, Result
<1> QED
  BY <1>8, <1>9, <1>11 DEF PciInv, PciRest

LEMMA BarProbeStep == ASSUME PciInv, BarProbe PROVE PciInv'
<1>1. /\ prm.pc = "probe" /\ cfg_cycle(prm.dev, BAR0 + 4 * (prm.bar - 1), 4, 1, Ones)
      /\ prm' = [prm EXCEPT !.pc = "size", !.orig = Result]
  BY DEF BarProbe, Write, BarOffset
<1>2. /\ PciTypes /\ prm \in PrmType /\ prm.dev \in Nat /\ prm.bar \in Bars
      /\ "size" \in Places /\ prm.pc \in Walking \ {"size", "restore"} /\ Result \in Lanes
  BY <1>1 DEF PciInv, PciTypes, PrmType, Places, Found, Walking, Result, CfgType
<1>3. PICK f : f \in FnAt(prm.dev)
  BY <1>1, HereIsOne DEF Found, Walking
<1> DEFINE s == Functions[f].bars[prm.bar]
           w == IF s = 0 THEN bar_regs[f][prm.bar] ELSE AlignDown(FromLanes(Ones), s)
<1>4. Ones \in Lanes /\ FromLanes(Ones) = Span - 1
  <2>1. Ones = [k \in 1..4 |-> OnesByte] /\ OnesByte \in 0..OnesByte
    BY Weights DEF Ones, all_ones
  <2>2. FromLanes(Ones) = (Radix - 1) + Radix * ((Radix - 1) + Radix * ((Radix - 1) + Radix * (Radix - 1)))
    BY <2>1 DEF FromLanes, OnesByte
  <2>3. \A x \in Nat : (x - 1) + x * ((x - 1) + x * ((x - 1) + x * (x - 1))) = x * x * x * x - 1
    OBVIOUS
  <2>4. FromLanes(Ones) = Span - 1
    BY <2>2, <2>3, Weights DEF Span
  <2> QED
    BY <2>1, <2>4 DEF Lanes
<1>5. cfg' \in CfgType /\ WrittenTo(f, prm.bar, w)
  BY <1>1, <1>2, <1>3, <1>4, BarWrite
<1>6. bar_regs[f][prm.bar] = 0 /\ f \in Fns /\ Functions[f].dev = prm.dev
  BY <1>2, <1>3, FreshBar, OneFunction
<1>7. w = IF s = 0 THEN 0 ELSE Span - s
  <2>1. CASE s = 0
    BY <2>1, <1>6
  <2>2. CASE s # 0
    <3>1. SizeFacts(s)
      BY <2>2, <1>2, <1>6, BarSizeFacts, PciAssumption
    <3> QED
      BY <3>1, <2>2, <1>4 DEF SizeFacts
  <2> QED
    BY <2>1, <2>2
<1> HIDE DEF w
<1>8. /\ prm' \in PrmType /\ prm'.pc = "size" /\ prm'.dev = prm.dev /\ prm'.bar = prm.bar /\ prm'.orig = Result
      /\ prm'.next_free = prm.next_free /\ prm'.boards = prm.boards
  BY <1>1, <1>2 DEF PrmType
<1>9. PciTypes'
  BY <1>2, <1>5, <1>8 DEF PciTypes, WrittenTo
<1>10. PciRest'
  <2>1. prm.pc \in Walking /\ prm'.pc \in Walking \cup {"enable"} /\ prm'.bar >= prm.bar /\ prm'.bar \in Bars
    BY <1>1, <1>2, <1>8 DEF Walking, Bars
  <2>2. w = 0 \/ (s # 0 /\ w = Span - s /\ prm'.pc \in {"size", "restore"} /\ prm'.bar = prm.bar)
    BY <1>7, <1>8
  <2> QED
    BY <2>1, <2>2, <1>3, <1>5, <1>8, WalkStep
<1>11. Progress'
  <2>1. \A k \in 1..4 : prm'.orig[k] = 0
    BY <1>1, <1>8 DEF PciInv, Progress
  <2>2. FnAt(prm.dev) = {f}
    BY <1>3, OneFunction
  <2>3. bar_regs'[f][prm.bar] = IF s = 0 THEN 0 ELSE Span - s
    BY <1>2, <1>5, <1>6, <1>7 DEF WrittenTo
  <2> QED
    BY <1>8, <2>1, <2>2, <2>3 DEF Progress
<1> QED
  BY <1>9, <1>10, <1>11 DEF PciInv, PciRest

LEMMA BarSizeStep == ASSUME PciInv, BarSize PROVE PciInv'
<1>1. prm.pc = "size" /\ cfg_cycle(prm.dev, BAR0 + 4 * (prm.bar - 1), 4, 0, Ones) /\ prm' = [prm EXCEPT !.pc = "restore"]
  BY DEF BarSize, Read, BarOffset
<1>2. /\ PciTypes /\ prm \in PrmType /\ prm.dev \in Nat /\ prm.bar \in Bars
      /\ "restore" \in Places /\ prm.pc \in Walking
  BY <1>1 DEF PciInv, PciTypes, PrmType, Places, Found, Walking
<1>3. PICK f : f \in FnAt(prm.dev)
  BY <1>1, HereIsOne DEF Found, Walking
<1>4. /\ command' = command /\ bar_regs' = bar_regs /\ cfg' \in CfgType
      /\ cfg'.data = [k \in 1..4 |-> config_read(prm.dev, BAR0 + 4 * (prm.bar - 1), 4)[k]]
  <2>1. BAR0 + 4 * (prm.bar - 1) \in Nat /\ 4 \in {1, 2, 4} /\ (BAR0 + 4 * (prm.bar - 1)) % 4 = 0
    BY <1>2 DEF BAR0, Bars
  <2> QED
    BY <1>1, <1>2, <2>1, LibRead
<1>5. cfg'.data = ToLanes(bar_regs[f][prm.bar])
  BY <1>2, <1>3, <1>4, BarRead
<1>6. f \in Fns /\ FnAt(prm.dev) = {f}
  BY <1>3, OneFunction
<1>7. /\ prm' \in PrmType /\ prm'.pc = "restore" /\ prm'.dev = prm.dev /\ prm'.bar = prm.bar
      /\ prm'.orig = prm.orig /\ prm'.next_free = prm.next_free /\ prm'.boards = prm.boards
  BY <1>1, <1>2, PcMoved
<1> DEFINE s == Functions[f].bars[prm.bar]
<1>8. bar_regs[f][prm.bar] = (IF s = 0 THEN 0 ELSE Span - s) /\ \A k \in 1..4 : prm.orig[k] = 0
  BY <1>1, <1>3 DEF PciInv, Progress
<1>9. PciTypes'
  BY <1>2, <1>4, <1>7 DEF PciTypes
<1>10. PciRest'
  <2> DEFINE w == bar_regs[f][prm.bar]
  <2>1. WrittenTo(f, prm.bar, w)
    BY <1>2, <1>4, <1>6, Unwritten
  <2>2. prm.pc \in Walking /\ prm'.pc \in Walking \cup {"enable"} /\ prm'.bar >= prm.bar /\ prm'.bar \in Bars
    BY <1>1, <1>2, <1>7 DEF Walking, Bars
  <2>3. w = 0 \/ (s # 0 /\ w = Span - s /\ prm'.pc \in {"size", "restore"} /\ prm'.bar = prm.bar)
    BY <1>7, <1>8
  <2> HIDE DEF w
  <2> QED
    BY <2>1, <2>2, <2>3, <1>3, <1>7, WalkStep
<1>11. Progress'
  <2>1. bar_regs'[f][prm.bar] = IF s = 0 THEN 0 ELSE Span - s
    BY <1>4, <1>8
  <2>2. cfg'.data = ToLanes(bar_regs'[f][prm.bar])
    BY <1>4, <1>5
  <2>3. Result' = ToLanes(bar_regs[f][prm.bar])'
    BY <1>7, <2>2 DEF Result
  <2> QED
    BY <1>6, <1>7, <1>8, <2>1, <2>3 DEF Progress
<1> QED
  BY <1>9, <1>10, <1>11 DEF PciInv, PciRest

LEMMA BarRestoreStep == ASSUME PciInv, BarRestore PROVE PciInv'
<1> DEFINE mask == AlignDown(FromLanes(Result), 16)
<1>1. /\ prm.pc = "restore" /\ cfg_cycle(prm.dev, BAR0 + 4 * (prm.bar - 1), 4, 1, prm.orig)
      /\ prm' = IF mask = 0 THEN NextBar ELSE [prm EXCEPT !.pc = "assign", !.size = Span - mask]
  BY DEF BarRestore, BarOffset
<1>2. /\ PciTypes /\ prm \in PrmType /\ prm.dev \in Nat /\ prm.bar \in Bars /\ prm.orig \in Lanes
      /\ prm.pc \in Walking
  BY <1>1 DEF PciInv, PciTypes, PrmType, Walking
<1>3. PICK f : f \in FnAt(prm.dev)
  BY <1>1, HereIsOne DEF Found, Walking
<1> DEFINE s == Functions[f].bars[prm.bar]
           reg == bar_regs[f][prm.bar]
           w == IF s = 0 THEN bar_regs[f][prm.bar] ELSE AlignDown(FromLanes(prm.orig), s)
<1>4. cfg' \in CfgType /\ WrittenTo(f, prm.bar, w)
  BY <1>1, <1>2, <1>3, BarWrite
<1>5. f \in Fns /\ FnAt(prm.dev) = {f}
  BY <1>3, OneFunction
<1>6. /\ reg = (IF s = 0 THEN 0 ELSE Span - s) /\ (\A k \in 1..4 : prm.orig[k] = 0) /\ Result = ToLanes(reg)
  BY <1>1, <1>3 DEF PciInv, Progress
<1>7. s # 0 => SizeFacts(s)
  BY <1>2, <1>5, BarSizeFacts, PciAssumption
<1>8. w = 0
  <2>1. CASE s = 0
    BY <2>1, <1>6
  <2>2. CASE s # 0
    <3>1. FromLanes(prm.orig) = 0
      <4>1. prm.orig[1] = 0 /\ prm.orig[2] = 0 /\ prm.orig[3] = 0 /\ prm.orig[4] = 0
        BY <1>6
      <4> QED
        BY <4>1, Weights DEF FromLanes
    <3> QED
      BY <3>1, <2>2, <1>7 DEF SizeFacts
  <2> QED
    BY <2>1, <2>2
<1>9. mask = reg
  <2>1. reg \in 0..Span - 1
    BY <1>2, <1>5 DEF PciTypes
  <2>2. FromLanes(Result) = reg
    BY <1>6, <2>1, LanesBack
  <2>3. CASE s = 0
    <3>1. AlignDown(0, 16) = 0
      BY DEF AlignDown
    <3> QED
      BY <3>1, <2>2, <2>3, <1>6
  <2>4. CASE s # 0
    BY <2>2, <2>4, <1>6, <1>7 DEF SizeFacts
  <2> QED
    BY <2>3, <2>4
<1> HIDE DEF mask, w
<1>10. bar_regs'[f][prm.bar] = 0
  BY <1>2, <1>4, <1>5, <1>8 DEF WrittenTo
<1>11. CASE s = 0
  <2>1. prm' = NextBar
    BY <1>1, <1>6, <1>9, <1>11
  <2>2. /\ prm' \in PrmType /\ prm'.pc \in {"orig", "enable"} /\ prm'.dev = prm.dev
        /\ prm'.pc = "enable" \/ prm'.bar >= prm.bar
        /\ prm'.next_free = prm.next_free /\ prm'.boards = prm.boards
    BY <1>2, <2>1, BarMoved
  <2>3. PciTypes'
    BY <1>2, <1>4, <2>2 DEF PciTypes, WrittenTo
  <2>4. PciRest'
    <3>1. prm'.pc \in Walking \cup {"enable"} /\ prm'.bar \in Bars
      BY <2>2 DEF Walking, PrmType
    <3> QED
      BY <3>1, <2>2, <1>2, <1>3, <1>4, <1>8, WalkStep
  <2>5. Progress'
    BY <2>2, <1>3, NothingKnown
  <2> QED
    BY <2>3, <2>4, <2>5 DEF PciInv, PciRest
<1>12. CASE s # 0
  <2>1. reg # 0 /\ Span - mask = s /\ s \in Nat
    BY <1>6, <1>7, <1>9, <1>12, Weights DEF SizeFacts
  <2>2. prm' = [prm EXCEPT !.pc = "assign", !.size = s]
    BY <1>1, <1>9, <2>1
  <2>3. "assign" \in Places
    BY DEF Places, Found, Walking
  <2> HIDE DEF s
  <2>4. /\ prm' \in PrmType /\ prm'.pc = "assign" /\ prm'.dev = prm.dev /\ prm'.bar = prm.bar /\ prm'.size = s
        /\ prm'.next_free = prm.next_free /\ prm'.boards = prm.boards
    BY <1>2, <2>1, <2>2, <2>3 DEF PrmType
  <2>5. PciTypes'
    BY <1>2, <1>4, <2>4 DEF PciTypes, WrittenTo
  <2>6. PciRest'
    <3>1. prm'.pc \in Walking \cup {"enable"} /\ prm'.bar \in Bars /\ prm'.bar >= prm.bar
      BY <2>4, <1>2 DEF Walking, Bars
    <3> QED
      BY <3>1, <2>4, <1>2, <1>3, <1>4, <1>8, WalkStep
  <2>7. Progress'
    BY <2>4, <1>5, <1>10, <1>12 DEF Progress, s
  <2> QED
    BY <2>5, <2>6, <2>7 DEF PciInv, PciRest
<1> QED
  BY <1>11, <1>12

LEMMA BarTooLargeStep == ASSUME PciInv, BarTooLarge PROVE PciInv'
<1>1. prm.pc = "assign" /\ prm' = NextBar /\ command' = command /\ bar_regs' = bar_regs /\ cfg' = cfg
  BY DEF BarTooLarge
<1>2. /\ PciTypes /\ prm \in PrmType /\ prm.dev \in Nat /\ prm.bar \in Bars /\ prm.pc \in Walking \ {"size", "restore"}
  BY <1>1 DEF PciInv, PciTypes, PrmType, Walking
<1>3. PICK f : f \in FnAt(prm.dev)
  BY <1>1, HereIsOne DEF Found, Walking
<1>4. bar_regs[f][prm.bar] = 0 /\ f \in Fns
  BY <1>2, <1>3, FreshBar, OneFunction
<1>5. /\ prm' \in PrmType /\ prm'.pc \in {"orig", "enable"} /\ prm'.dev = prm.dev
      /\ prm'.pc = "enable" \/ prm'.bar >= prm.bar
      /\ prm'.next_free = prm.next_free /\ prm'.boards = prm.boards
  BY <1>1, <1>2, BarMoved
<1>6. PciTypes'
  BY <1>1, <1>2, <1>5 DEF PciTypes
<1>7. PciRest'
  <2>1. WrittenTo(f, prm.bar, 0)
    BY <1>1, <1>2, <1>4, Unwritten
  <2>2. prm.pc \in Walking /\ prm'.pc \in Walking \cup {"enable"} /\ prm'.bar \in Bars
    BY <1>2, <1>5 DEF Walking, PrmType
  <2> QED
    BY <2>1, <2>2, <1>3, <1>5, WalkStep
<1>8. Progress'
  BY <1>3, <1>5, NothingKnown
<1> QED
  BY <1>6, <1>7, <1>8 DEF PciInv, PciRest

\* The next multiple of a power of two.
LEMMA NextMultiple ==
    ASSUME NEW s, SizeFacts(s), NEW n \in Nat
    PROVE  Aligned(n, s) \in Nat /\ Aligned(n, s) >= n /\ AlignDown(Aligned(n, s), s) = Aligned(n, s)
<1> DEFINE x == n + (s - 1)
           q == x \div s
           r == x % s
<1>1. s \in Nat \ {0} /\ x \in Nat
  BY DEF SizeFacts
<1>2. q \in Nat /\ r \in 0..s - 1 /\ x = s * q + r
  <2> HIDE DEF x
  <2> QED
    BY <1>1, Division, Zenon
<1>3. s * q \in Nat
  BY <1>1, <1>2, ProductNat
<1>4. Aligned(n, s) = x - r
  BY DEF Aligned, AlignDown
<1>5. (s * q + 0) % s = 0
  <2>1. 0 \in 0..s - 1
    BY <1>1
  <2> HIDE DEF q
  <2> QED
    BY <1>1, <1>2, <2>1, Quotient
<1> HIDE DEF q, r
<1>6. Aligned(n, s) = s * q
  BY <1>2, <1>3, <1>4, <1>1
<1>7. s * q >= n
  BY <1>1, <1>2, <1>3
<1> QED
  BY <1>3, <1>5, <1>6, <1>7 DEF AlignDown

\* Where an assignment puts a window: free, aligned and inside the region.
LEMMA BarAssignStep == ASSUME PciInv, BarAssign PROVE PciInv'
<1> DEFINE s == prm.size
           at == Aligned(prm.next_free, s)
           new == [dev |-> prm.dev, bar |-> prm.bar, pci |-> at, size |-> s]
           p == IF prm.bar < 6 THEN "orig" ELSE "enable"
           b == IF prm.bar < 6 THEN prm.bar + 1 ELSE prm.bar
<1>1. /\ prm.pc = "assign" /\ at + s <= PCI_MEM_BASE + PCI_MEM_BYTES
      /\ cfg_cycle(prm.dev, BAR0 + 4 * (prm.bar - 1), 4, 1, ToLanes(at))
      /\ prm' = [NextBar EXCEPT !.next_free = at + s, !.boards = @ \cup {new}]
  BY DEF BarAssign, Write, BarOffset, BarFits
<1>2. /\ PciTypes /\ prm \in PrmType /\ prm.dev \in Nat /\ prm.bar \in Bars /\ prm.next_free \in Nat
      /\ prm.pc \in Walking \ {"size", "restore"} /\ prm.next_free >= PCI_MEM_BASE
      /\ prm.boards \in SUBSET Boards
  BY <1>1 DEF PciInv, PciTypes, PrmType, Walking
<1>3. PICK f : f \in FnAt(prm.dev)
  BY <1>1, HereIsOne DEF Found, Walking
<1>4. f \in Fns /\ Functions[f].dev = prm.dev
  BY <1>3, OneFunction
<1>5. s = Functions[f].bars[prm.bar] /\ s # 0
  BY <1>1, <1>3 DEF PciInv, Progress
<1>6. SizeFacts(s) /\ s \in Nat \ {0} /\ s >= 16
  BY <1>2, <1>4, <1>5, BarSizeFacts, PciAssumption DEF SizeFacts
<1>7. at \in Nat /\ at >= prm.next_free /\ AlignDown(at, s) = at
  BY <1>2, <1>6, NextMultiple
<1> HIDE DEF s, at
<1>8. at \in 0..Span - 1
  BY <1>1, <1>6, <1>7, Weights, PciAssumption
<1>9. cfg' \in CfgType /\ WrittenTo(f, prm.bar, at)
  <2>1. ToLanes(at) \in Lanes /\ FromLanes(ToLanes(at)) = at
    BY <1>8, LanesBack
  <2> DEFINE v == IF Functions[f].bars[prm.bar] = 0 THEN bar_regs[f][prm.bar]
                  ELSE AlignDown(FromLanes(ToLanes(at)), Functions[f].bars[prm.bar])
  <2>2. cfg' \in CfgType /\ WrittenTo(f, prm.bar, v)
    BY <1>1, <1>2, <1>3, <2>1, BarWrite
  <2>3. v = at
    BY <1>5, <1>7, <2>1
  <2> QED
    BY <2>2, <2>3
<1>10. new \in Boards /\ p \in Places /\ b \in Bars /\ p \in {"orig", "enable"} /\ (p = "orig" => b = prm.bar + 1)
  BY <1>2, <1>6, <1>7 DEF Boards, Places, Found, Walking, Bars
<1>11. /\ prm' \in PrmType /\ prm'.pc = p /\ prm'.bar = b /\ prm'.dev = prm.dev
       /\ prm'.next_free = at + s /\ prm'.boards = prm.boards \cup {new}
  <2>1. PICK q : q = prm.boards \cup {new}
    OBVIOUS
  <2>2. NextBar = [prm EXCEPT !.pc = p, !.bar = b]
    BY Zenon DEF NextBar
  <2>3. NextBar.boards = prm.boards
    BY <1>2, <2>2 DEF PrmType
  <2>4. prm' = [[prm EXCEPT !.pc = p, !.bar = b] EXCEPT !.next_free = at + s, !.boards = q]
    BY <1>1, <2>1, <2>2, <2>3
  <2>5. q \in SUBSET Boards /\ at + s \in Nat
    BY <1>2, <1>6, <1>7, <1>10, <2>1
  <2> HIDE DEF p, b, new
  <2>6. prm' = [pc |-> p, dev |-> prm.dev, bar |-> b, orig |-> prm.orig, size |-> prm.size,
                next_free |-> at + s, boards |-> q]
    BY <1>2, <2>4 DEF PrmType
  <2>7. prm.orig \in Lanes /\ prm.size \in Nat
    BY <1>2 DEF PrmType
  <2> QED
    BY <1>2, <1>10, <2>1, <2>5, <2>6, <2>7 DEF PrmType
<1>12. PciTypes'
  <2>1. prm'.next_free >= PCI_MEM_BASE /\ prm'.next_free <= PCI_MEM_BASE + PCI_MEM_BYTES
    BY <1>1, <1>2, <1>6, <1>7, <1>11, PciAssumption
  <2>2. command \in [Fns -> 0..7]
    BY <1>2 DEF PciTypes
  <2>3. command' \in [Fns -> 0..7] /\ bar_regs' \in [Fns -> [Bars -> 0..Span - 1]]
    BY <2>2, <1>9 DEF WrittenTo
  <2> QED
    BY <2>1, <2>3, <1>9, <1>11 DEF PciTypes
<1>13. \A g \in Fns : HasMemory(g)' = HasMemory(g)
  BY <1>9 DEF HasMemory, WrittenTo
<1>14. Decoders'
  BY <1>1, <1>11, <1>13 DEF PciInv, Decoders
<1>15. Registers'
  <2>1. ASSUME NEW g \in Fns, NEW a \in Bars, bar_regs'[g][a] # 0
        PROVE  /\ Functions[g].bars[a] # 0
               /\ [dev |-> Functions[g].dev, bar |-> a, pci |-> bar_regs'[g][a], size |-> Functions[g].bars[a]]
                      \in prm'.boards
    <3>1. CASE g = f /\ a = prm.bar
      <4>1. bar_regs'[g][a] = at
        BY <3>1, <1>2, <1>4, <1>9 DEF WrittenTo
      <4> QED
        BY <4>1, <3>1, <1>4, <1>5, <1>11
    <3>2. CASE ~(g = f /\ a = prm.bar)
      <4>1. bar_regs'[g][a] = bar_regs[g][a]
        BY <3>2, <1>9 DEF WrittenTo
      <4>2. /\ Functions[g].bars[a] # 0
            /\ [dev |-> Functions[g].dev, bar |-> a, pci |-> bar_regs[g][a], size |-> Functions[g].bars[a]]
                   \in prm.boards
        BY <4>1, <2>1, <1>2 DEF PciInv, Registers
      <4> QED
        BY <4>1, <4>2, <1>11
    <3> QED
      BY <3>1, <3>2
  <2> QED
    BY <2>1 DEF Registers
<1>16. ASSUME NEW r \in prm.boards
       PROVE  /\ r.dev <= prm.dev /\ (r.dev = prm.dev => r.bar < prm.bar) /\ r.bar \in Bars
              /\ r.pci >= PCI_MEM_BASE /\ r.pci + r.size <= prm.next_free /\ r.size # 0
              /\ r.pci \in Nat /\ r.size \in Nat /\ r.pci + r.size <= at
              /\ \E g \in Fns : Recorded(r, g)'
  <2>1. /\ r.pci >= PCI_MEM_BASE /\ r.pci + r.size <= prm.next_free /\ r.size # 0
        /\ r.dev \in Nat /\ r.dev <= prm.dev /\ r.bar \in Bars /\ (r.dev = prm.dev => r.bar < prm.bar)
        /\ r.pci \in Nat /\ r.size \in Nat
    BY <1>2 DEF PciInv, RecordedBoards, Boards
  <2>2. PICK g \in Fns : Recorded(r, g)
    BY DEF PciInv, RecordedBoards
  <2>3. ~(g = f /\ r.bar = prm.bar)
    BY <2>1, <2>2, <1>2, <1>4 DEF Recorded, Bars
  <2>4. bar_regs'[g][r.bar] = bar_regs[g][r.bar]
    BY <2>1, <2>3, <1>9 DEF WrittenTo
  <2>5. Recorded(r, g)'
    BY <2>2, <2>4, <1>1, <1>11, <1>13 DEF Recorded
  <2> QED
    BY <2>1, <2>5, <1>2, <1>7
<1>17. RecordedBoards'
  <2>1. ASSUME NEW r \in prm'.boards
        PROVE  /\ r.dev <= prm'.dev
               /\ r.dev = prm'.dev => prm'.pc \in Walking \cup {"enable", "header"}
               /\ r.dev = prm'.dev /\ prm'.pc \in Walking => r.bar < prm'.bar
               /\ r.pci >= PCI_MEM_BASE /\ r.pci + r.size <= prm'.next_free /\ r.size # 0
               /\ \E g \in Fns : Recorded(r, g)'
    <3>1. prm'.pc \in {"orig", "enable"} /\ (prm'.pc \in Walking => prm'.bar = prm.bar + 1) /\ prm'.dev = prm.dev
          /\ prm'.pc \in Walking \cup {"enable", "header"} /\ prm.bar \in Nat
      BY <1>2, <1>10, <1>11 DEF Walking, Bars
    <3>2. CASE r \in prm.boards
      <4>1. r.dev = prm'.dev /\ prm'.pc \in Walking => r.bar < prm'.bar
        BY <3>1, <3>2, <1>16 DEF Bars
      <4>2. r.pci + r.size <= prm'.next_free
        BY <3>2, <1>6, <1>7, <1>11, <1>16
      <4> QED
        BY <3>1, <3>2, <4>1, <4>2, <1>16
    <3>3. CASE r = new
      <4>1. r.dev = prm.dev /\ r.bar = prm.bar /\ r.pci = at /\ r.size = s
        BY <3>3
      <4>2. bar_regs'[f][prm.bar] = at
        BY <1>2, <1>4, <1>9 DEF WrittenTo
      <4>3. Recorded(r, f)'
        BY <4>1, <4>2, <1>2, <1>4, <1>5, <3>1 DEF Recorded
      <4> QED
        BY <4>1, <4>3, <3>1, <1>2, <1>4, <1>6, <1>7, <1>11, PciAssumption
    <3> QED
      BY <3>2, <3>3, <1>11
  <2> QED
    BY <2>1 DEF RecordedBoards
<1>18. BoardsApart'
  <2>1. ASSUME NEW q \in prm'.boards, NEW r \in prm'.boards
        PROVE  q = r \/ q.pci + q.size <= r.pci \/ r.pci + r.size <= q.pci
    <3>1. q \in prm.boards \/ q = new
      BY <1>11
    <3>2. r \in prm.boards \/ r = new
      BY <1>11
    <3>3. new.pci = at
      OBVIOUS
    <3> HIDE DEF new
    <3>4. CASE q \in prm.boards /\ r \in prm.boards
      BY <3>4 DEF PciInv, BoardsApart
    <3>5. CASE q \in prm.boards /\ r = new
      BY <3>3, <3>5, <1>16
    <3>6. CASE q = new /\ r \in prm.boards
      BY <3>3, <3>6, <1>16
    <3> QED
      BY <3>1, <3>2, <3>4, <3>5, <3>6
  <2> QED
    BY <2>1 DEF BoardsApart
<1>19. Progress'
  <2>1. prm'.pc \in {"orig", "enable"} /\ FnAt(prm'.dev) # {}
    BY <1>3, <1>10, <1>11
  <2> QED
    BY <2>1, NothingKnown
<1> QED
  BY <1>12, <1>14, <1>15, <1>17, <1>18, <1>19 DEF PciInv

LEMMA SetApertureStep == ASSUME PciInv, SetAperture PROVE PciInv'
<1>1. /\ prm.pc = "aperture" /\ aperture_base' = PCI_MEM_BASE /\ prm' = [prm EXCEPT !.pc = "ready"]
      /\ command' = command /\ bar_regs' = bar_regs /\ cfg' = cfg
  BY DEF SetAperture
<1>2. /\ PciTypes /\ prm \in PrmType /\ "ready" \in Places /\ prm.pc \notin Walking \cup {"enable", "header"}
  BY <1>1 DEF PciInv, PciTypes, Places, Walking
<1>3. /\ prm' \in PrmType /\ prm'.pc = "ready" /\ prm'.dev = prm.dev /\ prm'.next_free = prm.next_free
      /\ prm'.boards = prm.boards
  BY <1>1, <1>2, PcMoved
<1>4. PciTypes'
  BY <1>1, <1>2, <1>3 DEF PciTypes
<1>5. PciRest'
  BY <1>1, <1>2, <1>3, LookStep
<1>6. Progress'
  BY <1>1, <1>3 DEF Progress, Found, Walking
<1> QED
  BY <1>4, <1>5, <1>6 DEF PciInv, PciRest

\* A driver's own cycles: a read, or one the bridge rejects.
LEMMA AppCycleStep == ASSUME PciInv, AppCycle PROVE PciInv'
<1>1. PICK dev \in 0..MaxDev, off \in {COMMAND, COMMAND + 1}, width \in {1, 2, 3}, op \in {0, 2} :
          cfg_op([dev |-> dev, off |-> off, reserved |-> (off # COMMAND /\ width = 1), width |-> width,
                  data |-> cfg.data, status |-> cfg.status], op)
  BY DEF AppCycle
<1> DEFINE c == [dev |-> dev, off |-> off, reserved |-> (off # COMMAND /\ width = 1), width |-> width,
                 data |-> cfg.data, status |-> cfg.status]
<1>2. prm.pc = "ready" /\ aperture_base' = aperture_base /\ prm' = prm /\ PciTypes
  BY DEF AppCycle, PciInv
<1>3. /\ c.dev = dev /\ c.off = off /\ c.width = width /\ dev \in Nat /\ off \in Nat
      /\ c.reserved \in BOOLEAN /\ cfg.data \in Lanes /\ c.data = cfg.data
      /\ c.width \in Nat
  BY <1>2, PciAssumption DEF PciTypes, CfgType, COMMAND
<1> HIDE DEF c
<1>4. cfg_op(c, op)
  BY <1>1 DEF c
<1>5. c = [dev |-> c.dev, off |-> c.off, reserved |-> c.reserved, width |-> c.width, data |-> c.data,
           status |-> c.status]
  BY DEF c
<1>6. cfg' \in CfgType /\ command' = command /\ bar_regs' = bar_regs
  <2>1. CASE op > 1 \/ c.reserved \/ c.width \notin {1, 2, 4} \/ c.off % c.width # 0
    <3>1. cfg' = [c EXCEPT !.status = "REJECTED"] /\ command' = command /\ bar_regs' = bar_regs
      BY <1>4, <2>1 DEF cfg_op
    <3>2. cfg' = [dev |-> c.dev, off |-> c.off, reserved |-> c.reserved, width |-> c.width, data |-> c.data,
                  status |-> "REJECTED"]
      BY <1>5, <3>1
    <3>3. "REJECTED" \in Statuses /\ c.dev \in Nat /\ c.off \in Nat /\ c.data \in Lanes
      BY <1>3 DEF Statuses
    <3>4. cfg' \in CfgType
      BY ONLY <1>3, <3>2, <3>3 DEF CfgType
    <3> QED
      BY <3>1, <3>4
  <2>2. CASE ~(op > 1 \/ c.reserved \/ c.width \notin {1, 2, 4} \/ c.off % c.width # 0)
    <3> DEFINE w == Widen(config_read(dev, off, width))
    <3>1. op = 0 /\ width \in {1, 2, 4}
      BY <2>2, <1>3
    <3>2. cfg' = [c EXCEPT !.status = "COMPLETED", !.data = w] /\ command' = command /\ bar_regs' = bar_regs
      BY <1>3, <1>4, <2>2, <3>1 DEF cfg_op
    <3>3. w \in Lanes
      BY <1>2, <1>3, <3>1, WidenedRead
    <3> HIDE DEF w
    <3>4. cfg' = [dev |-> c.dev, off |-> c.off, reserved |-> c.reserved, width |-> c.width, data |-> w,
                  status |-> "COMPLETED"]
      BY <1>5, <3>2
    <3>5. "COMPLETED" \in Statuses /\ c.dev \in Nat /\ c.off \in Nat
      BY <1>3 DEF Statuses
    <3>6. cfg' \in CfgType
      BY ONLY <1>3, <3>3, <3>4, <3>5 DEF CfgType
    <3> QED
      BY <3>2, <3>6
  <2> QED
    BY <2>1, <2>2
<1>7. PciTypes'
  BY <1>2, <1>6 DEF PciTypes
<1>8. PciRest'
  BY <1>2, <1>6, LookStep DEF Walking
<1>9. Progress'
  BY <1>2 DEF PciInv, Progress, Found, Walking
<1> QED
  BY <1>7, <1>8, <1>9 DEF PciInv, PciRest

LEMMA PciInitInv == PciInit => PciInv
<1> SUFFICES ASSUME PciInit PROVE PciInv
  OBVIOUS
<1>1. /\ command = [f \in Fns |-> 0] /\ bar_regs = [f \in Fns |-> [b \in Bars |-> 0]] /\ BridgeInit
      /\ prm = [pc |-> "vendor", dev |-> 0, bar |-> 1, orig |-> Ones, size |-> 0, next_free |-> PCI_MEM_BASE,
                boards |-> {}]
  BY DEF PciInit
<1>2. prm.pc = "vendor" /\ prm.boards = {} /\ prm.next_free = PCI_MEM_BASE
  BY <1>1
<1>3. PciTypes
  <2>1. 0 \in 0..Span - 1 /\ 0 \in 0..OnesByte /\ OnesByte \in 0..OnesByte
    BY Weights
  <2>2. cfg \in CfgType
    <3>1. <<0, 0, 0, 0>> \in Lanes
      BY <2>1 DEF Lanes
    <3> QED
      BY <1>1, <3>1 DEF BridgeInit, CfgType, Statuses
  <2>3. prm \in PrmType
    <3>1. Ones \in Lanes
      BY <2>1 DEF Ones, all_ones, Lanes
    <3>2. "vendor" \in Places /\ 1 \in Bars /\ PCI_MEM_BASE \in Nat /\ 0 \in Nat /\ {} \in SUBSET Boards
      BY PciAssumption DEF Places, Bars
    <3> QED
      BY ONLY <1>1, <3>1, <3>2 DEF PrmType
  <2>4. command \in [Fns -> 0..7] /\ bar_regs \in [Fns -> [Bars -> 0..Span - 1]]
    BY <1>1, <2>1
  <2> QED
    BY <1>2, <2>2, <2>3, <2>4, PciAssumption DEF PciTypes
<1>4. Decoders
  BY <1>1, Weights DEF Decoders, HasMemory, MEMORY_ENABLE
<1>5. Registers
  BY <1>1 DEF Registers
<1>6. RecordedBoards /\ BoardsApart
  BY <1>2 DEF RecordedBoards, BoardsApart
<1>7. Progress
  BY <1>2 DEF Progress, Found, Walking
<1> QED
  BY <1>3, <1>4, <1>5, <1>6, <1>7 DEF PciInv

LEMMA PciStep == ASSUME PciInv, [PciNext]_pciVars PROVE PciInv'
<1>1. CASE UNCHANGED pciVars
  <2>1. PciTypes'
    BY <1>1 DEF PciInv, PciTypes, pciVars
  <2>2. Decoders' /\ Registers'
    BY <1>1 DEF PciInv, Decoders, Registers, HasMemory, pciVars
  <2>3. RecordedBoards' /\ BoardsApart'
    BY <1>1 DEF PciInv, RecordedBoards, Recorded, BoardsApart, HasMemory, pciVars
  <2>4. Progress'
    BY <1>1 DEF PciInv, Progress, Result, pciVars
  <2> QED
    BY <2>1, <2>2, <2>3, <2>4 DEF PciInv
<1>2. CASE PciNext
  BY <1>2, ReadVendorStep, AbsentStep, RecordFunctionStep, ReadPinStep, ReadCommandStep, ClearDecodeStep,
     BarOrigStep, BarProbeStep, BarSizeStep, BarRestoreStep, BarAssignStep, BarTooLargeStep,
     EnableDecodeStep, ReadHeaderStep, SetApertureStep, AppCycleStep DEF PciNext
<1> QED
  BY <1>1, <1>2

LEMMA PciInvariant == PciSpec => []PciInv
<1>1. PciInv /\ [PciNext]_pciVars => PciInv'
  BY PciStep
<1> QED
  BY <1>1, PciInitInv, PTL DEF PciSpec

-----------------------------------------------------------------------------
(* What answers *)

PciWindow(f, b) == [f |-> f, b |-> b, base |-> bar_window(f, b).base, len |-> bar_window(f, b).len]
BoardOf(w) == [dev |-> Functions[w.f].dev, bar |-> w.b, pci |-> w.base, size |-> w.len]

\* A window inside the region is one the library recorded.
LEMMA AnsweringIsRecorded ==
    ASSUME PciInv, NEW f \in Fns, NEW b \in Bars, bar_window(f, b).len > 0,
           bar_window(f, b).base + bar_window(f, b).len > PCI_MEM_BASE
    PROVE  /\ HasMemory(f) /\ Functions[f].bars[b] = bar_window(f, b).len
           /\ BoardOf(PciWindow(f, b)) \in prm.boards
<1>1. /\ HasMemory(f) /\ Functions[f].bars[b] > 0
      /\ bar_window(f, b).base = bar_regs[f][b] /\ bar_window(f, b).len = Functions[f].bars[b]
  BY DEF bar_window
<1>2. SizeFacts(Functions[f].bars[b]) /\ Functions[f].bars[b] <= PCI_MEM_BASE
  <2>1. IsBarSize(Functions[f].bars[b])
    BY <1>1, PciAssumption
  <2> QED
    BY <2>1, BarSizeFacts DEF IsBarSize
<1>3. bar_regs[f][b] # 0
  BY <1>1, <1>2, PciAssumption DEF SizeFacts
<1>4. ~(Functions[f].dev = prm.dev /\ prm.pc \in {"size", "restore"})
  <2>1. Functions[f].dev < prm.dev \/ (Functions[f].dev = prm.dev /\ prm.pc = "header")
    <3>1. Decoders
      BY DEF PciInv
    <3> QED
      BY <1>1, <3>1, Zenon DEF Decoders
  <2>2. Functions[f].dev \in Nat /\ prm.dev \in Nat
    BY PciAssumption DEF PciInv, PciTypes, PrmType
  <2> QED
    BY <2>1, <2>2
<1>5. [dev |-> Functions[f].dev, bar |-> b, pci |-> bar_regs[f][b], size |-> Functions[f].bars[b]] \in prm.boards
  BY <1>3, <1>4 DEF PciInv, Registers
<1> QED
  BY <1>1, <1>5 DEF BoardOf, PciWindow

\* Different windows are different boards.
LEMMA BoardsTellWindows ==
    ASSUME NEW f \in Fns, NEW b \in Bars, NEW g \in Fns, NEW a \in Bars,
           BoardOf(PciWindow(f, b)) = BoardOf(PciWindow(g, a))
    PROVE  f = g /\ b = a
<1>1. Functions[f].dev = Functions[g].dev /\ b = a
  BY DEF BoardOf, PciWindow
<1> QED
  BY <1>1, PciAssumption

LEMMA NothingAnswersTwice == ASSUME PciInv PROVE NoTwoFunctionsAnswer
<1>1. ASSUME prm.pc \in {"size", "restore", "assign"}, NEW f \in FnAt(prm.dev), NEW b \in Bars
      PROVE  bar_window(f, b).len = 0
  <2>1. f \in Fns /\ Functions[f].dev = prm.dev /\ prm.dev \in Nat
    BY <1>1, OneFunction DEF PciInv, PciTypes, PrmType
  <2>2. ~HasMemory(f)
    <3>1. HasMemory(f) => Functions[f].dev < prm.dev \/ (Functions[f].dev = prm.dev /\ prm.pc = "header")
      BY <2>1 DEF PciInv, Decoders
    <3>2. ~(Functions[f].dev < prm.dev) /\ prm.pc # "header"
      BY <1>1, <2>1
    <3> QED
      BY <3>1, <3>2
  <2> QED
    BY <2>2 DEF bar_window
<1>2. ASSUME NEW x \in Answering, NEW y \in Answering, x # y
      PROVE  x.base + x.len <= y.base \/ y.base + y.len <= x.base
  <2>1. PICK f \in Fns, b \in Bars : x = PciWindow(f, b)
    BY DEF Answering, PciWindow
  <2>2. PICK g \in Fns, a \in Bars : y = PciWindow(g, a)
    BY DEF Answering, PciWindow
  <2>3. BoardOf(x) \in prm.boards
    <3>1. bar_window(f, b).len > 0 /\ bar_window(f, b).base + bar_window(f, b).len > PCI_MEM_BASE
      BY <2>1 DEF Answering, PciWindow
    <3> QED
      BY <2>1, <3>1, AnsweringIsRecorded
  <2>4. BoardOf(y) \in prm.boards
    <3>1. bar_window(g, a).len > 0 /\ bar_window(g, a).base + bar_window(g, a).len > PCI_MEM_BASE
      BY <2>2 DEF Answering, PciWindow
    <3> QED
      BY <2>2, <3>1, AnsweringIsRecorded
  <2>5. BoardOf(x) # BoardOf(y)
    <3>1. f # g \/ b # a
      BY <1>2, <2>1, <2>2
    <3> QED
      BY <3>1, <2>1, <2>2, BoardsTellWindows
  <2>6. \/ BoardOf(x).pci + BoardOf(x).size <= BoardOf(y).pci
        \/ BoardOf(y).pci + BoardOf(y).size <= BoardOf(x).pci
    BY <2>3, <2>4, <2>5 DEF PciInv, BoardsApart
  <2> QED
    BY <2>6 DEF BoardOf
<1> QED
  BY <1>1, <1>2 DEF NoTwoFunctionsAnswer

\* An address of a recorded board reaches that board's function and BAR, and
\* no other window covers it.
LEMMA BoardAnswers ==
    ASSUME PciInv, prm.pc = "ready", NEW r \in prm.boards, NEW rel \in 0..r.size - 1
    PROVE  \E f \in FnAt(r.dev) : mem_target(r.pci + rel) = [f |-> f, b |-> r.bar, rel |-> rel]
<1>1. /\ r.dev \in Nat /\ r.bar \in Bars /\ r.pci \in Nat /\ r.size \in Nat /\ r.size # 0
      /\ r.pci >= PCI_MEM_BASE /\ r.pci + r.size <= prm.next_free /\ r.dev <= prm.dev /\ r.dev # prm.dev
      /\ prm.dev \in Nat /\ prm.next_free \in Nat /\ prm.next_free <= PCI_MEM_BASE + PCI_MEM_BYTES
  BY DEF PciInv, PciTypes, PrmType, Boards, RecordedBoards, Walking
<1>2. PICK f \in Fns : Recorded(r, f)
  BY DEF PciInv, RecordedBoards
<1>3. /\ Functions[f].dev = r.dev /\ f \in FnAt(r.dev) /\ HasMemory(f)
      /\ bar_window(f, r.bar) = [base |-> r.pci, len |-> r.size]
  BY <1>1, <1>2 DEF Recorded, FnAt, bar_window
<1> DEFINE addr == r.pci + rel
           h0 == <<f, r.bar>>
<1>4. addr >= PCI_MEM_BASE /\ addr >= r.pci /\ addr - r.pci = rel /\ rel < r.size /\ addr \in Nat
  BY <1>1, PciAssumption
<1> HIDE DEF addr
<1>5. h0 \in Hits(addr)
  BY <1>1, <1>3, <1>4 DEF Hits
<1>6. ASSUME NEW h \in Hits(addr) PROVE h = h0
  <2> DEFINE w == bar_window(h[1], h[2])
  <2>1. h \in Fns \X Bars /\ addr >= w.base /\ addr - w.base < w.len
    BY DEF Hits
  <2>2. h[1] \in Fns /\ h[2] \in Bars /\ h = <<h[1], h[2]>>
    BY <2>1
  <2>3. w.base \in Nat /\ w.len \in Nat
    <3>1. bar_regs[h[1]][h[2]] \in Nat
      BY <2>2, Weights DEF PciInv, PciTypes
    <3>2. Functions[h[1]].bars[h[2]] > 0 => Functions[h[1]].bars[h[2]] \in Nat
      <4>1. Functions[h[1]].bars[h[2]] = 0 \/ SizeFacts(Functions[h[1]].bars[h[2]])
        BY <2>2, PciAssumption, BarSizeFacts
      <4> QED
        BY <4>1 DEF SizeFacts
    <3> QED
      BY <3>1, <3>2 DEF bar_window
  <2>4. w.len > 0 /\ w.base + w.len > PCI_MEM_BASE
    BY <2>1, <2>3, <1>4, PciAssumption
  <2> DEFINE q == BoardOf(PciWindow(h[1], h[2]))
  <2>5. q \in prm.boards
    BY <2>2, <2>4, AnsweringIsRecorded
  <2>6. q.pci = w.base /\ q.size = w.len /\ q.dev = Functions[h[1]].dev /\ q.bar = h[2]
    BY DEF BoardOf, PciWindow
  <2>7. q = r \/ q.pci + q.size <= r.pci \/ r.pci + r.size <= q.pci
    BY <2>5 DEF PciInv, BoardsApart
  <2> HIDE DEF w, q
  <2>8. q = r
    BY <2>1, <2>3, <2>6, <2>7, <1>1, <1>4
  <2>9. h[1] = f /\ h[2] = r.bar
    BY <2>2, <2>6, <2>8, <1>3, PciAssumption
  <2> QED
    BY <2>2, <2>9
<1>7. Hits(addr) = {h0}
  BY <1>5, <1>6
<1>8. (CHOOSE x \in Hits(addr) : \A y \in Hits(addr) : x[1] < y[1] \/ (x[1] = y[1] /\ x[2] <= y[2])) = h0
  <2>1. h0[1] = h0[1] /\ h0[2] <= h0[2]
    BY <1>1 DEF Bars
  <2> HIDE DEF h0
  <2> QED
    BY <1>7, <2>1
<1>9. mem_target(addr) = [f |-> f, b |-> r.bar, rel |-> rel]
  <2>1. Hits(addr) # {} /\ h0[1] = f /\ h0[2] = r.bar
    BY <1>7
  <2>2. addr - bar_window(h0[1], h0[2]).base = rel
    BY <2>1, <1>3, <1>4
  <2> HIDE DEF h0
  <2> QED
    BY <1>8, <2>1, <2>2 DEF mem_target
<1> QED
  BY <1>3, <1>9 DEF addr

\* So a read of any width returns the memory behind the window, from its offset.
LEMMA BoardReads ==
    ASSUME PciInv, prm.pc = "ready", NEW r \in prm.boards, NEW rel \in 0..r.size - 1, NEW n \in Nat
    PROVE  mem_read(r.pci + rel, n) = [k \in 1..n |-> (rel + k - 1) % Radix]
<1>1. PICK f : mem_target(r.pci + rel) = [f |-> f, b |-> r.bar, rel |-> rel]
  BY BoardAnswers
<1>2. r.bar # 0
  BY DEF PciInv, PciTypes, PrmType, Boards, Bars
<1>3. mem_target(r.pci + rel) # NoTarget /\ mem_target(r.pci + rel).rel = rel
  BY <1>1, <1>2 DEF NoTarget
<1> QED
  BY <1>3 DEF mem_read

LEMMA SwappedBack ==
    ASSUME NEW n \in Nat, NEW S, NEW s \in [1..n -> S]
    PROVE  AddressOrder(swap_lanes(s)) = s
<1>1. s \in Seq(S) /\ Len(s) = n
  BY FunctionIsSeq, Zenon
<1>2. Reverse(s) = [i \in 1..n |-> s[(n - i) + 1]]
  BY <1>1 DEF Reverse
<1>3. Reverse(s) \in [1..n -> S]
  BY <1>2
<1> DEFINE t == Reverse(s)
<1>4. t \in [1..n -> S] /\ \A i \in 1..n : t[i] = s[(n - i) + 1]
  BY <1>2, <1>3
<1> HIDE DEF t
<1>5. Len(t) = n
  BY <1>4, FunctionIsSeq, Zenon
<1>6. Reverse(t) = [i \in 1..n |-> t[(n - i) + 1]]
  BY <1>5 DEF Reverse
<1>7. \A i \in 1..n : t[(n - i) + 1] = s[i]
  <2>1. ASSUME NEW i \in 1..n PROVE (n - i) + 1 \in 1..n /\ (n - ((n - i) + 1)) + 1 = i
    OBVIOUS
  <2> QED
    BY <1>4, <2>1
<1>8. Reverse(t) = s
  BY <1>6, <1>7
<1> QED
  BY <1>8 DEF AddressOrder, swap_lanes, t

LEMMA RecordedResolve == ASSUME PciInv PROVE RecordedBarsResolve
<1> SUFFICES ASSUME prm.pc = "ready" PROVE RecordedBarsResolve
  BY DEF RecordedBarsResolve
<1>1. aperture_base = PCI_MEM_BASE /\ aperture_base \in Nat
  BY PciAssumption DEF PciInv, Progress
<1>2. ASSUME NEW r \in prm.boards
      PROVE  /\ r.size \in Nat /\ r.size >= 16 /\ r.pci \in Nat
  <2>1. PICK f \in Fns : Functions[f].bars[r.bar] = r.size
    BY DEF PciInv, RecordedBoards, Recorded
  <2>2. r.size # 0 /\ r.bar \in Bars /\ r.pci \in Nat
    BY DEF PciInv, PciTypes, PrmType, Boards, RecordedBoards
  <2>3. SizeFacts(r.size)
    BY <2>1, <2>2, PciAssumption, BarSizeFacts
  <2> QED
    BY <2>2, <2>3 DEF SizeFacts
<1>3. ASSUME NEW r \in prm.boards, NEW rel \in {0, r.size - 4}
      PROVE  /\ mem_target(r.pci + rel).f \in FnAt(r.dev) /\ mem_target(r.pci + rel).b = r.bar
             /\ mem_target(r.pci + rel).rel = rel
  <2>1. rel \in 0..r.size - 1
    BY <1>2, <1>3
  <2>2. PICK f \in FnAt(r.dev) : mem_target(r.pci + rel) = [f |-> f, b |-> r.bar, rel |-> rel]
    BY <2>1, BoardAnswers
  <2> QED
    BY <2>2
<1>4. ASSUME NEW r \in prm.boards, NEW rel \in {0, r.size - 4}, NEW n \in {2, 4}
      PROVE  AddressOrder(read_aperture_sized(r.pci + rel - aperture_base, n))
                 = [k \in 1..n |-> read_aperture(r.pci + rel - aperture_base + k - 1)]
  <2>1. rel \in 0..r.size - 1 /\ n \in Nat /\ rel + n <= r.size /\ 1 \in Nat /\ r.pci \in Nat /\ rel \in Nat
    BY <1>2, <1>4
  <2> DEFINE s == [k \in 1..n |-> (rel + k - 1) % Radix]
  <2>2. mem_read(r.pci + rel, n) = s
    BY <2>1, BoardReads
  <2>3. aperture_base + (r.pci + rel - aperture_base) = r.pci + rel
    BY <1>1, <2>1
  <2>4. s \in [1..n -> Int]
    <3>1. \A k \in 1..n : (rel + k - 1) % Radix \in Int
      BY <2>1, Weights
    <3> QED
      BY <3>1
  <2>5. read_aperture_sized(r.pci + rel - aperture_base, n) = swap_lanes(s)
    BY <2>2, <2>3 DEF read_aperture_sized
  <2>6. AddressOrder(read_aperture_sized(r.pci + rel - aperture_base, n)) = s
    <3> HIDE DEF s
    <3> QED
      BY <2>1, <2>4, <2>5, SwappedBack, Zenon
  <2>7. ASSUME NEW k \in 1..n
        PROVE  read_aperture(r.pci + rel - aperture_base + k - 1) = (rel + k - 1) % Radix
    <3> DEFINE j == rel + k - 1
    <3>1. j \in 0..r.size - 1
      BY <1>2, <2>1
    <3>2. aperture_base + (r.pci + rel - aperture_base + k - 1) = r.pci + j
      BY <1>1, <2>1
    <3> HIDE DEF j
    <3>3. mem_read(r.pci + j, 1) = [i \in 1..1 |-> (j + i - 1) % Radix]
      BY <2>1, <3>1, BoardReads
    <3>4. mem_read(r.pci + j, 1)[1] = j % Radix
      <4>1. 1 \in 1..1 /\ j + 1 - 1 = j
        BY <3>1
      <4> QED
        BY <3>3, <4>1
    <3> QED
      BY <3>2, <3>4 DEF read_aperture, j
  <2> QED
    BY <2>6, <2>7
<1>5. ASSUME NEW w \in Answering PROVE \E r \in prm.boards : w.base = r.pci /\ w.len = r.size
  <2>1. PICK f \in Fns, b \in Bars : w = PciWindow(f, b)
    BY DEF Answering, PciWindow
  <2>2. bar_window(f, b).len > 0 /\ bar_window(f, b).base + bar_window(f, b).len > PCI_MEM_BASE
    BY <2>1 DEF Answering, PciWindow
  <2>3. BoardOf(w) \in prm.boards
    BY <2>1, <2>2, AnsweringIsRecorded
  <2> QED
    BY <2>3 DEF BoardOf
<1> QED
  BY <1>3, <1>4, <1>5 DEF RecordedBarsResolve

\* While prometheus.library probes and moves a function's base address
\* registers that function decodes nothing, and no two functions of the bus
\* ever answer the same address of the PCI memory region: for every set of
\* functions, sizes and numbering the bus may hold, whatever configuration
\* cycles drivers run once it is done (prometheus_library.c assign_bars,
\* pci.rs mem_read).
THEOREM NoTwoFunctionsEverAnswer == PciSpec => []NoTwoFunctionsAnswer
BY PciInvariant, NothingAnswersTwice, PTL

\* Once the library is up, every base address register it recorded is
\* reached through the aperture at the address it gives its drivers, its first
\* and its last long word in every width in address order (and, by
\* BoardAnswers, each byte between them), and nothing else answers there
\* (prometheus_library.c assign_bars, pcibridge.rs read_aperture_sized).
THEOREM RecordedBarsAlwaysResolve == PciSpec => []RecordedBarsResolve
BY PciInvariant, RecordedResolve, PTL
=============================================================================
