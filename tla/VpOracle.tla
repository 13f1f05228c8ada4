------------------------------ MODULE VpOracle ------------------------------
(***************************************************************************)
(* The processor m68k-vp is compared with: what one instruction of the     *)
(* kernels does to registers, memory, Z and the program counter on a       *)
(* 68040, without blocks, IR or deferred flags.  m68k-rs is not part of    *)
(* the repository; this is what the crate's differential test relies on.   *)
(***************************************************************************)
EXTENDS VpDecoder

(* Registers a movem names, lowest first: they lie in memory in that order. *)
MovemRegs(in) == SetToSortSeq({IF in.store THEN 15 - k ELSE k : k \in in.mask}, <)

(* Where an operand is and what the access leaves in its address register. *)
Address(reg, ea, size) ==
    CASE ea.m = "dec" -> Wrap(reg[ea.r] - bytes(size))
      [] ea.m = "disp" -> Wrap(reg[ea.r] + ea.d)
      [] OTHER -> reg[ea.r]
Stepped(reg, ea, size) ==
    CASE ea.m = "inc" -> [reg EXCEPT ![ea.r] = Wrap(@ + bytes(size))]
      [] ea.m = "dec" -> [reg EXCEPT ![ea.r] = Wrap(@ - bytes(size))]
      [] OTHER -> reg

(* Bit k of memory seen as one string of bits from byte `base` on, the most
   significant bit of a byte first. *)
MemBit(m, base, k) ==
    (m[idx(Wrap(base + k \div ByteBits))] \div 2 ^ (ByteBits - 1 - (k % ByteBits))) % 2
FieldWidth(in) == IF in.width = 0 THEN 4 * ByteBits ELSE in.width
Field(m, base, in) ==
    FoldLeft(LAMBDA v, k : 2 * v + MemBit(m, base, in.offset + k - 1), 0,
             [k \in 1..FieldWidth(in) |-> k])
WithField(m, base, in, value) ==
    LET PutBit(mm, k) ==
            LET at == in.offset + k - 1
                weight == 2 ^ (ByteBits - 1 - (at % ByteBits))
                bit == (value \div 2 ^ (FieldWidth(in) - k)) % 2
            IN  [mm EXCEPT ![idx(Wrap(base + at \div ByteBits))] =
                               @ + (bit - MemBit(mm, base, at)) * weight]
    IN  FoldLeft(PutBit, m, [k \in 1..FieldWidth(in) |-> k])

(* The quotient and remainder of a division: the remainder has the dividend's
   sign and is smaller than the divisor. *)
Divides(a, b, q, r) ==
    LET Abs(v) == IF v < 0 THEN -v ELSE v
    IN  a = q * b + r /\ Abs(r) < Abs(b) /\ (r = 0 \/ (r < 0) = (a < 0))

Computed(in, a, b) ==
    CASE in.i = "add" -> Wrap(a + b)
      [] in.i \in {"sub", "cmp"} -> Wrap(a - b)
      [] in.i = "and" -> a & b
      [] in.i = "or"  -> a | b
      [] in.i = "eor" -> a ^^ b
      [] in.i = "mulu" -> Wrap((a % Mod("W")) * (b % Mod("W")))
      [] in.i = "muls" -> Wrap(Signed(a, "W") * Signed(b, "W"))
      [] in.i \in {"divu", "divs"} ->
            LET x == IF in.i = "divs" THEN Signed(a, "L") ELSE a
                y == IF in.i = "divs" THEN Signed(b, "W") ELSE b % Mod("W")
                words == IF in.i = "divs" THEN -sign_bit("W")..sign_bit("W") - 1 ELSE 0..Mod("W") - 1
                qs == {q \in words : Divides(x, y, q, x - q * y)}
            IN  IF qs = {} THEN a
                ELSE LET q == CHOOSE q \in qs : TRUE
                     IN  ((x - q * y) % Mod("W")) * Mod("W") + (q % Mod("W"))

(* One instruction.  o is [reg, pc, z, mem]. *)
Execute(o, in, len) ==
    LET on == [o EXCEPT !.pc = Wrap(@ + len)]
        Put(r, v, size) == [on EXCEPT !.reg[r] = (@ - (@ % Mod(size))) + (v % Mod(size)),
                                      !.z = v % Mod(size) = 0]
    IN  CASE in.i = "nop" -> on
          [] in.i = "moveq" -> Put(in.r, in.n, "L")
          [] in.i = "addq" -> Put(in.r, o.reg[in.r] + (IF in.n = 0 THEN 8 ELSE in.n), in.size)
          [] in.i = "subq" -> Put(in.r, o.reg[in.r] - (IF in.n = 0 THEN 8 ELSE in.n), in.size)
          [] in.i = "tst" -> [on EXCEPT !.z = o.reg[in.r] = 0]
          [] in.i = "not" -> Put(in.r, -1 - o.reg[in.r], "L")
          [] in.i = "neg" -> Put(in.r, -o.reg[in.r], "L")
          [] in.i = "extl" -> Put(in.r, Signed(o.reg[in.r], "W"), "L")
          [] in.i = "shift" ->
                LET n == IF in.n = 0 THEN 8 ELSE in.n
                    a == o.reg[in.r]
                IN  Put(in.r, IF in.left THEN a * 2 ^ n
                              ELSE (IF in.arith THEN Signed(a, "L") ELSE a) \div 2 ^ n, "L")
          [] in.i = "lea" -> [on EXCEPT !.reg[areg(in.an)] = Address(o.reg, in.src, "L")]
          [] in.i = "bfextu" -> Put(in.r, Field(o.mem, o.reg[areg(in.an)], in), "L")
          [] in.i = "bfins" ->
                [on EXCEPT !.mem = WithField(@, o.reg[areg(in.an)], in, o.reg[in.r]),
                           !.z = o.reg[in.r] % 2 ^ FieldWidth(in) = 0]
          [] in.i = "movem" ->
                LET regs == MovemRegs(in)
                    an == areg(in.an)
                    size == 4 * Len(regs)
                IN  IF in.store
                    THEN [on EXCEPT !.reg[an] = Wrap(@ - size),
                                    !.mem = FoldLeft(LAMBDA m, k : write_sized(m,
                                                Wrap(o.reg[an] - size + 4 * (k - 1)), o.reg[regs[k]], "L"),
                                             @, [k \in 1..Len(regs) |-> k])]
                    ELSE [on EXCEPT !.reg = [r \in 0..15 |->
                             IF r = an THEN Wrap(o.reg[an] + size)
                             ELSE IF \E k \in 1..Len(regs) : regs[k] = r
                             THEN read_sized(o.mem, Wrap(o.reg[an] + 4 *
                                     ((CHOOSE k \in 1..Len(regs) : regs[k] = r) - 1)), "L")
                             ELSE o.reg[r]]]
          [] in.i = "move" ->
                LET isMem == in.src.m \notin {"reg", "imm"}
                    v == CASE in.src.m = "reg" -> o.reg[in.src.r]
                           [] in.src.m = "imm" -> in.src.v
                           [] OTHER -> read_sized(o.mem, Address(o.reg, in.src, in.size), in.size)
                    reg == IF isMem THEN Stepped(o.reg, in.src, in.size) ELSE o.reg
                IN  IF in.dst.m # "reg"
                    THEN [on EXCEPT !.reg = Stepped(reg, in.dst, in.size), !.z = v % Mod(in.size) = 0,
                                    !.mem = write_sized(@, Address(reg, in.dst, in.size), v, in.size)]
                    ELSE IF in.dst.r >= 8 THEN [on EXCEPT !.reg = [reg EXCEPT ![in.dst.r] = v]]
                    ELSE [on EXCEPT !.reg = [reg EXCEPT ![in.dst.r] = (@ - (@ % Mod(in.size))) + (v % Mod(in.size))],
                                    !.z = v % Mod(in.size) = 0]
          [] in.i = "bne" -> [on EXCEPT !.pc = IF o.z THEN @ ELSE Wrap(o.pc + 2 + in.d)]
          [] in.i = "bsr" -> [on EXCEPT !.pc = Wrap(o.pc + 2 + in.d), !.reg[15] = Wrap(@ - 4),
                                        !.mem = write_sized(@, Wrap(o.reg[15] - 4), Wrap(o.pc + len), "L")]
          [] in.i = "rts" -> [on EXCEPT !.pc = read_sized(o.mem, o.reg[15], "L"), !.reg[15] = Wrap(@ + 4)]
          [] OTHER ->
                LET dst == IF in.i = "eor" THEN in.ea ELSE in.field
                    src == IF in.i = "eor" THEN in.field ELSE in.ea
                    v == Computed(in, o.reg[dst], o.reg[src])
                IN  IF in.i = "cmp" THEN [on EXCEPT !.z = v = 0] ELSE Put(dst, v, "L")

InstrBytes(in) ==
    CASE in.i = "move" -> 2 + ExtBytes(in.src, in.size) + ExtBytes(in.dst, in.size)
      [] in.i = "lea" -> 2 + ExtBytes(in.src, "L")
      [] in.i \in {"movem", "bfextu", "bfins"} -> 4
      [] in.i \in {"bne", "bsr"} /\ in.wide -> 4
      [] OTHER -> 2

(* n instructions in a row, up to the watched return address. *)
Executed(o, n) ==
    FoldLeft(LAMBDA s, k : IF s.pc \in DOMAIN Code
                              THEN Execute(s, Code[s.pc], InstrBytes(Code[s.pc])) ELSE s, o,
             [k \in 1..n |-> k])

=============================================================================
