------------------------------ MODULE VpDecoder ------------------------------
(***************************************************************************)
(* m68k-vp's front end: a basic block decoded into IR (decoder.rs, ir.rs)  *)
(* and the two passes that run over it (passes.rs), with the flat guest    *)
(* memory (mem.rs).                                                        *)
(*                                                                         *)
(* Instruction words are records: the field layout of an opcode is left    *)
(* out.  A byte is ByteBits wide, a word 2 and a long 4 of those.  Code is *)
(* read-only: the benchmark never writes to it.                            *)
(***************************************************************************)
EXTENDS Integers, Sequences, SequencesExt, Bitwise

CONSTANTS
    ByteBits,     \* bits of a byte (8 in the code)
    MemBytes,     \* bytes of guest RAM, a power of two
    MaxOps,       \* ir.rs MAX_OPS
    Code          \* instruction address -> instruction record

bytes(size) == CASE size = "B" -> 1 [] size = "W" -> 2 [] size = "L" -> 4
Mod(size) == 2 ^ (ByteBits * bytes(size))
sign_bit(size) == Mod(size) \div 2
Wrap(v) == v % Mod("L")
Signed(v, size) ==
    LET u == v % Mod(size) IN IF u >= sign_bit(size) THEN u - Mod(size) ELSE u

F_ALL == {"C", "V", "Z", "N", "X"}
Flag(f, cond) == IF cond THEN {f} ELSE {}

-----------------------------------------------------------------------------
(* mem.rs: big-endian accesses to a flat buffer that wraps. *)

idx(addr) == addr % MemBytes

ReadBytes(m, addr, n) ==
    FoldLeft(LAMBDA v, k : v * Mod("B") + m[idx(Wrap(addr + k - 1))], 0, [k \in 1..n |-> k])

WriteBytes(m, addr, value, n) ==
    FoldLeft(LAMBDA mm, k :
                [mm EXCEPT ![idx(Wrap(addr + k - 1))] = (value \div Mod("B") ^ (n - k)) % Mod("B")],
             m, [k \in 1..n |-> k])

read_sized(m, addr, size) == ReadBytes(m, addr, bytes(size))
write_sized(m, addr, value, size) == WriteBytes(m, addr, value, bytes(size))

-----------------------------------------------------------------------------
(* decoder.rs: one instruction to its IR, one block to a sequence of them. *)

areg(n) == 8 + n
IrInstr(op, pc, len) == <<[op |-> op, pc |-> pc, len |-> len, retire |-> TRUE]>>

(* An operand takes extension words: two bytes for a displacement or a short
   immediate, four for a long immediate. *)
ExtBytes(operand, size) ==
    CASE operand.m = "disp" -> 2
      [] operand.m = "imm"  -> IF size = "L" THEN 4 ELSE 2
      [] OTHER -> 0

movem_reg_for_bit(predec, k) == IF predec THEN 15 - k ELSE k

(* One IR move per selected register, lowest mask bit first; only the last
   one retires. *)
decode_movem(in, pc) ==
    LET bits == SetToSortSeq(in.mask, <)
        an == areg(in.an)
        Move(r) == IF in.store
                   THEN [o |-> "MoveMem", src |-> [m |-> "reg", r |-> r],
                         dst |-> [m |-> "dec", r |-> an], size |-> "L"]
                   ELSE [o |-> "LoadReg", dst |-> r, src |-> [m |-> "inc", r |-> an], size |-> "L"]
    IN  IF bits = << >> THEN IrInstr([o |-> "Nop"], pc, 4)
        ELSE [i \in 1..Len(bits) |->
                 [op |-> Move(movem_reg_for_bit(in.store, bits[i])),
                  pc |-> pc, len |-> 4, retire |-> i = Len(bits)]]

decode_bitfield(in) ==
    [o |-> "Bitfield", op |-> in.i, base |-> areg(in.an), reg |-> in.r,
     offset |-> in.offset, width |-> IF in.width = 0 THEN 4 * ByteBits ELSE in.width]

decode_branch_target(in, pc) == Wrap(pc + 2 + in.d)

DecodeControl(in, pc) ==
    LET len == IF in.i \in {"bne", "bsr"} /\ in.wide THEN 4 ELSE 2 IN
    <<CASE in.i = "rts" -> IrInstr([o |-> "Rts"], pc, 2)
        [] in.i = "nop" -> IrInstr([o |-> "Nop"], pc, 2)
        [] in.i = "bne" -> IrInstr([o |-> "Bne", target |-> decode_branch_target(in, pc),
                                    fallthrough |-> Wrap(pc + len)], pc, len)
        [] in.i = "bsr" -> IrInstr([o |-> "Bsr", target |-> decode_branch_target(in, pc)], pc, len),
      len, in.i # "nop">>

DecodeQuick(in, pc) ==
    <<IF in.i = "moveq" THEN IrInstr([o |-> "MoveqImm", dst |-> in.r, imm |-> in.n], pc, 2)
      ELSE IrInstr([o |-> "AluImm", op |-> IF in.i = "subq" THEN "Sub" ELSE "Add", dst |-> in.r,
                    imm |-> IF in.n = 0 THEN 8 ELSE in.n, size |-> in.size, flags |-> F_ALL], pc, 2),
      2, FALSE>>

(* decode_src, decode_dst: a register operand or an effective address. *)
DecodeMove(in, pc) ==
    LET len == 2 + ExtBytes(in.src, in.size) + ExtBytes(in.dst, in.size)
        op == IF in.dst.m = "reg"
              THEN IF in.src.m = "reg"
                   THEN [o |-> "RegMove", dst |-> in.dst.r, src |-> in.src.r]
                   ELSE [o |-> "LoadReg", dst |-> in.dst.r, src |-> in.src, size |-> in.size]
              ELSE [o |-> "MoveMem", src |-> in.src, dst |-> in.dst, size |-> in.size]
    IN  <<IrInstr(op, pc, len), len, FALSE>>

DecodeMisc(in, pc) ==
    CASE in.i = "lea"   -> LET len == 2 + ExtBytes(in.src, "L")
                           IN  <<IrInstr([o |-> "Lea", dst |-> areg(in.an), ea |-> in.src], pc, len),
                                 len, FALSE>>
      [] in.i = "movem" -> <<decode_movem(in, pc), 4, FALSE>>
      [] OTHER          -> <<IrInstr([o |-> "AluUnary", op |-> in.i, dst |-> in.r, size |-> "L",
                                      flags |-> F_ALL], pc, 2), 2, FALSE>>

(* eor is the one operation whose register field names the source. *)
DecodeBinary(in, pc) ==
    <<IF in.i \in {"mulu", "muls", "divu", "divs"}
      THEN IrInstr([o |-> "MulDivOp", op |-> in.i, dst |-> in.field, src |-> in.ea], pc, 2)
      ELSE IrInstr([o |-> "AluBinReg", op |-> in.i,
                    dst |-> IF in.i = "eor" THEN in.ea ELSE in.field,
                    src |-> IF in.i = "eor" THEN in.field ELSE in.ea,
                    size |-> "L", flags |-> F_ALL], pc, 2),
      2, FALSE>>

DecodeShift(in, pc) ==
    IF in.i \in {"bfextu", "bfins"} THEN <<IrInstr(decode_bitfield(in), pc, 4), 4, FALSE>>
    ELSE <<IrInstr([o |-> "Shift", left |-> in.left, arith |-> in.arith, dst |-> in.r,
                    count |-> IF in.n = 0 THEN 8 ELSE in.n, size |-> "L", flags |-> F_ALL], pc, 2),
           2, FALSE>>

(* decode_one: <<IR, length, terminator>>. *)
decode_one(pc) ==
    LET in == Code[pc] IN
    CASE in.i \in {"rts", "nop", "bne", "bsr"} -> DecodeControl(in, pc)
      [] in.i \in {"addq", "subq", "moveq"} -> DecodeQuick(in, pc)
      [] in.i = "move" -> DecodeMove(in, pc)
      [] in.i \in {"tst", "not", "neg", "extl", "lea", "movem"} -> DecodeMisc(in, pc)
      [] in.i \in {"shift", "bfextu", "bfins"} -> DecodeShift(in, pc)
      [] OTHER -> DecodeBinary(in, pc)

RECURSIVE DecodeFrom(_, _)
DecodeFrom(block, pc) ==
    LET one == decode_one(pc)
        grown == block \o one[1]
    IN  IF one[3] \/ Len(grown) >= MaxOps THEN grown ELSE DecodeFrom(grown, Wrap(pc + one[2]))

decode_block(pc) == DecodeFrom(<< >>, pc)

-----------------------------------------------------------------------------
(* passes.rs *)

(* As flag_liveness below, but the branch's need is forgotten: every flag
   producer is taken for dead. *)
flag_liveness_blind(block) ==
    [i \in 1..Len(block) |->
        IF block[i].op.o \in {"AluBinReg", "AluImm", "AluUnary", "Shift"}
        THEN [block[i] EXCEPT !.op.flags = {}] ELSE block[i]]

(* Scanning back from the end: a bne needs Z, and whichever flag producer is
   met first takes what is needed and leaves nothing needed before it. *)
flag_liveness(block) ==
    LET Producer(op) == op.o \in {"AluBinReg", "AluImm", "AluUnary", "Shift"}
        Visit(s, k) ==
            LET i == Len(block) + 1 - k
                op == s.block[i].op
            IN  CASE op.o = "Bne" -> [s EXCEPT !.needed = {"Z"}]
                  [] Producer(op) -> [block |-> [s.block EXCEPT ![i].op.flags = @ \cap s.needed],
                                      needed |-> {}]
                  [] OTHER -> s
    IN  FoldLeft(Visit, [block |-> block, needed |-> {}], [k \in 1..Len(block) |-> k]).block

peephole(block) ==
    [i \in 1..Len(block) |->
        IF block[i].op.o = "Lea" /\ block[i].op.ea.m = "ind" /\ block[i].op.ea.r = block[i].op.dst
        THEN [block[i] EXCEPT !.op = [o |-> "Nop"]] ELSE block[i]]

run_passes(block) == peephole(flag_liveness(block))

=============================================================================
