------------------------------- MODULE VpCore -------------------------------
(***************************************************************************)
(* m68k-vp's back end: the direct-mapped block cache, the interpreter that *)
(* executes a block as a unit (interp.rs) and the harness that calls       *)
(* kernels on it (cpu-bench).  Beside it runs the processor the crate's    *)
(* tests take as the oracle (m68k-rs), one instruction at a time and with  *)
(* Z set by every instruction that sets it on a 68040.                     *)
(***************************************************************************)
EXTENDS VpOracle

CONSTANTS
    CacheSlots,   \* interp.rs CACHE_SLOTS
    Kernels,      \* records [entry, instrs_per_iter, fixed_overhead, buffers]
    Iterations,   \* outer counts a call is made with
    Budgets,      \* instruction budgets run() is given
    Fills,        \* contents of d1-d7 a call finds
    MaxCalls      \* bound: calls on one core

RETURN_SENTINEL == 0
STACK_TOP == MemBytes - 4
BUF_A == 0
BUF_B == 8

VARIABLES
    cpu,       \* VpCpu: reg (0-7 data, 8-15 address), pc, flags
    mem,       \* VpMemory of the vp core
    cache,     \* slot -> [tag, block], NoBlock while it is not valid
    call,      \* the harness: [phase, kernel, iterations, budget, executed, total, calls]
    oracle     \* the reference processor: [reg, pc, z, mem]

vars == <<cpu, mem, cache, call, oracle>>

NoBlock == [tag |-> -1, block |-> << >>]

-----------------------------------------------------------------------------
(* interp.rs: the cache. *)

slot_index(pc) == (pc \div 2) % CacheSlots
flush(slots) == [i \in DOMAIN slots |-> NoBlock]

get_or_decode(slots, pc) ==
    IF slots[slot_index(pc)].tag = pc THEN slots
    ELSE [slots EXCEPT ![slot_index(pc)] = [tag |-> pc, block |-> run_passes(decode_block(pc))]]

-----------------------------------------------------------------------------
(* interp.rs: one IR operation.  s is [reg, flags, mem, retired, next]. *)

set_reg_sized(reg, r, value, size) ==
    [reg EXCEPT ![r] = IF r < 8 THEN (@ - (@ % Mod(size))) + (value % Mod(size)) ELSE value]

resolve_ea(reg, ea, size) ==
    CASE ea.m = "ind"  -> [addr |-> reg[ea.r], reg |-> reg]
      [] ea.m = "inc"  -> [addr |-> reg[ea.r], reg |-> [reg EXCEPT ![ea.r] = Wrap(@ + bytes(size))]]
      [] ea.m = "dec"  -> LET a == Wrap(reg[ea.r] - bytes(size))
                          IN  [addr |-> a, reg |-> [reg EXCEPT ![ea.r] = a]]
      [] ea.m = "disp" -> [addr |-> Wrap(reg[ea.r] + ea.d), reg |-> reg]

logic_flags(result, size) ==
    Flag("N", (result % Mod(size)) >= sign_bit(size)) \union Flag("Z", result % Mod(size) = 0)

add_flags(a, b, size) ==
    LET av == a % Mod(size)
        bv == b % Mod(size)
        result == (av + bv) % Mod(size)
        Neg(v) == v >= sign_bit(size)
    IN  <<result, logic_flags(result, size)
                  \union Flag("V", Neg(av) = Neg(bv) /\ Neg(result) # Neg(av))
                  \union (IF av + bv >= Mod(size) THEN {"C", "X"} ELSE {})>>

sub_flags(a, b, size) ==
    LET av == a % Mod(size)
        bv == b % Mod(size)
        result == (av - bv) % Mod(size)
        Neg(v) == v >= sign_bit(size)
    IN  <<result, logic_flags(result, size)
                  \union Flag("V", Neg(av) # Neg(bv) /\ Neg(result) # Neg(av))
                  \union (IF av < bv THEN {"C", "X"} ELSE {})>>

apply_flags(flags, computed, wanted) == (flags \ wanted) \union (computed \intersect wanted)

(* The bytes a field touches, as one big-endian number, and the field's place
   in it. *)
FieldSpan(base, offset, width) ==
    LET bit == offset % ByteBits
        nbytes == (bit + width + ByteBits - 1) \div ByteBits
    IN  [start |-> Wrap(base + offset \div ByteBits), nbytes |-> nbytes,
         shift |-> nbytes * ByteBits - bit - width]

bf_read(m, base, offset, width) ==
    LET f == FieldSpan(base, offset, width)
    IN  (ReadBytes(m, f.start, f.nbytes) \div 2 ^ f.shift) % 2 ^ width

bf_write(m, base, offset, width, value) ==
    LET f == FieldSpan(base, offset, width)
        buf == ReadBytes(m, f.start, f.nbytes)
        old == (buf \div 2 ^ f.shift) % 2 ^ width
    IN  WriteBytes(m, f.start, buf + ((value % 2 ^ width) - old) * 2 ^ f.shift, f.nbytes)

ExecMove(s, op) ==
    CASE op.o = "MoveqImm" -> [s EXCEPT !.reg[op.dst] = Wrap(op.imm),
                                        !.flags = apply_flags(@, logic_flags(Wrap(op.imm), "L"),
                                                              {"N", "Z", "V", "C"})]
      [] op.o = "RegMove"  -> [s EXCEPT !.reg[op.dst] = s.reg[op.src]]
      [] op.o = "LoadReg"  -> LET from == resolve_ea(s.reg, op.src, op.size)
                              IN  [s EXCEPT !.reg = set_reg_sized(from.reg, op.dst,
                                                        read_sized(s.mem, from.addr, op.size), op.size)]
      [] op.o = "MoveMem"  ->
            LET from == IF op.src.m \in {"reg", "imm"} THEN [addr |-> 0, reg |-> s.reg]
                        ELSE resolve_ea(s.reg, op.src, op.size)
                value == CASE op.src.m = "reg" -> s.reg[op.src.r]
                           [] op.src.m = "imm" -> op.src.v
                           [] OTHER -> read_sized(s.mem, from.addr, op.size)
                to == resolve_ea(from.reg, op.dst, op.size)
            IN  [s EXCEPT !.reg = to.reg, !.mem = write_sized(@, to.addr, value, op.size)]
      [] op.o = "Lea"      -> [s EXCEPT !.reg[op.dst] =
                                  IF op.ea.m = "disp" THEN Wrap(s.reg[op.ea.r] + op.ea.d)
                                  ELSE s.reg[op.ea.r]]

AluResult(op, a, b, size) ==
    LET Logic(r) == <<r, logic_flags(r, size)>> IN
    CASE op \in {"add", "Add"} -> add_flags(a, b, size)
      [] op \in {"sub", "cmp", "Sub"} -> sub_flags(a, b, size)
      [] op = "and" -> Logic(a & b)
      [] op = "or"  -> Logic(a | b)
      [] op = "eor" -> Logic(a ^^ b)

ExecAlu(s, op) ==
    LET b == IF op.o = "AluImm" THEN op.imm ELSE s.reg[op.src]
        r == AluResult(op.op, s.reg[op.dst], b, op.size)
    IN  [s EXCEPT !.reg = IF op.op = "cmp" THEN @ ELSE set_reg_sized(@, op.dst, r[1], op.size),
                  !.flags = apply_flags(@, r[2], op.flags)]

ExecUnary(s, op) ==
    LET a == s.reg[op.dst]
        r == CASE op.op = "not"  -> <<Mod(op.size) - 1 - (a % Mod(op.size)), 0>>
               [] op.op = "neg"  -> sub_flags(0, a, op.size)
               [] op.op = "tst"  -> <<a, 0>>
               [] op.op = "extl" -> <<Wrap(Signed(a, "W")), 0>>
        computed == IF op.op = "neg" THEN r[2] ELSE logic_flags(r[1], op.size)
    IN  [s EXCEPT !.reg = IF op.op = "tst" THEN @ ELSE set_reg_sized(@, op.dst, r[1], op.size),
                  !.flags = apply_flags(@, computed, op.flags)]

ExecShift(s, op) ==
    LET a == s.reg[op.dst] % Mod(op.size)
        bits == ByteBits * bytes(op.size)
        n == op.count
        result == CASE n >= bits -> 0
                    [] n < bits /\ op.left -> (a * 2 ^ n) % Mod(op.size)
                    [] n < bits /\ ~op.left /\ op.arith -> (Signed(a, op.size) \div 2 ^ n) % Mod(op.size)
                    [] OTHER -> a \div 2 ^ n
        last_out == n \in 1..bits /\ (a \div 2 ^ (IF op.left THEN bits - n ELSE n - 1)) % 2 = 1
        Top(v) == v >= sign_bit(op.size)
        overflow == op.left /\ op.arith /\ \E k \in 0..n - 1 :
                        k < bits /\ Top((a * 2 ^ k) % Mod(op.size)) # Top(result)
        computed == logic_flags(result, op.size) \union (IF last_out THEN {"C", "X"} ELSE {})
                    \union Flag("V", overflow)
    IN  [s EXCEPT !.reg = set_reg_sized(@, op.dst, result, op.size),
                  !.flags = apply_flags(@, computed, op.flags)]

(* Rust's division truncates towards zero; a zero divisor, or a quotient that
   does not fit a word, leaves the register alone. *)
Quot(a, b) == LET q == (IF a < 0 THEN -a ELSE a) \div (IF b < 0 THEN -b ELSE b)
              IN  IF (a < 0) = (b < 0) THEN q ELSE -q

ExecMulDiv(s, op) ==
    LET a == s.reg[op.dst]
        b == s.reg[op.src]
        signed == op.op \in {"muls", "divs"}
        x == IF signed THEN Signed(a, "W") ELSE a % Mod("W")
        y == IF signed THEN Signed(b, "W") ELSE b % Mod("W")
        dividend == IF signed THEN Signed(a, "L") ELSE a
        q == Quot(dividend, y)
        fits == IF signed THEN q \in -sign_bit("W")..sign_bit("W") - 1 ELSE q < Mod("W")
    IN  CASE op.op \in {"mulu", "muls"} -> [s EXCEPT !.reg[op.dst] = Wrap(x * y)]
          [] y # 0 /\ fits -> [s EXCEPT !.reg[op.dst] =
                                  ((dividend - q * y) % Mod("W")) * Mod("W") + (q % Mod("W"))]
          [] OTHER -> s

ExecBitfield(s, op) ==
    IF op.op = "bfextu"
    THEN [s EXCEPT !.reg[op.reg] = bf_read(s.mem, s.reg[op.base], op.offset, op.width)]
    ELSE [s EXCEPT !.mem = bf_write(@, s.reg[op.base], op.offset, op.width, s.reg[op.reg])]

ExecControl(s, in) ==
    LET sp == s.reg[15] IN
    CASE in.op.o = "Bsr" -> [s EXCEPT !.reg[15] = Wrap(sp - 4), !.next = in.op.target,
                                      !.mem = write_sized(@, Wrap(sp - 4), Wrap(in.pc + in.len), "L")]
      [] in.op.o = "Bne" -> [s EXCEPT !.next = IF "Z" \in s.flags THEN in.op.fallthrough
                                               ELSE in.op.target]
      [] in.op.o = "Rts" -> [s EXCEPT !.reg[15] = Wrap(sp + 4), !.next = read_sized(s.mem, sp, "L")]

ExecOp(s, in) ==
    LET t == [s EXCEPT !.retired = @ + (IF in.retire THEN 1 ELSE 0)]
        o == in.op.o
    IN  CASE o = "Nop" -> t
          [] o \in {"MoveqImm", "RegMove", "LoadReg", "MoveMem", "Lea"} -> ExecMove(t, in.op)
          [] o \in {"AluBinReg", "AluImm"} -> ExecAlu(t, in.op)
          [] o = "AluUnary" -> ExecUnary(t, in.op)
          [] o = "Shift" -> ExecShift(t, in.op)
          [] o = "MulDivOp" -> ExecMulDiv(t, in.op)
          [] o = "Bitfield" -> ExecBitfield(t, in.op)
          [] o \in {"Bsr", "Bne", "Rts"} -> ExecControl(t, in)

(* A transfer is always a block's last operation; a block without one (it hit
   MaxOps) leaves next at the block's own entry. *)
execute_block(block) ==
    FoldLeft(ExecOp, [reg |-> cpu.reg, flags |-> cpu.flags, mem |-> mem, retired |-> 0,
                      next |-> cpu.pc], block)

-----------------------------------------------------------------------------
(* The harness: prepare_call_vp and the stack's sentinel, then run() as often
   as its budget runs out, with the cache flushed in between (measure_vp_cold)
   or not.  The same core serves the next call. *)

TypeOK ==
    /\ cpu.reg \in [0..15 -> 0..Mod("L") - 1] /\ cpu.flags \subseteq F_ALL
    /\ mem \in [0..MemBytes - 1 -> 0..Mod("B") - 1]
    /\ call.phase \in {"idle", "ready", "run"}

Init ==
    /\ cpu = [reg |-> [r \in 0..15 |-> 0], pc |-> 0, flags |-> {}]
    /\ mem = [a \in 0..MemBytes - 1 |-> 0]
    /\ cache = [i \in 0..CacheSlots - 1 |-> NoBlock]
    /\ call = [phase |-> "idle", kernel |-> CHOOSE k \in Kernels : TRUE, iterations |-> 0,
               budget |-> 0, executed |-> 0, total |-> 0, calls |-> 0]
    /\ oracle = [reg |-> cpu.reg, pc |-> 0, z |-> FALSE, mem |-> mem]

prepare_call_vp(k, n, fill) ==
    [r \in 0..15 |-> CASE r = 0 -> n
                       [] r \in 1..7 -> fill[r]
                       [] r = 8 /\ k.buffers >= 1 -> BUF_A
                       [] r = 9 /\ k.buffers >= 2 -> BUF_B
                       [] r = 15 -> STACK_TOP
                       [] OTHER -> cpu.reg[r]]

Prepare ==
    /\ call.phase = "idle" /\ call.calls < MaxCalls
    /\ \E k \in Kernels, n \in Iterations, fill \in Fills :
        LET reg == prepare_call_vp(k, n, fill)
            ram == write_sized(mem, STACK_TOP, RETURN_SENTINEL, "L")
        IN  /\ cpu' = [cpu EXCEPT !.reg = reg, !.pc = k.entry]
            /\ mem' = ram
            /\ oracle' = [reg |-> reg, pc |-> k.entry, z |-> oracle.z, mem |-> ram]
            /\ call' = [call EXCEPT !.phase = "ready", !.kernel = k, !.iterations = n,
                                    !.total = 0, !.calls = @ + 1]
    /\ UNCHANGED cache

Enter ==
    /\ call.phase = "ready"
    /\ \E budget \in Budgets, cold \in BOOLEAN :
        /\ call' = [call EXCEPT !.phase = "run", !.budget = budget, !.executed = 0]
        /\ cache' = IF cold THEN flush(cache) ELSE cache
    /\ UNCHANGED <<cpu, mem, oracle>>

WatchedPc ==
    /\ call.phase = "run" /\ cpu.pc = RETURN_SENTINEL
    /\ call' = [call EXCEPT !.phase = "idle"]
    /\ UNCHANGED <<cpu, mem, cache, oracle>>

BudgetExhausted ==
    /\ call.phase = "run" /\ cpu.pc # RETURN_SENTINEL /\ call.executed >= call.budget
    /\ call' = [call EXCEPT !.phase = "ready"]
    /\ UNCHANGED <<cpu, mem, cache, oracle>>

RunBlock ==
    /\ call.phase = "run" /\ cpu.pc # RETURN_SENTINEL /\ call.executed < call.budget
    /\ LET slots == get_or_decode(cache, cpu.pc)
           r == execute_block(slots[slot_index(cpu.pc)].block)
       IN  /\ cache' = slots
           /\ cpu' = [reg |-> r.reg, pc |-> r.next, flags |-> r.flags]
           /\ mem' = r.mem
           /\ call' = [call EXCEPT !.executed = @ + r.retired, !.total = @ + r.retired]
           /\ oracle' = Executed(oracle, r.retired)

Next == Prepare \/ Enter \/ WatchedPc \/ BudgetExhausted \/ RunBlock

Spec == Init /\ [][Next]_vars /\ WF_vars(RunBlock \/ WatchedPc)

(* Executing whole cached blocks with their dead flags dropped never differs
   from executing the same number of instructions one by one: registers,
   program counter and memory agree whenever control is between blocks
   (the crate's differential gate, at every boundary instead of at the end,
   and across calls that find the cache warm); and a call that returned
   retired exactly the instructions the kernel's table promises, however
   often its budget ran out on the way (cpu-bench calibrate_vp). *)
BlocksMeanTheirInstructions ==
    /\ cpu.reg = oracle.reg
    /\ cpu.pc = oracle.pc
    /\ mem = oracle.mem
    /\ call.phase = "run" /\ cpu.pc = RETURN_SENTINEL =>
          call.total = call.kernel.fixed_overhead + call.iterations * call.kernel.instrs_per_iter
=============================================================================
