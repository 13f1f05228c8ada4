------------------------------- MODULE MCCpu -------------------------------
(* What runs the guest's code without its machine: a replay of a recording,
   and the experimental m68k-vp core; a behaviour is of one of them.  The
   kernels of m68k/cpubench/kernels.s, each unrolled a few times only,
   one after the other in one blob as in kernels.bin. *)
EXTENDS Replay, VpCore, FiniteSets

VARIABLE rig

D(n) == [m |-> "reg", r |-> n]
A(n) == [m |-> "reg", r |-> 8 + n]
Ind(n) == [m |-> "ind", r |-> 8 + n]
Inc(n) == [m |-> "inc", r |-> 8 + n]
Disp(d, n) == [m |-> "disp", r |-> 8 + n, d |-> d]
Imm(v) == [m |-> "imm", v |-> v]
Q(i, n, r) == [i |-> i, n |-> n, r |-> r, size |-> "L"]
Bin(i, ea, field) == [i |-> i, ea |-> ea, field |-> field]
Un(i, r) == [i |-> i, r |-> r]
Mv(size, src, dst) == [i |-> "move", size |-> size, src |-> src, dst |-> dst]
Shift(left, arith, n, r) == [i |-> "shift", left |-> left, arith |-> arith, n |-> n, r |-> r]
Bf(i, r, offset, width) == [i |-> i, r |-> r, an |-> 0, offset |-> offset, width |-> width]
LeaSelf == [i |-> "lea", an |-> 5, src |-> Ind(5)]
To(i, k) == [i |-> i, to |-> k, wide |-> i = "bsr"]     \* branch to the k-th instruction
Rts == [i |-> "rts"]
Loop == <<Q("subq", 1, 0)>>

(* Bodies up to the closing subq/bne, with the instruction the loop starts at. *)
Body(entry, head, body, tail, fixed, buffers) ==
    [text |-> head \o body \o Loop \o <<To("bne", Len(head) + 1), Rts>> \o tail,
     per |-> Len(body) + 2 + entry, fixed |-> fixed, buffers |-> buffers]

MCBodies == <<
    Body(0, << >>, <<Q("addq", 1, 1), Q("addq", 0, 1)>>, << >>, 1, 0),
    Body(0, << >>, <<Un("tst", 1), LeaSelf, Un("tst", 1), [i |-> "nop"]>>, << >>, 1, 0),
    Body(0, << >>, <<Q("moveq", 5, 1), Bin("add", 2, 1), Bin("sub", 3, 1), Bin("eor", 1, 4),
                     Bin("and", 5, 1), Bin("or", 6, 1), Shift(TRUE, TRUE, 1, 1),
                     Shift(FALSE, FALSE, 1, 1), Shift(FALSE, TRUE, 1, 3), Q("subq", 1, 3),
                     Un("not", 4), Un("neg", 5), Q("moveq", -1, 6), Bin("add", 1, 7),
                     Un("extl", 7)>>, << >>, 1, 0),
    Body(0, << >>, <<Mv("L", A(0), A(2)), Mv("L", A(1), A(3)), Mv("L", Inc(2), Inc(3)),
                     Mv("W", Inc(2), Inc(3))>>, << >>, 1, 2),
    Body(0, << >>, <<Mv("L", A(0), A(2)), Mv("L", Imm(1365), Inc(2)), Mv("B", Imm(5), Inc(2))>>,
         << >>, 1, 1),
    Body(0, << >>, <<Mv("L", A(0), A(2)), Mv("B", Disp(1, 2), D(1)), Mv("W", Disp(2, 2), D(2)),
                     Mv("L", Disp(4, 2), D(3))>>, << >>, 1, 1),
    Body(0, << >>, <<[i |-> "lea", an |-> 2, src |-> Disp(12, 0)],
                     [i |-> "movem", store |-> TRUE, an |-> 2, mask |-> {14, 13, 12}],
                     [i |-> "movem", store |-> FALSE, an |-> 2, mask |-> {1, 2, 3}]>>, << >>, 1, 1),
    Body(4, << >>, <<To("bsr", 6), To("bsr", 6)>>, <<Q("addq", 1, 1), Rts>>, 1, 0),
    Body(0, <<Q("moveq", 7, 5)>>, <<Bin("mulu", 5, 1), Bin("muls", 5, 2), Bin("divu", 5, 3),
                                    Bin("divs", 5, 4)>>, << >>, 2, 0),
    Body(0, << >>, <<Bf("bfextu", 1, 0, 3), Bf("bfins", 1, 3, 3), Bf("bfextu", 2, 2, 5),
                     Bf("bfins", 2, 7, 0)>>, << >>, 1, 1),
    Body(0, << >>, <<Bin("cmp", 2, 1), LeaSelf, Bin("cmp", 2, 1), LeaSelf>>, << >>, 1, 0) >>

KernelBase == 16
(* The address of every instruction of a text, and of what follows it. *)
Addresses(base, text) ==
    FoldLeft(LAMBDA as, in : Append(as, as[Len(as)] + InstrBytes(in)), <<base>>, text)
Linked(text, as) ==
    FoldLeft(LAMBDA code, i :
                code @@ (as[i] :> IF text[i].i \in {"bne", "bsr"}
                                  THEN [i |-> text[i].i, wide |-> text[i].wide,
                                        d |-> as[text[i].to] - as[i] - 2]
                                  ELSE text[i]),
             << >>, [i \in 1..Len(text) |-> i])
MCBlob ==
    FoldLeft(LAMBDA blob, b :
                LET as == Addresses(blob.end, b.text)
                IN  [end |-> as[Len(as)], code |-> blob.code @@ Linked(b.text, as),
                     kernels |-> blob.kernels \union
                        {[entry |-> blob.end, instrs_per_iter |-> b.per,
                          fixed_overhead |-> b.fixed, buffers |-> b.buffers]}],
             [end |-> KernelBase, code |-> << >>, kernels |-> {}], MCBodies)
MCCode == MCBlob.code
MCKernels == MCBlob.kernels

Regs(a, b, c) == [r \in 1..7 |-> CASE r \in {1, 4} -> a [] r \in {2, 5} -> b [] OTHER -> c]
MCFills == {Regs(0, 0, 0), Regs(4095, 33, 2050)}

(* The core's harness has made all its calls. *)
CallsDone == call.phase = "idle" /\ call.calls = MaxCalls /\ UNCHANGED vars

CpuInit == rig \in {"replay", "vp"} /\ ReplayInit /\ Init

CpuNext ==
    \/ rig = "replay" /\ ReplayNext /\ UNCHANGED <<rig, vars>>
    \/ rig = "vp" /\ (Next \/ CallsDone) /\ UNCHANGED <<rig, replayVars>>

CpuSpec == CpuInit /\ [][CpuNext]_<<rig, replayVars, vars>>
=============================================================================
