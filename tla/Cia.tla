-------------------------------- MODULE Cia --------------------------------
(***************************************************************************)
(* One 8520 CIA (crates/machine-core/src/cia.rs) as a value: its two       *)
(* interval timers, time of day with alarm, and interrupt register, what a *)
(* run of CPU clocks does to them, how long until something happens on its *)
(* own, and its register file.  The ports (levels with no timing), and the *)
(* keyboard shift register, which only the tests feed, are left out.       *)
(***************************************************************************)
EXTENDS Integers

CONSTANTS
    EClock,   \* CPU_CLOCKS_PER_ECLOCK, 20 in the code
    Byte      \* what a register holds, 256 values in the code

ASSUME CiaAssumption == EClock \in Nat \ {0} /\ Byte \in Nat \ {0}

NotLatched == -1

(* CRA and CRB.  `mode` is what the timer counts: E clocks, the CNT pin,
   which never moves, or (timer B) timer A's underflows.  `alarm` is CRB
   only: the TOD registers then write the alarm. *)
Control(start, oneshot, mode, alarm) ==
    [start |-> start, oneshot |-> oneshot, mode |-> mode, alarm |-> alarm]

NewCia ==
    LET full    == Byte * Byte - 1
        stopped == Control(FALSE, FALSE, "E", FALSE)
    IN  [timer_a |-> full, timer_b |-> full, latch_a |-> full, latch_b |-> full,
         cra |-> stopped, crb |-> stopped,
         tod |-> 0, tod_alarm |-> 0, tod_latched |-> NotLatched,
         tod_stopped |-> FALSE, tod_matching |-> TRUE,
         icr_data |-> {}, icr_mask |-> {}, carry |-> 0]

irq_pending(c) == c.icr_data \cap c.icr_mask # {}

If(condition, x) == IF condition THEN {x} ELSE {}

(***************************************************************************)
(* Time.                                                                   *)
(***************************************************************************)
Counts(control, mode) == control.start /\ control.mode = mode

(* `step_timer`: a timer at zero reloads and underflows. *)
step_timer(count, latch) == IF count = 0 THEN latch ELSE count - 1

StopIfOneshot(control) == [control EXCEPT !.start = @ /\ ~control.oneshot]

tick_one_eclock(c) ==
    LET a_counts    == Counts(c.cra, "E")
        a_underflow == a_counts /\ c.timer_a = 0
        b_counts    == Counts(c.crb, "E") \/ (Counts(c.crb, "TA") /\ a_underflow)
        b_underflow == b_counts /\ c.timer_b = 0
    IN  [c EXCEPT
           !.timer_a = IF a_counts THEN step_timer(@, c.latch_a) ELSE @,
           !.timer_b = IF b_counts THEN step_timer(@, c.latch_b) ELSE @,
           !.cra = IF a_underflow THEN StopIfOneshot(@) ELSE @,
           !.crb = IF b_underflow THEN StopIfOneshot(@) ELSE @,
           !.icr_data = @ \cup If(a_underflow, "TA") \cup If(b_underflow, "TB")]

(* `is_idle`: with both timers stopped the E-clock loop is skipped. *)
is_idle(c) == ~c.cra.start /\ ~c.crb.start

tick_eclock(c, ticks) ==
    LET after[n \in 0 .. ticks] == IF n = 0 THEN c ELSE tick_one_eclock(after[n - 1])
    IN  IF is_idle(c) THEN c ELSE after[ticks]

CiaTick(c, cpu_clocks) ==
    LET total == c.carry + cpu_clocks
    IN  tick_eclock([c EXCEPT !.carry = total % EClock], total \div EClock)

(* The alarm fires when TOD becomes equal to it, once. *)
check_tod_alarm(c) ==
    LET equal == c.tod = c.tod_alarm
    IN  [c EXCEPT !.icr_data = @ \cup If(equal /\ ~c.tod_matching, "ALRM"),
                  !.tod_matching = equal]

tod_tick(c) ==
    IF c.tod_stopped THEN c
    ELSE check_tod_alarm([c EXCEPT !.tod = (@ + 1) % (Byte * Byte * Byte)])

TodTicks(c, count) ==
    LET after[n \in 0 .. count] == IF n = 0 THEN c ELSE tod_tick(after[n - 1])
    IN  after[count]

(* Faulty: the E clock already under way is not subtracted. *)
clocks_until_event_without_carry(c) ==
    If(Counts(c.cra, "E"), (c.timer_a + 1) * EClock)
        \cup If(Counts(c.crb, "E"), (c.timer_b + 1) * EClock)

(* `clocks_until_event`: the CPU clocks to each running timer's underflow,
   of which the code takes the least.  Timer B behind timer A adds nothing:
   it moves only when A underflows. *)
clocks_until_event(c) ==
    If(Counts(c.cra, "E"), (c.timer_a + 1) * EClock - c.carry)
        \cup If(Counts(c.crb, "E"), (c.timer_b + 1) * EClock - c.carry)

(***************************************************************************)
(* Registers.  Timers are two bytes, TOD three; byte 0 is the low one.     *)
(***************************************************************************)
IcrBits == {"TA", "TB", "ALRM", "SP", "FLG"}
Controls == [start : BOOLEAN, oneshot : BOOLEAN, mode : {"E", "CNT", "TA"}, alarm : BOOLEAN]

(* Every access the register file takes. *)
ReadAccesses ==
    [cia : {"A", "B"}, reg : {"TA", "TB"}, byte : 0 .. 1]
        \cup [cia : {"A", "B"}, reg : {"TOD"}, byte : 0 .. 2]
        \cup [cia : {"A", "B"}, reg : {"ICR", "CRA", "CRB"}]
WriteAccesses ==
    [cia : {"A", "B"}, reg : {"TA", "TB"}, byte : 0 .. 1, value : 0 .. Byte - 1]
        \cup [cia : {"A", "B"}, reg : {"TOD"}, byte : 0 .. 2, value : 0 .. Byte - 1]
        \cup [cia : {"A", "B"}, reg : {"CRA", "CRB"}, value : Controls, load : BOOLEAN]
        \cup [cia : {"A", "B"}, reg : {"ICR"}, set : BOOLEAN, value : SUBSET IcrBits]

Weight(i) == <<1, Byte, Byte * Byte>>[i + 1]
GetByte(x, i) == (x \div Weight(i)) % Byte
SetByte(x, i, value) == x + (value - GetByte(x, i)) * Weight(i)

(* A write to a timer's high byte loads a stopped timer, and loads and
   starts a one-shot one. *)
LoadsOnHigh(control) == control.oneshot \/ ~control.start
StartOneshot(control) == [control EXCEPT !.start = @ \/ control.oneshot]

write_latch_a(c, i, value) ==
    LET latch == SetByte(c.latch_a, i, value)
        load  == i = 1 /\ LoadsOnHigh(c.cra)
    IN  [c EXCEPT !.latch_a = latch,
                  !.timer_a = IF load THEN latch ELSE @,
                  !.cra = IF load THEN StartOneshot(@) ELSE @]

write_latch_b(c, i, value) ==
    LET latch == SetByte(c.latch_b, i, value)
        load  == i = 1 /\ LoadsOnHigh(c.crb)
    IN  [c EXCEPT !.latch_b = latch,
                  !.timer_b = IF load THEN latch ELSE @,
                  !.crb = IF load THEN StartOneshot(@) ELSE @]

(* Writing TOD's high byte stops it, the low byte restarts it. *)
write_tod(c, i, value) ==
    check_tod_alarm(
        IF c.crb.alarm
        THEN [c EXCEPT !.tod_alarm = SetByte(@, i, value)]
        ELSE [c EXCEPT !.tod = SetByte(@, i, value),
                       !.tod_stopped = IF i = 2 THEN TRUE ELSE IF i = 0 THEN FALSE ELSE @])

(* `w` is one register write: the register, the byte of it, the value. *)
write(c, w) ==
    CASE w.reg = "TA"  -> write_latch_a(c, w.byte, w.value)
      [] w.reg = "TB"  -> write_latch_b(c, w.byte, w.value)
      [] w.reg = "TOD" -> write_tod(c, w.byte, w.value)
      [] w.reg = "CRA" -> [c EXCEPT !.cra = w.value,
                                    !.timer_a = IF w.load THEN c.latch_a ELSE @]
      [] w.reg = "CRB" -> [c EXCEPT !.crb = w.value,
                                    !.timer_b = IF w.load THEN c.latch_b ELSE @]
      [] w.reg = "ICR" -> [c EXCEPT !.icr_mask = IF w.set THEN @ \cup w.value ELSE @ \ w.value]

(* A read returns a value and may change the chip: reading ICR clears it,
   reading TOD's high byte latches TOD until its low byte is read. *)
ReadTod(c, i) ==
    LET latched == IF c.tod_latched # NotLatched THEN c.tod_latched
                   ELSE IF i = 2 THEN c.tod ELSE NotLatched
    IN  [value |-> GetByte(IF latched = NotLatched THEN c.tod ELSE latched, i),
         cia   |-> [c EXCEPT !.tod_latched = IF i = 0 THEN NotLatched ELSE latched]]

read(c, r) ==
    CASE r.reg = "TA"  -> [value |-> GetByte(c.timer_a, r.byte), cia |-> c]
      [] r.reg = "TB"  -> [value |-> GetByte(c.timer_b, r.byte), cia |-> c]
      [] r.reg = "TOD" -> ReadTod(c, r.byte)
      [] r.reg = "ICR" -> [value |-> c.icr_data \cup If(irq_pending(c), "IR"),
                           cia   |-> [c EXCEPT !.icr_data = {}]]
      [] r.reg = "CRA" -> [value |-> c.cra, cia |-> c]
      [] r.reg = "CRB" -> [value |-> c.crb, cia |-> c]
=============================================================================
