-------------------------------- MODULE Replay --------------------------------
(***************************************************************************)
(* Record/replay lockstep (replay.rs, bus.rs, run.rs).  A recording runs   *)
(* the guest on live devices in fixed mode and logs what the devices did   *)
(* to it: every access to an Io page, interrupt level changes, the RAM     *)
(* spans devices wrote, page-table transitions, register checkpoints.  A   *)
(* replay runs the same CPU on the log alone.                              *)
(*                                                                         *)
(* The player never looks past the events of its own ordinal, so reading   *)
(* a finished log is the same as reading it while it grows: here the two   *)
(* runs take turns, one hook apart, and the log holds the unread events.   *)
(***************************************************************************)
EXTENDS Naturals, Sequences

CONSTANTS
    MaxOrdinal,          \* the recording is stopped here at the latest
    LogCapacity,         \* spans the device-write log can hold
    CheckpointInterval,
    Bursts               \* what the devices may write in one tick: sequences
                         \* of spans [at, len]

ASSUME ReplayConstants ==
    /\ MaxOrdinal \in Nat /\ LogCapacity \in Nat \ {0} /\ CheckpointInterval \in Nat
    /\ \A burst \in Bursts : burst \in Seq([at : Nat, len : Nat \ {0}])

VARIABLES
    live,     \* the recording's machine: [overlay, fast, ram, dev, level]
    write_log,\* its device-write log: [spans, overflowed]
    master,   \* the recording's CPU: [acc, irq, stopped]
    rec,      \* the Recorder: [ordinal, last_ipl, table]
    log,      \* the events the player has not consumed
    twin,     \* the replay's machine: [fast, ram]; no device in it is live
    slave,    \* the replay's CPU
    player,   \* the Player: [ordinal, table, divergence]
    instr,    \* the instruction just recorded, for the replay to execute
    turn,     \* whose turn it is: "record" or "replay"
    outcome   \* "running", "aborted" (exit 4), "ReplayClean" or "Wedged"

replayVars == <<live, write_log, master, rec, log, twin, slave, player, instr, turn, outcome>>

-----------------------------------------------------------------------------
(* The machine: chip RAM cells 0..2, of which the overlay hides 0 and 1;   *)
(* fast RAM cells 4..5 once AUTOCONFIG has placed the board; ROM; a device *)
(* register, the CIA port with the overlay line, the AUTOCONFIG window.    *)

Chip == 0..2
Fast == 4..5
Cells == Chip \cup Fast
Low == 0..1
Val == 0..1
RomValue == 1
OpenBusValue == 1     \* all ones

Rom == 10
Dev == 11
Cia == 12
Ac == 13
PageOf(a) == CASE a \in Low -> "low" [] a \in Chip \ Low -> "chip" [] a \in Fast -> "fast"
               [] a = Rom -> "rom" [] a = Dev -> "dev" [] a = Cia -> "cia" [] a = Ac -> "ac"
build_page_table(overlay, fast) ==
    [low |-> IF overlay THEN "Io" ELSE "Ram", chip |-> "Ram",
     fast |-> IF fast THEN "Ram" ELSE "OpenBus", rom |-> "Rom",
     dev |-> "Io", cia |-> "Io", ac |-> "Io"]

\* Where a span of RAM is, for ram_slice and ram_slice_mut: chip RAM whatever
\* the overlay, fast RAM where it is placed.
ram_slice(m, at, len) ==
    at..(at + len - 1) \subseteq Chip \/ (m.fast /\ at..(at + len - 1) \subseteq Fast)

MachineRead(m, a) ==
    CASE a \in Low /\ m.overlay -> RomValue
      [] a \in Chip /\ ~(a \in Low /\ m.overlay) -> m.ram[a]
      [] a \in Fast -> IF m.fast THEN m.ram[a] ELSE OpenBusValue
      [] a = Rom  -> RomValue
      [] a = Dev  -> m.dev
      [] a = Cia  -> IF m.overlay THEN 1 ELSE 0
      [] a = Ac   -> IF m.fast THEN OpenBusValue ELSE 0

MachineWrite(m, a, v) ==
    CASE a \in Chip -> [m EXCEPT !.ram[a] = v]
      [] a \in Fast -> IF m.fast THEN [m EXCEPT !.ram[a] = v] ELSE m
      [] a = Dev  -> [m EXCEPT !.dev = v]
      [] a = Cia  -> [m EXCEPT !.overlay = (v = 1)]
      [] a = Ac   -> [m EXCEPT !.fast = TRUE]
      [] OTHER      -> m

\* What the guest can execute: a load, a store of the accumulator, a
\* read-modify-write, STOP, and an instruction that traps (the exception
\* frame is pushed without an instruction being retired).
CpuCells == {0, 2, 4}
Instrs == {<<"load", a>> : a \in CpuCells \cup {Rom, Dev}}
          \cup {<<"store", a>> : a \in CpuCells \cup {Dev, Cia, Ac}}
          \cup {<<"rmw", Cia>>, <<"stop", 0>>, <<"trap", 2>>}
Retires(i) == i[1] # "trap"

-----------------------------------------------------------------------------
(* The device-write log of MachineBus (lib.rs).                            *)

EmptyWriteLog == [spans |-> <<>>, overflowed |-> FALSE]

DeviceWriteLogRecordBlind(wl, at, len) ==
    IF Len(wl.spans) < LogCapacity THEN [wl EXCEPT !.spans = Append(@, [at |-> at, len |-> len])] ELSE wl
DeviceWriteLogRecordForward(wl, at, len) ==
    LET n == Len(wl.spans)
    IN  IF n > 0 /\ (wl.spans[n].at + wl.spans[n].len = at \/ at + len = wl.spans[n].at)
        THEN [wl EXCEPT !.spans[n].len = @ + len]
        ELSE IF n < LogCapacity THEN [wl EXCEPT !.spans = Append(@, [at |-> at, len |-> len])]
        ELSE [wl EXCEPT !.overflowed = TRUE]
\* A write next to the newest span extends it on that side.
DeviceWriteLogRecord(wl, at, len) ==
    LET n == Len(wl.spans)
    IN  IF n > 0 /\ wl.spans[n].at + wl.spans[n].len = at
        THEN [wl EXCEPT !.spans[n].len = @ + len]
        ELSE IF n > 0 /\ at + len = wl.spans[n].at
        THEN [wl EXCEPT !.spans[n] = [at |-> at, len |-> @.len + len]]
        ELSE IF n < LogCapacity THEN [wl EXCEPT !.spans = Append(@, [at |-> at, len |-> len])]
        ELSE [wl EXCEPT !.overflowed = TRUE]

\* One device write through ram_slice_mut: inverted cells, and the span noted.
DeviceWrite(st, span) ==
    IF ~ram_slice(st.m, span.at, span.len) THEN st
    ELSE [st EXCEPT !.m.ram = [c \in Cells |-> IF c \in span.at..(span.at + span.len - 1)
                                               THEN 1 - @[c] ELSE @[c]],
                    !.wl = DeviceWriteLogRecord(@, span.at, span.len)]

-----------------------------------------------------------------------------
(* The recording.  A step works on st = [m, cpu, wl, r, log].              *)

Event(st, tag, body) == [tag |-> tag, ordinal |-> st.r.ordinal, body |-> body]
Put(st, e) == [st EXCEPT !.log = Append(@, e)]
\* log_io_read and log_io_write.
log_io(st, tag, a, v) == Put(st, Event(st, tag, [addr |-> a, value |-> v]))
Recorded == [m |-> live, cpu |-> master, wl |-> write_log, r |-> rec, log |-> log]

\* A load is logged with the value it got when its page is Io.
BusRead(st, a) ==
    LET v    == MachineRead(st.m, a)
        got  == [st EXCEPT !.cpu.acc = v]
    IN  IF st.r.table[PageOf(a)] # "Io" THEN got
        ELSE log_io(got, "IoRead", a, v)

\* The new table, logged when a store changed the map.
maybe_transition(st) ==
    LET table == build_page_table(st.m.overlay, st.m.fast)
    IN  IF table = st.r.table THEN st
        ELSE Put([st EXCEPT !.r.table = table],
                 Event(st, "ClassificationTransition", [table |-> table]))

\* A store to an Io page is logged before it is applied.
BusWrite(st, a, v) ==
    LET logged == IF st.r.table[PageOf(a)] # "Io" THEN st
                  ELSE log_io(st, "IoWrite", a, v)
    IN  maybe_transition([logged EXCEPT !.m = MachineWrite(@, a, v)])

\* The CPU core, external.  A pending interrupt wakes a stopped CPU.  read and
\* write are the run's own bus operations.
Running(cpu) == ~cpu.stopped \/ cpu.irq > 0
ExecuteInstr(read(_, _), write(_, _, _), state, i) ==
    LET st == [state EXCEPT !.cpu.stopped = FALSE] IN
    CASE i[1] = "load"  -> read(st, i[2])
      [] i[1] = "store" -> write(st, i[2], st.cpu.acc)
      [] i[1] = "rmw"   -> LET got == read(st, i[2]) IN write(got, i[2], 1 - got.cpu.acc)
      [] i[1] = "stop"  -> [st EXCEPT !.cpu.stopped = TRUE]
      [] i[1] = "trap"  -> write(st, i[2], st.cpu.acc)

log_ipl_if_changed(st) ==
    IF st.m.level = st.r.last_ipl THEN st
    ELSE Put([st EXCEPT !.r.last_ipl = st.m.level],
             Event(st, "IplChange", [level |-> st.m.level]))

\* The spans written since the last drain, with what they hold now.
log_device_writes(st) ==
    LET bytes(s) == [k \in 1..s.len |-> st.m.ram[s.at + k - 1]]
        event(s) == Event(st, "DeviceWrite", [addr |-> s.at, bytes |-> bytes(s)])
    IN  [st EXCEPT !.log = @ \o [k \in DOMAIN st.wl.spans |-> event(st.wl.spans[k])],
                   !.wl.spans = <<>>]

RegsOf(cpu) == [acc |-> cpu.acc]
maybe_checkpoint(st) ==
    IF CheckpointInterval = 0 \/ st.r.ordinal % CheckpointInterval # 0 THEN st
    ELSE Put(st, Event(st, "Checkpoint", [regs |-> RegsOf(st.cpu)]))

ram_digests(m) == [chip |-> [c \in Chip |-> m.ram[c]],
                   fast |-> IF m.fast THEN [c \in Fast |-> m.ram[c]] ELSE <<>>]
finish(st) == Put(st, Event(st, "End", [regs |-> RegsOf(st.cpu), digests |-> ram_digests(st.m)]))

\* Device time passes: DMA, the device register, the interrupt level.
Tick(st, burst, dev, level) ==
    LET after[k \in 0..Len(burst)] == IF k = 0 THEN st ELSE DeviceWrite(after[k - 1], burst[k])
        ticked == after[Len(burst)]
    IN  [ticked EXCEPT !.m.dev = dev, !.m.level = level]
SetIrq(cpu, level) == [cpu EXCEPT !.irq = level]

\* The hook after a retired instruction, and the Stopped arm: the ordinal
\* first, then device time, then the log.
AdvanceOrdinal(st) == [st EXCEPT !.r.ordinal = @ + 1]
Hook(st, burst, dev, level) ==
    LET ticked == Tick(AdvanceOrdinal(st), burst, dev, level)
        set    == [ticked EXCEPT !.cpu = SetIrq(@, level)]
    IN  maybe_checkpoint(log_device_writes(log_ipl_if_changed(set)))

Commit(st) ==
    /\ live' = st.m /\ master' = st.cpu /\ write_log' = st.wl /\ rec' = st.r /\ log' = st.log

\* One turn of run_guest_fixed.  An overflowed write log ends the process
\* before the log can be mistaken for a complete one; a limit ends the run
\* with an End record at the ordinal of the last hook.
RecordHook(i, st) ==
    \E burst \in Bursts, dev \in Val, level \in 0..1, last \in BOOLEAN :
       /\ rec.ordinal + 1 = MaxOrdinal => last
       /\ burst # <<>> => dev = st.m.dev
       /\ LET hooked == Hook(st, burst, dev, level)
          IN  IF hooked.wl.overflowed
              THEN /\ outcome' = "aborted" /\ Commit(hooked)
                   /\ UNCHANGED <<twin, slave, player, instr, turn>>
              ELSE /\ Commit(IF last THEN finish(hooked) ELSE hooked)
                   /\ instr' = i /\ turn' = "replay"
                   /\ UNCHANGED <<twin, slave, player, outcome>>

RecordInstruction ==
    /\ outcome = "running" /\ turn = "record" /\ Running(master)
    /\ \E i \in Instrs : Retires(i) /\ RecordHook(i, ExecuteInstr(BusRead, BusWrite, Recorded, i))

\* A trap exit: the exception is taken and nothing is retired, so no hook runs.
RecordTrap ==
    /\ outcome = "running" /\ turn = "record" /\ Running(master)
    /\ \E i \in Instrs : /\ ~Retires(i)
                         /\ Commit(ExecuteInstr(BusRead, BusWrite, Recorded, i))
                         /\ instr' = i
    /\ turn' = "replay"
    /\ UNCHANGED <<twin, slave, player, outcome>>

\* A stopped CPU: a line of device time with nothing retired.
RecordStopped ==
    /\ outcome = "running" /\ turn = "record" /\ ~Running(master)
    /\ RecordHook(<<"tick", 0>>, Recorded)

-----------------------------------------------------------------------------
(* The replay.  A step works on st = [m, cpu, p, log].                     *)

Played == [m |-> twin, cpu |-> slave, p |-> player, log |-> log]

\* The first divergence is the one that is kept.
record_divergence(st, d) ==
    IF st.p.divergence = "none" THEN [st EXCEPT !.p.divergence = d] ELSE st

\* An access to an Io page is answered by the next event, which must be its
\* own, with one of these values; any other event is put back.
expect_io(st, tag, a, values) ==
    IF st.log = <<>> THEN record_divergence(st, "UnexpectedEof")
    ELSE LET ev == Head(st.log)
         IN  IF ev.tag # tag THEN record_divergence(st, "ExpectedIoEvent")
             ELSE LET taken == [st EXCEPT !.log = Tail(@)]
                  IN  IF ev.ordinal = st.p.ordinal /\ ev.body.addr = a /\ ev.body.value \in values THEN taken
                      ELSE record_divergence(taken, "IoMismatch")

read_ram(st, a) ==
    IF ram_slice(st.m, a, 1) THEN [st EXCEPT !.cpu.acc = st.m.ram[a]]
    ELSE [record_divergence(st, "RamAccessOutOfBounds") EXCEPT !.cpu.acc = 0]
write_ram(st, a, v) ==
    IF ram_slice(st.m, a, 1) THEN [st EXCEPT !.m.ram[a] = v]
    ELSE record_divergence(st, "RamAccessOutOfBounds")

replay_read(st, a) ==
    LET type == st.p.table[PageOf(a)]
        put(s, v) == [s EXCEPT !.cpu.acc = v]
    IN  CASE type = "Rom"     -> put(st, RomValue)
          [] type = "OpenBus" -> put(st, OpenBusValue)
          [] type = "Ram"     -> read_ram(st, a)
          [] type = "Io"      ->
               LET after == expect_io(st, "IoRead", a, Val)
               IN  put(after, IF after.p.divergence # "none" THEN 0 ELSE Head(st.log).body.value)

replay_write_must_applyChipOnly(a) == a \in Chip
\* Io writes the player's own machine needs: chip RAM under the overlay, and
\* the AUTOCONFIG window.
replay_write_must_apply(a) == a \in Chip \/ a = Ac

replay_write(st, a, v) ==
    LET type == st.p.table[PageOf(a)]
    IN  CASE type \in {"Rom", "OpenBus"} -> st
          [] type = "Ram" -> write_ram(st, a, v)
          [] type = "Io"  ->
               LET after == expect_io(st, "IoWrite", a, {v})
               IN  IF replay_write_must_apply(a) THEN [after EXCEPT !.m = MachineWrite(@, a, v)]
                   ELSE after

\* One event that is not an I/O access.
Apply(st, ev) ==
    CASE ev.tag = "DeviceWrite" ->
           IF ~ram_slice(st.m, ev.body.addr, Len(ev.body.bytes)) THEN st
           ELSE [st EXCEPT !.m.ram = [c \in Cells |->
                    IF c \in ev.body.addr..(ev.body.addr + Len(ev.body.bytes) - 1)
                    THEN ev.body.bytes[c - ev.body.addr + 1] ELSE @[c]]]
      [] ev.tag = "ClassificationTransition" -> [st EXCEPT !.p.table = ev.body.table]
      [] ev.tag = "IplChange"  -> [st EXCEPT !.fx.ipl = ev.body.level]
      [] ev.tag = "Checkpoint" -> [st EXCEPT !.fx.checkpoint = ev.body.regs]
      [] ev.tag = "End" ->
           [record_divergence(st, IF ev.body.digests = ram_digests(st.m) THEN st.p.divergence
                                  ELSE "RamDigestMismatch") EXCEPT !.fx.end = ev.body.regs]

DrainableNow(st, ev) == ev.ordinal = st.p.ordinal /\ ev.tag \notin {"IoRead", "IoWrite"}
\* At or before the current ordinal: a transition is logged during the
\* instruction, before its hook advances the ordinal.
Drainable(st, ev) == ev.ordinal <= st.p.ordinal /\ ev.tag \notin {"IoRead", "IoWrite"}

NoRegs == [acc |-> 2]
NoEffects == [ipl |-> 2, checkpoint |-> NoRegs, end |-> NoRegs]
\* The leading events that can be drained are applied in order; the loop stops
\* at the first that cannot.
drain_side_effects(st) ==
    LET stuck == {k \in DOMAIN st.log : ~Drainable(st, st.log[k])}
        n == IF stuck = {} THEN Len(st.log) ELSE (CHOOSE k \in stuck : \A j \in stuck : k <= j) - 1
        start == [m |-> st.m, cpu |-> st.cpu, p |-> st.p, fx |-> NoEffects,
                  log |-> SubSeq(st.log, n + 1, Len(st.log))]
        applied[k \in 0..n] == IF k = 0 THEN start ELSE Apply(applied[k - 1], st.log[k])
    IN  applied[n]

CompareCheckpoint(st) ==
    IF st.fx.checkpoint \in {NoRegs, RegsOf(st.cpu)} THEN st
    ELSE record_divergence(st, "CheckpointMismatch")
CompareEnd(st) ==
    IF st.fx.end \in {NoRegs, RegsOf(st.cpu)} THEN st ELSE record_divergence(st, "FinalStateMismatch")

\* The hook of run_guest_replay and its Stopped arm, which compares no
\* checkpoint; the end of the log, or a divergence, ends the run.
ReplayHook(st, retired) ==
    LET drained == drain_side_effects([st EXCEPT !.p.ordinal = @ + 1])
        set     == [drained EXCEPT !.cpu = IF drained.fx.ipl = 2 THEN @ ELSE SetIrq(@, drained.fx.ipl)]
        checked == CompareEnd(IF retired THEN CompareCheckpoint(set) ELSE set)
    IN  /\ twin' = checked.m /\ slave' = checked.cpu /\ player' = checked.p /\ log' = checked.log
        /\ outcome' = IF checked.p.divergence # "none" THEN "Wedged"
                      ELSE IF checked.fx.end # NoRegs THEN "ReplayClean" ELSE outcome
        /\ turn' = "record"
        /\ UNCHANGED <<live, write_log, master, rec, instr>>

ReplayInstruction ==
    /\ outcome = "running" /\ turn = "replay" /\ Running(slave) /\ Retires(instr) /\ instr[1] # "tick"
    /\ ReplayHook(ExecuteInstr(replay_read, replay_write, Played, instr), TRUE)

ReplayTrap ==
    /\ outcome = "running" /\ turn = "replay" /\ Running(slave) /\ ~Retires(instr)
    /\ LET st == ExecuteInstr(replay_read, replay_write, Played, instr)
       IN  twin' = st.m /\ slave' = st.cpu /\ player' = st.p /\ log' = st.log
    /\ turn' = "record"
    /\ UNCHANGED <<live, write_log, master, rec, instr, outcome>>

ReplayStopped ==
    /\ outcome = "running" /\ turn = "replay" /\ ~Running(slave)
    /\ ReplayHook(Played, FALSE)

-----------------------------------------------------------------------------

Reset == [acc |-> 0, irq |-> 0, stopped |-> FALSE]
ReplayInit ==
    /\ live = [overlay |-> TRUE, fast |-> FALSE, ram |-> [c \in Cells |-> 0], dev |-> 0, level |-> 0]
    /\ write_log = EmptyWriteLog
    /\ rec = [ordinal |-> 0, last_ipl |-> 0, table |-> build_page_table(TRUE, FALSE)]
    /\ twin = [overlay |-> TRUE, fast |-> FALSE, ram |-> [c \in Cells |-> 0], dev |-> 0]
    /\ player = [ordinal |-> 0, table |-> rec.table, divergence |-> "none"]
    /\ master = Reset /\ slave = Reset
    /\ log = <<>> /\ instr = <<"tick", 0>> /\ turn = "record" /\ outcome = "running"

Ended == outcome # "running" /\ UNCHANGED replayVars

ReplayNext ==
    \/ RecordInstruction \/ RecordTrap \/ RecordStopped
    \/ ReplayInstruction \/ ReplayTrap \/ ReplayStopped \/ Ended

ReplaySpec == ReplayInit /\ [][ReplayNext]_replayVars

\* The replay follows the recording: whenever both have passed the same hook
\* they have the same registers, the same interrupt level and the same RAM,
\* nothing is left in the log, and no divergence was reported.  This is what
\* run_guest_replay's outcome ReplayClean is taken to mean; it needs every
\* device write logged, in bytes that are still right when they are drained,
\* and every event consumed at the hook it was logged for.
ReplayFollowsRecording ==
    turn = "record" /\ outcome # "aborted" =>
        /\ slave = master /\ twin.ram = live.ram
        /\ player.ordinal = rec.ordinal /\ log = <<>>
        /\ player.divergence = "none" /\ outcome # "Wedged"

-----------------------------------------------------------------------------
(* Bursts for a bounded run: writes that merge forwards and backwards, that
   need two spans, and that overflow a log of two. *)
At(a, n) == [at |-> a, len |-> n]
SomeBursts == {<<>>, <<At(2, 1)>>, <<At(1, 1), At(0, 1)>>, <<At(1, 1), At(2, 1), At(4, 1)>>,
               <<At(0, 1), At(2, 1), At(4, 1)>>}
=============================================================================
