------------------------------- MODULE RunLoop --------------------------------
(***************************************************************************)
(* The run loops of machine-hosted (run.rs) around a guest that may do     *)
(* anything: run_guest and run_guest_fixed, whose hook runs after every    *)
(* retired instruction ("hook"), and run_guest_max, which runs the guest   *)
(* in chunks and paces device time by the wall clock ("max").  Once per    *)
(* frame the loop services the host's sources: the serial script, the      *)
(* input script (input_script.rs) and one byte of the TCP bridge.          *)
(* boot_aros of the bare-metal boards ("virt", "q35") is a smaller loop    *)
(* with the same hook: no host sources, a wedge detector for one PC, and   *)
(* serial output printed by the line.                                      *)
(*                                                                         *)
(* What matters of device time is which frame it is in, and, in max mode,  *)
(* how far it lags the wall clock.  The forced exception of                *)
(* --trigger-illegal-after-frames, tracing, progress lines and screenshots *)
(* are left out.                                                           *)
(***************************************************************************)
EXTENDS HostSerial, NativeInput, FiniteSetsExt

CONSTANTS
    Rigs,            \* the command lines: [mode, tcp, sscript, iscript, max_frames,
                     \* max_instructions], and the guest they run: [guest,
                     \* kind, flow, exits, times], what it touches, what each
                     \* byte it writes is, where each PC may go, how a chunk
                     \* may end and how long it may take
    Span,            \* LOOP_WINDOW_SPAN_BYTES
    TightLoop,       \* TIGHT_LOOP_THRESHOLD
    WedgeSeconds,    \* MAX_MODE_WEDGE_SECONDS
    StormThreshold,  \* EXCEPTION_STORM_THRESHOLD
    BacklogCap,      \* MAX_MODE_BACKLOG_CAP
    Deadline,        \* clocks to the next device event
    MaxAhead         \* bound of the model: how far device time may get ahead

ASSUME LoopConstants ==
    /\ \A c \in {Span, TightLoop, WedgeSeconds, StormThreshold, BacklogCap, Deadline} : c \in Nat \ {0}
    /\ Deadline <= BacklogCap /\ TightLoop > 1

\* boot_aros has no bridge; an address is a number, and the guest goes from one
\* of its addresses to another; an input script is a list of directives.
ASSUME RigAssumption ==
    \A r \in Rigs :
        /\ r.mode \in {"hook", "max", "virt", "q35"}
        /\ r.mode \in {"virt", "q35"} => ~r.tcp
        /\ DOMAIN r.flow \subseteq Nat
        /\ \A pc \in DOMAIN r.flow : r.flow[pc] \subseteq DOMAIN r.flow
        /\ r.exits \subseteq {"stopped", "aline", "illegal"}
        /\ r.times \subseteq Nat /\ \E slowest \in r.times : \A t \in r.times : t <= slowest
        /\ r.iscript \in Seq(Range(r.iscript))

\* The n-th byte a serial script sends is its number n: somewhere among those
\* numbers is, for every directive, how many bytes are sent before it.
IsSend(d) == d.op = "Send"
SentBefore(script, sent) ==
    \A k \in 1..Len(script) :
        LET d == script[k]
        IN  IF IsSend(d) THEN /\ sent[k + 1] = sent[k] + Len(d.bytes)
                              /\ \A i \in 1..Len(d.bytes) : d.bytes[i] = <<"script", sent[k] + i>>
                         ELSE sent[k + 1] = sent[k]
NumbersIn(script) == {0} \cup UNION {{b[2] : b \in Range(d.bytes)} : d \in {e \in Range(script) : IsSend(e)}}
ASSUME ScriptAssumption ==
    \A r \in Rigs :
        /\ r.sscript \in Seq(Range(r.sscript))
        /\ \A d \in Range(r.sscript) :
              /\ d.op \in {"Send", "Wait", "Sleep"}
              /\ IsSend(d) => d.bytes \in Seq(Range(d.bytes)) /\ d = [op |-> "Send", bytes |-> d.bytes]
        /\ NumbersIn(r.sscript) \subseteq Nat
        /\ \E sent \in [1..(Len(r.sscript) + 1) -> NumbersIn(r.sscript)] :
              sent[1] = 0 /\ SentBefore(r.sscript, sent)

VARIABLES
    rig,      \* the command line, constant
    at,       \* where the loop is
    cpu,      \* [pc, stopped, exit]: exit is why the last batch returned
    frame,    \* Chipset.frames
    done,     \* last_serviced_frame; -1 is None
    window,   \* LoopWindow: [lo, hi, streak]
    storm,    \* [last, streak] of track_exception
    clock,    \* max mode: [lag, stuck], the wall clock less device time, and
              \* since when the PC has been in the window
    retired,  \* total_instructions, counted while --max-instructions is given
    iscript,  \* InputScript: [remaining, sleep], sleep = -1 for None
    outcome,  \* "running" or the Outcome
    dwell     \* history: how long the PC has been within Span of each address
              \* wherever the loop looked: after every instruction with a hook,
              \* in max mode only after a chunk

loopVars == <<rig, at, cpu, frame, done, window, storm, clock, retired, iscript, outcome, dwell>>
hostVars == <<loopVars, serialVars, inputVars>>

Hooked == rig.mode = "hook"
Booting == rig.mode \in {"virt", "q35"}
Chunked == rig.mode = "max"

\* How far apart two PCs of one loop may be: the boards take only one address.
Reach == IF Booting THEN 0 ELSE Span
Near(w, pc) == w <= pc /\ pc <= w + Reach
Goto(pc) == at' = pc
StayLoop == UNCHANGED <<rig, cpu, frame, done, window, storm, clock, retired, iscript, outcome, dwell>>

\* run_guest_max starts with device time caught up with the wall clock.
AnchoredNow == [lag |-> 0, stuck |-> 0]

\* The hosted window starts having seen the first PC, the boards' streak at 0.
FirstStreak == IF Booting THEN 0 ELSE 1

HostInit ==
    /\ rig \in Rigs
    /\ at = "run" /\ outcome = "running"
    /\ \E pc \in DOMAIN rig.flow :
         /\ cpu = [pc |-> pc, ppc |-> pc, stopped |-> FALSE, exit |-> "none"]
         /\ window = [lo |-> pc, hi |-> pc, streak |-> FirstStreak]
         /\ dwell = [w \in DOMAIN rig.flow |-> IF ~Near(w, pc) THEN -1 ELSE IF Hooked THEN 1 ELSE 0]
    /\ frame = 0 /\ done = -1 /\ retired = 0
    /\ storm = [last |-> <<"none", 0>>, streak |-> 0]
    /\ clock = AnchoredNow
    /\ iscript = [remaining |-> rig.iscript, sleep |-> -1]
    /\ SerialInit(rig.sscript)
    /\ CardInit

-----------------------------------------------------------------------------
(* LoopWindow.                                                             *)

WindowReset(pc) == [lo |-> pc, hi |-> pc, streak |-> 1]
Fits(w, pc) == Max({w.hi, pc}) - Min({w.lo, pc}) <= Reach
\* Nobody looks at a streak beyond the threshold.
Widened(w, pc) == [lo |-> Min({w.lo, pc}), hi |-> Max({w.hi, pc}), streak |-> Min({w.streak + 1, TightLoop})]
\* Faulty: the streak survives the window.
ExtendKeepingStreak(w, pc) == IF Fits(w, pc) THEN Widened(w, pc) ELSE [WindowReset(pc) EXCEPT !.streak = w.streak]
Extend(w, pc) == IF Fits(w, pc) THEN Widened(w, pc) ELSE WindowReset(pc)

\* What the PC's stay near each address amounts to after a PC was looked at;
\* -1 once it was seen elsewhere.
Slack == IF Chunked THEN Max(rig.times) ELSE 1
Longest == 2 * Max({TightLoop, WedgeSeconds}) + Slack
Stay(pc, amount) ==
    [w \in DOMAIN dwell |-> IF ~Near(w, pc) THEN -1 ELSE Min({Max({dwell[w], 0}) + amount, Longest})]

-----------------------------------------------------------------------------
(* The guest.  An instruction may touch the serial registers or the input  *)
(* card, and goes on at any PC; it may STOP.                               *)

SerialAccess == rig.guest = "serial" /\ (push_serial_byte \/ read_serdatr \/ ClearRbf) /\ UNCHANGED inputVars
CardAccess ==
    /\ rig.guest = "card"
    /\ \/ Advance \/ Ack \/ ClearPorts
       \/ ReadCard /\ UNCHANGED <<pushes, accepted, popped>>
       \/ \E v \in BOOLEAN : SetIntEnable(v)
    /\ UNCHANGED serialVars
NoAccess == UNCHANGED <<serialVars, inputVars>>

Running == outcome = "running" /\ at = "run" /\ ~cpu.stopped
\* Nobody looks at a count beyond the limit.
Counted == IF rig.max_instructions = 0 THEN 0 ELSE Min({retired + 1, rig.max_instructions})

\* Device time passes: a tick may end a frame.
Tick == frame' \in {frame, frame + 1}

\* With a hook: the instruction retires, devices are ticked, the loop services.
Retires ==
    /\ Running
    /\ SerialAccess \/ CardAccess \/ NoAccess
    /\ \E pc \in rig.flow[cpu.pc], stop \in {FALSE, "stopped" \in rig.exits} :
         cpu' = [pc |-> pc, ppc |-> cpu.pc, stopped |-> stop, exit |-> "budget"]
    /\ Tick /\ retired' = Counted
    /\ Goto("drain")
    /\ UNCHANGED <<rig, done, window, storm, clock, iscript, outcome, dwell>>

HookInstruction == Hooked /\ Retires
BootInstruction == Booting /\ Retires

\* Max mode: the chunk goes on, wherever its instructions lead and with nobody
\* looking, or ends on its budget, on a boundary request, on a STOP or on a
\* trap, some wall-clock time after it began.
ChunkGoesOn ==
    /\ Running /\ Chunked
    /\ SerialAccess \/ CardAccess \/ NoAccess
    /\ \E pc \in rig.flow[cpu.pc] : cpu' = [cpu EXCEPT !.pc = pc]
    /\ retired' = Counted
    /\ UNCHANGED <<rig, at, frame, done, window, storm, clock, iscript, outcome, dwell>>

ChunkEnds ==
    /\ Running /\ Chunked
    /\ \E pc \in rig.flow[cpu.pc], exit \in {"budget", "boundary"} \cup rig.exits, elapsed \in rig.times :
         /\ exit = "boundary" => clock.lag > -MaxAhead
         /\ cpu' = [pc |-> pc, ppc |-> pc, stopped |-> exit = "stopped", exit |-> exit]
         /\ clock' = [lag |-> clock.lag + elapsed, stuck |-> Min({clock.stuck + elapsed, WedgeSeconds})]
         /\ dwell' = [w \in DOMAIN dwell |-> IF dwell[w] < 0 THEN -1 ELSE Min({dwell[w] + elapsed, Longest})]
    /\ retired' = Counted
    /\ Goto("drain")
    /\ UNCHANGED <<rig, frame, done, window, storm, iscript, outcome>>
    /\ NoAccess

\* A chunk on a stopped CPU returns at once.
ChunkStopped ==
    /\ outcome = "running" /\ at = "run" /\ cpu.stopped /\ Chunked
    /\ cpu' = [cpu EXCEPT !.exit = "stopped"]
    /\ Goto("drain")
    /\ UNCHANGED <<rig, frame, done, window, storm, clock, retired, iscript, outcome, dwell>>
    /\ NoAccess

-----------------------------------------------------------------------------
(* After the batch or the instruction: drain, then in max mode the wedge   *)
(* check, then the once-a-frame service, then the limits and the exit.     *)

Drain ==
    /\ at = "drain" /\ ~Booting /\ drain_serial(rig.tcp)
    /\ UNCHANGED loopVars /\ UNCHANGED inputVars

BootDrain ==
    /\ at = "drain" /\ Booting /\ boot_drain_serial(rig.mode, rig.kind)
    /\ UNCHANGED loopVars /\ UNCHANGED inputVars

Drained ==
    /\ at = "drain" /\ port.out = <<>>
    /\ Goto(IF frame # done /\ ~Booting THEN "service" ELSE "check")
    /\ IF ~Chunked THEN UNCHANGED <<cpu, window, clock, dwell>>
       ELSE LET stop  == cpu.exit = "stopped"
                inside == Fits(window, cpu.pc)
            IN  /\ window' = IF stop THEN WindowReset(cpu.pc) ELSE Extend(window, cpu.pc)
                /\ clock' = IF stop \/ ~inside THEN [clock EXCEPT !.stuck = 0] ELSE clock
                /\ cpu' = IF ~stop /\ inside /\ clock.stuck >= WedgeSeconds
                          THEN [cpu EXCEPT !.exit = "wedged"] ELSE cpu
                /\ dwell' = IF stop THEN [w \in DOMAIN dwell |-> IF Near(w, cpu.pc) THEN 0 ELSE -1]
                            ELSE Stay(cpu.pc, 0)
    /\ UNCHANGED <<rig, frame, done, storm, retired, iscript, outcome>>
    /\ NoAccess

\* service_host_serial: the serial script, the input script, one TCP byte.
Service ==
    /\ at = "service" /\ Goto("sscript")
    /\ done' = frame
    /\ UNCHANGED <<rig, cpu, frame, window, storm, clock, retired, iscript, outcome, dwell>>
    /\ NoAccess

ServiceSerialScript ==
    /\ at = "sscript"
    /\ \/ (StartDirective(frame) \/ DirectiveEnds(frame)) /\ UNCHANGED at
       \/ (SendByte \/ ScriptWaits(frame)) /\ Goto("iscript")
    /\ StayLoop /\ UNCHANGED inputVars

\* InputScript::tick, one directive per step.  A directive the card refuses is
\* kept and retried in the next frame.
AsleepUntil(deadline) == deadline >= 0 /\ frame < deadline
Accepts(d) == d.op = "Sleep" \/ ~is_full
              \/ (d.op = "Key" /\ motion_index # {}) \/ (d.op = "Move" /\ tail_motion_index # {})
RestDropping(d) == Tail(iscript.remaining)      \* faulty: a refused directive is skipped
Rest(d) == IF Accepts(d) THEN Tail(iscript.remaining) ELSE iscript.remaining

InputScriptWaits ==
    /\ at = "iscript" /\ (AsleepUntil(iscript.sleep) \/ iscript.remaining = <<>>)
    /\ Goto("tcp")
    /\ iscript' = [iscript EXCEPT !.sleep = IF AsleepUntil(@) THEN @ ELSE -1]
    /\ UNCHANGED <<rig, cpu, frame, done, window, storm, clock, retired, outcome, dwell>>
    /\ NoAccess

InputDirective ==
    LET d == Head(iscript.remaining)
    IN  /\ at = "iscript" /\ ~AsleepUntil(iscript.sleep) /\ iscript.remaining # <<>>
        /\ \/ d.op = "Key"   /\ push_discrete
           \/ d.op = "Move"  /\ push_pointer_motion
           \/ d.op = "Sleep" /\ UNCHANGED inputVars
        /\ iscript' = [remaining |-> Rest(d), sleep |-> IF d.op = "Sleep" THEN frame + d.frames ELSE -1]
        /\ Goto(IF Accepts(d) THEN "iscript" ELSE "tcp")
        /\ UNCHANGED <<rig, cpu, frame, done, window, storm, clock, retired, outcome, dwell, serialVars>>

ServiceTcp ==
    /\ at = "tcp" /\ Goto("check")
    /\ IF rig.tcp THEN ReceiveHostByte ELSE UNCHANGED serialVars
    /\ StayLoop /\ UNCHANGED inputVars
-----------------------------------------------------------------------------
(* The ends.                                                               *)

Limit == \/ rig.max_instructions # 0 /\ retired >= rig.max_instructions
         \/ rig.max_frames # 0 /\ frame >= rig.max_frames

\* With a hook: the window takes the retired instruction's PC, then the limits.
RetiredCheck ==
    LET w == Extend(window, cpu.ppc)
    IN  /\ at = "check"
        /\ window' = w
        /\ dwell' = Stay(cpu.ppc, 1)
        /\ outcome' = IF w.streak >= TightLoop THEN "Wedged" ELSE IF Limit THEN "LimitReached" ELSE outcome
        /\ Goto("run")
        /\ UNCHANGED <<rig, cpu, frame, done, storm, clock, retired, iscript>>
        /\ NoAccess

HookCheck == Hooked /\ RetiredCheck
BootCheck == Booting /\ RetiredCheck

Traps == {"aline", "illegal"}

\* The same exception at the same PC, so many times in a row.
track_exception(kind, pc) ==
    IF storm.last = <<kind, pc>> THEN [storm EXCEPT !.streak = @ + 1] ELSE [last |-> <<kind, pc>>, streak |-> 1]

TakeException(kind) ==
    LET s == track_exception(kind, cpu.pc)
    IN  /\ storm' = s
        /\ IF s.streak >= StormThreshold THEN outcome' = "Storm" /\ UNCHANGED cpu
           ELSE /\ \E pc \in rig.flow[cpu.pc] : cpu' = [cpu EXCEPT !.pc = pc]
                /\ UNCHANGED outcome

Trapped ==
    /\ Running
    /\ \E kind \in rig.exits \cap Traps : TakeException(kind)
    /\ UNCHANGED <<rig, at, frame, done, window, clock, retired, iscript, dwell>>
    /\ NoAccess

HookTrap == Hooked /\ Trapped
BootTrap == Booting /\ Trapped

\* A stopped CPU and a hook: nothing can wake it, or the frame limit is
\* reached, or device time passes line by line until something may wake it.
Parked ==
    /\ outcome = "running" /\ at = "run" /\ cpu.stopped
    /\ \/ outcome' = "CleanHalt" /\ UNCHANGED <<cpu, frame>>
       \/ IF rig.max_frames # 0 /\ frame >= rig.max_frames
          THEN outcome' = "LimitReached" /\ UNCHANGED <<cpu, frame>>
          ELSE /\ Tick
               /\ \E woken \in BOOLEAN : cpu' = [cpu EXCEPT !.stopped = ~woken]
               /\ UNCHANGED outcome
    /\ UNCHANGED <<rig, at, done, window, storm, clock, retired, iscript, dwell>>
    /\ NoAccess

HookStopped == Hooked /\ Parked
BootStopped == Booting /\ Parked

\* When boot_aros ends, the line that was not finished is printed.
BootEnds ==
    /\ outcome # "running" /\ Booting /\ output # <<>>
    /\ flush_line(rig.mode, rig.kind, <<>>)
    /\ UNCHANGED <<loopVars, inputVars, port, tail, sscript, input, bridge>>

\* Max mode: the limits, then what the exit asks for.
ChunkCheck ==
    /\ at = "check" /\ Chunked
    /\ \/ /\ cpu.exit = "wedged" /\ outcome' = "Wedged"
          /\ UNCHANGED <<at, cpu, storm>>
       \/ /\ cpu.exit # "wedged" /\ Limit /\ outcome' = "LimitReached"
          /\ UNCHANGED <<at, cpu, storm>>
       \/ /\ cpu.exit = "budget" /\ ~Limit
          /\ Goto(IF clock.lag >= Deadline THEN "tick" ELSE "run")
          /\ UNCHANGED <<cpu, storm, outcome>>
       \/ /\ cpu.exit = "boundary" /\ ~Limit
          /\ Goto("tick")
          /\ UNCHANGED <<cpu, storm, outcome>>
       \/ /\ cpu.exit = "stopped" /\ ~Limit
          /\ \/ outcome' = "CleanHalt" /\ UNCHANGED at
             \/ Goto("sleep") /\ UNCHANGED outcome
          /\ UNCHANGED <<cpu, storm>>
       \/ /\ cpu.exit \in Traps /\ ~Limit
          /\ TakeException(cpu.exit)
          /\ Goto(IF clock.lag >= Deadline THEN "tick" ELSE "run")
    /\ UNCHANGED <<rig, frame, done, window, clock, retired, iscript, dwell>>
    /\ NoAccess

\* Device time falls at most BacklogCap behind; the excess is dropped.
Capped(lag) == Min({lag, BacklogCap})

\* The device event is due, or the chunk ended early: either way it happens.
ChunkTick ==
    /\ at = "tick" /\ Goto("run")
    /\ Tick
    /\ clock' = [clock EXCEPT !.lag = Capped(@ - Deadline)]
    /\ UNCHANGED <<rig, cpu, done, window, storm, retired, iscript, outcome, dwell>>
    /\ NoAccess

\* A stopped CPU in max mode: the host sleeps in slices until the event is due
\* or a byte arrives over TCP.
Sleep ==
    /\ at = "sleep"
    /\ \/ /\ clock.lag >= Deadline
          /\ Goto("catchup") /\ clock' = [clock EXCEPT !.lag = Capped(@)]
          /\ UNCHANGED serialVars
       \/ /\ clock.lag < Deadline /\ rig.tcp /\ serial_in_has_room /\ input # <<>>
          /\ ReceiveHostByte
          /\ Goto("catchup") /\ clock' = [clock EXCEPT !.lag = Capped(@)]
       \/ /\ clock.lag < Deadline /\ ~(rig.tcp /\ serial_in_has_room /\ input # <<>>)
          /\ clock' = [clock EXCEPT !.lag = @ + 1]
          /\ UNCHANGED <<at, serialVars>>
    /\ UNCHANGED <<rig, cpu, frame, done, window, storm, retired, iscript, outcome, dwell, inputVars>>

\* Every event that is due by now, until one raises an interrupt.
CatchUp ==
    /\ at = "catchup"
    /\ \/ /\ clock.lag >= Deadline
          /\ Tick /\ clock' = [clock EXCEPT !.lag = @ - Deadline]
          /\ \/ UNCHANGED <<at, cpu>>
             \/ Goto("run") /\ cpu' = [cpu EXCEPT !.stopped = FALSE]
       \/ /\ clock.lag < Deadline /\ Goto("run")
          /\ \E woken \in BOOLEAN : cpu' = [cpu EXCEPT !.stopped = ~woken]
          /\ UNCHANGED <<frame, clock>>
    /\ UNCHANGED <<rig, done, window, storm, retired, iscript, outcome, dwell>>
    /\ NoAccess

MainLoop ==
    /\ outcome = "running"
    /\ \/ HookInstruction \/ HookTrap \/ HookStopped \/ HookCheck
       \/ ChunkGoesOn \/ ChunkEnds \/ ChunkStopped \/ ChunkCheck \/ ChunkTick \/ Sleep \/ CatchUp
       \/ Drain \/ Drained \/ Service \/ ServiceSerialScript \/ InputScriptWaits \/ InputDirective \/ ServiceTcp

BridgeThread == rig.tcp /\ outcome = "running" /\ (poll_loop \/ ClientTypes) /\ UNCHANGED <<loopVars, inputVars>>

\* The loop of boot_aros, the same on both boards; Drained is its too.
BootLoop ==
    /\ outcome = "running"
    /\ BootInstruction \/ BootDrain \/ BootCheck \/ BootTrap \/ BootStopped

HostNext == MainLoop \/ BootLoop \/ BootEnds \/ BridgeThread
HostSpec == HostInit /\ [][HostNext]_hostVars

-----------------------------------------------------------------------------
Confined(n) == \E w \in DOMAIN dwell : dwell[w] >= n
Patience == IF Chunked THEN WedgeSeconds ELSE TightLoop

(***************************************************************************)
(* A guest is called wedged only when its PC was within Reach of one       *)
(* address wherever the loop looked, for TightLoop instructions or, in max *)
(* mode, for WedgeSeconds of the clock.  With a hook the loop looks after  *)
(* every instruction; in max mode only after a chunk, as the comment of    *)
(* MAX_MODE_WEDGE_SECONDS says, so there the guest may have been anywhere  *)
(* in between.  And one found there for twice as long, and for the chunk   *)
(* in which that happens, is never left running: a window that began       *)
(* outside the loop costs at most one restart, because what is widened is  *)
(* the window and what is compared is the span it would have.              *)
(***************************************************************************)
WedgeVerdictIsRight ==
    /\ outcome = "Wedged" => Confined(Patience)
    /\ outcome = "running" /\ at = "run" => ~Confined(2 * Patience - 1 + Slack)

(***************************************************************************)
(* Every key directive the input script has gone past was taken by the     *)
(* card: a refused one is retried, never skipped, so a TYPE longer than    *)
(* the queue arrives whole.                                                *)
(***************************************************************************)
ScriptDirectivesAllAccepted ==
    LET keys(s) == Cardinality({i \in 1..Len(s) : s[i].op = "Key"})
    IN  Cardinality(accepted) = keys(rig.iscript) - keys(iscript.remaining)
=============================================================================
