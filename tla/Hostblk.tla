------------------------------ MODULE Hostblk ------------------------------
(***************************************************************************)
(* The hostblk card (crates/machine-core/src/hostblk.rs) as the machine    *)
(* bus drives it (lib.rs: `tick_exact` and `write_byte_slow`), under the   *)
(* most general guest: one that rings the doorbell with any pointer at any *)
(* time, rewrites descriptors while the card still owns them, pops         *)
(* completions whenever it likes, and masks and acknowledges the interrupt *)
(* at will.  HostblkDevice puts the real driver in the guest's place.  The *)
(* discovery registers, which share no state with the rings, are left out. *)
(***************************************************************************)
EXTENDS BlockTransfer, Sequences, FiniteSets

CONSTANTS
    SubmitCapacity,      \* SUBMIT_QUEUE_CAPACITY, 8 in the code
    CompletionCapacity,  \* COMPLETION_QUEUE_CAPACITY, 8 in the code
    CounterLimit,        \* 2^32: where the u32 counters wrap
    InitialDesc,         \* what guest RAM and the disks hold at power-on
    InitialMem,
    InitialDisk,
    MaxDoorbells         \* bound of the model: doorbells rung in a behaviour

ASSUME HostblkAssumption ==
    /\ SubmitCapacity \in Nat \ {0}
    /\ CompletionCapacity \in Nat \ {0}
    /\ CounterLimit \in Nat \ {0}
    /\ MaxDoorbells \in Nat
    /\ InitialDesc \in [Readable -> Descriptors]
    /\ InitialMem \in MemType
    /\ InitialDisk \in DiskType

VARIABLES
    submit_queue,      \* Seq(Ptrs): doorbells waiting for the engine
    completion_queue,  \* Seq of [ptr, error, actual], head readable by the guest
    submit_overflow,   \* doorbells dropped because submit_queue was full
    int_enable,        \* INT_ENABLE
    desc,              \* guest RAM: the descriptor at each readable pointer
    mem,               \* guest RAM: data cells
    disk,              \* the attached devices' contents
    ports              \* INTREQ.PORTS in the chipset, the INT2 request

(* History, read by the properties and by no action. *)
VARIABLES
    accepted,  \* the pointers the submission ring took, in order
    drained,   \* the pointers of the completions the guest popped, in order
    rung       \* the number of doorbells

rings == <<submit_queue, completion_queue, submit_overflow>>
data == <<desc, mem, disk>>
history == <<accepted, drained, rung>>
cardVars == <<rings, int_enable, data, ports>>
vars == <<rings, int_enable, data, ports, history>>

Counter == 0 .. CounterLimit - 1
Completion == [ptr : Ptrs, error : Errors, actual : Nat]

(* `irq_pending`: INT2 is a level, enabled and some completion unread. *)
irq_pending == int_enable /\ completion_queue # <<>>

CardInit ==
    /\ submit_queue = <<>>
    /\ completion_queue = <<>>
    /\ submit_overflow = 0
    /\ int_enable = FALSE
    /\ desc = InitialDesc
    /\ mem = InitialMem
    /\ disk = InitialDisk
    /\ ports = FALSE

Init == CardInit /\ accepted = <<>> /\ drained = <<>> /\ rung = 0

-----------------------------------------------------------------------------
(* A register write ends in `write_byte_slow`'s check of the level. *)
RaisePorts(pending) == ports' = (ports \/ pending)

(* Faulty: a ring that never refuses. *)
DoorbellUnbounded(ptr) ==
    /\ submit_queue' = Append(submit_queue, ptr)
    /\ RaisePorts(irq_pending)
    /\ UNCHANGED <<completion_queue, submit_overflow, int_enable>>

(* DOORBELL: `submit` queues the pointer or drops and counts it. *)
Doorbell(ptr) ==
    /\ IF Len(submit_queue) < SubmitCapacity
       THEN /\ submit_queue' = Append(submit_queue, ptr)
            /\ UNCHANGED submit_overflow
       ELSE /\ submit_overflow' = (submit_overflow + 1) % CounterLimit
            /\ UNCHANGED submit_queue
    /\ RaisePorts(irq_pending)
    /\ UNCHANGED <<completion_queue, int_enable>>

(***************************************************************************)
(* COMPLETION_ADVANCE pops the head; popping an empty queue does nothing.  *)
(* A longword write reaches the card one byte lane at a time and the level *)
(* is checked after each lane, so the lanes before the one that pops see   *)
(* the queue still full: the write that empties the queue raises PORTS     *)
(* once more.  A single byte write to the popping lane checks only after.  *)
(***************************************************************************)
Advance(longword) ==
    /\ completion_queue' = IF completion_queue = <<>> THEN <<>> ELSE Tail(completion_queue)
    /\ UNCHANGED <<submit_queue, submit_overflow, int_enable>>
    /\ RaisePorts(irq_pending' \/ (longword /\ irq_pending))

(* INT_ENABLE; the lanes before the last still see the old mask. *)
SetIntEnable(v, longword) ==
    /\ int_enable' = v
    /\ UNCHANGED rings
    /\ RaisePorts(irq_pending' \/ (longword /\ irq_pending))

(* `Ring::push` onto the completion ring: a full ring refuses the entry. *)
Push(ring, e) == IF Len(ring) < CompletionCapacity THEN Append(ring, e) ELSE ring

(***************************************************************************)
(* One raster line of `tick_exact`: the engine executes at most one        *)
(* submission, and only with room for its completion; then the level is    *)
(* polled whether or not anything ran.                                     *)
(***************************************************************************)
CanExecuteUnchecked == submit_queue # <<>>    \* faulty: no room check

CanExecute == Len(completion_queue) < CompletionCapacity /\ submit_queue # <<>>

Execute ==
    /\ CanExecute
    /\ LET ptr == Head(submit_queue)
           d == IF ptr \in Readable THEN desc[ptr] ELSE CHOOSE x \in Descriptors : TRUE
       IN \E o \in execute(ptr, d) :
            /\ completion_queue' = Push(completion_queue,
                   [ptr |-> ptr, error |-> o.error, actual |-> actual(o)])
            /\ mem' = MemAfter(d, o.moved, mem, disk)
            /\ disk' = DiskAfter(d, o.moved, mem, disk)
    /\ submit_queue' = Tail(submit_queue)
    /\ UNCHANGED <<submit_overflow, int_enable, desc>>
    /\ RaisePorts(irq_pending')

(* Faulty: the level is looked at only when something was executed. *)
PollEdge == ~CanExecute /\ UNCHANGED <<rings, int_enable, data, ports>>

Poll ==
    /\ ~CanExecute
    /\ RaisePorts(irq_pending)
    /\ UNCHANGED <<rings, int_enable, data>>

Tick == Execute \/ Poll

(* The guest clears INTREQ.PORTS through the chipset. *)
ClearPorts == ports' = FALSE /\ UNCHANGED <<rings, int_enable, data>>

-----------------------------------------------------------------------------
(* The most general guest. *)
GuestDoorbell(ptr) ==
    /\ rung < MaxDoorbells
    /\ Doorbell(ptr) /\ UNCHANGED data
    /\ rung' = rung + 1
    /\ accepted' = IF submit_queue' # submit_queue THEN Append(accepted, ptr) ELSE accepted
    /\ UNCHANGED drained

GuestAdvance(longword) ==
    /\ Advance(longword) /\ UNCHANGED data
    /\ drained' = IF completion_queue # <<>>
                  THEN Append(drained, Head(completion_queue).ptr) ELSE drained
    /\ UNCHANGED <<accepted, rung>>

GuestDescriptor(ptr, d) ==
    /\ desc' = [desc EXCEPT ![ptr] = d]
    /\ UNCHANGED <<rings, int_enable, mem, disk, ports, history>>

Next ==
    \/ \E ptr \in Ptrs : GuestDoorbell(ptr)
    \/ \E longword \in BOOLEAN : GuestAdvance(longword)
    \/ \E ptr \in Readable, d \in Descriptors : GuestDescriptor(ptr, d)
    \/ \E v, longword \in BOOLEAN : SetIntEnable(v, longword) /\ UNCHANGED <<data, history>>
    \/ Tick /\ UNCHANGED history
    \/ ClearPorts /\ UNCHANGED history

Spec == Init /\ [][Next]_vars

-----------------------------------------------------------------------------
(* Types, the fixed depth of both rings, and the width of the counters. *)
TypeOK ==
    /\ submit_queue \in Seq(Ptrs) /\ Len(submit_queue) <= SubmitCapacity
    /\ completion_queue \in Seq(Completion) /\ Len(completion_queue) <= CompletionCapacity
    /\ submit_overflow \in Counter
    /\ int_enable \in BOOLEAN
    /\ desc \in [Readable -> Descriptors]
    /\ mem \in MemType
    /\ disk \in DiskType
    /\ ports \in BOOLEAN
    /\ accepted \in Seq(Ptrs) /\ drained \in Seq(Ptrs) /\ rung \in Nat

(***************************************************************************)
(* Every doorbell the submission ring took is completed exactly once and   *)
(* in order, whatever the guest does in between: the popped completions,   *)
(* the unread ones and the waiting submissions, in that order, are the     *)
(* accepted doorbells.  A doorbell that was not taken is counted (modulo   *)
(* the counter's width).  docs/hostblk-protocol.md section 8: "Nothing is  *)
(* ever dropped" in the completion ring.                                   *)
(***************************************************************************)
ExactlyOnceInOrder ==
    /\ Len(accepted) = Len(drained) + Len(completion_queue) + Len(submit_queue)
    /\ \A i \in 1 .. Len(drained) : drained[i] = accepted[i]
    /\ \A i \in 1 .. Len(completion_queue) :
          completion_queue[i].ptr = accepted[Len(drained) + i]
    /\ \A i \in 1 .. Len(submit_queue) :
          submit_queue[i] = accepted[Len(drained) + Len(completion_queue) + i]
    /\ submit_overflow = (rung - Len(accepted)) % CounterLimit

(***************************************************************************)
(* The completion tells the truth about the transfer: guest RAM and the    *)
(* disks change only in a step that posts a completion, every sector that  *)
(* its `actual` counts has moved, and no other cell or sector has changed  *)
(* (section 6: "whole sectors that landed before any failure").  A         *)
(* write-protected unit is never written.                                  *)
(***************************************************************************)
Posted == completion_queue'[Len(completion_queue')]

LandedIn(d, n) ==
    /\ \A c \in Cells :
          IF d.command = "READ" /\ c - d.buffer \in 0 .. n - 1
          THEN mem'[c] = disk[d.unit][start_lba(d) + c - d.buffer]
          ELSE mem'[c] = mem[c]
    /\ \A u \in Attached : \A s \in Sectors(u) :
          IF d.command = "WRITE" /\ d.unit = u /\ s - start_lba(d) \in 0 .. n - 1
          THEN ~WriteProtect[u] /\ disk'[u][s] = mem[d.buffer + s - start_lba(d)]
          ELSE disk'[u][s] = disk[u][s]

PostsCompletion == Len(completion_queue') > Len(completion_queue)

ResidueIsHonestStep ==
    /\ (mem' # mem \/ disk' # disk) => PostsCompletion /\ Posted.ptr \in Readable
    /\ PostsCompletion /\ Posted.ptr \in Readable =>
          LandedIn(desc[Posted.ptr], Posted.actual \div SectorBytes)

ResidueIsHonest == [][ResidueIsHonestStep]_vars
=============================================================================
