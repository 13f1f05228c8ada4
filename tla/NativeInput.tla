---------------------------- MODULE NativeInput ----------------------------
(***************************************************************************)
(* The native input card (crates/machine-core/src/input.rs) and how the    *)
(* bus connects its interrupt latch to INT2 (lib.rs).  The host pushes     *)
(* events, once per frame, between any two guest instructions; the guest   *)
(* reads the head of the queue through registers and pops it.              *)
(*                                                                         *)
(* An event carries the number of the push that made it: a key, button or  *)
(* character event ("DISCRETE") in its code, a motion event in both of its *)
(* coordinates.  Qualifiers and the key/button/char distinction change     *)
(* nothing in this module.                                                 *)
(***************************************************************************)
EXTENDS Integers, Sequences

CONSTANTS
    QueueCapacity,  \* QUEUE_CAPACITY, 16 in the code
    CounterLimit,   \* 2^32: where the overflow counter wraps
    MaxPushes       \* bound of the model: events the host offers

ASSUME InputAssumption ==
    /\ QueueCapacity \in Nat \ {0}
    /\ CounterLimit \in Nat \ {0}
    /\ MaxPushes \in Nat

VARIABLES
    queue,       \* EventQueue: Seq of [type, code, x, y]
    overflow,    \* EVENT_OVERFLOW
    int_status,  \* INT_STATUS, the latch
    int_enable,  \* INT_ENABLE
    ports        \* INTREQ.PORTS in the chipset

(* History, read by the properties and by no action. *)
VARIABLES
    pushes,    \* events the host has offered
    accepted,  \* codes of the discrete events the queue took
    popped     \* the events the guest popped, in order

cardVars == <<queue, overflow, int_status, int_enable, ports>>
history == <<pushes, accepted, popped>>
inputVars == <<cardVars, history>>

Discrete(n) == [type |-> "DISCRETE", code |-> n, x |-> 0, y |-> 0]
Motion(n) == [type |-> "MOTION", code |-> 0, x |-> n, y |-> n]
NoEvent == [type |-> "NONE", code |-> 0, x |-> 0, y |-> 0]
IsMotion(e) == e.type = "MOTION"
Events == {Discrete(n) : n \in 1 .. MaxPushes} \cup {Motion(n) : n \in 1 .. MaxPushes}

irq_pending == int_enable /\ int_status

CardInit ==
    /\ queue = <<>> /\ overflow = 0
    /\ int_status = FALSE /\ int_enable = FALSE
    /\ ports = FALSE
    /\ pushes = 0 /\ accepted = {} /\ popped = <<>>

-----------------------------------------------------------------------------
is_full == Len(queue) = QueueCapacity

(* Faulty: the newest motion anywhere in the queue, as the first design had it. *)
tail_motion_index_anywhere ==
    {i \in 1 .. Len(queue) : IsMotion(queue[i]) /\ \A j \in i + 1 .. Len(queue) : ~IsMotion(queue[j])}

(* The newest entry, if it is a motion: what a new motion coalesces into. *)
tail_motion_index == {i \in {Len(queue)} : i > 0 /\ IsMotion(queue[i])}

(* Faulty: evict the oldest entry, whatever it is. *)
oldest_index == {i \in {1} : queue # <<>>}

(* The oldest queued motion: what a discrete event evicts from a full queue. *)
motion_index == {i \in 1 .. Len(queue) : IsMotion(queue[i]) /\ \A j \in 1 .. i - 1 : ~IsMotion(queue[j])}

remove(i) == SubSeq(queue, 1, i - 1) \o SubSeq(queue, i + 1, Len(queue))

(***************************************************************************)
(* `push_pointer_motion`.  A full queue whose newest entry is not a motion *)
(* drops the event without a trace: no latch, no count.  Pushing never     *)
(* touches INTREQ: the host writes the card, not the bus.                  *)
(***************************************************************************)
push_pointer_motion ==
    /\ pushes < MaxPushes /\ pushes' = pushes + 1
    /\ \/ /\ tail_motion_index # {}
          /\ queue' = [i \in 1 .. Len(queue) |->
                         IF i \in tail_motion_index THEN Motion(pushes + 1) ELSE queue[i]]
          /\ int_status' = TRUE
       \/ /\ tail_motion_index = {} /\ ~is_full
          /\ queue' = Append(queue, Motion(pushes + 1))
          /\ int_status' = TRUE
       \/ /\ tail_motion_index = {} /\ is_full
          /\ UNCHANGED <<queue, int_status>>
    /\ UNCHANGED <<overflow, int_enable, ports, accepted, popped>>

(***************************************************************************)
(* `push_discrete`, the end of push_key, push_button and push_char: append,*)
(* or evict the oldest motion and append, or count the event as lost.  All *)
(* three latch INT_STATUS.                                                 *)
(***************************************************************************)
push_discrete ==
    /\ pushes < MaxPushes /\ pushes' = pushes + 1
    /\ \/ /\ ~is_full
          /\ queue' = Append(queue, Discrete(pushes + 1))
          /\ accepted' = accepted \cup {pushes + 1}
          /\ UNCHANGED overflow
       \/ /\ is_full
          /\ \E i \in motion_index : queue' = Append(remove(i), Discrete(pushes + 1))
          /\ accepted' = accepted \cup {pushes + 1}
          /\ UNCHANGED overflow
       \/ /\ is_full /\ motion_index = {}
          /\ overflow' = (overflow + 1) % CounterLimit
          /\ UNCHANGED <<queue, accepted>>
    /\ int_status' = TRUE
    /\ UNCHANGED <<int_enable, ports, popped>>

-----------------------------------------------------------------------------
(* Every guest access to the card, read or write, ends in the bus checking *)
(* the latch; a longword write is checked after each of its byte lanes.    *)
RaisePorts(pending) == ports' = (ports \/ pending)

peek == IF queue = <<>> THEN NoEvent ELSE Head(queue)

ReadCard == RaisePorts(irq_pending) /\ UNCHANGED <<queue, overflow, int_status, int_enable>>

(* EVENT_ADVANCE pops the head. *)
Advance ==
    /\ queue' = IF queue = <<>> THEN <<>> ELSE Tail(queue)
    /\ popped' = IF queue = <<>> THEN popped ELSE Append(popped, Head(queue))
    /\ RaisePorts(irq_pending)
    /\ UNCHANGED <<overflow, int_status, int_enable, pushes, accepted>>

(* Faulty: a plain write-1-to-clear. *)
AckUngated ==
    /\ int_status' = FALSE
    /\ RaisePorts(irq_pending)
    /\ UNCHANGED <<queue, overflow, int_enable, history>>

(* INT_STATUS: write 1 to clear, ignored while the queue is not empty. *)
Ack ==
    /\ int_status' = IF queue = <<>> THEN FALSE ELSE int_status
    /\ RaisePorts(irq_pending)
    /\ UNCHANGED <<queue, overflow, int_enable, history>>

SetIntEnable(v) ==
    /\ int_enable' = v
    /\ RaisePorts(int_status /\ (v \/ int_enable))
    /\ UNCHANGED <<queue, overflow, int_status, history>>

ClearPorts == ports' = FALSE /\ UNCHANGED <<queue, overflow, int_status, int_enable, history>>

(* The card with the most general guest. *)
CardNext ==
    \/ push_pointer_motion \/ push_discrete
    \/ Advance \/ Ack
    \/ ReadCard /\ UNCHANGED history
    \/ \E v \in BOOLEAN : SetIntEnable(v)
    \/ ClearPorts

CardSpec == CardInit /\ [][CardNext]_inputVars

-----------------------------------------------------------------------------
TypeOK ==
    /\ queue \in Seq(Events) /\ Len(queue) <= QueueCapacity
    /\ overflow \in 0 .. CounterLimit - 1
    /\ int_status \in BOOLEAN /\ int_enable \in BOOLEAN /\ ports \in BOOLEAN
    /\ pushes \in 0 .. MaxPushes
    /\ accepted \subseteq 1 .. MaxPushes
    /\ popped \in Seq(Events)

Stamp(e) == IF IsMotion(e) THEN e.x ELSE e.code
DiscreteCodes(events) == {events[i].code : i \in {k \in 1 .. Len(events) : ~IsMotion(events[k])}}

(***************************************************************************)
(* No discrete event the queue took is lost: eviction and coalescing only  *)
(* ever cost motion, so what was popped and what is queued, less the       *)
(* motions, is what was accepted ("protect discrete events"); and events   *)
(* leave in the order the host made them, a motion never overtaking the    *)
(* click or key before it ("Coalescing must not reorder").                 *)
(***************************************************************************)
DiscreteEventsSurvive ==
    LET events == popped \o queue
    IN  /\ DiscreteCodes(events) = accepted
        /\ \A i, j \in 1 .. Len(events) : i < j => Stamp(events[i]) < Stamp(events[j])

(***************************************************************************)
(* The latch is set whenever an event is queued, however the guest         *)
(* interleaves pops and acknowledgements with the host's pushes: no event  *)
(* is stranded behind a cleared latch.                                     *)
(***************************************************************************)
LatchCoversQueue == queue # <<>> => int_status
=============================================================================
