---------------------------- MODULE InputDriver ----------------------------
(***************************************************************************)
(* The guest driver of the input card (m68k/input-rom/input-diagrom.s):    *)
(* IntHandler, an INT2 server, moves events from the card into a software  *)
(* ring one register access at a time, and a task it signals empties the   *)
(* ring into input.device.  The host may push between any two accesses.    *)
(*                                                                         *)
(* exec's part (Wait, Signal, Disable, the INT2 server chain) is modelled  *)
(* from how the driver uses it.  exec clears INTREQ either before or after *)
(* calling the servers: AckModes holds the orders a run allows.            *)
(***************************************************************************)
EXTENDS NativeInput

CONSTANTS
    RingCapacity,   \* RING_CAPACITY, 16 in the code
    AckModes,       \* values of ack_late: TRUE when INTREQ is cleared afterwards
    OtherInt2       \* TRUE: some other device (a CIA timer) keeps raising INT2

ASSUME DriverAssumption ==
    /\ RingCapacity \in Nat \ {0}
    /\ AckModes \subseteq BOOLEAN /\ AckModes # {}
    /\ OtherInt2 \in BOOLEAN

VARIABLES
    pc,          \* where IntHandler is; "out" when it is not running
    event,       \* IntHandler's registers D1-D4: the event as read so far
    ack_late,
    ring,        \* ST_RING_BUF/HEAD/TAIL/COUNT
    signalled,   \* the task's event signal
    task,        \* "starting", "waiting" in Wait, "draining" in drain_and_dispatch
    dispatched   \* history: the events given to input.device, in order

taskVars == <<ring, signalled, task, dispatched>>
handlerVars == <<pc, event, ack_late>>
driverVars == <<inputVars, taskVars, handlerVars>>

(* TaskEntry has opened its libraries and added its INT2 server. *)
DriverInit ==
    /\ CardInit
    /\ pc = "out" /\ event = NoEvent /\ ack_late \in AckModes
    /\ ring = <<>> /\ signalled = FALSE /\ task = "starting" /\ dispatched = <<>>

-----------------------------------------------------------------------------
TakeInt2 ==
    /\ pc = "out" /\ ports
    /\ pc' = "drain"
    /\ ack_late' \in AckModes
    /\ ports' = ack_late'
    /\ UNCHANGED <<queue, overflow, int_status, int_enable, history, event, taskVars>>

ReadType ==
    /\ pc = "drain"
    /\ IF Len(ring) = RingCapacity
       THEN pc' = "ack" /\ UNCHANGED <<event, cardVars>>
       ELSE /\ pc' = IF queue = <<>> THEN "ack" ELSE "code"
            /\ event' = [event EXCEPT !.type = peek.type]
            /\ ReadCard
    /\ UNCHANGED <<history, ack_late, taskVars>>

(* One of the three reads after it. *)
ReadField(at, field, next) ==
    /\ pc = at /\ pc' = next
    /\ event' = [event EXCEPT ![field] = peek[field]]
    /\ ReadCard
    /\ UNCHANGED <<history, ack_late, taskVars>>

(* Store the entry in the ring. *)
Store ==
    /\ pc = "store" /\ pc' = "advance"
    /\ ring' = Append(ring, event)
    /\ UNCHANGED <<inputVars, event, ack_late, signalled, task, dispatched>>

WriteAdvance ==
    /\ pc = "advance" /\ pc' = "drain"
    /\ Advance
    /\ UNCHANGED <<event, ack_late, taskVars>>

WriteAck ==
    /\ pc = "ack" /\ pc' = "signal"
    /\ Ack
    /\ UNCHANGED <<event, ack_late, taskVars>>

(* Faulty: the test of the ring's count the wrong way round. *)
SignalAndExitInverted ==
    /\ pc = "signal" /\ pc' = "out"
    /\ signalled' = (signalled \/ ring = <<>>)
    /\ ports' = IF ack_late THEN FALSE ELSE ports
    /\ UNCHANGED <<queue, overflow, int_status, int_enable, history,
                   event, ack_late, ring, task, dispatched>>

(* Signal the task if the ring holds anything, and return to exec. *)
SignalAndExit ==
    /\ pc = "signal" /\ pc' = "out"
    /\ signalled' = (signalled \/ ring # <<>>)
    /\ ports' = IF ack_late THEN FALSE ELSE ports
    /\ UNCHANGED <<queue, overflow, int_status, int_enable, history,
                   event, ack_late, ring, task, dispatched>>

IntHandler ==
    \/ ReadType
    \/ ReadField("code", "code", "x") \/ ReadField("x", "x", "y") \/ ReadField("y", "y", "store")
    \/ Store \/ WriteAdvance \/ WriteAck \/ SignalAndExit

-----------------------------------------------------------------------------
(* A pending INT2 is taken before the task's next instruction. *)
TaskRuns == pc = "out" /\ ~ports

(* TaskEntry's last step before its loop: events pushed so far are latched. *)
EnableInt2 ==
    /\ TaskRuns /\ task = "starting" /\ task' = "waiting"
    /\ SetIntEnable(TRUE)
    /\ UNCHANGED <<handlerVars, ring, signalled, dispatched>>

Wait ==
    /\ TaskRuns /\ task = "waiting" /\ signalled
    /\ task' = "draining" /\ signalled' = FALSE
    /\ UNCHANGED <<inputVars, handlerVars, ring, dispatched>>

(* One turn of drain_and_dispatch: pop under Disable, then dispatch_one. *)
drain_and_dispatch ==
    /\ TaskRuns /\ task = "draining"
    /\ IF ring = <<>>
       THEN task' = "waiting" /\ UNCHANGED <<ring, dispatched>>
       ELSE /\ ring' = Tail(ring)
            /\ dispatched' = Append(dispatched, Head(ring))
            /\ UNCHANGED task
    /\ UNCHANGED <<inputVars, handlerVars, signalled>>

(* Another source on the shared INT2 line. *)
OtherSource ==
    /\ OtherInt2 /\ pc = "out" /\ ~ports
    /\ ports' = TRUE
    /\ UNCHANGED <<queue, overflow, int_status, int_enable, history, handlerVars, taskVars>>

HostPush == (push_discrete \/ push_pointer_motion) /\ UNCHANGED <<handlerVars, taskVars>>

DriverNext == HostPush \/ TakeInt2 \/ IntHandler
                \/ EnableInt2 \/ Wait \/ drain_and_dispatch \/ OtherSource

(***************************************************************************)
(* The guest keeps running and the other source keeps firing; the host is  *)
(* free to stop pushing.  The task's steps are strongly fair: a source on  *)
(* INT2 interrupts it for a while, never at every instruction.             *)
(***************************************************************************)
DriverSpec ==
    /\ DriverInit /\ [][DriverNext]_driverVars
    /\ WF_driverVars(TakeInt2) /\ WF_driverVars(IntHandler)
    /\ SF_driverVars(EnableInt2) /\ SF_driverVars(Wait) /\ SF_driverVars(drain_and_dispatch)
    /\ WF_driverVars(OtherSource)

-----------------------------------------------------------------------------
Dispatched(n) == \E i \in 1 .. Len(dispatched) : dispatched[i] = Discrete(n)
Queued(n) == \E i \in 1 .. Len(queue) : queue[i] = Discrete(n)

(* IntHandler stopped with the software ring full and the card not empty. *)
StoppedOnFullRing == pc = "ack" /\ Len(ring) = RingCapacity /\ queue # <<>>

(* Between its read of EVENT_TYPE and its write of EVENT_ADVANCE. *)
Reading == pc \in {"code", "x", "y", "store", "advance"}

(* The motion IntHandler is reading was evicted for a discrete event: the
   head is now another event, and EVENT_ADVANCE will pop that one. *)
HeadEvicted == Reading /\ event.type = "MOTION" /\ ~IsMotion(peek)

(***************************************************************************)
(* Every key, button and character event the card takes reaches            *)
(* input.device, however pushes, acknowledgements, signals and the other   *)
(* INT2 source interleave, on two conditions the driver relies on.  One is *)
(* about its ring being full: if exec clears INTREQ before the servers,    *)
(* the handler's own access to the card requests INT2 again, and the task  *)
(* that would empty the ring never runs.  The other is that the host does  *)
(* not evict the motion the handler is reading, which costs the key behind *)
(* it.  docs/input-protocol.md section 4 promises delivery of this card's  *)
(* own interrupt, without another source: INT_ENABLE = 1 "lets INT_STATUS  *)
(* reach INT2".                                                            *)
(***************************************************************************)
KeysReachInput ==
    ([]ack_late \/ []~StoppedOnFullRing) /\ []~HeadEvicted
        => \A n \in 1 .. MaxPushes : Queued(n) ~> Dispatched(n)

(***************************************************************************)
(* The events the driver dispatches are events the host pushed, in order   *)
(* and once each, although the queue's head may change between two reads   *)
(* of it: a motion may be overwritten by a newer one or evicted, and then  *)
(* its coordinates may be read as the 0 of a discrete event, which is no   *)
(* place in the order.                                                     *)
(***************************************************************************)
DispatchesInOrder ==
    \A i, j \in 1 .. Len(dispatched) :
        i < j /\ Stamp(dispatched[j]) # 0 => Stamp(dispatched[i]) < Stamp(dispatched[j])
=============================================================================
