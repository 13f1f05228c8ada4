--------------------------- MODULE HostblkDevice ---------------------------
(***************************************************************************)
(* hostblk.device (m68k/hostblk-rom/hostblk-diagrom.s) on the hostblk      *)
(* card: client tasks calling BeginIO, AbortIO and WaitIO, the driver's    *)
(* slot pool and pending list, and its INT2 server, which runs one         *)
(* register access at a time while the card's engine keeps ticking.        *)
(*                                                                         *)
(* Each client has one IORequest, which it reuses for every I/O, as ROM    *)
(* FFS does.  What happens between Disable and Enable is one action: no    *)
(* task and no interrupt can run there, and the card's engine sees it only *)
(* through the doorbell.  exec (WaitIO, ReplyMsg, the server chain) is     *)
(* external.                                                               *)
(***************************************************************************)
EXTENDS Hostblk

CONSTANTS
    Clients,    \* tasks, each with its IORequest
    Requests,   \* what each client may ask for: sets of
                \* [command, unit, length, offset, data, actual]
    HiUnit,     \* 2^32: what io_Actual counts in a 64-bit command's offset
    MaxIssues   \* bound of the model: requests issued

NoReq == "none"

(* DEV_CAPACITY is read from SUBMIT_CAPACITY; a slot's address is its      *)
(* number here, and 0 is NULL as on the card.                              *)
DEV_CAPACITY == SubmitCapacity
Slots == 1 .. DEV_CAPACITY

IoErrors == {"OK", "TDERR_BadUnitNum", "TDERR_WriteProt", "IOERR_NOCMD",
             "IOERR_BADLENGTH", "IOERR_BADADDRESS", "TDERR_SeekError",
             "TDERR_NotSpecified", "IOERR_ABORTED"}

AsyncCommands == {"CMD_READ", "TD_READ64", "CMD_WRITE", "TD_WRITE64", "CMD_UPDATE"}

RequestType == [command : AsyncCommands, unit : UnitIds, length : Nat,
                offset : Nat, data : Nat, actual : Nat]

(* `hb_err_to_io_error`: ErrTable, indexed by the card's error code. *)
hb_err_to_io_error(e) ==
    CASE e = "OK" -> "OK"
      [] e = "BAD_UNIT" -> "TDERR_BadUnitNum"
      [] e = "WRITE_PROTECTED" -> "TDERR_WriteProt"
      [] e = "INVALID_COMMAND" -> "IOERR_NOCMD"
      [] e = "INVALID_LENGTH" -> "IOERR_BADLENGTH"
      [] e = "MISALIGNED" -> "IOERR_BADADDRESS"
      [] e = "OUT_OF_RANGE" -> "TDERR_SeekError"
      [] e = "BAD_ADDRESS" -> "IOERR_BADADDRESS"
      [] e = "IO_ERROR" -> "TDERR_NotSpecified"

(* `classify_async` and the descriptor that submit_or_queue builds from it. *)
classify_async(r) ==
    [command |-> CASE r.command \in {"CMD_READ", "TD_READ64"} -> "READ"
                   [] r.command \in {"CMD_WRITE", "TD_WRITE64"} -> "WRITE"
                   [] r.command = "CMD_UPDATE" -> "FLUSH",
     hi |-> IF r.command \in {"TD_READ64", "TD_WRITE64"} THEN r.actual ELSE 0]

DescriptorOf(r) ==
    [command |-> classify_async(r).command, unit |-> r.unit, length |-> r.length,
     offset |-> classify_async(r).hi * HiUnit + r.offset, buffer |-> r.data]

ASSUME DeviceAssumption ==
    /\ Slots \subseteq Readable
    /\ NoReq \notin Clients
    /\ Requests \in [Clients -> (SUBSET RequestType) \ {{}}]
    /\ HiUnit \in Nat
    /\ \A c \in Clients : \A r \in Requests[c] : DescriptorOf(r) \in Descriptors
    /\ MaxIssues \in Nat

VARIABLES
    ioreq,            \* [Clients -> the IORequest: request fields, io_error, ln_type]
    task,             \* [Clients -> "idle" | "begun" | "waiting"]
    issues,           \* requests issued so far, bounded by MaxIssues
    slot_owner,       \* SLOT_OWNER of each slot
    dev_outstanding,  \* DEV_OUTSTANDING
    dev_pending,      \* DEV_PENDING, an exec list
    pc,               \* where IntHandler is; "out" when not running
    a2, d1, d2, a4,   \* IntHandler's registers: slot, error, actual, IORequest
    ack_late          \* exec clears INTREQ after the chain rather than before

clientVars == <<ioreq, task, issues>>
poolVars == <<slot_owner, dev_outstanding, dev_pending>>
intVars == <<pc, a2, d1, d2, a4, ack_late>>
driverVars == <<clientVars, poolVars, intVars>>
devVars == <<vars, driverVars>>

DevInit ==
    /\ submit_queue = <<>> /\ completion_queue = <<>> /\ submit_overflow = 0
    /\ int_enable = TRUE            \* RtInit's last write, after mounting
    /\ desc = InitialDesc /\ mem = InitialMem /\ disk = InitialDisk
    /\ ports = FALSE
    /\ accepted = <<>> /\ drained = <<>> /\ rung = 0
    /\ ioreq = [c \in Clients |-> [request |-> CHOOSE r \in Requests[c] : TRUE,
                                  io_error |-> "OK", ln_type |-> "REPLYMSG"]]
    /\ task = [c \in Clients |-> "idle"]
    /\ issues = 0
    /\ slot_owner = [s \in Slots |-> NoReq]
    /\ dev_outstanding = 0
    /\ dev_pending = <<>>
    /\ pc = "out" /\ a2 = 0 /\ d1 = "OK" /\ d2 = 0 /\ a4 = NoReq
    /\ ack_late = FALSE

-----------------------------------------------------------------------------
FreeSlots == {s \in Slots : slot_owner[s] = NoReq}

(* `submit_or_queue` for c, finding `pending` on DEV_PENDING. *)
submit_or_queue(c, pending) ==
    \/ \E s \in FreeSlots :
          /\ \A t \in FreeSlots : s <= t          \* find_free_slot's scan
          /\ desc' = [desc EXCEPT ![s] = DescriptorOf(ioreq[c].request)]
          /\ slot_owner' = [slot_owner EXCEPT ![s] = c]
          /\ dev_outstanding' = dev_outstanding + 1
          /\ dev_pending' = pending
          /\ Doorbell(s)
          /\ UNCHANGED <<mem, disk>>
    \/ /\ FreeSlots = {}
       /\ dev_pending' = Append(pending, c)
       /\ UNCHANGED <<slot_owner, dev_outstanding, rings, int_enable, data, ports>>

(* Faulty: ln_Type left at the NT_REPLYMSG of the last completion. *)
BeginIOStillReplied(c) ==
    /\ pc = "out" /\ task[c] = "idle" /\ issues < MaxIssues
    /\ \E r \in Requests[c] : ioreq' = [ioreq EXCEPT ![c].request = r]
    /\ task' = [task EXCEPT ![c] = "begun"]
    /\ issues' = issues + 1
    /\ UNCHANGED <<poolVars, intVars, vars>>

(* The task half of dev_beginio: mark the request active. *)
BeginIO(c) ==
    /\ pc = "out" /\ task[c] = "idle" /\ issues < MaxIssues
    /\ \E r \in Requests[c] :
          ioreq' = [ioreq EXCEPT ![c].request = r, ![c].ln_type = "MESSAGE"]
    /\ task' = [task EXCEPT ![c] = "begun"]
    /\ issues' = issues + 1
    /\ UNCHANGED <<poolVars, intVars, vars>>

(* The rest of it: Disable, submit or queue, Enable. *)
Submit(c) ==
    /\ pc = "out" /\ task[c] = "begun"
    /\ submit_or_queue(c, dev_pending)
    /\ task' = [task EXCEPT ![c] = "waiting"]
    /\ UNCHANGED <<ioreq, issues, intVars, history>>

(* `dev_abortio`: only a request still on DEV_PENDING can be taken back. *)
AbortIO(c) ==
    /\ pc = "out" /\ task[c] = "waiting"
    /\ \E i \in 1 .. Len(dev_pending) :
          /\ dev_pending[i] = c
          /\ dev_pending' = SubSeq(dev_pending, 1, i - 1)
                              \o SubSeq(dev_pending, i + 1, Len(dev_pending))
    /\ ioreq' = [ioreq EXCEPT ![c].io_error = "IOERR_ABORTED", ![c].ln_type = "REPLYMSG"]
    /\ UNCHANGED <<task, issues, slot_owner, dev_outstanding, intVars, vars>>

(* exec's WaitIO: the request is finished when its ln_Type says so. *)
WaitIO(c) ==
    /\ pc = "out" /\ task[c] = "waiting" /\ ioreq[c].ln_type = "REPLYMSG"
    /\ task' = [task EXCEPT ![c] = "idle"]
    /\ UNCHANGED <<ioreq, issues, poolVars, intVars, vars>>

-----------------------------------------------------------------------------
(* exec dispatches INT2, clearing INTREQ before the chain or leaving it    *)
(* for afterwards.                                                         *)
TakeInt2 ==
    /\ pc = "out" /\ ports
    /\ pc' = "drain"
    /\ ack_late' \in BOOLEAN
    /\ ports' = ack_late'
    /\ UNCHANGED <<clientVars, poolVars, a2, d1, d2, a4, rings, int_enable, data, history>>

(* IntHandler, one access to the card at a time. *)
ReadPtr ==
    /\ pc = "drain"
    /\ IF completion_queue = <<>>
       THEN pc' = "exit" /\ UNCHANGED a2
       ELSE pc' = "error" /\ a2' = Head(completion_queue).ptr
    /\ UNCHANGED <<clientVars, poolVars, d1, d2, a4, ack_late, vars>>

ReadError ==
    /\ pc = "error" /\ pc' = "actual"
    /\ d1' = Head(completion_queue).error
    /\ UNCHANGED <<clientVars, poolVars, a2, d2, a4, ack_late, vars>>

(* Faulty: COMPLETION_ACTUAL read after COMPLETION_ADVANCE. *)
ReadActualLate ==
    /\ pc = "actual" /\ pc' = "advance"
    /\ d2' = IF Len(completion_queue) > 1 THEN completion_queue[2].actual ELSE 0
    /\ UNCHANGED <<clientVars, poolVars, a2, d1, a4, ack_late, vars>>

ReadActual ==
    /\ pc = "actual" /\ pc' = "advance"
    /\ d2' = Head(completion_queue).actual
    /\ UNCHANGED <<clientVars, poolVars, a2, d1, a4, ack_late, vars>>

WriteAdvance ==
    /\ pc = "advance" /\ pc' = "complete"
    /\ Advance(TRUE)
    /\ UNCHANGED <<clientVars, poolVars, a2, d1, d2, a4, ack_late, data, history>>

Complete ==
    /\ pc = "complete" /\ pc' = "resubmit"
    /\ a4' = slot_owner[a2]
    /\ slot_owner' = [slot_owner EXCEPT ![a2] = NoReq]
    /\ dev_outstanding' = dev_outstanding - 1
    /\ ioreq' = [ioreq EXCEPT ![slot_owner[a2]].io_error = hb_err_to_io_error(d1),
                              ![slot_owner[a2]].request.actual = d2]
    /\ UNCHANGED <<task, issues, dev_pending, a2, d1, d2, ack_late, vars>>

(* Faulty: the freed slot is left to the next BeginIO. *)
ResubmitNever ==
    /\ pc = "resubmit" /\ pc' = "reply"
    /\ UNCHANGED <<poolVars, rings, int_enable, data, ports, clientVars,
                   a2, d1, d2, a4, ack_late, history>>

Resubmit ==
    /\ pc = "resubmit" /\ pc' = "reply"
    /\ \/ /\ dev_pending = <<>>
          /\ UNCHANGED <<poolVars, rings, int_enable, data, ports>>
       \/ /\ dev_pending # <<>>
          /\ submit_or_queue(Head(dev_pending), Tail(dev_pending))
    /\ UNCHANGED <<clientVars, a2, d1, d2, a4, ack_late, history>>

ReplyMsg ==
    /\ pc = "reply" /\ pc' = "drain"
    /\ ioreq' = [ioreq EXCEPT ![a4].ln_type = "REPLYMSG"]
    /\ UNCHANGED <<task, issues, poolVars, a2, d1, d2, a4, ack_late, vars>>

ExitInt2 ==
    /\ pc = "exit" /\ pc' = "out"
    /\ ports' = IF ack_late THEN FALSE ELSE ports
    /\ UNCHANGED <<clientVars, poolVars, a2, d1, d2, a4, ack_late,
                   rings, int_enable, data, history>>

IntHandler == ReadPtr \/ ReadError \/ ReadActual \/ WriteAdvance
                \/ Complete \/ Resubmit \/ ReplyMsg \/ ExitInt2

(* A raster line passes. *)
Line == Tick /\ UNCHANGED <<driverVars, history>>

DevNext ==
    \/ \E c \in Clients : BeginIO(c) \/ Submit(c) \/ AbortIO(c) \/ WaitIO(c)
    \/ TakeInt2 \/ IntHandler
    \/ Line

DevSpec == DevInit /\ [][DevNext]_devVars

(***************************************************************************)
(* The CPU never stops: lines keep passing, a requested interrupt is       *)
(* eventually taken, the handler runs to its end, and a task that called   *)
(* BeginIO or WaitIO is eventually scheduled.                              *)
(***************************************************************************)
Fairness ==
    /\ WF_devVars(Line)
    /\ WF_devVars(TakeInt2)
    /\ WF_devVars(IntHandler)
    /\ \A c \in Clients : WF_devVars(Submit(c)) /\ WF_devVars(WaitIO(c))

FairDevSpec == DevSpec /\ Fairness

-----------------------------------------------------------------------------
InCard(s) == \/ \E i \in 1 .. Len(submit_queue) : submit_queue[i] = s
             \/ \E i \in 1 .. Len(completion_queue) : completion_queue[i].ptr = s
             \/ pc = "complete" /\ a2 = s

Pending(c) == \E i \in 1 .. Len(dev_pending) : dev_pending[i] = c

DevTypeOK ==
    /\ TypeOK
    /\ ioreq \in [Clients -> [request : RequestType, io_error : IoErrors,
                              ln_type : {"MESSAGE", "REPLYMSG"}]]
    /\ task \in [Clients -> {"idle", "begun", "waiting"}]
    /\ issues \in Nat
    /\ slot_owner \in [Slots -> Clients \cup {NoReq}]
    /\ dev_outstanding \in Nat
    /\ dev_pending \in Seq(Clients)
    /\ pc \in {"out", "drain", "error", "actual", "advance", "complete",
               "resubmit", "reply", "exit"}
    /\ a2 \in Slots \cup {0} /\ d1 \in Errors /\ d2 \in Nat
    /\ a4 \in Clients \cup {NoReq}
    /\ ack_late \in BOOLEAN

(***************************************************************************)
(* The slot pool and the card agree: a slot has an owner exactly while the *)
(* card (or the handler, between popping and completing) holds its         *)
(* pointer, DEV_OUTSTANDING counts those slots, and a request waits on     *)
(* DEV_PENDING only while no slot is free: nothing but the handler's own   *)
(* resubmit step ever finds both.  So no doorbell is ever dropped: the     *)
(* driver "structurally cannot over-submit" (dev_beginio's header).        *)
(***************************************************************************)
PoolAgreesWithCard ==
    /\ \A s \in Slots : slot_owner[s] # NoReq <=> InCard(s)
    /\ dev_outstanding = Cardinality(Slots \ FreeSlots)
    /\ pc # "resubmit" => dev_pending = <<>> \/ FreeSlots = {}
    /\ submit_overflow = 0

(***************************************************************************)
(* A client that is out of WaitIO has its request back: the driver holds   *)
(* it in no slot, on no list and in no register it will reply to.  This is *)
(* what ln_Type = NT_MESSAGE at the top of dev_beginio is for: without it  *)
(* a reused IORequest still looks finished and the boot wedges.            *)
(***************************************************************************)
ReturnedMeansReleased ==
    \A c \in Clients : task[c] = "idle" =>
        /\ \A s \in Slots : slot_owner[s] # c
        /\ ~Pending(c)
        /\ ~(pc \in {"resubmit", "reply"} /\ a4 = c)

(***************************************************************************)
(* Every request that enters BeginIO is returned to its task: no           *)
(* completion is stranded by an interrupt acknowledged too early or too    *)
(* late, and no request is stuck on DEV_PENDING.                           *)
(***************************************************************************)
EveryRequestReturns == \A c \in Clients : task[c] = "begun" ~> task[c] = "idle"

(***************************************************************************)
(* The refinement of BlockService.                                         *)
(***************************************************************************)
Issued(c) == \/ task[c] = "begun"
             \/ Pending(c)
             \/ \E i \in 1 .. Len(submit_queue) : slot_owner[submit_queue[i]] = c

Phase(c) ==
    IF task[c] = "idle" THEN "idle"
    ELSE IF Issued(c) THEN "issued"
    ELSE IF ioreq[c].ln_type = "REPLYMSG" THEN "done"
    ELSE "performed"

Unread(c) == {i \in 1 .. Len(completion_queue) : slot_owner[completion_queue[i].ptr] = c}

Result(c) ==
    IF Phase(c) \in {"idle", "issued"} THEN [error |-> "none", actual |-> 0]
    ELSE IF Unread(c) # {}
    THEN LET e == completion_queue[CHOOSE i \in Unread(c) : TRUE]
         IN [error |-> hb_err_to_io_error(e.error), actual |-> e.actual]
    ELSE IF pc = "complete" /\ slot_owner[a2] = c
    THEN [error |-> hb_err_to_io_error(d1), actual |-> d2]
    ELSE [error |-> ioreq[c].io_error,
          actual |-> IF ioreq[c].io_error = "IOERR_ABORTED" THEN 0 ELSE ioreq[c].request.actual]

Service == INSTANCE BlockService WITH
    io_error <- hb_err_to_io_error,
    phase <- [c \in Clients |-> Phase(c)],
    request <- [c \in Clients |->
        IF Phase(c) = "issued" THEN DescriptorOf(ioreq[c].request)
        ELSE [command |-> "none", unit |-> 0, length |-> 0, offset |-> 0, buffer |-> 0]],
    result <- [c \in Clients |-> Result(c)],
    ram <- mem, store <- disk

(***************************************************************************)
(* The driver on the card implements the block service: each request is    *)
(* executed at most once, with its own parameters, and answered with the   *)
(* result of that execution.                                               *)
(***************************************************************************)
ImplementsBlockService == Service!ServiceSpec
=============================================================================
