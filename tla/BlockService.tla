---------------------------- MODULE BlockService ----------------------------
(***************************************************************************)
(* What hostblk.device promises the tasks that use it: a request, once     *)
(* issued, is performed at most once, atomically, at some moment before    *)
(* its reply; the reply carries the result of that very execution; a       *)
(* request can be cancelled only while it has not been performed.  Rings,  *)
(* slots, interrupts and registers are gone: HostblkDevice implements      *)
(* this.                                                                   *)
(***************************************************************************)
EXTENDS BlockTransfer

CONSTANTS Clients, io_error(_)

VARIABLES
    phase,    \* [Clients -> "idle" | "issued" | "performed" | "done"]
    request,  \* [Clients -> descriptor | NoRequest], known until performed
    result,   \* [Clients -> result | NoResult], known from then on
    ram, store

serviceVars == <<phase, request, result, ram, store>>

NoRequest == [command |-> "none", unit |-> 0, length |-> 0, offset |-> 0, buffer |-> 0]
NoResult == [error |-> "none", actual |-> 0]
Aborted == [error |-> "IOERR_ABORTED", actual |-> 0]

ServiceInit ==
    /\ phase = [c \in Clients |-> "idle"]
    /\ request = [c \in Clients |-> NoRequest]
    /\ result = [c \in Clients |-> NoResult]
    /\ ram \in MemType
    /\ store \in DiskType

Issue(c, d) ==
    /\ phase[c] = "idle"
    /\ phase' = [phase EXCEPT ![c] = "issued"]
    /\ request' = [request EXCEPT ![c] = d]
    /\ UNCHANGED <<result, ram, store>>

Perform(c) ==
    /\ phase[c] = "issued"
    /\ LET d == request[c] IN
       \E o \in IF d.unit \notin Attached THEN NoTransfer("BAD_UNIT")
                ELSE IF d.command \in {"READ", "WRITE"} THEN transfer(d)
                ELSE NoTransfer("OK") :
          /\ result' = [result EXCEPT ![c] =
                          [error |-> io_error(o.error), actual |-> actual(o)]]
          /\ ram' = MemAfter(d, o.moved, ram, store)
          /\ store' = DiskAfter(d, o.moved, ram, store)
    /\ phase' = [phase EXCEPT ![c] = "performed"]
    /\ request' = [request EXCEPT ![c] = NoRequest]

Cancel(c) ==
    /\ phase[c] = "issued"
    /\ phase' = [phase EXCEPT ![c] = "done"]
    /\ request' = [request EXCEPT ![c] = NoRequest]
    /\ result' = [result EXCEPT ![c] = Aborted]
    /\ UNCHANGED <<ram, store>>

Reply(c) ==
    /\ phase[c] = "performed"
    /\ phase' = [phase EXCEPT ![c] = "done"]
    /\ UNCHANGED <<request, result, ram, store>>

Return(c) ==
    /\ phase[c] = "done"
    /\ phase' = [phase EXCEPT ![c] = "idle"]
    /\ result' = [result EXCEPT ![c] = NoResult]
    /\ UNCHANGED <<request, ram, store>>

ServiceNext ==
    \E c \in Clients :
        \/ \E d \in Descriptors : Issue(c, d)
        \/ Perform(c) \/ Cancel(c) \/ Reply(c) \/ Return(c)

ServiceSpec == ServiceInit /\ [][ServiceNext]_serviceVars
=============================================================================
