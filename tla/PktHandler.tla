----------------------------- MODULE PktHandler -----------------------------
(***************************************************************************)
(* The guest's pktport handler process                                     *)
(* (m68k/pktport-handler/pktport-handler.s) over the card: one DosPacket   *)
(* at a time is translated, submitted, polled for and answered, and the    *)
(* FileLock and FileHandle structures DOS sees are kept on this side.  The *)
(* handler is one process and the card's ticks fall between any two of its *)
(* steps.  Its clients are any programs that use the locks and files they  *)
(* were given.                                                             *)
(***************************************************************************)
EXTENDS Pktport

CONSTANTS
    LockAddrs,  \* addresses AllocMem may give a FileLock: a bound of the model
    FileAddrs,  \* addresses of the clients' FileHandles: a bound of the model
    NoAddr      \* BNULL

VARIABLES
    pc,      \* where the handler is
    pkt,     \* the DosPacket being served
    job,     \* what the submitted request is for: "packet" or "release"
    wire,    \* d3/d4: the results `submit_and_wait` returned
    flock,   \* guest RAM: FileLock address -> fl_Key
    fharg    \* guest RAM: FileHandle address -> fh_Arg1

procVars == <<pc, pkt, job, wire>>
vars == <<cardVars, procVars, flock, fharg>>

Packet(action, addr) == [action |-> action, addr |-> addr]
Result(res1, res2) == [res1 |-> res1, res2 |-> res2]
NoPacket == Packet("NONE", NoAddr)

Init ==
    /\ CardInit
    /\ pc = "request_loop"
    /\ pkt = NoPacket
    /\ job = "packet"
    /\ wire = Result(0, 0)
    /\ flock = [a \in {} |-> 0]
    /\ fharg = [a \in {} |-> 0]

(***************************************************************************)
(* `handle_packet`: the packets a client may send, and the request each    *)
(* becomes.                                                                *)
(***************************************************************************)

(* `xlate_lock`: a FileLock becomes its fl_Key, BNULL stays 0. *)
xlate_lock(a) == IF a = NoAddr THEN 0 ELSE flock[a]

(* `clear_desc_args` zeroes the descriptor through d0, and leaves d0 zero. *)
d0_after_clear_desc_args == 0

(* The blocks that clear the descriptor first and translate the lock after. *)
TranslatedLock(p) == Request(p.action, xlate_lock(p.addr))

(* `hp_free_lock` translates first: the handle is in d0 when
   `clear_desc_args` runs, and what is stored is d0 afterwards. *)
hp_free_lock(p) == Request("FREE_LOCK", d0_after_clear_desc_args)

(* dp_Arg1 is already a copy of fh_Arg1. *)
VerbatimHandle(p) == Request(p.action, fharg[p.addr])

NoArgument(p) == Request(p.action, 0)

LockPackets == {Packet(a, l) : a \in LockActions \cup {"OBJECT"},
                               l \in DOMAIN flock \cup {NoAddr}}
FreePackets == {Packet("FREE_LOCK", l) : l \in DOMAIN flock \cup {NoAddr}}
FindPackets == {Packet(a, f) : a \in FindActions, f \in FileAddrs \ DOMAIN fharg}
FilePackets == {Packet(a, f) : a \in {"END", "FILE_IO"}, f \in DOMAIN fharg}
PlainPackets == {Packet(a, NoAddr) :
                   a \in {"INFO", "INHIBIT", "UNINHIBIT", "FORMAT", "IS_FILESYSTEM",
                          "DISK_INFO", "FLUSH"}}

(* The descriptor is filled; RES1, RES2 and STATUS keep the last request's. *)
Build(request) ==
    /\ desc' = [desc EXCEPT !.request = request]
    /\ fresh' = FALSE
    /\ UNCHANGED <<pending, desc_in_ram, doorbell_overflow, dropped_descriptors, int_status>>

handle_packet(p, request) ==
    /\ pc = "request_loop"
    /\ pkt' = p
    /\ job' = "packet"
    /\ Build(request)
    /\ pc' = "clear_status"
    /\ UNCHANGED <<volVars, wire, flock, fharg>>

TakeLockPacket == \E p \in LockPackets : handle_packet(p, TranslatedLock(p))
TakeFreeLock == \E p \in FreePackets : handle_packet(p, hp_free_lock(p))

(* FIND*: the FileHandle stays on this side; the lock is dp_Arg2. *)
TakeFind ==
    \E p \in FindPackets, l \in DOMAIN flock \cup {NoAddr} :
        handle_packet(p, Request(p.action, xlate_lock(l)))

TakeFilePacket == \E p \in FilePackets : handle_packet(p, VerbatimHandle(p))
TakePlainPacket == \E p \in PlainPackets : handle_packet(p, NoArgument(p))

(* Any other dp_Type is answered in place with ACTION_NOT_KNOWN, and an Exec
   message that is no packet goes back untouched: neither changes any of
   this state, so neither is a step. *)

(***************************************************************************)
(* `submit_and_wait`: STATUS is cleared, the doorbell rung, STATUS polled. *)
(***************************************************************************)
(* Faulty: STATUS still says what the last request left there. *)
clear_status_skipped ==
    /\ pc = "clear_status"
    /\ pc' = "doorbell"
    /\ UNCHANGED <<cardVars, pkt, job, wire, flock, fharg>>

clear_status ==
    /\ pc = "clear_status"
    /\ desc' = [desc EXCEPT !.status = 0]
    /\ pc' = "doorbell"
    /\ UNCHANGED <<volVars, slotVars, pkt, job, wire, flock, fharg>>

doorbell ==
    /\ pc = "doorbell"
    /\ submit
    /\ pc' = "poll"
    /\ UNCHANGED <<volVars, desc, pkt, job, wire, flock, fharg>>

poll ==
    /\ pc = "poll"
    /\ desc.status = 1
    /\ wire' = Result(desc.res1, desc.res2)
    /\ pc' = "finish"
    /\ UNCHANGED <<cardVars, pkt, job, flock, fharg>>

(***************************************************************************)
(* The reply: dp_Res1 and dp_Res2 go to the client, who keeps a FileLock   *)
(* or FileHandle exactly when they say success.  Between packets the       *)
(* handler's registers and the descriptor's request hold nothing that is   *)
(* read again: `clear_desc_args` starts the next request, and is done here *)
(* so that the states between packets do not multiply.                     *)
(***************************************************************************)
AnswerPacket ==
    /\ pc' = "request_loop"
    /\ pkt' = NoPacket
    /\ job' = "packet"
    /\ wire' = Result(0, 0)
    /\ desc' = [desc EXCEPT !.request = NoRequest]
    /\ UNCHANGED <<volVars, slotVars>>

Finishing(actions) == pc = "finish" /\ job = "packet" /\ pkt.action \in actions

(* `finish_lock_result`: the host refused. *)
lock_fails ==
    /\ Finishing(LockActions)
    /\ wire.res2 # 0
    /\ AnswerPacket
    /\ UNCHANGED <<flock, fharg>>

(* The host answered the root: only ACTION_PARENT hands out a bare BNULL. *)
lock_is_bnull ==
    /\ Finishing({"PARENT"})
    /\ wire = Result(0, 0)
    /\ AnswerPacket
    /\ UNCHANGED <<flock, fharg>>

GetsFileLock ==
    /\ Finishing(LockActions)
    /\ wire.res2 = 0
    /\ wire.res1 # 0 \/ pkt.action # "PARENT"

(* `alloc_filelock_or_fail`: the new FileLock carries the host's handle. *)
alloc_filelock ==
    /\ GetsFileLock
    /\ \E a \in LockAddrs \ DOMAIN flock :
          flock' = [l \in DOMAIN flock \cup {a} |-> IF l = a THEN wire.res1 ELSE flock[l]]
    /\ AnswerPacket
    /\ UNCHANGED fharg

(* AllocMem failed: `free_lock_wire` gives the handle back to the host. *)
alloc_fails ==
    /\ GetsFileLock
    /\ Build(Request("FREE_LOCK", wire.res1))
    /\ job' = "release"
    /\ pc' = "clear_status"
    /\ UNCHANGED <<volVars, pkt, wire, flock, fharg>>

released ==
    /\ pc = "finish" /\ job = "release"
    /\ AnswerPacket    \* ERR_NO_FREE_STORE
    /\ UNCHANGED <<flock, fharg>>

(* `hp_free_lock`: success whatever the host said, and the FileLock goes. *)
lock_freed ==
    /\ Finishing({"FREE_LOCK"})
    /\ AnswerPacket
    /\ flock' = [l \in DOMAIN flock \ {pkt.addr} |-> flock[l]]
    /\ UNCHANGED fharg

(* `hp_find_finish`: RES1 tells success from failure, never RES2's value. *)
FindSucceeded == wire.res1 # 0

find_finish ==
    /\ Finishing(FindActions)
    /\ IF FindSucceeded
       THEN /\ fharg' = [f \in DOMAIN fharg \cup {pkt.addr} |->
                            IF f = pkt.addr THEN wire.res2 ELSE fharg[f]]
            /\ AnswerPacket
       ELSE /\ AnswerPacket
            /\ UNCHANGED fharg
    /\ UNCHANGED flock

(* Everything else answers the wire results verbatim; after ACTION_END the
   client's Close() discards the FileHandle. *)
verbatim ==
    /\ Finishing(Actions \ (LockActions \cup FindActions \cup {"FREE_LOCK"}))
    /\ AnswerPacket
    /\ fharg' = [f \in DOMAIN fharg \ (IF pkt.action = "END" THEN {pkt.addr} ELSE {}) |->
                    fharg[f]]
    /\ UNCHANGED flock

Take == TakeLockPacket \/ TakeFreeLock \/ TakeFind \/ TakeFilePacket
            \/ TakePlainPacket
Finish == lock_fails \/ lock_is_bnull \/ alloc_filelock \/ alloc_fails \/ released
            \/ lock_freed \/ find_finish \/ verbatim
Serve == clear_status \/ doorbell \/ poll \/ Finish
CardTick == tick /\ UNCHANGED <<procVars, flock, fharg>>

Next == Take \/ Serve \/ CardTick

Spec == Init /\ [][Next]_vars

(* The machine ticks as long as it runs, and the handler runs: its busy
   poll yields to every tick.  Clients owe nothing. *)
FairSpec == Spec /\ WF_vars(Serve) /\ WF_vars(CardTick)

-----------------------------------------------------------------------------
(* The program's counters, tables and registers hold what they may. *)
TypeOK ==
    /\ VolTypeOK
    /\ pending \in BOOLEAN
    /\ desc_in_ram \in BOOLEAN
    /\ doorbell_overflow \in Nat
    /\ dropped_descriptors \in Nat
    /\ int_status \in {0, 1}
    /\ desc.request \in [action : Actions \cup {"NONE"}, arg : 0 .. MaxHandle]
    /\ desc.res1 \in Int /\ desc.res2 \in Nat /\ desc.status \in {0, 1}
    /\ pc \in {"request_loop", "clear_status", "doorbell", "poll", "finish"}
    /\ job \in {"packet", "release"}
    /\ DOMAIN flock \subseteq LockAddrs
    /\ DOMAIN fharg \subseteq FileAddrs
    /\ flock \in [DOMAIN flock -> 0 .. MaxHandle]
    /\ fharg \in [DOMAIN fharg -> HandleRange]

(* Handles the counter gave out before it saturated: the docs promise that
   these are "never reused within a run". *)
Unsaturated == 1 .. MaxHandle - 1

(* Two structures the guest holds never carry the same handle, so freeing
   or closing one cannot take the other's object away. *)
OwnsItsHandle ==
    /\ \A a, b \in DOMAIN flock :
          flock[a] \in Unsaturated /\ flock[a] = flock[b] => a = b
    /\ \A f, g \in DOMAIN fharg :
          fharg[f] \in Unsaturated /\ fharg[f] = fharg[g] => f = g
    /\ \A a \in DOMAIN flock, f \in DOMAIN fharg :
          flock[a] \in Unsaturated => flock[a] # fharg[f]

(* A handle given back, or dropped by ACTION_INHIBIT, stays unknown to the
   host for the rest of the run: a stale FileLock is refused and never
   reaches an object somebody else opened since. *)
DroppedHandlesStayDropped ==
    [][\A h \in issued \cap Unsaturated :
          h \notin DOMAIN handles => h \notin DOMAIN handles']_vars

(* What the guest was given and has not given back, the host still knows
   as the kind it is, until an ACTION_INHIBIT drops the whole table; and
   between packets every open file of the host's table belongs to a
   FileHandle of the guest, however its handle's number compares with the
   error codes. *)
HeldHandlesResolve ==
    /\ \A a \in DOMAIN flock :
          flock[a] \in Unsaturated /\ flock[a] >= purged => Is(flock[a], "Lock")
    /\ \A f \in DOMAIN fharg :
          /\ fharg[f] \in Unsaturated /\ fharg[f] >= purged
          /\ ~(pkt.action = "END" /\ pkt.addr = f /\ pc # "request_loop")
          => Is(fharg[f], "File")
    /\ pc = "request_loop" =>
          \A h \in DOMAIN handles \cap Unsaturated :
              handles[h] = "File" => \E f \in DOMAIN fharg : fharg[f] = h

(* The results the handler acts on are the ones its own request produced,
   and it never rings while the slot is taken. *)
AnswersItsOwnRequest ==
    /\ pc = "finish" => fresh
    /\ doorbell_overflow = 0

(* With its descriptor in RAM, every packet the handler takes is answered. *)
EveryPacketIsAnswered == desc_in_ram => (pc # "request_loop" ~> pc = "request_loop")
=============================================================================
