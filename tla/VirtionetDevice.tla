-------------------------- MODULE VirtionetDevice --------------------------
(***************************************************************************)
(* virtionet.device, the guest's SANA-II driver of the virtio-net function *)
(* (m68k/virtionet-device/virtionet_device.c), on the device of VirtioNet: *)
(* DevInit, the commands of its one opener, AbortIO and the INT2 server.   *)
(*                                                                         *)
(* Tasks and the server are preempted by the device's engine between any   *)
(* two accesses to the rings; the server also preempts the tasks, except   *)
(* between Disable and Enable (locked).  exec and prometheus.library's     *)
(* allocator are external.  Requests carry a number per issue, so that a   *)
(* frame on the wire can be traced to the request that sent it.            *)
(***************************************************************************)
EXTENDS VirtioNet, SequencesExt

CONSTANTS
    VNET_QUEUE_CAP,  \* 8 in the code
    VNET_FRAME_MAX,  \* 1526: the device's MaxTotal, header included
    EthHdrLen,       \* VNET_ETH_HDR_LEN, 14
    EthMinFrame,     \* VNET_ETH_MIN_FRAME, 60
    Reads, Writes,   \* the client's IOSana2Reqs, by command
    ReadType,        \* ios2_PacketType of each read; AnyType accepts all
    AnyType,
    DataLengths,     \* the ios2_DataLengths each write is issued with
    Arrivals,        \* the frames the network delivers, in order: [type, len]
    MaxIssues        \* bound: uses of each request

Reqs == Reads \cup Writes
qsize == IF QUEUE_SIZE_MAX < VNET_QUEUE_CAP THEN QUEUE_SIZE_MAX ELSE VNET_QUEUE_CAP
Slots == 0 .. qsize - 1

ASSUME DriverAssumption ==
    /\ VNET_QUEUE_CAP \in Nat \ {0}
    /\ VNET_FRAME_MAX \in Nat /\ EthHdrLen \in Nat /\ EthMinFrame \in Nat
    /\ MaxPayload <= VNET_FRAME_MAX
    /\ DataLengths \in [Writes -> SUBSET Nat]
    /\ qsize < IdxMod /\ IdxMod % qsize = 0   \* 8, and 16-bit indices
    /\ Reads \cap Writes = {} /\ Reqs \cap {"free", "none"} = {}
    /\ MaxIssues \in [Reqs -> Nat]
    /\ Len(Arrivals) \in Nat
    /\ \A i \in 1 .. Len(Arrivals) : Arrivals[i].len \in 0 .. MaxPayload

VARIABLES
    devinit,   \* how far DevInit has come; "ready" is base->Ready
    unit,      \* [open, configured, online]
    req,       \* per request: [state, issue, result, len]; "done" is the client's
    pending,   \* unit->pendingReads
    slot,      \* txq.slotFree and txq.pending: "free", or the request that owns it
    shadow,    \* avail_idx_shadow per queue
    seen,      \* used_idx_seen per queue
    locked,    \* the request inside Disable/Enable in cmd_write, or "none"
    pc,        \* where vnet_isr_handler is; "out" when not running
    dev_idx,   \* its copy of a used index
    entry,     \* the descriptor it is re-posting
    arrived,   \* history: number of frames the back end was given
    delivered  \* history: the frames copied to readers, in order, each with the
               \* read it answered: [id, type, len, to, issue]

unitVars == <<unit, req, pending, slot>>
isrVars == <<pc, dev_idx, entry>>
drvVars == <<netVars, devinit, unitVars, shadow, seen, locked, isrVars, arrived, delivered>>

DrvInit ==
    /\ NetInit
    /\ devinit = "unloaded" /\ unit = [open |-> FALSE, configured |-> FALSE, online |-> FALSE]
    /\ req = [r \in Reqs |-> [state |-> "done", issue |-> 0, result |-> "none", len |-> 0]]
    /\ pending = <<>> /\ slot = [i \in Slots |-> "free"]
    /\ shadow = [q \in Queues |-> 0] /\ seen = [q \in Queues |-> 0]
    /\ locked = "none" /\ pc = "out" /\ dev_idx = 0 /\ entry = 0
    /\ arrived = 0 /\ delivered = <<>>

(* A task executes: no interrupt is being served or about to be. *)
TaskRuns == engine = "idle" /\ pc = "out" /\ ~ports /\ locked = "none"

Reply(r, result) == [req EXCEPT ![r].state = "done", ![r].result = result]

-----------------------------------------------------------------------------
(* DevInit *)

Loads(from, to) ==
    /\ TaskRuns /\ devinit = from /\ devinit' = to
    /\ UNCHANGED <<rxbuf, engine, inbox, sent, unitVars, locked, isrVars, arrived, delivered>>

(* DevInit gives up: FAILED in the status register, the device not loaded. *)
LoadFails(from, n) ==
    /\ Loads(from, "unloaded")
    /\ net' = write_device_status(n, {"FAILED"})
    /\ UNCHANGED <<vring, shadow, seen, intx, ports>>

negotiate ==
    LET up == write_device_status(write_device_status(write_device_status(net, {}),
                                  {"ACKNOWLEDGE"}), {"ACKNOWLEDGE", "DRIVER"})
        mac == merge_driver_feature([up EXCEPT !.driver_select = 0], common_read(up, "DEVICE_FEATURE", 0))
        acked == merge_driver_feature([mac EXCEPT !.driver_select = 1], common_read(mac, "DEVICE_FEATURE", 1))
        done == write_device_status(acked, {"ACKNOWLEDGE", "DRIVER", "FEATURES_OK"})
    IN  /\ "FEATURES_OK" \in common_read(done, "DEVICE_STATUS", 0)
        /\ Loads("unloaded", "rx_queue")
        /\ net' = done /\ UNCHANGED <<vring, shadow, seen, intx, ports>>

(* What the device offers, at most VNET_QUEUE_CAP. *)
QueueSize(q) ==
    LET devsize == common_read(net, "QUEUE_SIZE", q)
    IN  IF devsize < VNET_QUEUE_CAP THEN devsize ELSE VNET_QUEUE_CAP

setup_queue(q, from, to) ==
    /\ Loads(from, to)
    /\ vring' = [vring EXCEPT ![q] = EmptyRing]
    /\ shadow' = [shadow EXCEPT ![q] = 0] /\ seen' = [seen EXCEPT ![q] = 0]
    /\ net' = enable_queue(program_queue(net, q, QueueSize(q), {"desc", "driver", "device"}), q)
    /\ UNCHANGED <<intx, ports>>

(* Prm_AllocDMABuffer returns NULL; a queue already enabled stays so. *)
AllocFails == \E from \in {"rx_queue", "tx_queue", "buffers"} : LoadFails(from, net)

RxBufSize == HdrLen + VNET_FRAME_MAX   \* VNET_RXBUF_SIZE, not rounded up to 4

(* Faulty: the buffer is described without room for the virtio-net header. *)
PostedRingShort(id) ==
    [vring EXCEPT !["rx"] = [@ EXCEPT !.desc[id] = [NoDesc EXCEPT !.len = MaxPayload, !.write = TRUE],
                                      !.avail[shadow["rx"] % qsize] = id]]

(* Faulty: the ring entry is chosen by the used index, not by avail_idx_shadow. *)
PostedRingBySeen(id) ==
    [vring EXCEPT !["rx"] = [@ EXCEPT !.desc[id] = [NoDesc EXCEPT !.len = RxBufSize, !.write = TRUE],
                                      !.avail[seen["rx"] % qsize] = id]]

(* vq_set_desc for a receive buffer, and the ring entry of vq_push_avail. *)
PostedRing(id) ==
    [vring EXCEPT !["rx"] = [@ EXCEPT !.desc[id] = [NoDesc EXCEPT !.len = RxBufSize, !.write = TRUE],
                                      !.avail[shadow["rx"] % qsize] = id]]

(* One turn of post_rx_buffers' loop; init_tx_slots has nothing to share. *)
post_rx_buffer ==
    /\ Loads("buffers", IF shadow["rx"] + 1 = qsize THEN "int_server" ELSE "buffers")
    /\ vring' = [PostedRing(shadow["rx"]) EXCEPT !["rx"].avail_idx = Succ(shadow["rx"])]
    /\ shadow' = [shadow EXCEPT !["rx"] = Succ(@)]
    /\ UNCHANGED <<net, seen, intx, ports>>

(* Prm_AddIntServer enables the pin at the bridge, which may raise INT2. *)
add_int_server ==
    /\ Loads("int_server", "driver_ok")
    /\ intx' = TRUE /\ ports' = net.isr
    /\ UNCHANGED <<net, vring, shadow, seen>>

driver_ok ==
    /\ Loads("driver_ok", "set_ready")
    /\ net' = write_device_status(net, {"ACKNOWLEDGE", "DRIVER", "FEATURES_OK", "DRIVER_OK"})
    /\ UNCHANGED <<vring, shadow, seen, intx, ports>>

set_ready == Loads("set_ready", "ready") /\ UNCHANGED <<net, vring, shadow, seen, intx, ports>>

DevInit ==
    \/ negotiate
    \/ setup_queue("rx", "rx_queue", "tx_queue") \/ setup_queue("tx", "tx_queue", "buffers")
    \/ AllocFails \/ post_rx_buffer \/ add_int_server \/ driver_ok \/ set_ready

-----------------------------------------------------------------------------
(* The client's calls *)

CallLeaves == UNCHANGED <<netVars, devinit, shadow, seen, locked, isrVars, arrived, delivered>>

VNetOpen ==
    /\ TaskRuns /\ devinit = "ready" /\ ~unit.open
    /\ unit' = [open |-> TRUE, configured |-> FALSE, online |-> FALSE]
    /\ pending' = <<>>
    /\ UNCHANGED <<req, slot>> /\ CallLeaves

(* Every pending read is aborted, from the head. *)
Flushed == [r \in Reqs |-> IF r \in ToSet(pending)
                           THEN [req[r] EXCEPT !.state = "done", !.result = "error"]
                           ELSE req[r]]

(* The opener closes between its calls, not inside one. *)
VNetClose ==
    /\ TaskRuns /\ unit.open
    /\ \A r \in Reqs : req[r].state \notin {"checked", "filling"}
    /\ unit' = [unit EXCEPT !.open = FALSE, !.online = FALSE]
    /\ req' = Flushed /\ pending' = <<>>
    /\ UNCHANGED slot /\ CallLeaves

cmd_flush ==
    /\ TaskRuns /\ unit.open /\ pending # <<>>
    /\ req' = Flushed /\ pending' = <<>>
    /\ UNCHANGED <<unit, slot>> /\ CallLeaves

cmd_configinterface ==
    /\ TaskRuns /\ unit.open /\ ~unit.configured
    /\ unit' = [unit EXCEPT !.configured = TRUE]
    /\ UNCHANGED <<req, pending, slot>> /\ CallLeaves

cmd_online ==
    /\ TaskRuns /\ unit.open /\ unit.configured
    /\ unit' = [unit EXCEPT !.online = TRUE]
    /\ UNCHANGED <<req, pending, slot>> /\ CallLeaves

cmd_offline ==
    /\ TaskRuns /\ unit.open /\ unit.online
    /\ unit' = [unit EXCEPT !.online = FALSE]
    /\ UNCHANGED <<req, pending, slot>> /\ CallLeaves

Issued(r) == [req EXCEPT ![r].issue = @ + 1, ![r].result = "none"]
MayIssue(r) == TaskRuns /\ unit.open /\ req[r].state = "done" /\ req[r].issue < MaxIssues[r]

(* While the unit is not configured and online, cmd_read and cmd_write      *)
(* answer the request with an error at once and touch nothing else.        *)
Refused(r) ==
    /\ MayIssue(r) /\ ~(unit.configured /\ unit.online)
    /\ req' = [Issued(r) EXCEPT ![r].result = "error"]
    /\ UNCHANGED <<unit, pending, slot>> /\ CallLeaves

cmd_read(r) ==
    /\ MayIssue(r) /\ unit.configured /\ unit.online
    /\ req' = [Issued(r) EXCEPT ![r].state = "checked"]
    /\ UNCHANGED <<unit, pending, slot>> /\ CallLeaves

(* Its AddTail, under Disable. *)
queue_read(r) ==
    /\ TaskRuns /\ req[r].state = "checked"
    /\ pending' = Append(pending, r)
    /\ req' = [req EXCEPT ![r].state = "pending"]
    /\ UNCHANGED <<unit, slot>> /\ CallLeaves

(* The MTU cmd_write checks, which CMD S2_DEVICEQUERY also reports. *)
MTU == VNET_FRAME_MAX - EthHdrLen

(* cmd_write up to vnet_txslot_alloc, which takes the first free slot. *)
cmd_write(w) ==
    /\ MayIssue(w) /\ unit.configured /\ unit.online
    /\ \E n \in DataLengths[w] :
       \/ /\ n > MTU \/ \A i \in Slots : slot[i] # "free"
          /\ req' = [Issued(w) EXCEPT ![w].result = "error"]
          /\ UNCHANGED slot
       \/ \E i \in Slots :
            /\ n <= MTU
            /\ slot[i] = "free" /\ \A j \in Slots : j < i => slot[j] # "free"
            /\ slot' = [slot EXCEPT ![i] = w]
            /\ req' = [Issued(w) EXCEPT ![w].state = "filling", ![w].len = n]
    /\ UNCHANGED <<unit, pending>> /\ CallLeaves

SlotOf(w) == CHOOSE i \in Slots : slot[i] = w

(* The caller's copyFromBuff fails: the slot goes back, the request is answered. *)
copy_fails(w) ==
    /\ TaskRuns /\ req[w].state = "filling"
    /\ slot' = [slot EXCEPT ![SlotOf(w)] = "free"]
    /\ req' = Reply(w, "error")
    /\ UNCHANGED <<unit, pending>> /\ CallLeaves

(* The chain cmd_write builds for so much data: both headers and the data,  *)
(* the frame padded to Ethernet's minimum.                                  *)
ChainLen(n) == HdrLen + (IF EthHdrLen + n < EthMinFrame THEN EthMinFrame ELSE EthHdrLen + n)

(* Disable, pending[slot], vq_set_desc and the ring entry of vq_push_avail. *)
publish(w) ==
    /\ TaskRuns /\ req[w].state = "filling"
    /\ locked' = w
    /\ vring' = [vring EXCEPT !["tx"] = [@ EXCEPT
          !.desc[SlotOf(w)] = [NoDesc EXCEPT !.len = ChainLen(req[w].len),
                                             !.data = <<w, req[w].issue>>],
          !.avail[shadow["tx"] % qsize] = SlotOf(w)]]
    /\ req' = [req EXCEPT ![w].state = "sending"]
    /\ UNCHANGED <<net, rxbuf, engine, inbox, sent, intx, ports, devinit, unit, pending, slot,
                   shadow, seen, isrVars, arrived, delivered>>

(* Then its index, and Enable.  The notification that follows does nothing. *)
push_avail ==
    /\ engine = "idle" /\ locked # "none" /\ locked' = "none"
    /\ shadow' = [shadow EXCEPT !["tx"] = Succ(@)]
    /\ vring' = [vring EXCEPT !["tx"].avail_idx = Succ(shadow["tx"])]
    /\ UNCHANGED <<net, rxbuf, engine, inbox, sent, intx, ports, devinit, unitVars,
                   seen, isrVars, arrived, delivered>>

VNetAbortIO(r) ==
    /\ TaskRuns /\ req[r].state = "pending"
    /\ \E i \in 1 .. Len(pending) : pending[i] = r /\ pending' = RemoveAt(pending, i)
    /\ req' = Reply(r, "error")
    /\ UNCHANGED <<unit, slot>> /\ CallLeaves

-----------------------------------------------------------------------------
(* vnet_isr_handler *)

(* A handler step: it changes only what it names. *)
Serves(at) == engine = "idle" /\ pc = at
              /\ UNCHANGED <<rxbuf, engine, inbox, sent, intx, devinit, unit, locked, arrived>>

(* exec enters the server chain; before base->Ready the server returns at once. *)
TakeInt2 ==
    /\ Serves("out") /\ ports /\ locked = "none"
    /\ devinit \in {"driver_ok", "set_ready", "ready"}
    /\ pc' = IF devinit = "ready" THEN "isr" ELSE "out"
    /\ ports' = FALSE
    /\ UNCHANGED <<net, vring, req, pending, slot, shadow, seen, dev_idx, entry, delivered>>

read_isr_byte ==
    /\ Serves("isr")
    /\ pc' = IF net.isr THEN "rx_idx" ELSE "exit"
    /\ net' = read_isr(net)
    /\ UNCHANGED <<vring, ports, req, pending, slot, shadow, seen, dev_idx, entry, delivered>>

read_used_idx(q, at, to) ==
    /\ Serves(at) /\ pc' = to
    /\ dev_idx' = vring[q].used_idx
    /\ UNCHANGED <<net, vring, ports, req, pending, slot, shadow, seen, entry, delivered>>

UsedEntry(q) == vring[q].used[seen[q] % qsize]
Matches(r, f) == ReadType[r] = AnyType \/ ReadType[r] = f.type

DeliveredTo(r, f) ==
    [id |-> f.id, type |-> f.type, len |-> f.len, to |-> r, issue |-> req[r].issue]

(* vnet_process_rx_used, one used element up to its re-posting. *)
rx_entry ==
    LET e == UsedEntry("rx")
        f == rxbuf[e.id]
        taken == /\ e.len > HdrLen + EthHdrLen /\ pending # <<>>
                 /\ Matches(Head(pending), f)
    IN  /\ Serves("rx")
        /\ IF seen["rx"] = dev_idx
           THEN pc' = "tx_idx" /\ UNCHANGED <<req, pending, entry, delivered>>
           ELSE /\ pc' = "rx_post" /\ entry' = e.id
                /\ pending' = IF taken THEN Tail(pending) ELSE pending
                /\ \/ ~taken /\ UNCHANGED <<req, delivered>>
                   \/ /\ taken /\ req' = Reply(Head(pending), "ok")
                      /\ delivered' = Append(delivered, DeliveredTo(Head(pending), f))
                   \/ taken /\ req' = Reply(Head(pending), "error") /\ UNCHANGED delivered
        /\ UNCHANGED <<net, vring, ports, slot, shadow, seen, dev_idx>>

rx_post ==
    /\ Serves("rx_post") /\ pc' = "rx_push"
    /\ vring' = PostedRing(entry)
    /\ UNCHANGED <<net, ports, req, pending, slot, shadow, seen, dev_idx, entry, delivered>>

(* Faulty: used_idx_seen is not advanced, so the element is processed again. *)
rx_pushAgain ==
    /\ Serves("rx_push") /\ pc' = "rx"
    /\ shadow' = [shadow EXCEPT !["rx"] = Succ(@)]
    /\ vring' = [vring EXCEPT !["rx"].avail_idx = Succ(shadow["rx"])]
    /\ UNCHANGED <<net, ports, req, pending, slot, seen, dev_idx, entry, delivered>>

rx_push ==
    /\ Serves("rx_push") /\ pc' = "rx"
    /\ shadow' = [shadow EXCEPT !["rx"] = Succ(@)]
    /\ seen' = [seen EXCEPT !["rx"] = Succ(@)]
    /\ vring' = [vring EXCEPT !["rx"].avail_idx = Succ(shadow["rx"])]
    /\ UNCHANGED <<net, ports, req, pending, slot, dev_idx, entry, delivered>>

(* Faulty: the slot is found by position in the ring, not by the element's id. *)
tx_entryByPosition ==
    LET id == seen["tx"] % qsize
    IN  /\ Serves("tx")
        /\ IF seen["tx"] = dev_idx
           THEN pc' = "exit" /\ UNCHANGED <<req, slot, seen>>
           ELSE /\ pc' = "tx"
                /\ req' = IF slot[id] # "free" THEN Reply(slot[id], "ok") ELSE req
                /\ slot' = [slot EXCEPT ![id] = "free"]
                /\ seen' = [seen EXCEPT !["tx"] = Succ(@)]
        /\ UNCHANGED <<net, vring, ports, pending, shadow, dev_idx, entry, delivered>>

(* One used element of vnet_process_tx_used: reply, free the slot. *)
tx_entry ==
    LET id == UsedEntry("tx").id
    IN  /\ Serves("tx")
        /\ IF seen["tx"] = dev_idx
           THEN pc' = "exit" /\ UNCHANGED <<req, slot, seen>>
           ELSE /\ pc' = "tx"
                /\ req' = IF slot[id] # "free" THEN Reply(slot[id], "ok") ELSE req
                /\ slot' = [slot EXCEPT ![id] = "free"]
                /\ seen' = [seen EXCEPT !["tx"] = Succ(@)]
        /\ UNCHANGED <<net, vring, ports, pending, shadow, dev_idx, entry, delivered>>

(* Faulty: the ISR byte is read again, hence cleared, on the way out. *)
ExitInt2Acks ==
    /\ Serves("exit") /\ pc' = "out" /\ dev_idx' = 0 /\ entry' = 0
    /\ ports' \in {ports, FALSE} /\ net' = read_isr(net)
    /\ UNCHANGED <<vring, req, pending, slot, shadow, seen, delivered>>

(* Back in exec, which clears INTREQ before the servers or after them; the  *)
(* handler's locals are gone.                                              *)
ExitInt2 ==
    /\ Serves("exit") /\ pc' = "out" /\ dev_idx' = 0 /\ entry' = 0
    /\ ports' \in {ports, FALSE}
    /\ UNCHANGED <<net, vring, req, pending, slot, shadow, seen, delivered>>

vnet_isr_handler ==
    \/ read_isr_byte
    \/ read_used_idx("rx", "rx_idx", "rx") \/ rx_entry \/ rx_post \/ rx_push
    \/ read_used_idx("tx", "tx_idx", "tx") \/ tx_entry \/ ExitInt2

-----------------------------------------------------------------------------
(* The network has a frame for the guest.  One that comes during a tick     *)
(* is indistinguishable from one that came before it or after it.          *)
FrameArrives ==
    /\ engine = "idle" /\ arrived < Len(Arrivals)
    /\ arrived' = arrived + 1
    /\ inbox' = Append(inbox, [id |-> arrived + 1, type |-> Arrivals[arrived + 1].type,
                                len |-> Arrivals[arrived + 1].len])
    /\ UNCHANGED <<net, vring, rxbuf, engine, sent, intx, ports, devinit, unitVars,
                   shadow, seen, locked, isrVars, delivered>>

Device == Engine /\ UNCHANGED <<devinit, unitVars, shadow, seen, locked, isrVars,
                                arrived, delivered>>

Client ==
    \/ VNetOpen \/ VNetClose \/ cmd_flush
    \/ cmd_configinterface \/ cmd_online \/ cmd_offline
    \/ \E r \in Reqs : Refused(r)
    \/ \E r \in Reads : cmd_read(r) \/ queue_read(r) \/ VNetAbortIO(r)
    \/ \E w \in Writes : cmd_write(w) \/ copy_fails(w) \/ publish(w)

DrvNext == DevInit \/ Client \/ push_avail \/ TakeInt2 \/ vnet_isr_handler
              \/ FrameArrives \/ Device

DrvSpec == DrvInit /\ [][DrvNext]_drvVars

-----------------------------------------------------------------------------
(* The indices from a up to, not including, b, modulo the index width. *)
Window(a, b) == {(a + k) % IdxMod : k \in 0 .. ((b - a) % IdxMod) - 1}
AvailIds(q) == {vring[q].avail[i % qsize] : i \in Window(net.queue[q].last_avail, vring[q].avail_idx)}
UsedIds(q) == {vring[q].used[i % qsize].id : i \in Window(seen[q], vring[q].used_idx)}
InFlight(q) == Cardinality(Window(net.queue[q].last_avail, vring[q].avail_idx))
                 + Cardinality(Window(seen[q], vring[q].used_idx))

Running == devinit \in {"int_server", "driver_ok", "set_ready", "ready"}

(***************************************************************************)
(* Each receive buffer has one owner, for ever: it is either available to  *)
(* the device or in the used ring for the driver, in one place only, also  *)
(* while an element is being re-posted and when the indices wrap.  So the  *)
(* device never overwrites a frame the server has yet to copy, and no      *)
(* buffer leaks.  A transmit slot is free, being filled by its request, or *)
(* in flight exactly once, in the name of the request its buffer is for.   *)
(***************************************************************************)
EachBufferHasOneOwner ==
    /\ Running =>
        /\ InFlight("rx") = qsize
        /\ AvailIds("rx") \cup UsedIds("rx") = Slots
        /\ AvailIds("rx") \cap UsedIds("rx") = {}
    /\ Running =>
        /\ InFlight("tx") = Cardinality(AvailIds("tx") \cup UsedIds("tx"))
        /\ \A i \in Slots :
              i \in AvailIds("tx") \cup UsedIds("tx")
                 <=> /\ slot[i] # "free" /\ req[slot[i]].state = "sending"
                     /\ slot[i] # locked
        /\ \A i, j \in Slots : slot[i] = slot[j] /\ slot[i] # "free" => i = j

Times(frame) == Cardinality({k \in 1 .. Len(sent) : sent[k] = <<frame>>})

(* What the device transmits, VirtioNetStub::process_tx: no longer a chain. *)
DeviceTakes(n) == ChainLen(n) <= MaxTotal

(***************************************************************************)
(* A write answered with an error did not go to the network at all.  One   *)
(* answered with io_Error 0 went exactly once, with its own data, if its   *)
(* chain is no longer than the device's limit; if it is longer, which      *)
(* cmd_write's MTU check allows, the device refused it and it did not go   *)
(* (AnsweredMeansSent).                                                    *)
(***************************************************************************)
AnsweredAsSent ==
    \A w \in Writes :
        req[w].state = "done" /\ req[w].result # "none" =>
            Times(<<w, req[w].issue>>)
                = IF req[w].result = "ok" /\ DeviceTakes(req[w].len) THEN 1 ELSE 0

(***************************************************************************)
(* What docs/virtionet.md says of the MTU (1512, "this driver's honest MTU *)
(* claim"), with io_Error 0 for a write whose data went out: every write   *)
(* within the MTU that is answered without an error was sent.  It is not   *)
(* so of the last 12 lengths: cmd_write's limit counts the virtio-net      *)
(* header the device counts as well.                                       *)
(***************************************************************************)
AnsweredMeansSent ==
    \A w \in Writes :
        req[w].state = "done" /\ req[w].result = "ok" => Times(<<w, req[w].issue>>) = 1

(***************************************************************************)
(* Readers get frames in the order the network delivered them, none twice, *)
(* each as it arrived and of a type its reader asked for.  A read is       *)
(* answered without an error exactly when it was given a frame, one; and a *)
(* read waits for one exactly while it is on the list.                     *)
(***************************************************************************)
ReadersSeeArrivalOrder ==
    /\ \A i, j \in 1 .. Len(delivered) : i < j => delivered[i].id < delivered[j].id
    /\ \A i \in 1 .. Len(delivered) :
          LET d == delivered[i] IN
          /\ d.id \in 1 .. arrived
          /\ d.type = Arrivals[d.id].type /\ d.len = Arrivals[d.id].len
          /\ d.len > EthHdrLen /\ Matches(d.to, d)
    /\ \A r \in Reads :
          /\ req[r].state = "pending" <=> r \in ToSet(pending)
          /\ req[r].result = "ok" <=>
                \E i \in 1 .. Len(delivered) :
                   delivered[i].to = r /\ delivered[i].issue = req[r].issue
    /\ \A i, j \in 1 .. Len(delivered) :
          delivered[i].to = delivered[j].to /\ delivered[i].issue = delivered[j].issue => i = j

(***************************************************************************)
(* The rings this driver builds never make the device fail closed, so the  *)
(* interface does not go silent (virtionet.device never resets it).        *)
(***************************************************************************)
NeverFailsClosed == ~needs_reset(net)

(***************************************************************************)
(* No completion is stranded: while a used element is unread, the device's *)
(* ISR bit is set with the pin enabled (so the next tick raises INT2), or  *)
(* the handler has yet to read that queue's index or is below it.  An      *)
(* interrupt acknowledged late, or one that came before base->Ready, does  *)
(* not lose it.                                                            *)
(***************************************************************************)
Unread(q) == Window(seen[q], vring[q].used_idx) # {}
WillRead == [rx |-> {"rx_idx"}, tx |-> {"rx_idx", "rx", "rx_post", "rx_push", "tx_idx"}]
NoCompletionStranded ==
    devinit = "ready" => \A q \in Queues : Unread(q) =>
        \/ net.isr /\ intx
        \/ pc \in WillRead[q]
        \/ pc \in (IF q = "rx" THEN {"rx", "rx_post", "rx_push"} ELSE {"tx"}) /\ dev_idx = vring[q].used_idx

-----------------------------------------------------------------------------
(* A client, and a network, for a bounded run. *)
SomeTypes == [r \in Reads |-> IF r = "r1" THEN "arp" ELSE AnyType]
SomeArrivals == <<[type |-> "arp", len |-> 2], [type |-> "ip", len |-> 2]>>
SomeIssues == [r \in Reqs |-> 1]
SomeLengths == [w \in Writes |-> IF w = "w1" THEN {0} ELSE {2, 3}]
=============================================================================
