----------------------------- MODULE VirtioNet -----------------------------
(***************************************************************************)
(* The virtio-net function (VirtioNetStub, machine-core/src/pci.rs): its   *)
(* common configuration registers, the two split virtqueues in guest       *)
(* memory, and the engine that VirtioNetStub::tick runs once per raster    *)
(* line.                                                                   *)
(*                                                                         *)
(* The register file is one record, net, and each register write an        *)
(* operator on it.  A virtqueue's memory is the record vring[q]; in_ram    *)
(* says which of its three programmed addresses lie in guest RAM (the      *)
(* reset value 0 does).  A byte of payload is abstracted away: a           *)
(* descriptor holds one datum and a length.                                *)
(*                                                                         *)
(* The engine's loops run between two guest instructions.  A turn of a     *)
(* loop is a step of its own, and engine # "idle" keeps the guest out.     *)
(***************************************************************************)
EXTENDS Integers, Sequences, FiniteSets

CONSTANTS
    QUEUE_SIZE_MAX,   \* 256 in the code
    IdxMod,           \* ring indices are u16: 65536
    HdrLen,           \* VIRTIO_NET_HDR_LEN, 12
    MaxPayload,       \* MAX_ETH_PAYLOAD, 1514
    NoData            \* the content of a buffer nobody has written

ASSUME VirtioAssumption ==
    /\ QUEUE_SIZE_MAX \in Nat \ {0} /\ IdxMod \in Nat \ {0}
    /\ HdrLen \in Nat \ {0} /\ MaxPayload \in Nat \ {0}

VARIABLES
    net,     \* the device's registers
    vring,   \* the rings and descriptor tables in guest memory
    rxbuf,   \* the guest's receive buffers, by descriptor
    engine,  \* "idle", or the loop VirtioNetStub::tick is in: "tx", "rx"
    inbox,   \* frames the network back end holds for the guest
    sent,    \* history: frames given to NetBackend::transmit
    intx,    \* the bridge's INTX_ENABLE bit for this device's pin
    ports    \* INTREQ's PORTS bit

netVars == <<net, vring, rxbuf, engine, inbox, sent, intx, ports>>

Queues == {"rx", "tx"}
MaxTotal == HdrLen + MaxPayload
Succ(i) == (i + 1) % IdxMod

(* desc_flags: "write" for WRITE, "indirect", and more for NEXT. *)
NoDesc == [ram |-> TRUE, len |-> 0, write |-> FALSE, indirect |-> FALSE,
           more |-> FALSE, next |-> 0, data |-> NoData]
EmptyRing == [desc |-> [i \in 0 .. QUEUE_SIZE_MAX - 1 |-> NoDesc],
              avail |-> [i \in 0 .. QUEUE_SIZE_MAX - 1 |-> 0], avail_idx |-> 0,
              used |-> [i \in 0 .. QUEUE_SIZE_MAX - 1 |-> [id |-> 0, len |-> 0]],
              used_idx |-> 0]

-----------------------------------------------------------------------------
(* Registers *)

QueueReset == [size |-> QUEUE_SIZE_MAX, enabled |-> FALSE,
               in_ram |-> {"desc", "driver", "device"}, last_avail |-> 0, used |-> 0]

OfferedFeatures == {"VERSION_1", "MAC"}

(* The 32-bit half of the feature bits a select value shows. *)
FeatureWindow(sel) == CASE sel = 0 -> {"MAC"} [] sel = 1 -> {"VERSION_1"} [] OTHER -> {}

Reset == [status |-> {}, acked |-> {}, driver_select |-> 0,
          queue |-> [q \in Queues |-> QueueReset], isr |-> FALSE]

needs_reset(n) == "NEEDS_RESET" \in n.status
fail_closed(n) == [n EXCEPT !.status = @ \cup {"NEEDS_RESET"}]

(* Writing an empty set of bits resets the device. *)
write_device_status(n, bits) ==
    LET accepted == IF "FEATURES_OK" \notin n.status /\ "VERSION_1" \notin n.acked
                    THEN bits \ {"FEATURES_OK"} ELSE bits
        granted == IF "DRIVER_OK" \in accepted /\ "FEATURES_OK" \notin accepted
                   THEN (accepted \ {"DRIVER_OK"}) \cup {"NEEDS_RESET"} ELSE accepted
    IN  IF bits = {} THEN Reset ELSE [n EXCEPT !.status = granted]

merge_driver_feature(n, bits) ==
    LET window == FeatureWindow(n.driver_select)
    IN  IF "FEATURES_OK" \in n.status THEN n
        ELSE [n EXCEPT !.acked = (@ \ window) \cup (bits \cap window \cap OfferedFeatures)]

with_queue(n, q, regs) == [n EXCEPT !.queue[q] = regs]

(* The queue registers of a selected queue; ignored once it is enabled. *)
program_queue(n, q, size, in_ram) ==
    IF n.queue[q].enabled THEN n
    ELSE with_queue(n, q, [n.queue[q] EXCEPT !.size = size, !.in_ram = in_ram])

enable_queue(n, q) ==
    IF n.queue[q].enabled THEN n
    ELSE with_queue(n, q, [n.queue[q] EXCEPT !.enabled = TRUE, !.last_avail = 0, !.used = 0])

effective_queue_size(n, q) ==
    CASE n.queue[q].size < 1 -> 1
      [] n.queue[q].size > QUEUE_SIZE_MAX -> QUEUE_SIZE_MAX
      [] OTHER -> n.queue[q].size

(* The feature word a driver reads, and the ISR byte, which a read clears. *)
device_feature_window(sel) == OfferedFeatures \cap FeatureWindow(sel)
(* The COMMON_CFG fields a driver reads; `at` is the select register.      *)
common_read(n, field, at) ==
    CASE field = "DEVICE_FEATURE" -> device_feature_window(at)
      [] field = "DEVICE_STATUS"  -> n.status
      [] field = "QUEUE_SIZE"     -> effective_queue_size(n, at)
read_isr(n) == [n EXCEPT !.isr = FALSE]

-----------------------------------------------------------------------------
(* Rings *)

(* A descriptor the device may use: inside the table, and the table in RAM. *)
read_desc_ok(n, q, i) == i < effective_queue_size(n, q) /\ "desc" \in n.queue[q].in_ram

(* One link of a chain: readable, and the whole no longer than the scratch
   buffer.  A chain that has ended or is bad stays so. *)
follow(n, q, w) ==
    LET d == vring[q].desc[w.at]
    IN  IF w.state # "more" THEN w
        ELSE IF \/ ~read_desc_ok(n, q, w.at)
                \/ d.write \/ d.indirect \/ ~d.ram \/ w.total + d.len > MaxTotal
        THEN [w EXCEPT !.state = "bad"]
        ELSE [at |-> d.next, total |-> w.total + d.len, data |-> Append(w.data, d.data),
              state |-> IF d.more THEN "more" ELSE "done"]

(* copy_chain_out: at most size links; walk[k] is the loop's state after k. *)
ChainStart(head) == [at |-> head, total |-> 0, data |-> <<>>, state |-> "more"]
copy_chain_out(n, q, head) ==
    LET size == effective_queue_size(n, q)
        walk[k \in 0 .. size] == IF k = 0 THEN ChainStart(head) ELSE follow(n, q, walk[k - 1])
    IN  walk[size]

(* complete_used: the used element, then the index, then the ISR bit. *)
complete_used(q, id, len) ==
    LET u == net.queue[q].used
    IN  [vring EXCEPT ![q] = [@ EXCEPT
              !.used[u % effective_queue_size(net, q)] = [id |-> id, len |-> len],
              !.used_idx = Succ(u)]]
used_published(n, q) ==
    [with_queue(n, q, [n.queue[q] EXCEPT !.used = Succ(@), !.last_avail = Succ(@)])
        EXCEPT !.isr = TRUE]

HeadOf(q) == vring[q].avail[net.queue[q].last_avail % effective_queue_size(net, q)]
NothingAvailable(q) == vring[q].avail_idx = net.queue[q].last_avail
Stopped(q) == needs_reset(net) \/ ~net.queue[q].enabled

(* INT2 after a tick: PciBridge::irq_pending, polled once per line. *)
Polled(n) == ports' = (ports \/ (intx /\ n.isr))

(* One turn of process_tx. *)
process_tx ==
    LET q == "tx"
        chain == copy_chain_out(net, q, HeadOf(q))
        good == chain.state = "done" /\ chain.total >= HdrLen
    IN  /\ engine = "tx"
        /\ \/ /\ Stopped(q) \/ ("driver" \in net.queue[q].in_ram /\ NothingAvailable(q))
              /\ engine' = "rx" /\ UNCHANGED <<net, vring, sent>>
           \/ /\ ~Stopped(q) /\ "driver" \notin net.queue[q].in_ram
              /\ engine' = "rx" /\ net' = fail_closed(net) /\ UNCHANGED <<vring, sent>>
           \/ /\ ~Stopped(q) /\ "driver" \in net.queue[q].in_ram /\ ~NothingAvailable(q)
              /\ sent' = IF good THEN Append(sent, chain.data) ELSE sent
              /\ IF "device" \in net.queue[q].in_ram
                 THEN /\ vring' = complete_used(q, HeadOf(q), IF good THEN chain.total ELSE 0)
                      /\ net' = used_published(net, q)
                      /\ UNCHANGED engine
                 ELSE engine' = "rx" /\ net' = fail_closed(net) /\ UNCHANGED vring
        /\ UNCHANGED <<rxbuf, inbox, intx, ports>>

(* A receive descriptor that can take a frame of this length. *)
Receives(d, len) == d.write /\ ~d.indirect /\ HdrLen + len <= d.len /\ d.ram

(* One turn of process_rx; its return ends the tick. *)
process_rx ==
    LET q == "rx"
        id == HeadOf(q)
        frame == Head(inbox)
    IN  /\ engine = "rx"
        /\ \/ /\ \/ Stopped(q)
                 \/ "driver" \in net.queue[q].in_ram /\ (NothingAvailable(q) \/ inbox = <<>>)
              /\ engine' = "idle" /\ Polled(net) /\ UNCHANGED <<net, vring, rxbuf, inbox>>
           \/ /\ ~Stopped(q) /\ "driver" \notin net.queue[q].in_ram
              /\ engine' = "idle" /\ net' = fail_closed(net) /\ Polled(net)
              /\ UNCHANGED <<vring, rxbuf, inbox>>
           \/ /\ ~Stopped(q) /\ "driver" \in net.queue[q].in_ram
              /\ ~NothingAvailable(q) /\ inbox # <<>>
              /\ inbox' = Tail(inbox)
              /\ IF read_desc_ok(net, q, id) /\ Receives(vring[q].desc[id], frame.len)
                 THEN /\ rxbuf' = [rxbuf EXCEPT ![id] = frame]
                      /\ IF "device" \in net.queue[q].in_ram
                         THEN /\ vring' = complete_used(q, id, HdrLen + frame.len)
                              /\ net' = used_published(net, q)
                              /\ UNCHANGED <<engine, ports>>
                         ELSE /\ engine' = "idle" /\ net' = fail_closed(net)
                              /\ Polled(net) /\ UNCHANGED vring
                 ELSE /\ engine' = "idle" /\ net' = fail_closed(net) /\ Polled(net)
                      /\ UNCHANGED <<vring, rxbuf>>
        /\ UNCHANGED <<sent, intx>>

(* A queue on which the engine would do more than look. *)
HasWork(q) == /\ ~Stopped(q)
              /\ "driver" \in net.queue[q].in_ram =>
                    ~NothingAvailable(q) /\ (q = "rx" => inbox # <<>>)

(* A raster line is crossed: the tick begins.  A tick that would find      *)
(* nothing to do and nothing to signal changes no state and is left out.   *)
Tick == /\ engine = "idle"
        /\ HasWork("tx") \/ HasWork("rx") \/ (intx /\ net.isr /\ ~ports)
        /\ engine' = IF HasWork("tx") THEN "tx" ELSE "rx"
        /\ UNCHANGED <<net, vring, rxbuf, inbox, sent, intx, ports>>

Engine == Tick \/ process_tx \/ process_rx

NetInit ==
    /\ net = Reset /\ vring = [q \in Queues |-> EmptyRing]
    /\ rxbuf = [i \in 0 .. QUEUE_SIZE_MAX - 1 |-> NoData]
    /\ engine = "idle" /\ inbox = <<>> /\ sent = <<>> /\ intx = FALSE /\ ports = FALSE
=============================================================================
