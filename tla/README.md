# A TLA+ model of m68k-machine

m68k-machine is an Amiga-class machine in Rust: a 68040 (from an external CPU
library) on a bus of period devices and of cards invented for this machine, with
the guest-side drivers of those cards in 68k assembly and C. This directory holds
TLA+ modules for its core, the TLC configurations that check them, and TLAPS proofs
about its storage, input, packet, network and graphics devices and the drivers of the
first four, about device time, the memory map, the PCI bus and the run loops.

All paths below are relative to the repository (`src/` in `PROJECT.json`);
`core/` stands for `crates/machine-core/src/` and `hosted/` for
`crates/machine-hosted/src/`.

## 1. Inventory

The host side is single-threaded but for the serial TCP poll thread, yet the system
is full of concurrency, because the guest is not: guest tasks, the guest's INT2
handlers, the once-per-raster-line device engines and the host's per-frame services
interleave at instruction granularity, and they meet in device registers that are
accessed one at a time. Beside that stands code that is sequential but exists twice,
a fast form and the form it must agree with: deferred time and eager time, direct
mapped memory and the bus, a replay and its recording, a decoded block and its
instructions, a band renderer and the picture line by line.

| Component | State | Operations | Meets | What makes it correct |
|---|---|---|---|---|
| hostblk card, `core/hostblk.rs` | submission and completion ring, overflow counter, INT_ENABLE | doorbell, once-per-line engine, pop | guest RAM, block devices, INT2 | each accepted doorbell completed once, in order; honest residue |
| hostblk.device, `m68k/hostblk-rom/` | slot pool, pending list, IORequests | BeginIO, AbortIO, interrupt handler | card, exec | no lost, doubled or mixed-up request; each returns |
| input card, `core/input.rs`; driver, `m68k/input-rom/` | event queue, INT_STATUS; ring to its task | pushes, pop, acknowledge; handler, task | script, INT2, input.device | keys never lost or reordered; the latch covers the queue |
| pktport card, `core/pktport.rs`; volume, `hosted/pktvol.rs`; handler, `m68k/pktport-handler/` | one descriptor; handle table, inhibit; FileLocks | doorbell, engine; packet actions; packet loop | guest RAM, amiga-ffs (external), DOS | a handle names one object for ever; each packet gets its own answer |
| device time, `core/lib.rs`; CIAs, `core/cia.rs`; chipset, `core/chipset.rs` | pending clocks, next deadline; timers, beam, INTREQ | tick, flush, register accesses | every device | deferral is invisible |
| memory map and AutoConfig, `core/lib.rs`, `core/autoconfig.rs`, `core/fastram.rs`; direct map, `hosted/directmap.rs` | board chain, windows, overlay; page table | configuration writes, decoding; rebuild | bus, DMA | every way to reach a byte reaches the same one |
| PCI bridge and bus, `core/pcibridge.rs`, `core/pci.rs`; `m68k/prometheus-library/` | configuration space, BARs; recorded functions | apertures; enumeration | AutoConfig, INT2 | one function answers; recorded BARs resolve |
| virtio-net, `core/pci.rs`; virtionet.device | virtqueues, status; free list, pending reads | queue processing; SANA-II commands, handler | guest RAM, INT2, network | each buffer owned by one side; an answer tells what happened |
| Mirage ATA, `core/mirage.rs` | task file, PIO buffer, sector counters | commands, data port | block device, INT2 | the sectors asked for, and only those |
| RTG board, Cirrus, `core/rtgboard.rs`, `core/cirrus.rs` | register files, VRAM | registers, blits | host display | scan-out inside VRAM; a blit is its rectangle |
| blitter, renderer, `core/blitter.rs`, `core/render.rs` | registers, bands | area and line blits; a frame | chip RAM | the pixels a plain definition gives |
| run loops, `hosted/run.rs`; boards, `crates/board-qemu-*/` | budgets, pacing, wedge windows, storms | per instruction, per chunk, per frame | time base, host sources | wedge verdicts right as far as the loop looks; nothing lost at a frame |
| serial line and scripts, `hosted/serial_tcp.rs`, `serial_script.rs`, `input_script.rs`, `console.rs` | byte queues, directives | poll thread, per-frame service | chipset, sockets | bytes and events in order, each once |
| record and replay, `hosted/replay.rs`, `hosted/bus.rs` | log, device-write log, checkpoints | hook, bus accesses | CPU, devices | a replay is its recording |
| m68k-vp, `crates/m68k-vp/` | block cache, register file | decode, flag liveness, interpret | guest code | a block means its instructions |
| introspection, `hosted/introspect.rs` | none | list walks | guest RAM at any moment | reports what the guest built, no more |

What is hard is collected line by line under `hazards` in `PROJECT.json`, with the
properties that would catch each one going wrong. A hazard without a property says why.

## 2. Modules

```
BlockTransfer <- Hostblk <- HostblkDevice <- HostblkProofs ;  HostblkDevice --implements--> BlockService
NativeInput <- InputDriver <- InputProofs
PktVolume <- Pktport <- PktHandler <- PktProofs
Cia <- TickExact <- TimeBase <- TimeProofs ;  TimeBase --implements--> EagerTime
AutoConfig <- MemoryMap <- DirectMap ;  DirectMap, PciBus <- MapProofs ;  DirectMap, PciBus <- MCMachine
VirtioNet <- VirtionetDevice <- VirtionetProofs
HostSerial, NativeInput <- RunLoop ;  RunLoop, InputProofs <- HostProofs
Replay <- TimeProofs
VpDecoder <- VpOracle <- VpCore ;  Replay, VpCore <- MCCpu
Mirage, GraphicsBoards, CirrusBlit, Blitter, Renderer, Introspect <- MCCards
Mirage, GraphicsBoards <- CardProofs
```
(`A <- B`: B extends A. Each `MC...` module gives one composition its constants; where
the cfg can name them itself there is only the cfg. The `...Proofs` modules are for
TLAPS: section 4.)

**Storage.** *BlockTransfer* is the pure part of `Hostblk::execute` and `transfer`: for
a descriptor, the (error, sectors moved) outcomes in the order of the code's checks,
and what RAM and disks hold afterwards; one value per sector, lengths in bytes because
the checks are about bytes. *Hostblk* is the card under the most general guest.
*HostblkDevice* puts the driver in the guest's place: BeginIO, submission under
Disable, AbortIO, and the interrupt handler one register access at a time; exec is
external, and `TakeInt2`/`ExitInt2` allow both orders in which it may clear INTREQ
(`ack_late`). *BlockService* is what the driver promises: a request is performed at most
once, atomically, between issue and reply, and the reply carries that execution's result.

**Input.** *NativeInput* is the card: coalescing into the newest entry, eviction of a
motion for a key, the gated acknowledgement. Events carry the number of the push that
made them. *InputDriver* adds the handler, the driver's ring and its task, and another
INT2 source.

**Packets.** *PktVolume* is the handle table with every action's checks; what the file
system library answers is nondeterministic. *Pktport* is the card's one-slot engine,
*PktHandler* the handler process.

**Time.** *Cia* and *TickExact* are the timed devices as one value; *EagerTime* applies
time after every instruction; *TimeBase* is the code, which accumulates, applies at a
precomputed deadline or before a register access, and asks for an instruction boundary
when an access may have changed the interrupt level (`boundary_request`).

**Map.** *AutoConfig* is the board chain, nibble by nibble; *MemoryMap* decodes an
address for the CPU and for DMA under overlay and windows; *DirectMap* is the page table
and the moments it is rebuilt. *PciBus* is configuration space, BAR decoding, the
bridge's windows with their byte lanes, and prometheus.library's enumeration.

**Network.** *VirtioNet* is the device: a turn of each queue loop is a step, and a
descriptor is one datum and a length; a chain longer than `VNET_MAX_FRAME_TOTAL` is
completed with used length 0 and goes nowhere. *VirtionetDevice* is the driver, with
`cmd_write`'s check of the length against its own MTU, and with tasks, INT2 server and
engine interleaved at ring accesses. The network may deliver at any time.

**Host.** *HostSerial* is the chipset's serial rings, console tail, serial script and
the TCP bridge with its thread; *RunLoop* is `run_guest` (hook after every instruction),
`run_guest_max` (chunks against the wall clock) and `boot_aros` of the two bare-metal
boards, around a guest that may do anything: inside a chunk of max mode its PC goes from
address to address with nobody looking (`ChunkGoesOn`). *Replay* runs a recording and its replay
in turns, one hook apart, with the log between them.

**m68k-vp.** *VpDecoder* builds blocks and marks live flags, *VpCore* executes and caches
them, *VpOracle* executes the same program an instruction at a time.

**Cards.** *Mirage* and *GraphicsBoards* (the RTG board, and the Cirrus card's registers)
are register files under any order of accesses. *CirrusBlit*, *Blitter* and *Renderer*
each state the code's loop and, beside it, a definition of the picture it should make.
*Introspect* is a guest whose Exec structures are built a store at a time, and the report
taken between any two stores. A behaviour of `MCCards` is the behaviour of one of them
(`rig`).

## 3. Runs

| Run | Properties | Shows |
|---|---|---|
| `hostblk_card` | `TypeOK`, `ExactlyOnceInOrder`, `ResidueIsHonest` | the card, whatever the guest does |
| `hostblk_device` | `PoolAgreesWithCard`, `ReturnedMeansReleased`, `ImplementsBlockService`, `EveryRequestReturns` | three clients on two slots: pool and ring agree, requests return, the service is implemented |
| `input_driver` | `DispatchesInOrder`, `KeysReachInput` | with another device on INT2, each key arrives, in order |
| `input_driver_alone` | `KeysReachInput` violated | with nothing else on INT2 a pushed key is never delivered (finding) |
| `pkt_handler` | `OwnsItsHandle`, `HeldHandlesResolve`, `AnswersItsOwnRequest`, `DroppedHandlesStayDropped`, `EveryPacketIsAnswered` | handles are owned, never reused or lost; each packet gets its own answer |
| `time_base` | `IrqLevelIsCurrent`, `ImplementsEager` | deferred time is exact, and the level the CPU was told is the level there is |
| `net` | `EachBufferHasOneOwner`, `AnsweredAsSent`, `ReadersSeeArrivalOrder`, `NeverFailsClosed`, `NoCompletionStranded` | driver and device over wrapping indices, frames the device refuses included |
| `net_mtu` | `AnsweredMeansSent` violated | a write within the driver's own MTU is answered without an error and never sent (finding) |
| `machine` | `DirectMapAgrees`, `DmaSeesWhatTheCpuWrites`, `PlacedBoardsAnswer`, `NoTwoFunctionsAnswer`, `RecordedBarsResolve` | CPU, direct map and DMA reach the same bytes; the PCI bus enumerates |
| `cpu` | `ReplayFollowsRecording`, `BlocksMeanTheirInstructions` | registers, level and RAM equal at each hook, and the log used up; cached blocks against single instructions |
| `host` | `SerialOutInOrder`, `SerialInInOrder`, `WedgeVerdictIsRight`, `ScriptDirectivesAllAccepted`, `DiscreteEventsSurvive`, `LatchCoversQueue` | the run loops and their sources |
| `cards` | `TransfersAreTheSectorsAsked`, `PicturesStayInVram`, `BlitIsItsRectangle`, `BlitterDrawsItsPixels`, `RenderedLineByLine`, `ReportIsTheGuests` | each card against what it should do |

**Bounds.** Each bound that stops an actor is named and in a guard (`MaxDoorbells`,
`MaxIssues`, `MaxPushes`, `MaxAccesses`, `MaxHandle`, `MaxSent`, `MaxTyped`, `MaxAhead`,
`MaxCommands`, `MaxBlits`, `MaxMoves`, ...).

* Storage: ring depths of 1 to 3 for 8 and 16 reach full, empty and wrap; three clients
  on two slots make one wait. `MCHostblk` has a descriptor for each check of the engine.
* Input: a queue and a driver's ring of two and four pushes, which fill both, coalesce
  and evict.
* Packets: three handles, so that `next_handle` saturates.
* Time: a raster line of 6 CPU clocks and an E clock of 4 drift as 908 and 20 do;
  one-bit register bytes let timers and TOD wrap; instructions of 3 and 5 clocks meet
  deadlines exactly and overshoot them. INTENA is constant and a behaviour has two
  register accesses: enough for each pair (arm, then mask, clear or read), not for three.
  Time itself is unbounded.
* Net: rings of two, indices modulo 4 for 65536; two readers and two frames that
  arrive, so that two deliveries have an order; each request is used once. Two writers compete for slots,
  one of them without data (0), the other with a length the driver takes and the device
  refuses (2) or one the driver refuses (3): the 12 lengths 1501 to 1512 are here the one length 2.
* Machine: real addresses at 64 KB pages; each board placed in one of several slots,
  with the two memory boards also shut up.
* Replay: four hooks, a device-write log of two spans, a checkpoint every two, so the log merges,
  overflows and checkpoints. One access that causes a transition, last in its
  instruction; aligned accesses; fixed mode.
* Host: buffers of 1 to 3, thresholds of 3 and 4, chunk times of 0, 1 and 4, guests that
  stay, leave and come back inside a chunk; `MaxTyped` counts the bytes of all clients
  together; each rig enables the sources one question is about.
* m68k-vp: the kernels of `m68k/cpubench/kernels.s`, unrolled a few times; 3-bit bytes,
  four cache slots so that entries collide, budgets that run out inside a loop.
* Cards: widths are scaled with the ratios kept (a 32-bit RTG word is 64 values, a blitter
  word 4 bits, a Cirrus byte 2 bits and its doubleword 2 bytes, 8 raster lines and 3
  bands), small enough for products to wrap and lists to overflow their budgets.

`CHECK_DEADLOCK FALSE` appears where the system really stops: a run that ended, a
handler that polls a descriptor outside RAM for ever, a client, a bus enumeration or a
list of blits that is done.

**Fairness.** `FairDevSpec`: the engine runs at each raster line, because `tick_exact`
does; a raised INT2 is eventually taken and the handler runs to its end, because the CPU
runs; a client that began goes on. `DriverSpec` (input): the same for handler and host
timer; the driver's task gets strong fairness because INT2 can preempt it again and
again and exec still schedules it whenever it is ready and no interrupt is pending.
`KeysReachInput` asks two things of a behaviour: exec clears INTREQ after the server
chain, or the driver's ring never stays full (otherwise the handler is re-entered for
ever, hazard at `input-diagrom.s:934`); and the head of the queue is not evicted between
the handler's reads of it and its pop (otherwise the pop takes the key behind it, hazard
at `core/input.rs:833`). `FairSpec` (packets): the handler's loop and the raster line
only; DOS owes no packet. The other runs state safety, and the refinement onto
`EagerTime` is step by step; `NoCompletionStranded` is the safety form of "the handler
does not leave work behind": at rest, no used entry is unseen without an interrupt to
come.

## 4. Proofs

Each theorem holds for every value of the constants that meets the named assumptions.
These say that sets are non-empty and sizes positive, that kinds of things which the code
keeps apart are apart (a request is not the mark of a free slot), and, for virtqueues,
that the ring size divides the number of index values and is smaller: 8 and 65536 in the
code. The bounds of section 3 (`MaxPushes`, `MaxIssues`, ...) are arbitrary constants
here.

**The storage card** (`HostblkProofs`; `TransferAssumption`, `HostblkAssumption`).

* `CardTypes`: `Spec => []TypeOK`. Its content is in `OutcomeBounds` and
  `TransferTypes`: past the checks of `transfer`, every cell and sector the loop
  touches lies inside RAM and the unit, whatever the descriptor says.
* `CardConserves`: `Spec => []ExactlyOnceInOrder`. The invariant is made inductive
  by `TypeOK` (an entry has room when pushed, so none is dropped) and by the fact that
  refused doorbells, `rung - Len(accepted)`, are never negative, without which a
  counter that wraps says nothing; `ModSucc` is the step of that counter.
* `CardResidue`: `Spec => ResidueIsHonest`, an action property, from `TypeOK`: the byte
  count posted divides back to the sectors moved (`DivMul`), and `LandedCells`,
  `LandedSectors` and `NothingMoved` say what the transfer leaves in each cell.

**Its driver** (`HostblkProofs`; also `DeviceAssumption`). The inductive invariant
`DriverInv` (`DriverInvariant`) says where everything is: `SlotsAccounted` puts each slot
that has an owner in exactly one of the submission ring, the completion ring and the
handler's hand; `PoolCounts` ties DEV_OUTSTANDING and DEV_PENDING to that; `HandlerReads`
says which registers of the handler describe the head of the completion ring at each
place of its loop; `RequestsAccounted` and `DescriptorsAgree` say who owns a slot and
that its descriptor is what the owner asked. None of them is inductive alone: that the
handler frees the right slot needs its registers, which need that nobody else pops.

* `PoolIsTheCards`, `ReturnedIsReleased`: `PoolAgreesWithCard` and
  `ReturnedMeansReleased` follow.
* `DriverImplementsService`: `DevSpec => ImplementsBlockService`, step by step. What a
  client sees is `View(c)`, its phase, request and result; `ViewsOf` says what it is for
  each place a request may be in. The card's `Execute` is the service's Perform, BeginIO
  its Issue, a successful AbortIO its Cancel, ReplyMsg its Reply, the return of WaitIO
  its Return; every other step leaves every view and the disks alone.

**Input** (`InputProofs`; `InputAssumption`, `DriverAssumption`). `CardInv` adds
to `TypeOK` and the latch that what was popped and what is queued are each in the order
of their pushes, the popped before the queued and the next push after both
(`EventsInOrder`), and that the accepted codes are those popped and those queued
(`CodesKept`). `DiscreteEventsSurvive` speaks of pairs of events wherever they are;
divided at the place where events leave, it survives a removal from the middle.

* `DiscreteEventsAreKept`, `LatchIsKept`, `CardIsTyped`: for every queue depth and any
  host and guest. `DriverKeepsEvents` carries both to the card under the real driver.
* `DispatchIsInOrder`: `DriverSpec => []DispatchesInOrder`. `OrderInv` orders what is
  dispatched, in the ring and queued by the pushes' numbers, and says what the registers
  the handler has read so far may hold (`RegistersAgree`): a discrete head's number, or
  one that a motion head had when it was read, still older than all that is queued behind.

**Packets** (`PktProofs`; `PktVolumeAssumption`). `PktInv` follows one packet
through handler, descriptor, card and table: `CounterIsPast` (until it saturates,
the counter is past every handle it gave out), `SlotIsOurs`, `PacketIsSound`, `RequestAgrees`,
`ResultAgrees` (the descriptor is the packet's at each place of the exchange) and
`TablesAgree` (guest structures and host table, up to the packet in between).

* `PktIsTyped`, `HandlesAreOwned`, `HandlesResolve`, `AnswersAreItsOwn`, and the action
  property `DroppedStayDropped`, for every `MaxHandle`, saturation included.

**Network** (`VirtionetProofs`; `VirtioAssumption`, `DriverAssumption`). Its first part
is about split virtqueues alone. Between the driver's used index and the
available index lie the buffers in flight, first the used ones, then those available;
`Flight` numbers them from 0, and the lemmas say what each access to a ring does to that
numbering, with indices modulo `IdxMod` and entries modulo `qsize`: completing one moves
the boundary (`FlightCompleted`), writing an entry outside the window disturbs nothing
(`FlightWritten`), pushing appends (`FlightPushed`), taking a used one drops number 0
(`FlightTaken`). `NetInv` (`DriverAndDeviceAgree`) is stated over the numbering:

* `Phases`, `Registers`: which queues are enabled at each point of DevInit, with the
  driver's size and addresses, and the device's copies of the indices;
* `RxFlight`: the receive buffers in flight are those posted, each once, described with
  room for a whole frame; `Handler`: the handler's copy of the index lies within the used
  ones and the element it re-posts is number 0;
* `SlotOwners`, `TxFlight`: a request owns one slot from its allocation to its answer,
  and the slots in flight are those of the requests being sent, except one between
  Disable and Enable, which is the next entry; each descriptor carries its owner's frame;
* `PendingReads`: the list, without duplicates, is the reads that wait;
* `FramesInOrder`: delivered frames, frames in used buffers by number, and the back end's
  are one ascending sequence, and the used length is the frame's;
* `SentOnce`: for each request, how often its current and later issues went out, by its
  state, by whether its slot is used and by whether the device takes a chain of its
  length (`Once`);
* `Signalled`: an element the handler has not seen is announced or lies ahead of it.

From it: `BuffersHaveOneOwner` (the numbering is a bijection onto the slots, by counting:
`Counting`, `Pigeons`), `DeviceNeverFailsClosed` (every check of `copy_chain_out` and
`process_rx` passes on these rings: `OneLink`, `TxEngine`, `RxEngine`),
`CompletionsAreAnnounced`, `ArrivalOrderIsKept` and `WritesAreAnsweredAsSent`, for writes of
any length: one whose chain the device takes went out exactly once when answered without
an error, one it refuses never, and that answer is the finding of `net_mtu`.

**Host** (`HostProofs`; `LoopConstants`, `RigAssumption`, `SerialConstants`,
`InputAssumption`). The rigs, what the command line and the guest are, are any set that
meets `RigAssumption`: addresses are numbers, a guest goes from one of its own to
another, a chunk's time is a number with a largest, a board has no bridge, an input
script is a finite list.

* `HostKeepsEvents`: every step of the loops is a step of the card or none
  (`LoopIsCardStep`), so `CardInv` holds and the card's two properties with it.
* `SerialOutputIsInOrder`: `LineInv` sees what the receiver got, what the bridge has in
  its hand, its queue and the chipset's ring as one rising sequence of byte numbers
  (`LineOf`, `Kept`), and says when the hand is empty. A step moves the boundary between
  two parts (`Drains`, `Taken`, `Written`), puts a part back (`PutBack`), takes one out and
  counts it lost (`PartLeaves`, `OldestDropped`, `ClientGone`), or adds the next number at
  the end (`JoinsAtEnd`). That the hand is put back in front of the queue is where order
  across the two locks is decided.
* `WedgeVerdictHolds`: what the loop can know is where the PC was when it looked, after
  each instruction in fixed mode and at the end of each chunk in max mode; a PC that roams
  inside its chunks and ends them near one address is called wedged, and the theorem does
  not say otherwise (`WedgeGoesOn`: inside a chunk nothing is counted). `WedgeInv` has
  both halves. From below, an address that covers the window has had the PC near it
  wherever the loop looked, for all the detector has counted (`Grip`). From above
  (`Bounded`), a stay longer than that is at an address that covers the window, and the
  excess, what was spent before the window restarted, is less than the patience plus a
  chunk (`Start`). When the window restarts while the PC stays within reach of w, w did
  not cover the old window, so the stay was no longer than its count; w covers the new
  one, and while the stay lasts the window cannot restart again. In max mode
  time is counted when a chunk ends and looked at after the drain; in between the count
  may be full, which the last conjunct allows for.
* `ScriptSkipsNoKey`: `ScriptInv` counts; the codes accepted are among the pushes made, so
  the next one is new, and `KeysOfTail` counts a script by its head.
* `SerialInputStaysInOrder` (`ScriptAssumption`: a script numbers its bytes in the order it
  sends them). `InInv` reads what arrived and what still waits in the bridge's queue as one
  sequence (`Arriving`): the clients' numbers rise in it, and it has every one that
  `poll_loop` read, but for those that went with a dropped client (`trail.dropped`: typed,
  and not read when a write or read of the socket failed); the script's are 1, 2, 3, ...
  without a gap, and `Sending` says how far it has come by what it has left.

**Time** (`TimeProofs`; `CiaAssumption`, `BeamAssumption`, `TimeAssumption`,
`AccessAssumption`: clocks, lines and frames have lengths, instructions take time). The
loops of `tick_eclock` and `tod_tick` are functions of the number of rounds
(`EAfter`, `TodAfter`), and induction over them goes by a least counterexample
(`LeastNumber`, `AllNumbers`). Four facts carry the proof:

* ticks add: n clocks and then m are n + m (`CiaTickAdd`, `TickAdd`), which needs that
  an E-clock step and a TOD step of one CIA commute (`TicksCommute`, `StepsCommute`): a
  long tick does all of one kind before the other, short ticks interleave them;
* ticks short of `next_event` are invisible: they raise nothing (`QuietTicks`);
* an access to a board or a card that is not flushed first commutes with a pending tick
  (`BoardWriteOverTick`, `CardWriteOverTick`);
* every access to a CIA or INTREQ flushes, and leaves a next event that is ahead.

`TimeInv` is then short: what is pending is less than the cached distance to the next
event, the cache is the distance, every source that asserts has its INTREQ bit, and the
level the CPU was told is the level there is unless a boundary was requested.

* `IrqLevelIsAlwaysCurrent`: `Spec => []IrqLevelIsCurrent`.
* `DeferredTimeIsExact`: `Spec => ImplementsEager`, step by step, under the mapping that
  applies the pending clocks to the devices; the lemmas `Eager...` say that the abstract
  module's operators are the same functions.

**Record and replay** (`TimeProofs`; `ReplayConstants`: the write log has room for a span,
devices write whole spans). The bursts of device writes are any sequences of spans,
anywhere in RAM or outside it, of any length and number. `ReplayInv` has two faces. When
both runs have passed the same hook they agree and the log is empty (`Together`). When the
recording is a hook ahead, it speaks of the replay after it has executed the same
instruction (`Executed`): it is then where the recording is, but for what the rest of the
log brings (`Catches`, `Brings`): each event left holds what the recording's machine holds
*now*, not when it was written, and each cell, the table and the level that differ have
an event that covers them.

* What a bus access appends, the same access of the replay consumes: `BusReads` and
  `ReplayReads`, `BusWrites` and `ReplayWrites`, put together for an instruction in
  `RecordExecutes` and `ReplayExecutes`; the writes a replay has to apply itself are
  those that change its map and its RAM.
* What the hook appends brings the rest (`Hooks`): a span of the device-write log lies in
  RAM and covers what was written, through merging forwards and backwards
  (`LogExtends`), unless the log overflowed and the recording is over; the bytes are read
  after the last write, so spans that overlap agree.
* Draining it in order catches up (`DrainStep`, `DrainsAll`, `CatchesUp`); an End, with
  the digests of both RAMs, comes last and meets RAM that is equal already.
* `ReplayIsItsRecording`: `ReplaySpec => []ReplayFollowsRecording`.

**Memory map** (`MapProofs`; `ChainAssumption`, `SlotAssumption`, `RomAssumption`,
`DirectMapAssumption`: sizes are numbers, and a board's size of room, aligned, lies wholly
inside the Zorro space expansion.library allocates it from). `MapInv`: each board of the chain is
what its type byte says (`ChainInv`), placed boards lie in their space and apart
(`PlacedInv`), the decoder's cached windows are those placements (`WindowsInv`), and the page
table and the DMA alias are what the last rebuild made of exactly this state
(`TableInv`, `AliasInv`): inductive because every configuration write and overlay flip
is followed by `sync` before the CPU runs on.

* `PlacedBoardsAlwaysAnswer`: windows are apart, so the board that answers is the one
  placed, whatever the order in which the decoder asks. TLC looks at every page of each
  window; the theorem also states `BoardsAnswerEverywhere`, over its every address.
* `DmaAlwaysSeesWhatTheCpuWrites`: an address a device may use reaches the cell the CPU
  reaches there.
* `DirectMapAlwaysAgrees`: TLC looks at the addresses around page boundaries; the
  lemmas prove `AgreesEverywhere`, over every address of the 4 GiB. A table entry maps
  only storage (RAM, ROM), an access that does not wrap meets the pages of its first and
  last byte only, and in storage both lie in one region.

**PCI** (`MapProofs`; `PciAssumption`: device numbers differ, a BAR's size is a power of
two of 16 or more as `ConfigSpace::new` asserts, the memory region ends within 32 bits,
and no BAR is larger than the region's address, so that an unassigned window at 0 does not
reach it). A BAR is written a byte at a time and masked after each; `FourBytes` shows
that four such writes leave the whole value masked once, by counting in lanes: a
power of two cuts one lane, clears those below and keeps those above (`AlignLanes`).
Hence all ones come back as minus the size (`BarProbeStep`, `BarRestoreStep`) and an aligned
address as itself (`BarAssignStep`). `PciInv`: only functions the enumeration has left decode
(`Decoders`); a register is clear, just probed, or where it was recorded
(`Registers`), and conversely (`RecordedBoards`); recorded boards are apart and below
`next_free` (`BoardsApart`); and what has been read at each point of the loop
(`Progress`). The run's behaviours on the bus are those of `PciSpec`, entered once the
bridge is placed.

* `NoTwoFunctionsEverAnswer`, `RecordedBarsAlwaysResolve`: `PciSpec => []...`; the lemma
  `BoardAnswers` has the second for every byte of a window.

**Cards** (`CardProofs`; `RtgAssumption`, `CirrusAssumption`, `MirageAssumption`).

* `PicturesAlwaysStayInVram`: for any VRAM size and register width. The RTG board shows a
  mode only if `mode_fits` held of it, products that would wrap refused, whatever has been
  staged since (`RtgInv`); of the Cirrus registers `CirrusInv` says what each field may hold, and
  the check at the end of `decoded_mode` does the rest, for any mixture of two modes.
* `MirageMovesWhatWasAsked`: for any sequence of register accesses and any values of LBA and
  COUNT a register may hold (TLC tries counts up to 2). `MirageInv` ties the task file to the job it was loaded
  from: the sectors passed are the distance of `current_lba` from the first
  (`Ranges`), the buffer position is what the pending transfer has left (`Position`), the
  buffer holds the disk's sector or the host's words up to there (`Contents`), and what
  was moved is what was asked, in order (`Delivered`).

**Only model-checked.** 32 of the 40 properties of passing runs are proved. With TLC stay:

* liveness: `EveryRequestReturns`, `KeysReachInput`, `EveryPacketIsAnswered`;
* what recursive definitions and folds compute, that is induction over data, in modules that
  need `RECURSIVE` or `Bitwise` to be readable: `BlocksMeanTheirInstructions`,
  `BlitIsItsRectangle`, `BlitterDrawsItsPixels`, `RenderedLineByLine`,
  `ReportIsTheGuests`.

## 5. What is not modelled

Whole parts, listed with reasons under `components`: ROM and image loading, command
line, screenshots and traces, benchmarks and probes, the pktport DiagROM, the network
harness, the boards' self-tests and drivers. The CPU and exec are external: exec
appears as the actions that call into the drivers.

Within modelled parts:

* hostblk: UNIT_SELECT and the discovery registers, media change, the boot mounter.
* pktport: the directory tree and file contents, FIB layout, start-up.
* virtio-net: what S2 queries and statistics report; a reader's buffer is large enough, so that
  nothing is cut to `ios2_DataLength`.
* CIA ports and keyboard shift register; the coarse-tick detector; mouse and audio.
* run loops: the forced illegal exception, overlay tracking, tracing, progress,
  screenshots. Replay: the same, unaligned accesses and an exception storm as its end.
* m68k-vp: the opcode bit layout, unsupported opcodes, the panic past `MAX_OPS`. Flags
  that are dead at a block's exit are not compared.
* Mirage: media change and interrupt enable. RTG: VRAM contents, read-only registers.
  Cirrus: palette and attribute controller; what a blit leaves is stated for those that
  do not read a byte they have already overwritten (`Sound`); the high bits of the start
  address and of the height and CR1B's extension bits, whose range the last check of
  `decoded_mode` bounds in any case. Blitter: the blit happens
  at once, as in the code; line mode with USEA and USEC on and USEB off only, as drivers
  use it, and not the other combinations of `blitter.rs:472-491` and `512-522`. Renderer: final bitplane pointers, colour changes inside a
  sprite, more bands than the code keeps.
* Introspection: one cell per field, strings as values, the guest from Exec's order of
  writes (external; its lists are initialised before ExecBase is published).

Places where docs or comments and code differ, met on the way and not the subject of a
run:

| Where | What |
|---|---|
| `docs/hostblk-protocol.md:207`, `core/lib.rs:1580` | INT2 "checked on reads and writes"; only writes check it |
| `m68k/hostblk-rom/hostblk-diagrom.s:1048` | UNIT_SELECT is shared by tasks that select and read in separate instructions |
| `docs/input-protocol.md:285`, `core/input.rs` | one motion in flight; the code coalesces into the newest entry only and may hold several |
| `docs/input-protocol.md:289-292`, `core/input.rs:833` | eviction "costs nothing the guest can observe"; if the motion is the head a driver is reading, the EVENT_ADVANCE that follows pops the key behind it |
| `m68k/pktport-handler/pktport-handler.s:832` | hp_free_lock sends handle 0, so the host keeps each lock |
| `hosted/pktvol.rs:330` and `:1234` | FINDINPUT handles "never writable"; opened with the volume's flag |
| `hosted/pktvol.rs:1048` | PARENT of a first-level object answers as for the root |
| `docs/wedge-detection.md:179`, `core/chipset.rs:743` | ordinary instructions make the frozen-beam detector fire |
| `core/chipset.rs:433-451` | several queued bytes share one RBF |
| `hosted/serial_tcp.rs:94-95` | "no byte is ever dropped on this side of the wire"; a failed write (`:273`) or read drops the client with what it typed and `poll_loop` had not read (`trail.dropped`) |
| `hosted/serial_tcp.rs:115`, `:260` | a requeue may pass the cap; a failed write loses what was drained |
| `hosted/run.rs:284-288` | `reset` is documented for STOP and exceptions, the hook loop calls it for neither |
| `hosted/run.rs:3285` | an exception streak is not reset by instructions between |
| `docs/virtionet.md:90-96`, `core/pci.rs:1928` | the engine runs on enabled queues without DRIVER_OK |
| `hosted/introspect.rs:383`, `:519` | "never panics"; an unchecked address sum |
| `hosted/introspect.rs:384`, `:414` | processes meant too; only NT_TASK is accepted |

## 6. Plan

Modelled and checked: sections 2 and 3; proved: section 4. Worth adding next:

1. Discovery registers and media change of hostblk, a third register access in the time
   base, the tree behind the packet volume.
