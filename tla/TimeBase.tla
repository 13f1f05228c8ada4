------------------------------ MODULE TimeBase ------------------------------
(***************************************************************************)
(* Deferred device time in MachineBus (crates/machine-core/src/lib.rs).    *)
(* `tick` runs after every instruction and normally only adds the clocks   *)
(* to `pending_clocks`; the devices are brought up to date by `flush` when *)
(* a deadline computed in advance is reached or a register is accessed.    *)
(* The interrupt level and the frame count are read without a flush.  A    *)
(* register access that changes the level asks for a boundary, at which    *)
(* the run loop ends its chunk, ticks and hands the CPU the new level.     *)
(***************************************************************************)
EXTENDS TickExact

CONSTANTS
    Instructions,   \* CPU clocks that one call of `tick` may cover
    CiaReads, CiaWrites, IntreqBits,   \* the accesses the guest makes
    Intena,         \* the sources the guest has enabled, master bit included
    MaxAccesses     \* bound on register accesses in a behaviour

ASSUME TimeAssumption == Instructions \subseteq Nat \ {0}
ASSUME AccessAssumption == CiaReads \subseteq ReadAccesses /\ CiaWrites \subseteq WriteAccesses

VARIABLES
    dev,                 \* the devices, as of the last flush
    pending_clocks,      \* clocks not yet applied to them
    next_event_clocks,   \* the deadline, counted from the last flush
    boundary_request,    \* an access changed the level since the last boundary
    int_level,           \* what set_irq last gave the CPU
    access,              \* what the last step did and, for a read, returned
    accesses             \* history: register accesses so far

timeVars == <<dev, pending_clocks, next_event_clocks, boundary_request, int_level, access, accesses>>

(* The highest of the levels 2 (PORTS), 3 (VERTB) and 6 (EXTER) requested. *)
pending_level(d) ==
    LET active == Intena \cap d.intreq
    IN  CASE "EXTER" \in active -> 6
          [] "EXTER" \notin active /\ "VERTB" \in active -> 3
          [] active = {"PORTS"} -> 2
          [] OTHER -> 0

Init ==
    /\ dev = NewDevices
    /\ pending_clocks = 0
    /\ next_event_clocks = next_event(NewDevices)
    /\ boundary_request = FALSE /\ int_level = 0
    /\ access = <<"reset">>
    /\ accesses = 0

(* `take_boundary_request`, and `set_irq` with `pending_irq_level`. *)
AtBoundary == boundary_request' = FALSE /\ int_level' = pending_level(dev')

(***************************************************************************)
(* `tick`, after every retired instruction or, at full speed, chunk; the   *)
(* run loop then takes the request and sets the CPU's level.               *)
(***************************************************************************)
tick(cpu_clocks) ==
    LET pending == pending_clocks + cpu_clocks
    IN  /\ \/ /\ pending < next_event_clocks
              /\ pending_clocks' = pending
              /\ UNCHANGED <<dev, next_event_clocks>>
           \/ /\ pending >= next_event_clocks
              /\ pending_clocks' = 0
              /\ dev' = tick_exact(dev, pending)
              /\ next_event_clocks' = next_event(dev')
        /\ AtBoundary
        /\ access' = <<"tick">>
        /\ UNCHANGED accesses

(***************************************************************************)
(* Register accesses.  CIA and custom registers flush first.               *)
(***************************************************************************)
Access == accesses < MaxAccesses /\ accesses' = accesses + 1 /\ UNCHANGED int_level

(* The compare around every device write; reads of CIA and custom registers
   do without. *)
RequestsBoundary ==
    boundary_request' = (boundary_request \/ pending_level(dev') # pending_level(dev))

Flushed == IF pending_clocks = 0 THEN dev ELSE tick_exact(dev, pending_clocks)

(* The deadline a flush leaves; one with nothing pending leaves it alone. *)
FlushedEvent == IF pending_clocks = 0 THEN next_event_clocks ELSE next_event(Flushed)

(* Faulty: a register is read as of the last flush. *)
read_cia_stale(r) ==
    /\ Access
    /\ UNCHANGED boundary_request
    /\ access' = <<"read", r, CiaValue(dev, r)>>
    /\ dev' = CiaRead(dev, r)
    /\ UNCHANGED <<pending_clocks, next_event_clocks>>

read_cia(r) ==
    /\ Access
    /\ UNCHANGED boundary_request
    /\ pending_clocks' = 0
    /\ access' = <<"read", r, CiaValue(Flushed, r)>>
    /\ dev' = CiaRead(Flushed, r)
    /\ next_event_clocks' = FlushedEvent

write_cia(w) ==
    /\ Access
    /\ pending_clocks' = 0
    /\ access' = <<"write", w>>
    /\ dev' = CiaWrite(Flushed, w)
    /\ next_event_clocks' = next_event(dev')
    /\ RequestsBoundary

read_custom_word ==
    /\ Access
    /\ UNCHANGED boundary_request
    /\ pending_clocks' = 0
    /\ access' = <<"custom", CustomValue(Flushed)>>
    /\ dev' = Flushed
    /\ next_event_clocks' = FlushedEvent

write_custom_word(set, bits) ==
    /\ Access
    /\ pending_clocks' = 0
    /\ access' = <<"intreq", set, bits>>
    /\ dev' = IntreqWrite(Flushed, set, bits)
    /\ next_event_clocks' = FlushedEvent
    /\ RequestsBoundary

(* Board and card windows are written without a flush. *)
write_board(ack) ==
    /\ Access
    /\ access' = <<"board", ack>>
    /\ dev' = BoardWrite(dev, ack)
    /\ UNCHANGED <<pending_clocks, next_event_clocks>>
    /\ RequestsBoundary

write_card(cr11) ==
    /\ Access
    /\ access' = <<"card", cr11>>
    /\ dev' = CardWrite(dev, cr11)
    /\ UNCHANGED <<pending_clocks, next_event_clocks>>
    /\ RequestsBoundary

RegisterAccess ==
    \/ \E r \in CiaReads : read_cia(r)
    \/ \E w \in CiaWrites : write_cia(w)
    \/ read_custom_word
    \/ \E set \in BOOLEAN, bits \in IntreqBits : write_custom_word(set, bits)
    \/ \E ack \in BOOLEAN : write_board(ack)
    \/ \E cr11 \in Cr11Values : write_card(cr11)

Next == (\E n \in Instructions : tick(n)) \/ RegisterAccess

Spec == Init /\ [][Next]_timeVars

(***************************************************************************)
(* Properties.                                                             *)
(***************************************************************************)
(* Where every device really stands: as of now, not of the last flush. *)
Now == tick_exact(dev, pending_clocks)

Eager == INSTANCE EagerTime WITH dev <- Now

(* Deferring `tick` is "exact, not an approximation": at every step the
   devices, with the pending clocks applied in one go, and every value a
   register read returns, are those of the machine that moves its devices
   after every instruction. *)
ImplementsEager == Eager!Spec

(* `pending_irq_level` and `frames` read the chipset without a flush and
   are right to: no interrupt or frame is ever hidden in the pending
   clocks.  And the CPU works at the level the chipset really asks for, or
   a boundary has been requested at which it will learn of the change. *)
IrqLevelIsCurrent ==
    /\ dev.intreq = Now.intreq /\ dev.odd_frame = Now.odd_frame
    /\ boundary_request \/ int_level = pending_level(Now)
=============================================================================
