----------------------------- MODULE EagerTime -----------------------------
(***************************************************************************)
(* What MachineBus::tick promises: the machine in which every retired      *)
(* instruction moves every device at once.  This is the reference the      *)
(* repository's own differential test uses (`tick_eager` in                *)
(* crates/machine-core/src/lib.rs): same accesses, no deferral.            *)
(***************************************************************************)
EXTENDS TickExact

CONSTANTS
    Instructions,   \* CPU clocks that one call of `tick` may cover
    CiaReads, CiaWrites, IntreqBits   \* the accesses the guest makes

VARIABLES
    dev,      \* the devices, as TickExact has them
    access    \* what the last step did and, for a read, what it returned

Init == dev = NewDevices /\ access = <<"reset">>

Tick == access' = <<"tick">> /\ \E n \in Instructions : dev' = tick_exact(dev, n)

ReadCia ==
    \E r \in CiaReads : access' = <<"read", r, CiaValue(dev, r)>> /\ dev' = CiaRead(dev, r)
WriteCia == \E w \in CiaWrites : access' = <<"write", w>> /\ dev' = CiaWrite(dev, w)
ReadCustom == access' = <<"custom", CustomValue(dev)>> /\ dev' = dev
WriteIntreq ==
    \E set \in BOOLEAN, bits \in IntreqBits :
        access' = <<"intreq", set, bits>> /\ dev' = IntreqWrite(dev, set, bits)
WriteBoard == \E ack \in BOOLEAN : access' = <<"board", ack>> /\ dev' = BoardWrite(dev, ack)
WriteCard == \E cr11 \in Cr11Values : access' = <<"card", cr11>> /\ dev' = CardWrite(dev, cr11)

Next == Tick \/ ReadCia \/ WriteCia \/ ReadCustom \/ WriteIntreq \/ WriteBoard \/ WriteCard

Spec == Init /\ [][Next]_<<dev, access>>
=============================================================================
