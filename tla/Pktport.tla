------------------------------ MODULE Pktport ------------------------------
(***************************************************************************)
(* The pktport card (crates/machine-core/src/pktport.rs) as the bus drives *)
(* it, in front of PktVolume: one request slot filled by the doorbell and  *)
(* emptied at tick time.  The guest has one descriptor, at an address it   *)
(* allocated once, so the slot holds that pointer or nothing.              *)
(***************************************************************************)
EXTENDS PktVolume

VARIABLES
    pending,              \* the request slot is taken
    desc,                 \* guest RAM: the request descriptor
    desc_in_ram,          \* its address is aligned and inside chip or fast RAM
    doorbell_overflow,    \* doorbells rung while the slot was taken
    dropped_descriptors,  \* requests whose descriptor could not be read
    int_status,           \* INT_STATUS bit 0
    fresh                 \* history: RES1/RES2 are the current request's own

slotVars == <<pending, desc_in_ram, doorbell_overflow, dropped_descriptors, int_status, fresh>>
cardVars == <<volVars, slotVars, desc>>

Request(action, arg) == [action |-> action, arg |-> arg]
NoRequest == Request("NONE", 0)

CardInit ==
    /\ VolInit
    /\ pending = FALSE
    /\ desc = [request |-> NoRequest, res1 |-> 0, res2 |-> 0, status |-> 0]
    /\ desc_in_ram \in BOOLEAN
    /\ doorbell_overflow = 0
    /\ dropped_descriptors = 0
    /\ int_status = 0
    /\ fresh = FALSE

(* A write to DOORBELL's low byte: `submit`. *)
submit ==
    /\ pending' = TRUE
    /\ doorbell_overflow' = IF pending THEN doorbell_overflow + 1 ELSE doorbell_overflow
    /\ UNCHANGED <<desc_in_ram, dropped_descriptors, int_status, fresh>>

(* Faulty: STATUS is left to the interrupt. *)
write_results_quiet ==
    desc' = [desc EXCEPT !.res1 = answer'.res1, !.res2 = answer'.res2]

(* `tick` with a readable descriptor: execute, results, STATUS last, INT2. *)
write_results ==
    desc' = [desc EXCEPT !.res1 = answer'.res1, !.res2 = answer'.res2, !.status = 1]

tick_executes ==
    /\ pending /\ desc_in_ram
    /\ pending' = FALSE
    /\ execute(desc.request.action, desc.request.arg)
    /\ write_results
    /\ fresh' = TRUE
    /\ int_status' = 1
    /\ UNCHANGED <<desc_in_ram, doorbell_overflow, dropped_descriptors>>

(* `tick` with an unreadable one: counted, and never completed. *)
tick_drops ==
    /\ pending /\ ~desc_in_ram
    /\ pending' = FALSE
    /\ dropped_descriptors' = dropped_descriptors + 1
    /\ UNCHANGED <<volVars, desc, desc_in_ram, doorbell_overflow, int_status, fresh>>

tick == tick_executes \/ tick_drops
=============================================================================
