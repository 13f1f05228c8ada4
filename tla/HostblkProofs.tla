--------------------------- MODULE HostblkProofs ---------------------------
(***************************************************************************)
(* Theorems about the hostblk card under the most general guest, for every *)
(* depth of the rings, every set of units and every descriptor; and about  *)
(* hostblk.device on that card, for every number of clients and every set  *)
(* of requests.                                                            *)
(***************************************************************************)
EXTENDS HostblkDevice, SequenceTheorems, FiniteSetTheorems, TLAPS

-----------------------------------------------------------------------------
(***************************************************************************)
(* The card.                                                               *)
(***************************************************************************)
(* Whole sectors of a byte count: a natural number. *)
LEMMA DivNat ==
    ASSUME NEW n \in Nat PROVE n \div SectorBytes \in Nat
BY TransferAssumption, SMT

(* A wrapping counter stays a counter. *)
LEMMA ModCounter ==
    ASSUME NEW n \in Nat PROVE n % CounterLimit \in Counter
BY HostblkAssumption DEF Counter

(***************************************************************************)
(* Whatever the descriptor says, the engine never moves a sector outside   *)
(* the unit or a cell outside guest RAM: the bounds that `transfer` checks *)
(* before its loop cover every sector the loop touches.                    *)
(***************************************************************************)
LEMMA OutcomeBounds ==
    ASSUME NEW ptr \in Ptrs, NEW d \in DescriptorType, NEW o \in execute(ptr, d)
    PROVE  /\ o \in OutcomeType
           /\ start_lba(d) \in Nat
           /\ o.moved > 0 => /\ d.unit \in Attached
                             /\ start_lba(d) + o.moved <= SectorCount[d.unit]
                             /\ d.buffer + o.moved <= RamCells
           /\ o.moved > 0 /\ d.command = "WRITE" => ~WriteProtect[d.unit]
<1> DEFINE n == sector_count(d)
           lba == start_lba(d)
<1>1. n \in Nat /\ lba \in Nat
  BY DivNat DEF sector_count, start_lba, DescriptorType
<1>2. d.buffer \in Nat /\ d.unit \in UnitIds /\ d.command \in Commands
  BY DEF DescriptorType
<1>3. CASE o \in transfer(d) /\ d.unit \in Attached
  <2> HIDE DEF n, lba
  <2>1. \/ \E e \in Errors : o = [error |-> e, moved |-> 0]
        \/ /\ ~(d.command = "WRITE" /\ WriteProtect[d.unit])
           /\ lba + n <= SectorCount[d.unit]
           /\ d.buffer + n <= RamCells
           /\ \E e \in Errors, k \in 0 .. n : o = [error |-> e, moved |-> k]
    <3>1. SectorCount[d.unit] \in Nat /\ RamCells \in Nat
      BY <1>3, TransferAssumption
    <3>2. n = sector_count(d) /\ lba = start_lba(d)
      BY DEF n, lba
    <3> QED
      BY <1>1, <1>2, <1>3, <3>1, <3>2 DEF transfer, NoTransfer, Errors
  <2>2. SectorCount[d.unit] \in Nat
    BY <1>3, TransferAssumption
  <2>3. lba = start_lba(d)
    BY DEF lba
  <2> QED
    BY <1>1, <1>2, <1>3, <2>1, <2>2, <2>3, TransferAssumption DEF OutcomeType
<1>4. CASE ~(o \in transfer(d) /\ d.unit \in Attached)
  <2>1. \E e \in Errors : o = [error |-> e, moved |-> 0]
    BY <1>2, <1>4 DEF execute, NoTransfer, Errors, Commands
  <2> QED
    BY <1>1, <2>1 DEF OutcomeType
<1> QED
  BY <1>3, <1>4

-----------------------------------------------------------------------------
(* The transfer itself keeps RAM an array of values and every disk its own size. *)
LEMMA TransferTypes ==
    ASSUME NEW ptr \in Ptrs, NEW d \in DescriptorType, NEW o \in execute(ptr, d),
           NEW ram \in MemType, NEW store \in DiskType
    PROVE  /\ MemAfter(d, o.moved, ram, store) \in MemType
           /\ DiskAfter(d, o.moved, ram, store) \in DiskType
<1> DEFINE k == o.moved
           lba == start_lba(d)
<1>1. /\ k \in Nat /\ lba \in Nat
      /\ k > 0 => /\ d.unit \in Attached
                  /\ lba + k <= SectorCount[d.unit] /\ d.buffer + k <= RamCells
  BY OutcomeBounds DEF OutcomeType
<1>2. d.buffer \in Nat /\ RamCells \in Nat /\ SectorCount \in [Attached -> Nat]
  BY TransferAssumption DEF DescriptorType
<1>3. ram \in [Cells -> Values]
  BY DEF MemType
<1>4. \A u \in Attached : store[u] \in [Sectors(u) -> Values]
  BY DEF DiskType
<1> HIDE DEF k, lba
<1>5. ASSUME NEW c \in Cells, c \in d.buffer .. d.buffer + k - 1
      PROVE  store[d.unit][lba + (c - d.buffer)] \in Values
  <2>1. d.unit \in Attached /\ lba + (c - d.buffer) \in Sectors(d.unit)
    BY <1>1, <1>2, <1>5 DEF Cells, Sectors
  <2> QED
    BY <2>1, <1>4
<1>6. ASSUME NEW u \in Attached, NEW s \in Sectors(u), s \in lba .. lba + k - 1
      PROVE  ram[d.buffer + (s - lba)] \in Values
  <2>1. d.buffer + (s - lba) \in Cells
    BY <1>1, <1>2, <1>6 DEF Cells, Sectors
  <2> QED
    BY <2>1, <1>3
<1>7. MemAfter(d, k, ram, store) \in [Cells -> Values]
  BY <1>3, <1>5 DEF MemAfter, lba
<1>8. \A u \in Attached : DiskAfter(d, k, ram, store)[u] \in [Sectors(u) -> Values]
  BY <1>4, <1>6 DEF DiskAfter, lba
<1>9. DiskAfter(d, k, ram, store)
        \in [Attached -> UNION {[Sectors(u) -> Values] : u \in Attached}]
  <2>1. DiskAfter(d, k, ram, store) = [u \in Attached |-> DiskAfter(d, k, ram, store)[u]]
    BY DEF DiskAfter
  <2>2. \A u \in Attached : DiskAfter(d, k, ram, store)[u]
                              \in UNION {[Sectors(v) -> Values] : v \in Attached}
    BY <1>8, Zenon
  <2> HIDE DEF k
  <2> QED
    BY <2>1, <2>2, Zenon
<1> QED
  BY <1>7, <1>8, <1>9 DEF MemType, DiskType, k

(***************************************************************************)
(* Theorem: the rings never exceed their depth, and no descriptor, however *)
(* malformed, makes the engine touch a cell or a sector that is not there. *)
(***************************************************************************)
THEOREM CardTypes == Spec => []TypeOK
<1>1. Init => TypeOK
  <2> SUFFICES ASSUME Init PROVE TypeOK
    OBVIOUS
  <2>1. 0 \in Counter
    BY HostblkAssumption DEF Counter
  <2>2. ports \in BOOLEAN /\ int_enable \in BOOLEAN
    BY Zenon DEF Init, CardInit
  <2>3. <<>> \in Seq(Ptrs) /\ <<>> \in Seq(Completion) /\ Len(<<>>) = 0
    OBVIOUS
  <2> QED
    BY <2>1, <2>2, <2>3, HostblkAssumption DEF Init, CardInit, TypeOK
<1>2. TypeOK /\ [Next]_vars => TypeOK'
  <2> SUFFICES ASSUME TypeOK, [Next]_vars PROVE TypeOK'
    OBVIOUS
  <2> USE TransferAssumption, HostblkAssumption
  <2>1. ASSUME NEW ptr \in Ptrs, GuestDoorbell(ptr) PROVE TypeOK'
    <3>1. submit_queue' \in Seq(Ptrs) /\ Len(submit_queue') <= SubmitCapacity
      <4>1. \/ Len(submit_queue) < SubmitCapacity /\ submit_queue' = Append(submit_queue, ptr)
            \/ submit_queue' = submit_queue
        BY <2>1 DEF GuestDoorbell, Doorbell
      <4>2. submit_queue \in Seq(Ptrs) /\ Len(submit_queue) <= SubmitCapacity
        BY DEF TypeOK
      <4>3. /\ Append(submit_queue, ptr) \in Seq(Ptrs)
            /\ Len(Append(submit_queue, ptr)) = Len(submit_queue) + 1
            /\ Len(submit_queue) \in Nat /\ SubmitCapacity \in Nat
        BY <4>2
      <4> QED
        BY <4>1, <4>2, <4>3
    <3>2. submit_overflow' \in Counter
      <4>1. submit_overflow + 1 \in Nat
        BY DEF TypeOK, Counter
      <4> QED
        BY <2>1, <4>1, ModCounter DEF TypeOK, GuestDoorbell, Doorbell
    <3>3. ports' \in BOOLEAN
      BY <2>1 DEF TypeOK, GuestDoorbell, Doorbell, RaisePorts
    <3>4. accepted' \in Seq(Ptrs) /\ rung' \in Nat
      BY <2>1 DEF TypeOK, GuestDoorbell
    <3> QED
      BY <2>1, <3>1, <3>2, <3>3, <3>4 DEF TypeOK, GuestDoorbell, Doorbell, data
  <2>2. ASSUME NEW longword \in BOOLEAN, GuestAdvance(longword) PROVE TypeOK'
    <3>1. completion_queue' \in Seq(Completion) /\ Len(completion_queue') <= CompletionCapacity
      BY <2>2 DEF TypeOK, GuestAdvance, Advance
    <3>2. drained' \in Seq(Ptrs)
      <4>1. completion_queue # <<>> => Head(completion_queue) \in Completion
        BY DEF TypeOK
      <4> QED
        BY <2>2, <4>1 DEF TypeOK, GuestAdvance, Completion
    <3>3. ports' \in BOOLEAN
      BY <2>2 DEF TypeOK, GuestAdvance, Advance, RaisePorts
    <3> QED
      BY <2>2, <3>1, <3>2, <3>3 DEF TypeOK, GuestAdvance, Advance, data, Counter
  <2>3. ASSUME NEW ptr \in Readable, NEW d \in Descriptors, GuestDescriptor(ptr, d)
        PROVE  TypeOK'
    BY <2>3 DEF TypeOK, GuestDescriptor, rings, history, Counter
  <2>4. ASSUME NEW v \in BOOLEAN, NEW longword \in BOOLEAN,
               SetIntEnable(v, longword), UNCHANGED <<data, history>>
        PROVE  TypeOK'
    BY <2>4 DEF TypeOK, SetIntEnable, RaisePorts, rings, data, history, Counter
  <2>5. ASSUME Execute, UNCHANGED history PROVE TypeOK'
    <3> DEFINE ptr == Head(submit_queue)
               d == IF ptr \in Readable THEN desc[ptr] ELSE CHOOSE x \in Descriptors : TRUE
    <3>1. ptr \in Ptrs /\ submit_queue' \in Seq(Ptrs) /\ Len(submit_queue') <= SubmitCapacity
      BY <2>5 DEF TypeOK, Execute, CanExecute
    <3>2. d \in DescriptorType
      BY DEF TypeOK
    <3> HIDE DEF d
    <3>3. PICK o \in execute(ptr, d) :
            /\ completion_queue' = Push(completion_queue,
                   [ptr |-> ptr, error |-> o.error, actual |-> actual(o)])
            /\ mem' = MemAfter(d, o.moved, mem, disk)
            /\ disk' = DiskAfter(d, o.moved, mem, disk)
      BY <2>5 DEF Execute, d
    <3> HIDE DEF ptr
    <3>4. o \in OutcomeType
      BY <3>1, <3>2, OutcomeBounds
    <3>5. actual(o) \in Nat
      BY <3>4 DEF actual, OutcomeType
    <3>6. mem' \in MemType /\ disk' \in DiskType
      BY <3>1, <3>2, <3>3, TransferTypes DEF TypeOK
    <3>7. [ptr |-> ptr, error |-> o.error, actual |-> actual(o)] \in Completion
      BY <3>1, <3>4, <3>5 DEF Completion, OutcomeType
    <3>8. completion_queue' \in Seq(Completion) /\ Len(completion_queue') <= CompletionCapacity
      BY <2>5, <3>3, <3>7 DEF TypeOK, Push
    <3>9. ports' \in BOOLEAN
      BY <2>5 DEF TypeOK, Execute, RaisePorts
    <3> QED
      BY <2>5, <3>1, <3>6, <3>8, <3>9 DEF TypeOK, Execute, history, Counter
  <2>6. ASSUME Poll, UNCHANGED history PROVE TypeOK'
    BY <2>6 DEF TypeOK, Poll, RaisePorts, rings, data, history, Counter
  <2>7. ASSUME ClearPorts, UNCHANGED history PROVE TypeOK'
    BY <2>7 DEF TypeOK, ClearPorts, rings, data, history, Counter
  <2>8. CASE UNCHANGED vars
    BY <2>8 DEF TypeOK, vars, rings, data, history, Counter
  <2> QED
    BY <2>1, <2>2, <2>3, <2>4, <2>5, <2>6, <2>7, <2>8 DEF Next, Tick
<1> QED
  BY <1>1, <1>2, PTL DEF Spec

-----------------------------------------------------------------------------
(* The overflow counter and the number of refused doorbells wrap together. *)
LEMMA ModSucc ==
    ASSUME NEW a \in Nat, NEW b \in Counter, b = a % CounterLimit
    PROVE  (b + 1) % CounterLimit = (a + 1) % CounterLimit
<1> DEFINE q == a \div CounterLimit
<1>1. CounterLimit \in Nat \ {0}
  BY HostblkAssumption
<1>2. a = CounterLimit * q + b /\ q \in Nat /\ b \in 0 .. CounterLimit - 1
  BY <1>1 DEF Counter
<1>3. ASSUME NEW k \in Nat, NEW r \in 0 .. CounterLimit - 1
      PROVE  (CounterLimit * k + r) % CounterLimit = r
  BY <1>1
<1> HIDE DEF q
<1>4. CASE b + 1 < CounterLimit
  <2>1. b + 1 \in 0 .. CounterLimit - 1 /\ a + 1 = CounterLimit * q + (b + 1)
    BY <1>1, <1>2, <1>4
  <2>2. (b + 1) % CounterLimit = b + 1
    BY <1>1, <2>1
  <2> QED
    BY <1>2, <1>3, <2>1, <2>2
<1>5. CASE b + 1 = CounterLimit
  <2>1. q + 1 \in Nat /\ 0 \in 0 .. CounterLimit - 1 /\ a + 1 = CounterLimit * (q + 1) + 0
    BY <1>1, <1>2, <1>5
  <2>2. (a + 1) % CounterLimit = 0
    BY <1>3, <2>1
  <2>3. CounterLimit % CounterLimit = 0
    BY <1>1
  <2> QED
    BY <1>5, <2>2, <2>3
<1> QED
  BY <1>1, <1>2, <1>4, <1>5

(***************************************************************************)
(* The rings hand every accepted doorbell through exactly once and in      *)
(* order, for every pair of depths and against every guest.                *)
(***************************************************************************)
THEOREM CardConserves == Spec => []ExactlyOnceInOrder
<1> DEFINE Order ==
       /\ Len(accepted) = Len(drained) + Len(completion_queue) + Len(submit_queue)
       /\ \A i \in 1 .. Len(drained) : drained[i] = accepted[i]
       /\ \A i \in 1 .. Len(completion_queue) :
             completion_queue[i].ptr = accepted[Len(drained) + i]
       /\ \A i \in 1 .. Len(submit_queue) :
             submit_queue[i] = accepted[Len(drained) + Len(completion_queue) + i]
     Count == /\ submit_overflow = (rung - Len(accepted)) % CounterLimit
              /\ rung - Len(accepted) \in Nat
<1>1. Init => Order /\ Count
  <2> SUFFICES ASSUME Init PROVE Order /\ Count
    OBVIOUS
  <2>1. 0 % CounterLimit = 0
    BY HostblkAssumption
  <2>2. Len(<<>>) = 0
    OBVIOUS
  <2> QED
    BY <2>1, <2>2 DEF Init, CardInit
<1>2. TypeOK /\ Order /\ Count /\ [Next]_vars => (Order /\ Count)'
  <2> SUFFICES ASSUME TypeOK, Order, Count, [Next]_vars PROVE (Order /\ Count)'
    OBVIOUS
  <2>0. /\ submit_queue \in Seq(Ptrs) /\ completion_queue \in Seq(Completion)
        /\ accepted \in Seq(Ptrs) /\ drained \in Seq(Ptrs) /\ rung \in Nat
        /\ submit_overflow \in Counter
        /\ Len(submit_queue) \in Nat /\ Len(completion_queue) \in Nat
        /\ Len(accepted) \in Nat /\ Len(drained) \in Nat
    BY DEF TypeOK
  <2>a. (UNCHANGED <<rings, history>>) => (Order /\ Count)'
    BY DEF rings, history
  <2>b. rung - Len(accepted) \in Nat /\ submit_overflow = (rung - Len(accepted)) % CounterLimit
    OBVIOUS
  <2>c. /\ Len(accepted) = Len(drained) + Len(completion_queue) + Len(submit_queue)
        /\ \A i \in 1 .. Len(drained) : drained[i] = accepted[i]
    OBVIOUS
  <2>d. \A i \in 1 .. Len(completion_queue) : completion_queue[i].ptr = accepted[Len(drained) + i]
    OBVIOUS
  <2>e. \A i \in 1 .. Len(submit_queue) :
          submit_queue[i] = accepted[Len(drained) + Len(completion_queue) + i]
    OBVIOUS
  <2> HIDE DEF Order, Count
  <2>1. ASSUME NEW ptr \in Ptrs, GuestDoorbell(ptr) PROVE (Order /\ Count)'
    <3>1. rung' = rung + 1 /\ UNCHANGED <<drained, completion_queue>>
      BY <2>1 DEF GuestDoorbell, Doorbell
    <3>2. CASE Len(submit_queue) < SubmitCapacity
      <4>1. submit_queue' = Append(submit_queue, ptr) /\ UNCHANGED submit_overflow
        BY <2>1, <3>2 DEF GuestDoorbell, Doorbell
      <4>2. submit_queue' # submit_queue
        BY <2>0, <4>1
      <4>3. accepted' = Append(accepted, ptr)
        BY <2>1, <4>2 DEF GuestDoorbell
      <4>4. Order'
        <5>1. /\ Len(accepted') = Len(accepted) + 1 /\ accepted'[Len(accepted) + 1] = ptr
              /\ \A i \in 1 .. Len(accepted) : accepted'[i] = accepted[i]
          BY <2>0, <4>3
        <5>2. /\ Len(submit_queue') = Len(submit_queue) + 1
              /\ submit_queue'[Len(submit_queue) + 1] = ptr
              /\ \A i \in 1 .. Len(submit_queue) : submit_queue'[i] = submit_queue[i]
          BY <2>0, <4>1
        <5>3. Len(accepted') = Len(drained') + Len(completion_queue') + Len(submit_queue')
          BY <2>0, <2>c, <3>1, <5>1, <5>2
        <5>4. \A i \in 1 .. Len(drained') : drained'[i] = accepted'[i]
          <6> SUFFICES ASSUME NEW i \in 1 .. Len(drained) PROVE drained[i] = accepted'[i]
            BY <3>1
          <6>1. i \in 1 .. Len(accepted) /\ drained[i] = accepted[i]
            BY <2>0, <2>c
          <6> QED
            BY <5>1, <6>1
        <5>5. \A i \in 1 .. Len(completion_queue') :
                completion_queue'[i].ptr = accepted'[Len(drained') + i]
          <6> SUFFICES ASSUME NEW i \in 1 .. Len(completion_queue)
                       PROVE  completion_queue[i].ptr = accepted'[Len(drained) + i]
            BY <3>1
          <6>1. Len(drained) + i \in 1 .. Len(accepted)
            BY <2>0, <2>c
          <6> QED
            BY <2>d, <5>1, <6>1
        <5>6. \A i \in 1 .. Len(submit_queue') :
                submit_queue'[i] = accepted'[Len(drained') + Len(completion_queue') + i]
          <6> SUFFICES ASSUME NEW i \in 1 .. Len(submit_queue) + 1
                       PROVE  submit_queue'[i]
                                = accepted'[Len(drained) + Len(completion_queue) + i]
            BY <3>1, <5>2
          <6>1. CASE i = Len(submit_queue) + 1
            <7>1. Len(drained) + Len(completion_queue) + i = Len(accepted) + 1
              BY <2>0, <2>c, <6>1
            <7> QED
              BY <5>1, <5>2, <6>1, <7>1
          <6>2. CASE i \in 1 .. Len(submit_queue)
            <7>1. Len(drained) + Len(completion_queue) + i \in 1 .. Len(accepted)
              BY <2>0, <2>c, <6>2
            <7> QED
              BY <2>e, <5>1, <5>2, <6>2, <7>1
          <6> QED
            BY <2>0, <6>1, <6>2
        <5> QED
          BY <5>3, <5>4, <5>5, <5>6 DEF Order
      <4>5. rung' - Len(accepted') = rung - Len(accepted)
        BY <2>0, <3>1, <4>3
      <4> QED
        BY <2>b, <4>1, <4>4, <4>5 DEF Count
    <3>3. CASE ~(Len(submit_queue) < SubmitCapacity)
      <4>1. submit_queue' = submit_queue /\ submit_overflow' = (submit_overflow + 1) % CounterLimit
        BY <2>1, <3>3 DEF GuestDoorbell, Doorbell
      <4>2. accepted' = accepted
        BY <2>1, <4>1 DEF GuestDoorbell
      <4>3. Order'
        BY <3>1, <4>1, <4>2 DEF Order
      <4>4. rung' - Len(accepted') = (rung - Len(accepted)) + 1
        BY <2>0, <3>1, <4>2
      <4>5. (submit_overflow + 1) % CounterLimit = ((rung - Len(accepted)) + 1) % CounterLimit
        BY <2>0, <2>b, ModSucc
      <4>6. (rung - Len(accepted)) + 1 \in Nat
        BY <2>b
      <4> QED
        BY <4>1, <4>3, <4>4, <4>5, <4>6 DEF Count
    <3> QED
      BY <3>2, <3>3
  <2>2. ASSUME NEW longword \in BOOLEAN, GuestAdvance(longword) PROVE (Order /\ Count)'
    <3>1. UNCHANGED <<submit_queue, submit_overflow, accepted, rung>>
      BY <2>2 DEF GuestAdvance, Advance
    <3>2. CASE completion_queue = <<>>
      BY <2>2, <2>a, <3>1, <3>2 DEF GuestAdvance, Advance, rings, history
    <3>3. CASE completion_queue # <<>>
      <4>1. /\ completion_queue' = Tail(completion_queue)
            /\ drained' = Append(drained, Head(completion_queue).ptr)
        BY <2>2, <3>3 DEF GuestAdvance, Advance
      <4>2. /\ Len(completion_queue) > 0
            /\ Len(Tail(completion_queue)) = Len(completion_queue) - 1
            /\ \A i \in 1 .. Len(completion_queue) - 1 :
                  Tail(completion_queue)[i] = completion_queue[i + 1]
            /\ Head(completion_queue) = completion_queue[1]
        BY <2>0, <3>3
      <4>3. Head(completion_queue).ptr = accepted[Len(drained) + 1]
        BY <2>0, <4>2 DEF Order
      <4>4. Head(completion_queue).ptr \in Ptrs
        <5>1. Head(completion_queue) \in Completion
          BY <2>0, <3>3
        <5> QED
          BY <5>1 DEF Completion
      <4>5. /\ Len(drained') = Len(drained) + 1
            /\ \A i \in 1 .. Len(drained) : drained'[i] = drained[i]
            /\ drained'[Len(drained) + 1] = accepted[Len(drained) + 1]
        BY <2>0, <4>1, <4>3, <4>4
      <4>6. Order'
        <5>0. Len(completion_queue') = Len(completion_queue) - 1
          BY <4>1, <4>2, Zenon
        <5>1. Len(accepted') = Len(drained') + Len(completion_queue') + Len(submit_queue')
          <6>1. Len(drained') = Len(drained) + 1
            BY <4>5, Zenon
          <6>2. Len(accepted') = Len(drained) + Len(completion_queue) + Len(submit_queue')
            BY <2>c, <3>1, Zenon
          <6>3. Len(submit_queue') \in Nat
            BY <2>0, <3>1, Zenon
          <6> QED
            BY <2>0, <5>0, <6>1, <6>2, <6>3
        <5>2. \A i \in 1 .. Len(drained') : drained'[i] = accepted'[i]
          BY <2>0, <2>c, <3>1, <4>5
        <5>3. \A i \in 1 .. Len(completion_queue') :
                completion_queue'[i].ptr = accepted'[Len(drained') + i]
          <6> SUFFICES ASSUME NEW i \in 1 .. Len(completion_queue) - 1
                       PROVE  completion_queue'[i].ptr = accepted[(Len(drained) + 1) + i]
            BY <3>1, <4>1, <4>2, <4>5
          <6>1. /\ i + 1 \in 1 .. Len(completion_queue)
                /\ Len(drained) + (i + 1) = (Len(drained) + 1) + i
            BY <2>0
          <6> QED
            BY <2>d, <4>1, <4>2, <6>1
        <5>4. Len(drained') + Len(completion_queue') = Len(drained) + Len(completion_queue)
          <6>1. Len(drained') = Len(drained) + 1
            BY <4>5, Zenon
          <6> QED
            BY <2>0, <5>0, <6>1
        <5>5. \A i \in 1 .. Len(submit_queue') :
                submit_queue'[i] = accepted'[Len(drained') + Len(completion_queue') + i]
          BY <2>e, <3>1, <5>4
        <5> QED
          BY <5>1, <5>2, <5>3, <5>5 DEF Order
      <4> QED
        BY <3>1, <4>6 DEF Count
    <3> QED
      BY <3>2, <3>3
  <2>3. ASSUME Execute, UNCHANGED history PROVE (Order /\ Count)'
    <3>1. PICK e : /\ e.ptr = Head(submit_queue)
                   /\ completion_queue' = Append(completion_queue, e)
      BY <2>3 DEF Execute, CanExecute, Push
    <3>2. /\ submit_queue' = Tail(submit_queue)
          /\ UNCHANGED <<accepted, drained, rung, submit_overflow>>
      BY <2>3 DEF Execute, history
    <3>3. /\ Len(submit_queue) > 0
          /\ Len(Tail(submit_queue)) = Len(submit_queue) - 1
          /\ \A i \in 1 .. Len(submit_queue) - 1 : Tail(submit_queue)[i] = submit_queue[i + 1]
          /\ Head(submit_queue) = submit_queue[1]
      BY <2>0, <2>3 DEF Execute, CanExecute
    <3>4. e.ptr = accepted[Len(drained) + Len(completion_queue) + 1]
      BY <2>0, <3>1, <3>3 DEF Order
    <3>5. /\ Len(completion_queue') = Len(completion_queue) + 1
          /\ \A i \in 1 .. Len(completion_queue) : completion_queue'[i] = completion_queue[i]
          /\ completion_queue'[Len(completion_queue) + 1] = e
      BY <2>0, <3>1
    <3>6. Order'
      <4>1. Len(accepted') = Len(drained') + Len(completion_queue') + Len(submit_queue')
        <5>1. Len(submit_queue') = Len(submit_queue) - 1
          BY <3>2, <3>3, Zenon
        <5>2. Len(completion_queue') = Len(completion_queue) + 1
          BY <3>5, Zenon
        <5>3. Len(accepted') = Len(drained') + Len(completion_queue) + Len(submit_queue)
          BY <2>c, <3>2, Zenon
        <5>4. Len(drained') \in Nat
          BY <2>0, <3>2, Zenon
        <5> QED
          BY <2>0, <5>1, <5>2, <5>3, <5>4
      <4>2. \A i \in 1 .. Len(drained') : drained'[i] = accepted'[i]
        BY <2>c, <3>2
      <4>3. \A i \in 1 .. Len(completion_queue') :
              completion_queue'[i].ptr = accepted'[Len(drained') + i]
        <5> SUFFICES ASSUME NEW i \in 1 .. Len(completion_queue) + 1
                     PROVE  completion_queue'[i].ptr = accepted[Len(drained) + i]
          BY <3>2, <3>5
        <5>1. CASE i = Len(completion_queue) + 1
          <6>1. Len(drained) + i = Len(drained) + Len(completion_queue) + 1
            BY <2>0, <5>1
          <6> QED
            BY <3>4, <3>5, <5>1, <6>1
        <5>2. CASE i \in 1 .. Len(completion_queue)
          BY <2>d, <3>5, <5>2
        <5> QED
          BY <2>0, <5>1, <5>2
      <4>4. \A i \in 1 .. Len(submit_queue') :
              submit_queue'[i] = accepted'[Len(drained') + Len(completion_queue') + i]
        <5> SUFFICES ASSUME NEW i \in 1 .. Len(submit_queue) - 1
                     PROVE  submit_queue'[i]
                              = accepted[Len(drained) + (Len(completion_queue) + 1) + i]
          BY <3>2, <3>3, <3>5
        <5>1. /\ i + 1 \in 1 .. Len(submit_queue)
              /\ Len(drained) + Len(completion_queue) + (i + 1)
                   = Len(drained) + (Len(completion_queue) + 1) + i
          BY <2>0
        <5> QED
          BY <2>e, <3>2, <3>3, <5>1
      <4> QED
        BY <4>1, <4>2, <4>3, <4>4 DEF Order
    <3> QED
      BY <3>2, <3>6 DEF Count
  <2>4. CASE \/ \E ptr \in Readable, d \in Descriptors : GuestDescriptor(ptr, d)
             \/ \E v, longword \in BOOLEAN : SetIntEnable(v, longword) /\ UNCHANGED <<data, history>>
             \/ Poll /\ UNCHANGED history
             \/ ClearPorts /\ UNCHANGED history
             \/ UNCHANGED vars
    <3>1. UNCHANGED <<rings, history>>
      BY <2>4 DEF GuestDescriptor, SetIntEnable, Poll, ClearPorts, vars
    <3> QED
      BY <2>a, <3>1
  <2> QED
    BY <2>1, <2>2, <2>3, <2>4 DEF Next, Tick
<1>3. Order /\ Count => ExactlyOnceInOrder
  BY DEF ExactlyOnceInOrder
<1> QED
  BY <1>1, <1>2, <1>3, CardTypes, PTL DEF Spec
-----------------------------------------------------------------------------
(* Whole sectors survive the trip through a byte count. *)
LEMMA DivMul ==
    ASSUME NEW k \in Nat PROVE (k * SectorBytes) \div SectorBytes = k
BY TransferAssumption

(* What n sectors of d leave behind, cell by cell and sector by sector. *)
LEMMA LandedCells ==
    ASSUME NEW d \in DescriptorType, NEW n \in Nat, NEW c \in Cells,
           NEW ram, NEW store
    PROVE  MemAfter(d, n, ram, store)[c] =
             IF d.command = "READ" /\ c - d.buffer \in 0 .. n - 1
             THEN store[d.unit][start_lba(d) + c - d.buffer] ELSE ram[c]
<1>1. d.buffer \in Nat /\ c \in Nat /\ start_lba(d) \in Nat
  BY TransferAssumption, DivNat DEF DescriptorType, Cells, start_lba
<1>2. start_lba(d) + (c - d.buffer) = start_lba(d) + c - d.buffer
  BY <1>1
<1>3. c \in d.buffer .. d.buffer + n - 1 <=> c - d.buffer \in 0 .. n - 1
  BY <1>1
<1> QED
  BY <1>2, <1>3, Zenon DEF MemAfter

LEMMA LandedSectors ==
    ASSUME NEW d \in DescriptorType, NEW n \in Nat,
           NEW u \in Attached, NEW s \in Sectors(u), NEW ram, NEW store
    PROVE  DiskAfter(d, n, ram, store)[u][s] =
             IF d.command = "WRITE" /\ d.unit = u /\ s - start_lba(d) \in 0 .. n - 1
             THEN ram[d.buffer + s - start_lba(d)] ELSE store[u][s]
<1>1. d.buffer \in Nat /\ s \in Nat /\ start_lba(d) \in Nat
  BY TransferAssumption, DivNat DEF DescriptorType, Sectors, start_lba
<1>2. d.buffer + (s - start_lba(d)) = d.buffer + s - start_lba(d)
  BY <1>1
<1>3. s \in start_lba(d) .. start_lba(d) + n - 1 <=> s - start_lba(d) \in 0 .. n - 1
  BY <1>1
<1>4. DiskAfter(d, n, ram, store)[u][s] =
        IF d.command = "WRITE" /\ u = d.unit /\ s \in start_lba(d) .. start_lba(d) + n - 1
        THEN ram[d.buffer + (s - start_lba(d))] ELSE store[u][s]
  BY Zenon DEF DiskAfter
<1> QED
  BY <1>2, <1>3, <1>4, Zenon

(* A request that moved nothing leaves RAM and the disks as they were. *)
LEMMA NothingMoved ==
    ASSUME NEW d \in DescriptorType, NEW ram \in MemType, NEW store \in DiskType
    PROVE  MemAfter(d, 0, ram, store) = ram /\ DiskAfter(d, 0, ram, store) = store
<1>1. d.buffer \in Nat /\ start_lba(d) \in Nat
  BY DivNat DEF DescriptorType, start_lba
<1>2. d.buffer .. d.buffer + 0 - 1 = {} /\ start_lba(d) .. start_lba(d) + 0 - 1 = {}
  BY <1>1
<1>3. MemAfter(d, 0, ram, store) = [c \in Cells |-> ram[c]]
  BY <1>2, Zenon DEF MemAfter
<1>4. DiskAfter(d, 0, ram, store) = [u \in Attached |-> [s \in Sectors(u) |-> store[u][s]]]
  BY <1>2, Zenon DEF DiskAfter
<1>5. ram = [c \in Cells |-> ram[c]]
  BY DEF MemType
<1>6. \A u \in Attached : store[u] = [s \in Sectors(u) |-> store[u][s]]
  BY DEF DiskType
<1>7. store = [u \in Attached |-> store[u]]
  BY DEF DiskType
<1> QED
  BY <1>3, <1>4, <1>5, <1>6, <1>7

(***************************************************************************)
(* What a completion reports is what happened, for every descriptor, every *)
(* unit and every point at which the device can fail: RAM and the disks    *)
(* change only together with a completion, exactly where its `actual`      *)
(* says, and never on a write-protected unit.                              *)
(***************************************************************************)
THEOREM CardResidue == Spec => ResidueIsHonest
<1>1. TypeOK /\ [Next]_vars => [ResidueIsHonestStep]_vars
  <2> SUFFICES ASSUME TypeOK, Next PROVE ResidueIsHonestStep
    OBVIOUS
  <2>0. /\ submit_queue \in Seq(Ptrs) /\ completion_queue \in Seq(Completion)
        /\ mem \in MemType /\ disk \in DiskType /\ desc \in [Readable -> Descriptors]
        /\ Len(completion_queue) \in Nat
    BY DEF TypeOK
  <2>a. UNCHANGED <<mem, disk>> /\ ~PostsCompletion => ResidueIsHonestStep
    BY DEF ResidueIsHonestStep
  <2>1. CASE \/ \E ptr \in Ptrs : GuestDoorbell(ptr)
             \/ \E ptr \in Readable, d \in Descriptors : GuestDescriptor(ptr, d)
             \/ \E v, longword \in BOOLEAN : SetIntEnable(v, longword) /\ UNCHANGED <<data, history>>
             \/ Poll /\ UNCHANGED history
             \/ ClearPorts /\ UNCHANGED history
    <3>1. UNCHANGED <<mem, disk, completion_queue>>
      BY <2>1 DEF GuestDoorbell, Doorbell, GuestDescriptor, SetIntEnable, Poll, ClearPorts,
                  rings, data
    <3> QED
      BY <2>0, <2>a, <3>1 DEF PostsCompletion
  <2>2. CASE \E longword \in BOOLEAN : GuestAdvance(longword)
    <3>1. UNCHANGED <<mem, disk>>
      BY <2>2 DEF GuestAdvance, data
    <3>2. completion_queue' = IF completion_queue = <<>> THEN <<>> ELSE Tail(completion_queue)
      BY <2>2 DEF GuestAdvance, Advance
    <3>3. ~(Len(completion_queue') > Len(completion_queue))
      BY <2>0, <3>2
    <3> QED
      BY <2>a, <3>1, <3>3 DEF PostsCompletion
  <2>3. CASE Execute
    <3> DEFINE ptr == Head(submit_queue)
               d == IF ptr \in Readable THEN desc[ptr] ELSE CHOOSE x \in Descriptors : TRUE
    <3>1. ptr \in Ptrs
      BY <2>0, <2>3 DEF Execute, CanExecute
    <3>2. d \in DescriptorType
      BY <2>0, TransferAssumption
    <3>3. ptr \in Readable => d = desc[ptr]
      OBVIOUS
    <3> HIDE DEF d
    <3>4. PICK o \in execute(ptr, d) :
            /\ completion_queue' = Push(completion_queue,
                   [ptr |-> ptr, error |-> o.error, actual |-> actual(o)])
            /\ mem' = MemAfter(d, o.moved, mem, disk)
            /\ disk' = DiskAfter(d, o.moved, mem, disk)
      BY <2>3 DEF Execute, d
    <3> HIDE DEF ptr
    <3>5. /\ o.moved \in Nat
          /\ o.moved > 0 /\ d.command = "WRITE" => ~WriteProtect[d.unit]
      BY <3>1, <3>2, OutcomeBounds DEF OutcomeType
    <3>6. completion_queue' = Append(completion_queue,
                                 [ptr |-> ptr, error |-> o.error, actual |-> actual(o)])
      BY <2>3, <3>4 DEF Push, Execute, CanExecute
    <3>7. PostsCompletion /\ Posted = [ptr |-> ptr, error |-> o.error, actual |-> actual(o)]
      BY <2>0, <3>6 DEF PostsCompletion, Posted
    <3>8. Posted.ptr = ptr /\ Posted.actual \div SectorBytes = o.moved
      BY <3>5, <3>7, DivMul DEF actual
    <3>9. ptr \notin Readable => UNCHANGED <<mem, disk>>
      <4> SUFFICES ASSUME ptr \notin Readable PROVE UNCHANGED <<mem, disk>>
        OBVIOUS
      <4>1. o.moved = 0
        BY DEF execute, NoTransfer
      <4> QED
        BY <2>0, <3>2, <3>4, <4>1, NothingMoved
    <3>10. LandedIn(d, o.moved)
      <4>1. ASSUME NEW c \in Cells
            PROVE  IF d.command = "READ" /\ c - d.buffer \in 0 .. o.moved - 1
                   THEN mem'[c] = disk[d.unit][start_lba(d) + c - d.buffer]
                   ELSE mem'[c] = mem[c]
        <5>1. mem'[c] = IF d.command = "READ" /\ c - d.buffer \in 0 .. o.moved - 1
                        THEN disk[d.unit][start_lba(d) + c - d.buffer] ELSE mem[c]
          BY <3>2, <3>4, <3>5, LandedCells
        <5> QED
          BY <5>1, Zenon
      <4>2. ASSUME NEW u \in Attached, NEW s \in Sectors(u)
            PROVE  IF d.command = "WRITE" /\ d.unit = u /\ s - start_lba(d) \in 0 .. o.moved - 1
                   THEN ~WriteProtect[u] /\ disk'[u][s] = mem[d.buffer + s - start_lba(d)]
                   ELSE disk'[u][s] = disk[u][s]
        <5>1. disk'[u][s] =
                IF d.command = "WRITE" /\ d.unit = u /\ s - start_lba(d) \in 0 .. o.moved - 1
                THEN mem[d.buffer + s - start_lba(d)] ELSE disk[u][s]
          BY <3>2, <3>4, <3>5, LandedSectors
        <5>2. s - start_lba(d) \in 0 .. o.moved - 1 => o.moved > 0
          BY <3>5
        <5> QED
          BY <3>5, <5>1, <5>2, Zenon
      <4> QED
        BY <4>1, <4>2, Zenon DEF LandedIn
    <3> QED
      BY <3>3, <3>7, <3>8, <3>9, <3>10 DEF ResidueIsHonestStep
  <2> QED
    BY <2>1, <2>2, <2>3 DEF Next, Tick
<1> QED
  BY <1>1, CardTypes, PTL DEF Spec, ResidueIsHonest

-----------------------------------------------------------------------------
(***************************************************************************)
(* The inductive invariant, over the members of the queues.                *)
(***************************************************************************)
Members(s) == {s[i] : i \in 1 .. Len(s)}
Distinct(s) == \A i, j \in 1 .. Len(s) : s[i] = s[j] => i = j
PtrsOf(q) == {q[i].ptr : i \in 1 .. Len(q)}
DistinctPtrs(q) == \A i, j \in 1 .. Len(q) : q[i].ptr = q[j].ptr => i = j

SlotCompletion == [ptr : Slots, error : Errors, actual : Nat]

DriverTypes ==
    /\ submit_queue \in Seq(Slots)
    /\ completion_queue \in Seq(SlotCompletion)
    /\ desc \in [Readable -> Descriptors]
    /\ ioreq \in [Clients -> [request : RequestType, io_error : IoErrors,
                              ln_type : {"MESSAGE", "REPLYMSG"}]]
    /\ task \in [Clients -> {"idle", "begun", "waiting"}]
    /\ slot_owner \in [Slots -> Clients \cup {NoReq}]
    /\ dev_outstanding \in Nat
    /\ dev_pending \in Seq(Clients)
    /\ pc \in {"out", "drain", "error", "actual", "advance", "complete",
               "resubmit", "reply", "exit"}
    /\ d1 \in Errors /\ d2 \in Nat

(* The slot the handler has popped and not yet freed. *)
InHand == IF pc = "complete" THEN {a2} ELSE {}

(* A slot with an owner is in exactly one place of the card and the handler. *)
SlotsAccounted ==
    /\ Distinct(submit_queue) /\ DistinctPtrs(completion_queue)
    /\ Members(submit_queue) \cap PtrsOf(completion_queue) = {}
    /\ InHand \cap (Members(submit_queue) \cup PtrsOf(completion_queue)) = {}
    /\ \A s \in Slots : slot_owner[s] # NoReq
          <=> s \in Members(submit_queue) \cup PtrsOf(completion_queue) \cup InHand

PoolCounts ==
    /\ dev_outstanding = Cardinality(Slots \ FreeSlots)
    /\ pc # "resubmit" => dev_pending = <<>> \/ FreeSlots = {}
    /\ pc = "resubmit" => dev_pending = <<>> \/ FreeSlots = {a2}
    /\ submit_overflow = 0

(* What the handler's registers copied is still at the head of the ring. *)
HandlerReads ==
    /\ pc \in {"error", "actual", "advance"} =>
          completion_queue # <<>> /\ completion_queue[1].ptr = a2
    /\ pc \in {"actual", "advance"} => d1 = completion_queue[1].error
    /\ pc = "advance" => d2 = completion_queue[1].actual
    /\ pc = "complete" => a2 \in Slots
    /\ pc \in {"resubmit", "reply"} => a4 \in Clients

(* The places that hold a client's request. *)
Owner(c) == \E s \in Slots : slot_owner[s] = c
Queued(c) == c \in Members(dev_pending)
BeingReplied(c) == pc \in {"resubmit", "reply"} /\ a4 = c

(* A request is in one place at most, its task waits for it, and it does not
   look finished. *)
RequestsAccounted ==
    /\ \A s, t \in Slots : slot_owner[s] = slot_owner[t] /\ slot_owner[s] # NoReq => s = t
    /\ Distinct(dev_pending)
    /\ \A c \in Clients :
          /\ ~(Owner(c) /\ Queued(c))
          /\ ~(Owner(c) /\ BeingReplied(c))
          /\ ~(Queued(c) /\ BeingReplied(c))
          /\ Owner(c) \/ Queued(c) \/ BeingReplied(c) =>
                task[c] = "waiting" /\ ioreq[c].ln_type = "MESSAGE"
          /\ task[c] = "begun" => ioreq[c].ln_type = "MESSAGE"

(* The descriptor of a submitted slot says what its owner asked for. *)
DescriptorsAgree ==
    /\ \A s \in Members(submit_queue) : desc[s] = DescriptorOf(ioreq[slot_owner[s]].request)
    /\ \A c \in Clients : task[c] = "begun" \/ Queued(c) =>
          DescriptorOf(ioreq[c].request) \in Descriptors

DriverInv ==
    /\ DriverTypes /\ SlotsAccounted /\ PoolCounts /\ HandlerReads
    /\ RequestsAccounted /\ DescriptorsAgree

-----------------------------------------------------------------------------
(***************************************************************************)
(* Lemmas about queues without repetition.                                 *)
(***************************************************************************)
LEMMA AppendMember ==
    ASSUME NEW S, NEW s \in Seq(S), NEW e \in S
    PROVE  /\ Append(s, e) \in Seq(S) /\ Append(s, e) # <<>>
           /\ Members(Append(s, e)) = Members(s) \cup {e}
           /\ Distinct(s) /\ e \notin Members(s) => Distinct(Append(s, e))
<1> DEFINE t == Append(s, e)
<1>1. /\ t \in Seq(S) /\ t # <<>> /\ Len(t) = Len(s) + 1
      /\ \A i \in 1 .. Len(s) : t[i] = s[i]
      /\ t[Len(s) + 1] = e
  BY AppendProperties
<1>2. Len(s) \in Nat
  BY LenProperties
<1> HIDE DEF t
<1>3. \A i \in 1 .. Len(t) : i \in 1 .. Len(s) \/ i = Len(t)
  BY <1>1, <1>2
<1>4. \A i \in 1 .. Len(s) : i \in 1 .. Len(t) /\ i # Len(t)
  BY <1>1, <1>2
<1>5. Len(t) \in 1 .. Len(t)
  BY <1>1, <1>2
<1>6. Members(t) = Members(s) \cup {e}
  <2>1. \A i \in 1 .. Len(t) : t[i] \in Members(s) \cup {e}
    BY <1>1, <1>3 DEF Members
  <2>2. \A i \in 1 .. Len(s) : s[i] \in Members(t)
    BY <1>1, <1>4 DEF Members
  <2>3. e \in Members(t)
    BY <1>1, <1>5 DEF Members
  <2> QED
    BY <2>1, <2>2, <2>3 DEF Members
<1>7. ASSUME Distinct(s), e \notin Members(s) PROVE Distinct(t)
  <2>1. \A i \in 1 .. Len(s) : s[i] # e
    BY <1>7 DEF Members
  <2> QED
    BY <1>1, <1>3, <1>7, <2>1 DEF Distinct
<1> QED
  BY <1>1, <1>6, <1>7 DEF t

LEMMA TailMember ==
    ASSUME NEW S, NEW s \in Seq(S), s # <<>>
    PROVE  /\ Tail(s) \in Seq(S) /\ Head(s) = s[1] /\ Head(s) \in Members(s) /\ Head(s) \in S
           /\ Len(Tail(s)) = Len(s) - 1 /\ Len(s) \in Nat \ {0}
           /\ \A i \in 1 .. Len(Tail(s)) : Tail(s)[i] = s[i + 1]
           /\ Distinct(s) => Distinct(Tail(s)) /\ Members(Tail(s)) = Members(s) \ {Head(s)}
<1> DEFINE t == Tail(s)
<1>1. /\ t \in Seq(S) /\ Len(t) = Len(s) - 1 /\ Head(s) \in S
      /\ \A i \in 1 .. Len(t) : t[i] = s[i + 1]
  BY HeadTailProperties
<1>2. Len(s) \in Nat \ {0}
  BY EmptySeq
<1>3. Head(s) = s[1]
  OBVIOUS
<1> HIDE DEF t
<1>4. 1 \in 1 .. Len(s)
  BY <1>2
<1>5. Head(s) \in Members(s)
  BY <1>3, <1>4 DEF Members
<1>6. \A i \in 1 .. Len(t) : i + 1 \in 1 .. Len(s) /\ i + 1 # 1
  BY <1>1, <1>2
<1>7. \A i \in 1 .. Len(s) : i # 1 => \E j \in 1 .. Len(t) : i = j + 1
  <2> SUFFICES ASSUME NEW i \in 1 .. Len(s), i # 1 PROVE \E j \in 1 .. Len(t) : i = j + 1
    OBVIOUS
  <2>1. i - 1 \in 1 .. Len(t) /\ i = (i - 1) + 1
    BY <1>1, <1>2
  <2> QED
    BY <2>1
<1>8. ASSUME Distinct(s) PROVE Distinct(t) /\ Members(t) = Members(s) \ {Head(s)}
  <2>1. Distinct(t)
    <3>1. \A i, j \in 1 .. Len(t) : i + 1 = j + 1 => i = j
      BY <1>1, <1>2
    <3> QED
      BY <1>1, <1>6, <1>8, <3>1 DEF Distinct
  <2>2. \A i \in 1 .. Len(t) : t[i] \in Members(s) \ {Head(s)}
    BY <1>1, <1>3, <1>4, <1>6, <1>8 DEF Distinct, Members
  <2>3. \A i \in 1 .. Len(s) : s[i] # Head(s) => s[i] \in Members(t)
    BY <1>1, <1>3, <1>7 DEF Members
  <2> QED
    BY <2>1, <2>2, <2>3 DEF Members
<1> QED
  BY <1>1, <1>2, <1>3, <1>5, <1>8 DEF t

(* A queue of completions is a queue of their pointers. *)
Pointers(q) == [i \in 1 .. Len(q) |-> q[i].ptr]

LEMMA PointerFacts ==
    ASSUME NEW q \in Seq(SlotCompletion)
    PROVE  /\ Pointers(q) \in Seq(Slots) /\ Len(Pointers(q)) = Len(q)
           /\ Members(Pointers(q)) = PtrsOf(q)
           /\ Distinct(Pointers(q)) <=> DistinctPtrs(q)
           /\ PtrsOf(q) \subseteq Slots
<1>1. Len(q) \in Nat
  BY LenProperties
<1>2. \A i \in 1 .. Len(q) : q[i] \in SlotCompletion
  BY ElementOfSeq
<1>3. \A i \in 1 .. Len(q) : q[i].ptr \in Slots
  BY <1>2 DEF SlotCompletion
<1>4. Pointers(q) \in Seq(Slots) /\ Len(Pointers(q)) = Len(q)
  BY <1>1, <1>3 DEF Pointers
<1> QED
  BY <1>3, <1>4 DEF Pointers, Members, PtrsOf, Distinct, DistinctPtrs

LEMMA AppendCompletion ==
    ASSUME NEW q \in Seq(SlotCompletion), NEW e \in SlotCompletion
    PROVE  /\ Append(q, e) \in Seq(SlotCompletion) /\ Append(q, e) # <<>>
           /\ PtrsOf(Append(q, e)) = PtrsOf(q) \cup {e.ptr}
           /\ DistinctPtrs(q) /\ e.ptr \notin PtrsOf(q) => DistinctPtrs(Append(q, e))
           /\ Len(Append(q, e)) = Len(q) + 1 /\ Len(q) \in Nat
           /\ \A i \in 1 .. Len(q) : Append(q, e)[i] = q[i]
           /\ Append(q, e)[Len(q) + 1] = e
           /\ q # <<>> => Append(q, e)[1] = q[1]
<1> DEFINE t == Append(q, e)
<1>1. /\ t \in Seq(SlotCompletion) /\ t # <<>> /\ Len(t) = Len(q) + 1
      /\ \A i \in 1 .. Len(q) : t[i] = q[i]
      /\ t[Len(q) + 1] = e
  BY AppendProperties
<1>2. Len(q) \in Nat /\ (q # <<>> => Len(q) # 0)
  BY LenProperties, EmptySeq
<1> HIDE DEF t
<1>3. \A i \in 1 .. Len(t) : i \in 1 .. Len(q) \/ i = Len(t)
  BY <1>1, <1>2
<1>4. \A i \in 1 .. Len(q) : i \in 1 .. Len(t) /\ i # Len(t)
  BY <1>1, <1>2
<1>5. Len(t) \in 1 .. Len(t)
  BY <1>1, <1>2
<1>6. PtrsOf(t) = PtrsOf(q) \cup {e.ptr}
  <2>1. \A i \in 1 .. Len(t) : t[i].ptr \in PtrsOf(q) \cup {e.ptr}
    BY <1>1, <1>3 DEF PtrsOf
  <2>2. \A i \in 1 .. Len(q) : q[i].ptr \in PtrsOf(t)
    BY <1>1, <1>4 DEF PtrsOf
  <2>3. e.ptr \in PtrsOf(t)
    BY <1>1, <1>5 DEF PtrsOf
  <2> QED
    BY <2>1, <2>2, <2>3 DEF PtrsOf
<1>7. ASSUME DistinctPtrs(q), e.ptr \notin PtrsOf(q) PROVE DistinctPtrs(t)
  <2>1. \A i \in 1 .. Len(q) : q[i].ptr # e.ptr
    BY <1>7 DEF PtrsOf
  <2> QED
    BY <1>1, <1>3, <1>7, <2>1 DEF DistinctPtrs
<1>8. q # <<>> => t[1] = q[1]
  BY <1>1, <1>2
<1> QED
  BY <1>1, <1>2, <1>6, <1>7, <1>8 DEF t

LEMMA TailCompletion ==
    ASSUME NEW q \in Seq(SlotCompletion), q # <<>>, DistinctPtrs(q)
    PROVE  /\ Tail(q) \in Seq(SlotCompletion) /\ Head(q) = q[1] /\ q[1] \in SlotCompletion
           /\ q[1].ptr \in PtrsOf(q)
           /\ PtrsOf(Tail(q)) = PtrsOf(q) \ {q[1].ptr} /\ DistinctPtrs(Tail(q))
           /\ Len(Tail(q)) = Len(q) - 1 /\ Len(q) \in Nat \ {0}
           /\ \A i \in 1 .. Len(Tail(q)) : Tail(q)[i] = q[i + 1]
<1> DEFINE t == Tail(q)
<1>1. /\ t \in Seq(SlotCompletion) /\ Head(q) = q[1] /\ Head(q) \in SlotCompletion
      /\ Len(t) = Len(q) - 1 /\ Len(q) \in Nat \ {0}
      /\ \A i \in 1 .. Len(t) : t[i] = q[i + 1]
  BY TailMember
<1> HIDE DEF t
<1>2. 1 \in 1 .. Len(q)
  BY <1>1
<1>3. \A i \in 1 .. Len(t) : i + 1 \in 1 .. Len(q) /\ i + 1 # 1
  BY <1>1
<1>4. \A i \in 1 .. Len(q) : i # 1 => \E j \in 1 .. Len(t) : i = j + 1
  <2> SUFFICES ASSUME NEW i \in 1 .. Len(q), i # 1 PROVE \E j \in 1 .. Len(t) : i = j + 1
    OBVIOUS
  <2>1. i - 1 \in 1 .. Len(t) /\ i = (i - 1) + 1
    BY <1>1
  <2> QED
    BY <2>1
<1>5. DistinctPtrs(t)
  <2>1. \A i, j \in 1 .. Len(t) : i + 1 = j + 1 => i = j
    BY <1>1
  <2> QED
    BY <1>1, <1>3, <2>1 DEF DistinctPtrs
<1>6. PtrsOf(t) = PtrsOf(q) \ {q[1].ptr}
  <2>1. \A i \in 1 .. Len(t) : t[i].ptr \in PtrsOf(q) \ {q[1].ptr}
    BY <1>1, <1>2, <1>3 DEF DistinctPtrs, PtrsOf
  <2>2. ASSUME NEW i \in 1 .. Len(q), q[i].ptr # q[1].ptr PROVE q[i].ptr \in PtrsOf(t)
    <3>1. PICK j \in 1 .. Len(t) : i = j + 1
      BY <1>4, <2>2
    <3> QED
      BY <1>1, <3>1 DEF PtrsOf
  <2> QED
    BY <2>1, <2>2 DEF PtrsOf
<1>7. q[1].ptr \in PtrsOf(q)
  BY <1>2 DEF PtrsOf
<1> QED
  BY <1>1, <1>5, <1>6, <1>7 DEF t

(* Pushing one more slot never overflows: a queue of other slots, none of
   them twice, is shorter than the pool. *)
LEMMA DistinctFits ==
    ASSUME NEW s \in Seq(Slots), Distinct(s), NEW p \in Slots, p \notin Members(s)
    PROVE  Len(s) < SubmitCapacity
<1>1. Len(s) \in Nat /\ SubmitCapacity \in Nat /\ DEV_CAPACITY = SubmitCapacity
  BY LenProperties, HostblkAssumption DEF DEV_CAPACITY
<1>2. IsFiniteSet(Slots) /\ Cardinality(Slots) = SubmitCapacity
  BY <1>1, FS_Interval DEF Slots
<1>3. IsFiniteSet(Slots \ {p}) /\ Cardinality(Slots \ {p}) = SubmitCapacity - 1
  BY <1>2, FS_RemoveElement
<1>4. IsFiniteSet(1 .. Len(s)) /\ Cardinality(1 .. Len(s)) = Len(s)
  BY <1>1, FS_Interval
<1>5. \A i \in 1 .. Len(s) : s[i] \in Slots \ {p}
  BY ElementOfSeq DEF Members
<1>6. s \in [1 .. Len(s) -> Slots \ {p}]
  BY <1>5, LenProperties
<1>7. ~(Cardinality(Slots \ {p}) < Cardinality(1 .. Len(s)))
  BY <1>3, <1>4, <1>6, FS_PigeonHole DEF Distinct
<1> QED
  BY <1>1, <1>3, <1>4, <1>7

(* AbortIO takes one entry out of DEV_PENDING. *)
LEMMA RemoveMember ==
    ASSUME NEW S, NEW s \in Seq(S), NEW k \in 1 .. Len(s), Distinct(s)
    PROVE  LET t == SubSeq(s, 1, k - 1) \o SubSeq(s, k + 1, Len(s))
           IN  t \in Seq(S) /\ Distinct(t) /\ Members(t) = Members(s) \ {s[k]}
<1> DEFINE l == SubSeq(s, 1, k - 1)
           r == SubSeq(s, k + 1, Len(s))
           t == l \o r
<1>1. Len(s) \in Nat /\ k \in Nat /\ \A i \in 1 .. Len(s) : s[i] \in S
  BY LenProperties, ElementOfSeq
<1>2. /\ l \in Seq(S) /\ Len(l) = k - 1
      /\ \A i \in 1 .. k - 1 : l[i] = s[i]
  <2>1. \A i \in 1 .. k - 1 : s[i] \in S
    BY <1>1
  <2>2. 1 \in Int /\ k - 1 \in Int
    BY <1>1
  <2>3. /\ l \in Seq(S)
        /\ Len(l) = IF 1 <= k - 1 THEN (k - 1) - 1 + 1 ELSE 0
        /\ \A i \in 1 .. (k - 1) - 1 + 1 : l[i] = s[1 + i - 1]
    BY <2>1, <2>2, SubSeqProperties
  <2> HIDE DEF l
  <2> QED
    BY <1>1, <2>3
<1>3. /\ r \in Seq(S) /\ Len(r) = Len(s) - k
      /\ \A i \in 1 .. Len(s) - k : r[i] = s[i + k]
  <2>1. \A i \in k + 1 .. Len(s) : s[i] \in S
    BY <1>1
  <2>2. k + 1 \in Int /\ Len(s) \in Int
    BY <1>1
  <2>3. /\ r \in Seq(S)
        /\ Len(r) = IF k + 1 <= Len(s) THEN Len(s) - (k + 1) + 1 ELSE 0
        /\ \A i \in 1 .. Len(s) - (k + 1) + 1 : r[i] = s[k + 1 + i - 1]
    BY <2>1, <2>2, SubSeqProperties
  <2> HIDE DEF r
  <2>4. \A i \in 1 .. Len(s) - k : k + 1 + i - 1 = i + k /\ i \in 1 .. Len(s) - (k + 1) + 1
    BY <1>1
  <2> QED
    BY <1>1, <2>3, <2>4
<1> HIDE DEF l, r
<1>4. /\ t \in Seq(S) /\ Len(t) = Len(l) + Len(r)
      /\ \A i \in 1 .. Len(l) + Len(r) : t[i] = IF i <= Len(l) THEN l[i] ELSE r[i - Len(l)]
  BY <1>2, <1>3, ConcatProperties
<1> HIDE DEF t
<1>5. /\ Len(t) = Len(s) - 1
      /\ \A i \in 1 .. Len(t) : i < k => t[i] = s[i]
      /\ \A i \in 1 .. Len(t) : i >= k => t[i] = s[i + 1]
  <2>1. Len(t) = Len(s) - 1
    BY <1>1, <1>2, <1>3, <1>4
  <2>2. ASSUME NEW i \in 1 .. Len(t), i < k PROVE t[i] = s[i]
    BY <1>1, <1>2, <1>3, <1>4, <2>1, <2>2
  <2>3. ASSUME NEW i \in 1 .. Len(t), i >= k PROVE t[i] = s[i + 1]
    <3>1. i - (k - 1) \in 1 .. Len(s) - k /\ (i - (k - 1)) + k = i + 1
      BY <1>1, <2>1, <2>3
    <3>2. t[i] = r[i - (k - 1)]
      BY <1>1, <1>2, <1>3, <1>4, <2>1, <2>3
    <3> QED
      BY <1>3, <3>1, <3>2
  <2> QED
    BY <2>1, <2>2, <2>3
<1> DEFINE from(i) == IF i < k THEN i ELSE i + 1
<1>6. /\ \A i \in 1 .. Len(t) : from(i) \in 1 .. Len(s) /\ from(i) # k /\ t[i] = s[from(i)]
      /\ \A i, j \in 1 .. Len(t) : from(i) = from(j) => i = j
      /\ \A j \in 1 .. Len(s) : j # k => \E i \in 1 .. Len(t) : from(i) = j
  <2>1. ASSUME NEW i \in 1 .. Len(t)
        PROVE from(i) \in 1 .. Len(s) /\ from(i) # k /\ t[i] = s[from(i)]
    BY <1>1, <1>5, <2>1
  <2>2. \A i, j \in 1 .. Len(t) : from(i) = from(j) => i = j
    BY <1>1, <1>5
  <2>3. ASSUME NEW j \in 1 .. Len(s), j # k PROVE \E i \in 1 .. Len(t) : from(i) = j
    <3>1. CASE j < k
      <4>1. j \in 1 .. Len(t) /\ from(j) = j
        BY <1>1, <1>5, <3>1
      <4> QED
        BY <4>1
    <3>2. CASE ~(j < k)
      <4>1. j - 1 \in 1 .. Len(t) /\ from(j - 1) = j
        BY <1>1, <1>5, <2>3, <3>2
      <4> QED
        BY <4>1
    <3> QED
      BY <3>1, <3>2
  <2> QED
    BY <2>1, <2>2, <2>3
<1> HIDE DEF from
<1>7. Distinct(t)
  BY <1>6 DEF Distinct
<1>8. Members(t) = Members(s) \ {s[k]}
  <2>1. \A i \in 1 .. Len(t) : t[i] \in Members(s) \ {s[k]}
    BY <1>6 DEF Distinct, Members
  <2>2. \A j \in 1 .. Len(s) : s[j] # s[k] => s[j] \in Members(t)
    <3> SUFFICES ASSUME NEW j \in 1 .. Len(s), s[j] # s[k] PROVE s[j] \in Members(t)
      OBVIOUS
    <3>1. PICK i \in 1 .. Len(t) : from(i) = j
      BY <1>6
    <3> QED
      BY <1>6, <3>1 DEF Members
  <2> QED
    BY <2>1, <2>2 DEF Members
<1> QED
  BY <1>4, <1>7, <1>8 DEF t, l, r

-----------------------------------------------------------------------------
(***************************************************************************)
(* Steps.                                                                  *)
(***************************************************************************)
LEMMA DriverInit == DevInit => DriverInv
<1> SUFFICES ASSUME DevInit PROVE DriverInv
  OBVIOUS
<1> USE DEF DevInit
<1>1. \A s \in Slots : slot_owner[s] = NoReq
  OBVIOUS
<1>2. FreeSlots = Slots /\ Slots \ FreeSlots = {}
  BY <1>1 DEF FreeSlots
<1>3. submit_queue = <<>> /\ completion_queue = <<>> /\ dev_pending = <<>> /\ pc = "out"
  OBVIOUS
<1>4. /\ Members(<<>>) = {} /\ PtrsOf(<<>>) = {} /\ Distinct(<<>>) /\ DistinctPtrs(<<>>)
  BY DEF Members, PtrsOf, Distinct, DistinctPtrs
<1>5. ASSUME NEW c \in Clients PROVE Requests[c] # {} /\ Requests[c] \subseteq RequestType
  <2>1. Requests[c] \in (SUBSET RequestType) \ {{}}
    BY DeviceAssumption, Zenon
  <2> QED
    BY <2>1
<1>6. \A c \in Clients : ioreq[c].request \in RequestType /\ ioreq[c].io_error = "OK"
                            /\ ioreq[c].ln_type = "REPLYMSG"
  BY <1>5
<1>7. ioreq \in [Clients -> [request : RequestType, io_error : IoErrors,
                             ln_type : {"MESSAGE", "REPLYMSG"}]]
  BY <1>5 DEF IoErrors
<1>8. DriverTypes
  BY <1>3, <1>7, HostblkAssumption, EmptySeq DEF DriverTypes, Errors
<1>9. SlotsAccounted
  BY <1>1, <1>3, <1>4 DEF SlotsAccounted, InHand
<1>10. PoolCounts
  BY <1>2, <1>3, FS_EmptySet DEF PoolCounts
<1>11. HandlerReads
  BY <1>3 DEF HandlerReads
<1>12. RequestsAccounted
  <2>1. \A c \in Clients : ~Owner(c)
    BY <1>1, DeviceAssumption DEF Owner
  <2> QED
    BY <1>1, <1>3, <1>4, <2>1 DEF RequestsAccounted, Queued, BeingReplied
<1>13. DescriptorsAgree
  BY <1>3, <1>4 DEF DescriptorsAgree, Queued
<1> QED
  BY <1>8, <1>9, <1>10, <1>11, <1>12, <1>13 DEF DriverInv

(***************************************************************************)
(* `submit_or_queue` for a request that is held nowhere else.              *)
(***************************************************************************)
Submitted(c, s, pending) ==
    /\ s \in FreeSlots
    /\ submit_queue' = Append(submit_queue, s)
    /\ desc' = [desc EXCEPT ![s] = DescriptorOf(ioreq[c].request)]
    /\ slot_owner' = [slot_owner EXCEPT ![s] = c]
    /\ dev_outstanding' = dev_outstanding + 1
    /\ dev_pending' = pending

LEMMA SubmitOrQueue ==
    ASSUME DriverInv, NEW c \in Clients, NEW pending, submit_or_queue(c, pending)
    PROVE  /\ completion_queue' = completion_queue /\ submit_overflow' = 0
           /\ mem' = mem /\ disk' = disk
           /\ \/ \E s \in FreeSlots : Submitted(c, s, pending)
              \/ /\ FreeSlots = {} /\ dev_pending' = Append(pending, c)
                 /\ UNCHANGED <<slot_owner, dev_outstanding, submit_queue, desc>>
<1> USE DEF DriverInv
<1>1. CASE FreeSlots = {} /\ dev_pending' = Append(pending, c)
           /\ UNCHANGED <<slot_owner, dev_outstanding, rings, int_enable, data, ports>>
  BY <1>1 DEF rings, data, PoolCounts
<1>2. ASSUME NEW s \in FreeSlots,
             desc' = [desc EXCEPT ![s] = DescriptorOf(ioreq[c].request)],
             slot_owner' = [slot_owner EXCEPT ![s] = c],
             dev_outstanding' = dev_outstanding + 1,
             dev_pending' = pending,
             Doorbell(s), UNCHANGED <<mem, disk>>
      PROVE  /\ completion_queue' = completion_queue /\ submit_overflow' = 0
             /\ mem' = mem /\ disk' = disk /\ Submitted(c, s, pending)
  <2>1. s \in Slots /\ s \notin Members(submit_queue)
    BY DEF FreeSlots, SlotsAccounted
  <2>2. Len(submit_queue) < SubmitCapacity
    BY <2>1, DistinctFits DEF DriverTypes, SlotsAccounted
  <2> QED
    BY <1>2, <2>2 DEF Doorbell, PoolCounts, Submitted
<1> QED
  BY <1>1, <1>2 DEF submit_or_queue

(* What taking a free slot does to the pool and to the card. *)
LEMMA SubmittedPool ==
    ASSUME DriverInv, NEW c \in Clients, NEW s, NEW pending \in Seq(Clients),
           Submitted(c, s, pending),
           DescriptorOf(ioreq[c].request) \in Descriptors,
           completion_queue' = completion_queue, ioreq' = ioreq,
           InHand = {}, InHand' = {}
    PROVE  /\ s \in Slots /\ s \notin Members(submit_queue) \cup PtrsOf(completion_queue)
           /\ submit_queue' \in Seq(Slots) /\ desc' \in [Readable -> Descriptors]
           /\ slot_owner' \in [Slots -> Clients \cup {NoReq}]
           /\ dev_outstanding' \in Nat
           /\ SlotsAccounted'
           /\ dev_outstanding' = Cardinality(Slots \ FreeSlots)'
           /\ FreeSlots' = FreeSlots \ {s}
           /\ Members(submit_queue)' = Members(submit_queue) \cup {s}
           /\ \A t \in Slots : slot_owner'[t] = IF t = s THEN c ELSE slot_owner[t]
           /\ \A t \in Members(submit_queue)' :
                 desc'[t] = DescriptorOf(ioreq[slot_owner'[t]].request)
<1> USE DEF DriverInv, Submitted
<1>1. s \in Slots /\ slot_owner[s] = NoReq /\ c # NoReq
  BY DeviceAssumption DEF FreeSlots
<1>2. s \notin Members(submit_queue) \cup PtrsOf(completion_queue)
  BY <1>1 DEF SlotsAccounted
<1>3. \A t \in Slots : slot_owner'[t] = IF t = s THEN c ELSE slot_owner[t]
  BY <1>1 DEF DriverTypes
<1>4. /\ submit_queue' \in Seq(Slots) /\ Distinct(submit_queue)'
      /\ Members(submit_queue)' = Members(submit_queue) \cup {s}
  BY <1>1, <1>2, AppendMember DEF DriverTypes, SlotsAccounted
<1>5. SlotsAccounted'
  BY <1>1, <1>2, <1>3, <1>4 DEF SlotsAccounted
<1>6. FreeSlots' = FreeSlots \ {s} /\ (Slots \ FreeSlots)' = (Slots \ FreeSlots) \cup {s}
  BY <1>1, <1>3 DEF FreeSlots
<1>7. dev_outstanding' = Cardinality(Slots \ FreeSlots)'
  <2>1. IsFiniteSet(Slots)
    BY HostblkAssumption, FS_Interval DEF Slots, DEV_CAPACITY
  <2>2. IsFiniteSet(Slots \ FreeSlots)
    BY <2>1, FS_Subset
  <2>3. s \notin Slots \ FreeSlots
    BY <1>1 DEF FreeSlots
  <2> QED
    BY <1>6, <2>2, <2>3, FS_AddElement DEF PoolCounts
<1>8. /\ desc' \in [Readable -> Descriptors]
      /\ \A t \in Slots : t # s => desc'[t] = desc[t]
      /\ desc'[s] = DescriptorOf(ioreq[c].request)
  BY <1>1, DeviceAssumption DEF DriverTypes
<1>9. Members(submit_queue) \subseteq Slots
  BY ElementOfSeq DEF DriverTypes, Members
<1>10. \A t \in Members(submit_queue)' :
          desc'[t] = DescriptorOf(ioreq[slot_owner'[t]].request)
  BY <1>2, <1>3, <1>4, <1>8, <1>9 DEF DescriptorsAgree
<1> QED
  BY <1>1, <1>2, <1>3, <1>4, <1>5, <1>6, <1>7, <1>8, <1>10 DEF DriverTypes

(* A step that moves nothing: the handler reads a register or is entered or
   left, a line passes with nothing to execute. *)
LEMMA QuietStep ==
    ASSUME DriverInv,
           UNCHANGED <<submit_queue, completion_queue, submit_overflow, desc,
                       ioreq, task, slot_owner, dev_outstanding, dev_pending>>,
           pc' \in {"out", "drain", "error", "actual", "advance", "complete",
                    "resubmit", "reply", "exit"},
           d1' \in Errors, d2' \in Nat,
           InHand' = InHand, pc' = "resubmit" => pc = "resubmit" /\ a2' = a2,
           pc = "resubmit" => pc' = "resubmit",
           pc' \in {"resubmit", "reply"} => pc' = pc /\ a4' = a4,
           HandlerReads'
    PROVE  DriverInv'
<1> USE DEF DriverInv
<1>1. DriverTypes'
  BY DEF DriverTypes
<1>2. SlotsAccounted'
  BY DEF SlotsAccounted
<1>3. FreeSlots' = FreeSlots
  BY DEF FreeSlots
<1>4. PoolCounts'
  BY <1>3 DEF PoolCounts
<1>5. RequestsAccounted'
  <2>1. \A c \in Clients : BeingReplied(c)' => BeingReplied(c)
    BY DEF BeingReplied
  <2> QED
    BY <2>1 DEF RequestsAccounted, Owner, Queued
<1>6. DescriptorsAgree'
  BY DEF DescriptorsAgree, Queued
<1> QED
  BY <1>1, <1>2, <1>4, <1>5, <1>6

LEMMA HeadOfRing ==
    ASSUME DriverTypes, completion_queue # <<>>
    PROVE  /\ Head(completion_queue) = completion_queue[1]
           /\ completion_queue[1] \in SlotCompletion
           /\ completion_queue[1].ptr \in Slots
           /\ completion_queue[1].error \in Errors
           /\ completion_queue[1].actual \in Nat
<1>1. Head(completion_queue) = completion_queue[1] /\ completion_queue[1] \in SlotCompletion
  BY TailMember DEF DriverTypes
<1> QED
  BY <1>1 DEF SlotCompletion

LEMMA HandlerQuiet ==
    ASSUME DriverInv,
           TakeInt2 \/ ReadPtr \/ ReadError \/ ReadActual \/ ExitInt2 \/ (Poll /\ Line)
             \/ UNCHANGED devVars
    PROVE  DriverInv'
<1> USE DEF DriverInv
<1>1. d1 \in Errors /\ d2 \in Nat
      /\ pc \in {"out", "drain", "error", "actual", "advance", "complete",
                 "resubmit", "reply", "exit"}
  BY DEF DriverTypes
<1>2. UNCHANGED <<submit_queue, completion_queue, submit_overflow, desc,
                  ioreq, task, slot_owner, dev_outstanding, dev_pending>>
  BY DEF TakeInt2, ReadPtr, ReadError, ReadActual, ExitInt2, Poll, Line, devVars, vars, rings,
     data, driverVars, clientVars, poolVars
<1>3. CASE TakeInt2 \/ ExitInt2
  <2>1. pc \in {"out", "exit"} /\ pc' \in {"drain", "out"} /\ UNCHANGED <<d1, d2>>
    BY <1>3 DEF TakeInt2, ExitInt2
  <2>2. HandlerReads' /\ InHand' = InHand
    BY <2>1 DEF HandlerReads, InHand
  <2> QED
    BY <1>1, <1>2, <2>1, <2>2, QuietStep
<1>4. CASE ReadPtr
  <2>1. /\ pc = "drain" /\ pc' \in {"exit", "error"} /\ UNCHANGED <<d1, d2>>
        /\ pc' = "error" => completion_queue # <<>> /\ a2' = completion_queue[1].ptr
    BY <1>4, HeadOfRing DEF ReadPtr
  <2>2. HandlerReads' /\ InHand' = InHand
    BY <1>2, <2>1 DEF HandlerReads, InHand
  <2> QED
    BY <1>1, <1>2, <2>1, <2>2, QuietStep
<1>5. CASE ReadError
  <2>1. /\ pc = "error" /\ pc' = "actual" /\ UNCHANGED <<a2, d2>>
        /\ completion_queue # <<>> /\ completion_queue[1].ptr = a2
        /\ d1' = completion_queue[1].error /\ d1' \in Errors
    BY <1>5, HeadOfRing DEF ReadError, HandlerReads
  <2>2. HandlerReads' /\ InHand' = InHand
    BY <1>2, <2>1 DEF HandlerReads, InHand
  <2> QED
    BY <1>1, <1>2, <2>1, <2>2, QuietStep
<1>6. CASE ReadActual
  <2>1. /\ pc = "actual" /\ pc' = "advance" /\ UNCHANGED <<a2, d1>>
        /\ completion_queue # <<>> /\ completion_queue[1].ptr = a2
        /\ d1 = completion_queue[1].error
        /\ d2' = completion_queue[1].actual /\ d2' \in Nat
    BY <1>6, HeadOfRing DEF ReadActual, HandlerReads
  <2>2. HandlerReads' /\ InHand' = InHand
    BY <1>2, <2>1 DEF HandlerReads, InHand
  <2> QED
    BY <1>1, <1>2, <2>1, <2>2, QuietStep
<1>7. CASE (Poll /\ Line) \/ UNCHANGED devVars
  <2>1. UNCHANGED <<pc, a2, d1, d2, a4>>
    BY <1>7 DEF Line, devVars, driverVars, intVars
  <2>2. HandlerReads' /\ InHand' = InHand
    BY <1>2, <2>1 DEF HandlerReads, InHand
  <2> QED
    BY <1>1, <1>2, <2>1, <2>2, QuietStep
<1> QED
  BY <1>3, <1>4, <1>5, <1>6, <1>7

(* The members of the submission ring are slots with a client. *)
LEMMA SubmittedSlots ==
    ASSUME DriverInv, NEW s \in Members(submit_queue) \cup PtrsOf(completion_queue) \cup InHand
    PROVE  s \in Slots /\ slot_owner[s] \in Clients /\ Owner(slot_owner[s])
<1>1. Members(submit_queue) \subseteq Slots
  BY ElementOfSeq DEF DriverInv, DriverTypes, Members
<1>2. PtrsOf(completion_queue) \subseteq Slots
  BY PointerFacts DEF DriverInv, DriverTypes
<1>3. InHand \subseteq Slots
  BY DEF DriverInv, HandlerReads, InHand
<1>4. s \in Slots
  BY <1>1, <1>2, <1>3
<1>5. slot_owner[s] # NoReq
  BY <1>4 DEF DriverInv, SlotsAccounted
<1> QED
  BY <1>4, <1>5 DEF DriverInv, DriverTypes, Owner

LEMMA BeginStep ==
    ASSUME DriverInv, NEW c \in Clients, BeginIO(c)
    PROVE  DriverInv'
<1> USE DEF DriverInv
<1>1. /\ pc = "out" /\ task[c] = "idle"
      /\ UNCHANGED <<submit_queue, completion_queue, submit_overflow, desc,
                     slot_owner, dev_outstanding, dev_pending, pc, a2, d1, d2, a4>>
      /\ task' = [task EXCEPT ![c] = "begun"]
  BY DEF BeginIO, poolVars, intVars, vars, rings, data
<1>2. PICK r \in Requests[c] :
         ioreq' = [ioreq EXCEPT ![c].request = r, ![c].ln_type = "MESSAGE"]
  BY DEF BeginIO
<1>3. r \in RequestType /\ DescriptorOf(r) \in Descriptors
  <2>1. Requests[c] \in (SUBSET RequestType) \ {{}}
    BY DeviceAssumption, Zenon
  <2> QED
    BY <2>1, DeviceAssumption
<1>4. /\ ioreq' \in [Clients -> [request : RequestType, io_error : IoErrors,
                                 ln_type : {"MESSAGE", "REPLYMSG"}]]
      /\ \A b \in Clients : b # c => ioreq'[b] = ioreq[b]
      /\ ioreq'[c].request = r /\ ioreq'[c].ln_type = "MESSAGE"
  BY <1>2, <1>3 DEF DriverTypes
<1>5. /\ task' \in [Clients -> {"idle", "begun", "waiting"}]
      /\ \A b \in Clients : b # c => task'[b] = task[b]
      /\ task'[c] = "begun"
  BY <1>1 DEF DriverTypes
<1>6. ~Owner(c) /\ ~Queued(c) /\ ~BeingReplied(c)
  BY <1>1 DEF RequestsAccounted
<1>7. DriverTypes'
  BY <1>1, <1>4, <1>5 DEF DriverTypes
<1>8. SlotsAccounted' /\ FreeSlots' = FreeSlots
  BY <1>1 DEF SlotsAccounted, InHand, FreeSlots
<1>9. PoolCounts' /\ HandlerReads'
  BY <1>1, <1>8 DEF PoolCounts, HandlerReads
<1>10. RequestsAccounted'
  <2>1. \A b \in Clients : /\ Owner(b)' <=> Owner(b)
                           /\ Queued(b)' <=> Queued(b)
                           /\ BeingReplied(b)' <=> BeingReplied(b)
    BY <1>1 DEF Owner, Queued, BeingReplied
  <2> QED
    BY <1>1, <1>4, <1>5, <1>6, <2>1 DEF RequestsAccounted
<1>11. DescriptorsAgree'
  <2>1. \A s \in Members(submit_queue) : slot_owner[s] \in Clients /\ slot_owner[s] # c
    BY <1>6, SubmittedSlots
  <2> QED
    BY <1>1, <1>3, <1>4, <1>5, <2>1 DEF DescriptorsAgree, Queued
<1> QED
  BY <1>7, <1>8, <1>9, <1>10, <1>11

LEMMA WaitStep ==
    ASSUME DriverInv, NEW c \in Clients, WaitIO(c)
    PROVE  DriverInv'
<1> USE DEF DriverInv
<1>1. /\ task[c] = "waiting" /\ ioreq[c].ln_type = "REPLYMSG"
      /\ UNCHANGED <<submit_queue, completion_queue, submit_overflow, desc, ioreq,
                     slot_owner, dev_outstanding, dev_pending, pc, a2, d1, d2, a4>>
      /\ task' = [task EXCEPT ![c] = "idle"]
  BY DEF WaitIO, poolVars, intVars, vars, rings, data
<1>2. /\ task' \in [Clients -> {"idle", "begun", "waiting"}]
      /\ \A b \in Clients : b # c => task'[b] = task[b]
      /\ task'[c] = "idle"
  BY <1>1 DEF DriverTypes
<1>3. ~Owner(c) /\ ~Queued(c) /\ ~BeingReplied(c)
  BY <1>1 DEF RequestsAccounted
<1>4. DriverTypes'
  BY <1>1, <1>2 DEF DriverTypes
<1>5. SlotsAccounted' /\ FreeSlots' = FreeSlots
  BY <1>1 DEF SlotsAccounted, InHand, FreeSlots
<1>6. PoolCounts' /\ HandlerReads'
  BY <1>1, <1>5 DEF PoolCounts, HandlerReads
<1>7. RequestsAccounted'
  <2>1. \A b \in Clients : /\ Owner(b)' <=> Owner(b)
                           /\ Queued(b)' <=> Queued(b)
                           /\ BeingReplied(b)' <=> BeingReplied(b)
    BY <1>1 DEF Owner, Queued, BeingReplied
  <2> QED
    BY <1>1, <1>2, <1>3, <2>1 DEF RequestsAccounted
<1>8. DescriptorsAgree'
  BY <1>1, <1>2 DEF DescriptorsAgree, Queued
<1> QED
  BY <1>4, <1>5, <1>6, <1>7, <1>8

LEMMA SubmitStep ==
    ASSUME DriverInv, NEW c \in Clients, Submit(c)
    PROVE  DriverInv'
<1> USE DEF DriverInv
<1>1. /\ pc = "out" /\ task[c] = "begun" /\ submit_or_queue(c, dev_pending)
      /\ UNCHANGED <<ioreq, pc, a2, d1, d2, a4>>
      /\ task' = [task EXCEPT ![c] = "waiting"]
  BY DEF Submit, intVars
<1>2. /\ task' \in [Clients -> {"idle", "begun", "waiting"}]
      /\ \A b \in Clients : b # c => task'[b] = task[b]
      /\ task'[c] = "waiting"
  BY <1>1 DEF DriverTypes
<1>3. /\ ~Owner(c) /\ ~Queued(c) /\ ~BeingReplied(c) /\ ioreq[c].ln_type = "MESSAGE"
      /\ DescriptorOf(ioreq[c].request) \in Descriptors /\ c # NoReq
  BY <1>1, DeviceAssumption DEF RequestsAccounted, DescriptorsAgree
<1>4. InHand = {} /\ InHand' = {} /\ \A b \in Clients : BeingReplied(b)' <=> BeingReplied(b)
  BY <1>1 DEF InHand, BeingReplied
<1>5. dev_pending \in Seq(Clients)
  BY DEF DriverTypes
<1>6. completion_queue' = completion_queue /\ submit_overflow' = 0
  BY <1>1, SubmitOrQueue
<1>7. HandlerReads'
  BY <1>1, <1>6 DEF HandlerReads
<1>8. ASSUME NEW s \in FreeSlots, Submitted(c, s, dev_pending) PROVE DriverInv'
  <2>1. /\ s \in Slots
        /\ submit_queue' \in Seq(Slots) /\ desc' \in [Readable -> Descriptors]
        /\ slot_owner' \in [Slots -> Clients \cup {NoReq}]
        /\ dev_outstanding' \in Nat
        /\ SlotsAccounted'
        /\ dev_outstanding' = Cardinality(Slots \ FreeSlots)'
        /\ FreeSlots' = FreeSlots \ {s}
        /\ Members(submit_queue)' = Members(submit_queue) \cup {s}
        /\ \A t \in Slots : slot_owner'[t] = IF t = s THEN c ELSE slot_owner[t]
        /\ \A t \in Members(submit_queue)' :
              desc'[t] = DescriptorOf(ioreq[slot_owner'[t]].request)
    BY <1>1, <1>3, <1>4, <1>5, <1>6, <1>8, SubmittedPool
  <2>2. dev_pending' = dev_pending
    BY <1>8 DEF Submitted
  <2>3. DriverTypes'
    BY <1>1, <1>2, <1>6, <2>1, <2>2 DEF DriverTypes
  <2>4. PoolCounts'
    BY <1>1, <1>6, <2>1, <2>2 DEF PoolCounts
  <2>5. RequestsAccounted'
    <3>1. \A b \in Clients : Owner(b)' <=> b = c \/ Owner(b)
      <4>1. slot_owner[s] = NoReq /\ NoReq \notin Clients
        BY <1>8, DeviceAssumption DEF FreeSlots
      <4> QED
        BY <2>1, <4>1 DEF Owner
    <3>2. \A b \in Clients : Queued(b)' <=> Queued(b)
      BY <2>2 DEF Queued
    <3>3. \A t, u \in Slots : slot_owner'[t] = slot_owner'[u] /\ slot_owner'[t] # NoReq => t = u
      BY <1>3, <2>1 DEF RequestsAccounted, Owner
    <3> QED
      BY <1>1, <1>2, <1>3, <1>4, <2>2, <3>1, <3>2, <3>3 DEF RequestsAccounted
  <2>6. DescriptorsAgree'
    BY <1>1, <1>2, <2>1, <2>2 DEF DescriptorsAgree, Queued
  <2> QED
    BY <1>7, <2>1, <2>3, <2>4, <2>5, <2>6
<1>9. ASSUME FreeSlots = {}, dev_pending' = Append(dev_pending, c),
             UNCHANGED <<slot_owner, dev_outstanding, submit_queue, desc>>
      PROVE  DriverInv'
  <2>1. /\ dev_pending' \in Seq(Clients)
        /\ Members(dev_pending)' = Members(dev_pending) \cup {c}
        /\ Distinct(dev_pending)'
    BY <1>3, <1>5, <1>9, AppendMember DEF RequestsAccounted, Queued
  <2>2. DriverTypes'
    BY <1>1, <1>2, <1>6, <1>9, <2>1 DEF DriverTypes
  <2>3. SlotsAccounted' /\ FreeSlots' = FreeSlots
    BY <1>1, <1>6, <1>9 DEF SlotsAccounted, InHand, FreeSlots
  <2>4. PoolCounts'
    BY <1>1, <1>6, <1>9, <2>3 DEF PoolCounts
  <2>5. RequestsAccounted'
    <3>1. \A b \in Clients : (Owner(b)' <=> Owner(b)) /\ (Queued(b)' <=> b = c \/ Queued(b))
      BY <1>9, <2>1 DEF Owner, Queued
    <3> QED
      BY <1>1, <1>2, <1>3, <1>4, <1>9, <2>1, <3>1 DEF RequestsAccounted
  <2>6. DescriptorsAgree'
    BY <1>1, <1>2, <1>3, <1>9, <2>1 DEF DescriptorsAgree, Queued
  <2> QED
    BY <1>7, <2>2, <2>3, <2>4, <2>5, <2>6
<1> QED
  BY <1>1, <1>8, <1>9, SubmitOrQueue

LEMMA AbortStep ==
    ASSUME DriverInv, NEW c \in Clients, AbortIO(c)
    PROVE  DriverInv'
<1> USE DEF DriverInv
<1>1. /\ pc = "out" /\ task[c] = "waiting"
      /\ UNCHANGED <<submit_queue, completion_queue, submit_overflow, desc, task,
                     slot_owner, dev_outstanding, pc, a2, d1, d2, a4>>
      /\ ioreq' = [ioreq EXCEPT ![c].io_error = "IOERR_ABORTED", ![c].ln_type = "REPLYMSG"]
  BY DEF AbortIO, intVars, vars, rings, data
<1>2. PICK k \in 1 .. Len(dev_pending) :
         /\ dev_pending[k] = c
         /\ dev_pending' = SubSeq(dev_pending, 1, k - 1)
                             \o SubSeq(dev_pending, k + 1, Len(dev_pending))
  BY DEF AbortIO
<1>3. dev_pending \in Seq(Clients) /\ Distinct(dev_pending)
  BY DEF DriverTypes, RequestsAccounted
<1>4. /\ dev_pending' \in Seq(Clients) /\ Distinct(dev_pending)'
      /\ Members(dev_pending)' = Members(dev_pending) \ {c}
  BY <1>2, <1>3, RemoveMember
<1>5. Queued(c) /\ dev_pending # <<>>
  <2>1. Queued(c)
    BY <1>2 DEF Queued, Members
  <2>2. Len(<<>>) = 0 /\ 1 .. 0 = {}
    OBVIOUS
  <2> QED
    BY <1>2, <2>1, <2>2
<1>6. ~Owner(c) /\ ~BeingReplied(c)
  BY <1>5 DEF RequestsAccounted
<1>7. /\ ioreq' \in [Clients -> [request : RequestType, io_error : IoErrors,
                                 ln_type : {"MESSAGE", "REPLYMSG"}]]
      /\ \A b \in Clients : b # c => ioreq'[b] = ioreq[b]
  BY <1>1 DEF DriverTypes, IoErrors
<1>8. DriverTypes'
  BY <1>1, <1>4, <1>7 DEF DriverTypes
<1>9. SlotsAccounted' /\ FreeSlots' = FreeSlots
  BY <1>1 DEF SlotsAccounted, InHand, FreeSlots
<1>10. PoolCounts' /\ HandlerReads'
  BY <1>1, <1>5, <1>9 DEF PoolCounts, HandlerReads
<1>11. RequestsAccounted'
  <2>1. \A b \in Clients : /\ Owner(b)' <=> Owner(b)
                           /\ Queued(b)' <=> b # c /\ Queued(b)
                           /\ BeingReplied(b)' <=> BeingReplied(b)
    BY <1>1, <1>4 DEF Owner, Queued, BeingReplied
  <2> QED
    BY <1>1, <1>4, <1>6, <1>7, <2>1 DEF RequestsAccounted
<1>12. DescriptorsAgree'
  <2>1. \A s \in Members(submit_queue) : slot_owner[s] \in Clients /\ slot_owner[s] # c
    BY <1>6, SubmittedSlots
  <2> QED
    BY <1>1, <1>4, <1>7, <2>1 DEF DescriptorsAgree, Queued
<1> QED
  BY <1>8, <1>9, <1>10, <1>11, <1>12

LEMMA AdvanceStep ==
    ASSUME DriverInv, WriteAdvance
    PROVE  DriverInv'
<1> USE DEF DriverInv
<1>1. /\ pc = "advance" /\ pc' = "complete"
      /\ UNCHANGED <<submit_queue, submit_overflow, desc, ioreq, task, slot_owner,
                     dev_outstanding, dev_pending, a2, d1, d2, a4>>
      /\ completion_queue # <<>> /\ completion_queue[1].ptr = a2
      /\ completion_queue' = Tail(completion_queue)
  BY DEF WriteAdvance, Advance, clientVars, poolVars, data, HandlerReads
<1>2. /\ completion_queue' \in Seq(SlotCompletion) /\ DistinctPtrs(completion_queue)'
      /\ PtrsOf(completion_queue)' = PtrsOf(completion_queue) \ {a2}
      /\ a2 \in PtrsOf(completion_queue)
  BY <1>1, TailCompletion DEF DriverTypes, SlotsAccounted
<1>3. InHand = {} /\ InHand' = {a2} /\ a2 \in Slots
  BY <1>1, HeadOfRing DEF InHand
<1>4. DriverTypes'
  BY <1>1, <1>2 DEF DriverTypes
<1>5. SlotsAccounted' /\ FreeSlots' = FreeSlots
  BY <1>1, <1>2, <1>3 DEF SlotsAccounted, FreeSlots
<1>6. PoolCounts' /\ HandlerReads'
  BY <1>1, <1>3, <1>5 DEF PoolCounts, HandlerReads
<1>7. RequestsAccounted' /\ DescriptorsAgree'
  BY <1>1 DEF RequestsAccounted, Owner, Queued, BeingReplied, DescriptorsAgree
<1> QED
  BY <1>4, <1>5, <1>6, <1>7

LEMMA ReplyStep ==
    ASSUME DriverInv, ReplyMsg
    PROVE  DriverInv'
<1> USE DEF DriverInv
<1>1. /\ pc = "reply" /\ pc' = "drain" /\ a4 \in Clients
      /\ UNCHANGED <<submit_queue, completion_queue, submit_overflow, desc, task, slot_owner,
                     dev_outstanding, dev_pending, a2, d1, d2, a4>>
      /\ ioreq' = [ioreq EXCEPT ![a4].ln_type = "REPLYMSG"]
  BY DEF ReplyMsg, poolVars, vars, rings, data, HandlerReads
<1>2. BeingReplied(a4) /\ ~Owner(a4) /\ ~Queued(a4) /\ task[a4] = "waiting"
  BY <1>1 DEF BeingReplied, RequestsAccounted
<1>3. /\ ioreq' \in [Clients -> [request : RequestType, io_error : IoErrors,
                                 ln_type : {"MESSAGE", "REPLYMSG"}]]
      /\ \A b \in Clients : b # a4 => ioreq'[b] = ioreq[b]
      /\ \A b \in Clients : ioreq'[b].request = ioreq[b].request
  BY <1>1 DEF DriverTypes
<1>4. DriverTypes'
  BY <1>1, <1>3 DEF DriverTypes
<1>5. SlotsAccounted' /\ FreeSlots' = FreeSlots
  BY <1>1 DEF SlotsAccounted, InHand, FreeSlots
<1>6. PoolCounts' /\ HandlerReads'
  BY <1>1, <1>5 DEF PoolCounts, HandlerReads
<1>7. RequestsAccounted'
  <2>1. \A b \in Clients : /\ Owner(b)' <=> Owner(b)
                           /\ Queued(b)' <=> Queued(b)
                           /\ ~BeingReplied(b)'
    BY <1>1 DEF Owner, Queued, BeingReplied
  <2> QED
    BY <1>1, <1>2, <1>3, <2>1 DEF RequestsAccounted
<1>8. DescriptorsAgree'
  <2>1. \A s \in Members(submit_queue) : slot_owner[s] \in Clients
    BY SubmittedSlots
  <2> QED
    BY <1>1, <1>3, <2>1 DEF DescriptorsAgree, Queued
<1> QED
  BY <1>4, <1>5, <1>6, <1>7, <1>8

LEMMA CompleteStep ==
    ASSUME DriverInv, Complete
    PROVE  DriverInv'
<1> USE DEF DriverInv
<1>1. /\ pc = "complete" /\ pc' = "resubmit" /\ a2 \in Slots
      /\ UNCHANGED <<submit_queue, completion_queue, submit_overflow, desc, task,
                     dev_pending, a2, d1, d2>>
      /\ a4' = slot_owner[a2]
      /\ slot_owner' = [slot_owner EXCEPT ![a2] = NoReq]
      /\ dev_outstanding' = dev_outstanding - 1
  BY DEF Complete, vars, rings, data, HandlerReads
<1>2. InHand = {a2} /\ InHand' = {}
  BY <1>1 DEF InHand
<1>3. PICK c \in Clients : slot_owner[a2] = c
  BY <1>2, SubmittedSlots
<1>4. /\ slot_owner' \in [Slots -> Clients \cup {NoReq}]
      /\ \A s \in Slots : slot_owner'[s] = IF s = a2 THEN NoReq ELSE slot_owner[s]
  BY <1>1 DEF DriverTypes
<1>5. NoReq \notin Clients
  BY DeviceAssumption
<1>6. Owner(c) /\ ~Queued(c) /\ task[c] = "waiting" /\ ioreq[c].ln_type = "MESSAGE"
  BY <1>1, <1>3 DEF Owner, RequestsAccounted
<1>7. ioreq' = [ioreq EXCEPT ![c].io_error = hb_err_to_io_error(d1), ![c].request.actual = d2]
  BY <1>3 DEF Complete
<1>8. hb_err_to_io_error(d1) \in IoErrors /\ d2 \in Nat
  BY DEF DriverTypes, Errors, IoErrors, hb_err_to_io_error
<1>9. /\ ioreq' \in [Clients -> [request : RequestType, io_error : IoErrors,
                                 ln_type : {"MESSAGE", "REPLYMSG"}]]
      /\ \A b \in Clients : b # c => ioreq'[b] = ioreq[b]
      /\ ioreq'[c].ln_type = "MESSAGE"
  <2>1. [ioreq[c].request EXCEPT !.actual = d2] \in RequestType
    BY <1>8 DEF DriverTypes, RequestType
  <2> QED
    BY <1>6, <1>7, <1>8, <2>1 DEF DriverTypes
<1>10. FreeSlots' = FreeSlots \cup {a2} /\ a2 \notin FreeSlots
       /\ (Slots \ FreeSlots)' = (Slots \ FreeSlots) \ {a2} /\ a2 \in Slots \ FreeSlots
  BY <1>1, <1>3, <1>4, <1>5 DEF FreeSlots
<1>11. dev_outstanding' \in Nat /\ dev_outstanding' = Cardinality(Slots \ FreeSlots)'
  <2>1. IsFiniteSet(Slots)
    BY HostblkAssumption, FS_Interval DEF Slots, DEV_CAPACITY
  <2>2. IsFiniteSet(Slots \ FreeSlots)
    BY <2>1, FS_Subset
  <2>3. /\ IsFiniteSet((Slots \ FreeSlots) \ {a2})
        /\ Cardinality((Slots \ FreeSlots) \ {a2}) = Cardinality(Slots \ FreeSlots) - 1
    BY <1>10, <2>2, FS_RemoveElement
  <2>4. Cardinality((Slots \ FreeSlots) \ {a2}) \in Nat
    BY <2>3, FS_CardinalityType
  <2> QED
    BY <1>1, <1>10, <2>3, <2>4 DEF PoolCounts
<1>12. DriverTypes'
  BY <1>1, <1>4, <1>9, <1>11 DEF DriverTypes
<1>13. SlotsAccounted'
  BY <1>1, <1>2, <1>3, <1>4, <1>5 DEF SlotsAccounted
<1>14. PoolCounts'
  BY <1>1, <1>10, <1>11 DEF PoolCounts
<1>15. HandlerReads'
  BY <1>1, <1>3 DEF HandlerReads
<1>16. RequestsAccounted'
  <2>1. \A s \in Slots : slot_owner[s] = c => s = a2
    BY <1>1, <1>3, <1>5 DEF RequestsAccounted
  <2>2. \A b \in Clients : Owner(b)' <=> b # c /\ Owner(b)
    BY <1>3, <1>4, <1>5, <2>1 DEF Owner
  <2>3. \A b \in Clients : /\ Queued(b)' <=> Queued(b)
                           /\ BeingReplied(b)' <=> b = c
    BY <1>1, <1>3 DEF Queued, BeingReplied
  <2>4. \A s, t \in Slots : slot_owner'[s] = slot_owner'[t] /\ slot_owner'[s] # NoReq => s = t
    BY <1>4 DEF RequestsAccounted
  <2> QED
    BY <1>1, <1>6, <1>9, <2>2, <2>3, <2>4 DEF RequestsAccounted
<1>17. DescriptorsAgree'
  <2>1. ASSUME NEW s \in Members(submit_queue)
        PROVE  s \in Slots /\ s # a2 /\ slot_owner[s] \in Clients /\ slot_owner[s] # c
    <3>1. s \in Slots /\ slot_owner[s] \in Clients
      BY SubmittedSlots
    <3>2. s # a2
      BY <1>2 DEF SlotsAccounted
    <3> QED
      BY <1>1, <1>3, <1>5, <3>1, <3>2 DEF RequestsAccounted
  <2>2. \A s \in Members(submit_queue) : slot_owner'[s] = slot_owner[s]
    BY <1>4, <2>1
  <2>3. \A b \in Clients : task[b] = "begun" \/ Queued(b) => b # c
    BY <1>6
  <2> QED
    BY <1>1, <1>9, <2>1, <2>2, <2>3 DEF DescriptorsAgree, Queued
<1> QED
  BY <1>12, <1>13, <1>14, <1>15, <1>16, <1>17

LEMMA ResubmitStep ==
    ASSUME DriverInv, Resubmit
    PROVE  DriverInv'
<1> USE DEF DriverInv
<1>1. /\ pc = "resubmit" /\ pc' = "reply" /\ a4 \in Clients
      /\ UNCHANGED <<ioreq, task, a2, d1, d2, a4>>
  BY DEF Resubmit, clientVars, HandlerReads
<1>2. InHand = {} /\ InHand' = {} /\ \A b \in Clients : BeingReplied(b)' <=> BeingReplied(b)
  BY <1>1 DEF InHand, BeingReplied
<1>3. HandlerReads'
  BY <1>1 DEF HandlerReads
<1>4. CASE dev_pending = <<>> /\ UNCHANGED <<poolVars, rings, int_enable, data, ports>>
  <2>1. UNCHANGED <<submit_queue, completion_queue, submit_overflow, desc, slot_owner,
                    dev_outstanding, dev_pending>>
    BY <1>4 DEF poolVars, rings, data
  <2>2. DriverTypes'
    BY <1>1, <2>1 DEF DriverTypes
  <2>3. SlotsAccounted' /\ FreeSlots' = FreeSlots
    BY <1>2, <2>1 DEF SlotsAccounted, FreeSlots
  <2>4. PoolCounts'
    BY <1>1, <1>4, <2>1, <2>3 DEF PoolCounts
  <2>5. RequestsAccounted' /\ DescriptorsAgree'
    BY <1>1, <1>2, <2>1 DEF RequestsAccounted, Owner, Queued, DescriptorsAgree
  <2> QED
    BY <1>3, <2>2, <2>3, <2>4, <2>5
<1>5. CASE dev_pending # <<>> /\ submit_or_queue(Head(dev_pending), Tail(dev_pending))
  <2> DEFINE c == Head(dev_pending)
             rest == Tail(dev_pending)
  <2>1. /\ dev_pending \in Seq(Clients) /\ Distinct(dev_pending)
        /\ FreeSlots = {a2}
    BY <1>1, <1>5 DEF DriverTypes, RequestsAccounted, PoolCounts
  <2>2. /\ c \in Clients /\ rest \in Seq(Clients) /\ Distinct(rest)
        /\ Members(rest) = Members(dev_pending) \ {c} /\ c \in Members(dev_pending)
    BY <1>5, <2>1, TailMember
  <2>3. submit_or_queue(c, rest)
    BY <1>5
  <2> HIDE DEF c, rest
  <2>4. /\ Queued(c) /\ ~Owner(c) /\ ~BeingReplied(c) /\ c # NoReq
        /\ DescriptorOf(ioreq[c].request) \in Descriptors
    BY <2>2, DeviceAssumption DEF Queued, RequestsAccounted, DescriptorsAgree
  <2>5. completion_queue' = completion_queue /\ submit_overflow' = 0
    BY <2>2, <2>3, SubmitOrQueue
  <2>6. PICK s \in FreeSlots : Submitted(c, s, rest)
    <3>1. FreeSlots # {}
      BY <2>1
    <3> QED
      BY <2>2, <2>3, <3>1, SubmitOrQueue
  <2>7. /\ s \in Slots
        /\ submit_queue' \in Seq(Slots) /\ desc' \in [Readable -> Descriptors]
        /\ slot_owner' \in [Slots -> Clients \cup {NoReq}]
        /\ dev_outstanding' \in Nat
        /\ SlotsAccounted'
        /\ dev_outstanding' = Cardinality(Slots \ FreeSlots)'
        /\ FreeSlots' = FreeSlots \ {s}
        /\ Members(submit_queue)' = Members(submit_queue) \cup {s}
        /\ \A t \in Slots : slot_owner'[t] = IF t = s THEN c ELSE slot_owner[t]
        /\ \A t \in Members(submit_queue)' :
              desc'[t] = DescriptorOf(ioreq[slot_owner'[t]].request)
    BY <1>1, <1>2, <2>2, <2>4, <2>5, <2>6, SubmittedPool
  <2>8. dev_pending' = rest
    BY <2>6 DEF Submitted
  <2>9. DriverTypes'
    BY <1>1, <2>2, <2>5, <2>7, <2>8 DEF DriverTypes
  <2>10. PoolCounts'
    BY <1>1, <2>1, <2>5, <2>6, <2>7 DEF PoolCounts
  <2>11. RequestsAccounted'
    <3>1. \A b \in Clients : Owner(b)' <=> b = c \/ Owner(b)
      <4>1. slot_owner[s] = NoReq /\ NoReq \notin Clients
        BY <2>6, DeviceAssumption DEF FreeSlots
      <4> QED
        BY <2>7, <4>1 DEF Owner
    <3>2. \A b \in Clients : Queued(b)' <=> b # c /\ Queued(b)
      BY <2>2, <2>8 DEF Queued
    <3>3. \A t, u \in Slots : slot_owner'[t] = slot_owner'[u] /\ slot_owner'[t] # NoReq => t = u
      BY <2>2, <2>4, <2>7 DEF RequestsAccounted, Owner
    <3>4. Distinct(dev_pending)'
      BY <2>2, <2>8
    <3> QED
      BY <1>1, <1>2, <2>2, <2>4, <3>1, <3>2, <3>3, <3>4 DEF RequestsAccounted
  <2>12. DescriptorsAgree'
    BY <1>1, <2>2, <2>7, <2>8 DEF DescriptorsAgree, Queued
  <2> QED
    BY <1>3, <2>7, <2>9, <2>10, <2>11, <2>12
<1> QED
  BY <1>4, <1>5 DEF Resubmit

(***************************************************************************)
(* The engine executes the submission at the head: its slot moves from one *)
(* ring to the other, carrying the outcome of that execution.              *)
(***************************************************************************)
LEMMA ExecuteFacts ==
    ASSUME DriverInv, Execute
    PROVE  LET s == Head(submit_queue) d == desc[s]
           IN  /\ submit_queue # <<>> /\ s \in Slots /\ s \in Members(submit_queue)
               /\ d \in Descriptors /\ d \in DescriptorType
               /\ \E o \in execute(s, d) :
                     LET e == [ptr |-> s, error |-> o.error, actual |-> actual(o)]
                     IN /\ o \in OutcomeType /\ e \in SlotCompletion
                        /\ completion_queue' = Append(completion_queue, e)
                        /\ mem' = MemAfter(d, o.moved, mem, disk)
                        /\ disk' = DiskAfter(d, o.moved, mem, disk)
               /\ submit_queue' = Tail(submit_queue)
               /\ UNCHANGED <<submit_overflow, desc>>
<1> USE DEF DriverInv
<1> DEFINE s == Head(submit_queue)
           d == desc[s]
<1>1. submit_queue # <<>> /\ s \in Slots /\ s \in Members(submit_queue)
  BY TailMember DEF Execute, CanExecute, DriverTypes
<1>2. s \in Readable /\ s \in Ptrs
  BY <1>1, DeviceAssumption, TransferAssumption
<1>3. d \in Descriptors /\ d \in DescriptorType
  BY <1>2, TransferAssumption DEF DriverTypes
<1>4. PICK o \in execute(s, d) :
        /\ completion_queue' = Push(completion_queue,
                                    [ptr |-> s, error |-> o.error, actual |-> actual(o)])
        /\ mem' = MemAfter(d, o.moved, mem, disk)
        /\ disk' = DiskAfter(d, o.moved, mem, disk)
  BY <1>2 DEF Execute
<1>5. o \in OutcomeType
  BY <1>2, <1>3, OutcomeBounds
<1>6. [ptr |-> s, error |-> o.error, actual |-> actual(o)] \in SlotCompletion
  <2>1. actual(o) \in Nat
    BY <1>5, TransferAssumption DEF actual, OutcomeType
  <2> QED
    BY <1>1, <1>5, <2>1 DEF SlotCompletion, OutcomeType
<1>7. completion_queue' = Append(completion_queue,
                                 [ptr |-> s, error |-> o.error, actual |-> actual(o)])
  BY <1>4 DEF Push, Execute, CanExecute
<1>8. submit_queue' = Tail(submit_queue) /\ UNCHANGED <<submit_overflow, desc>>
  BY DEF Execute
<1> QED
  BY <1>1, <1>3, <1>4, <1>5, <1>6, <1>7, <1>8

LEMMA EngineStep ==
    ASSUME DriverInv, Execute, Line
    PROVE  DriverInv'
<1> USE DEF DriverInv
<1>1. UNCHANGED <<ioreq, task, slot_owner, dev_outstanding, dev_pending, pc, a2, d1, d2, a4>>
  BY DEF Line, driverVars, clientVars, poolVars, intVars
<1> DEFINE s == Head(submit_queue)
<1>2. /\ submit_queue # <<>> /\ s \in Slots /\ s \in Members(submit_queue)
      /\ submit_queue' = Tail(submit_queue) /\ UNCHANGED <<submit_overflow, desc>>
  BY ExecuteFacts
<1>3. PICK e \in SlotCompletion : e.ptr = s /\ completion_queue' = Append(completion_queue, e)
  BY ExecuteFacts
<1>4. /\ submit_queue' \in Seq(Slots) /\ Distinct(submit_queue)'
      /\ Members(submit_queue)' = Members(submit_queue) \ {s}
  BY <1>2, TailMember DEF DriverTypes, SlotsAccounted
<1> HIDE DEF s
<1>5. s \notin PtrsOf(completion_queue) /\ s \notin InHand
  BY <1>2 DEF SlotsAccounted
<1>6. /\ completion_queue' \in Seq(SlotCompletion) /\ completion_queue' # <<>>
      /\ PtrsOf(completion_queue)' = PtrsOf(completion_queue) \cup {s}
      /\ DistinctPtrs(completion_queue)'
      /\ completion_queue # <<>> => completion_queue'[1] = completion_queue[1]
  BY <1>3, <1>5, AppendCompletion DEF DriverTypes, SlotsAccounted
<1>7. DriverTypes'
  BY <1>1, <1>2, <1>4, <1>6 DEF DriverTypes
<1>8. InHand' = InHand /\ FreeSlots' = FreeSlots
  BY <1>1 DEF InHand, FreeSlots
<1>9. SlotsAccounted'
  BY <1>1, <1>2, <1>4, <1>5, <1>6, <1>8 DEF SlotsAccounted
<1>10. PoolCounts' /\ HandlerReads'
  BY <1>1, <1>2, <1>6, <1>8 DEF PoolCounts, HandlerReads
<1>11. RequestsAccounted'
  BY <1>1 DEF RequestsAccounted, Owner, Queued, BeingReplied
<1>12. DescriptorsAgree'
  BY <1>1, <1>2, <1>4 DEF DescriptorsAgree, Queued
<1> QED
  BY <1>7, <1>9, <1>10, <1>11, <1>12

LEMMA DriverStep == DriverInv /\ [DevNext]_devVars => DriverInv'
<1> SUFFICES ASSUME DriverInv, [DevNext]_devVars PROVE DriverInv'
  OBVIOUS
<1>1. ASSUME NEW c \in Clients, BeginIO(c) \/ Submit(c) \/ AbortIO(c) \/ WaitIO(c)
      PROVE  DriverInv'
  BY <1>1, BeginStep, SubmitStep, AbortStep, WaitStep
<1>2. CASE TakeInt2 \/ IntHandler
  BY <1>2, HandlerQuiet, AdvanceStep, CompleteStep, ResubmitStep, ReplyStep DEF IntHandler
<1>3. CASE Line
  BY <1>3, HandlerQuiet, EngineStep DEF Line, Tick
<1>4. CASE UNCHANGED devVars
  BY <1>4, HandlerQuiet
<1> QED
  BY <1>1, <1>2, <1>3, <1>4 DEF DevNext

(* The driver's bookkeeping stays consistent through every interleaving of
   tasks, handler and engine: each owned slot is in one place, each request in
   one place, the handler's registers describe the head of the ring, and the
   descriptor the card will read is the one the client asked for. *)
THEOREM DriverInvariant == DevSpec => []DriverInv
BY DriverInit, DriverStep, PTL DEF DevSpec

-----------------------------------------------------------------------------
(* The slot pool and the card agree, for any number of clients and slots:
   a slot has an owner exactly while the card or the handler holds it,
   DEV_OUTSTANDING counts them, a request waits on DEV_PENDING only while no
   slot is free, and no doorbell is ever dropped: "this driver structurally
   cannot over-submit" (dev_beginio). *)
THEOREM PoolIsTheCards == DevSpec => []PoolAgreesWithCard
<1>1. DriverInv => PoolAgreesWithCard
  <2> SUFFICES ASSUME DriverInv PROVE PoolAgreesWithCard
    OBVIOUS
  <2>1. \A s \in Slots : InCard(s)
           <=> s \in Members(submit_queue) \cup PtrsOf(completion_queue) \cup InHand
    BY DEF InCard, Members, PtrsOf, InHand
  <2> QED
    BY <2>1 DEF DriverInv, SlotsAccounted, PoolCounts, PoolAgreesWithCard
<1> QED
  BY <1>1, DriverInvariant, PTL

(* A task that is out of WaitIO has its IORequest back for good: it is in no
   slot, not on DEV_PENDING, and not in the register the handler will reply
   to, so the task may reuse or free it. *)
THEOREM ReturnedIsReleased == DevSpec => []ReturnedMeansReleased
<1>1. DriverInv => ReturnedMeansReleased
  <2> SUFFICES ASSUME DriverInv, NEW c \in Clients, task[c] = "idle"
               PROVE  /\ \A s \in Slots : slot_owner[s] # c
                      /\ ~Pending(c)
                      /\ ~(pc \in {"resubmit", "reply"} /\ a4 = c)
    BY DEF ReturnedMeansReleased
  <2>1. ~Owner(c) /\ ~Queued(c) /\ ~BeingReplied(c)
    BY DEF DriverInv, RequestsAccounted
  <2> QED
    BY <2>1 DEF Owner, Queued, BeingReplied, Pending, Members
<1> QED
  BY <1>1, DriverInvariant, PTL

-----------------------------------------------------------------------------
(***************************************************************************)
(* The refinement of BlockService: what the service sees of a client, by   *)
(* the place that holds its request.                                       *)
(***************************************************************************)
NoRq == [command |-> "none", unit |-> 0, length |-> 0, offset |-> 0, buffer |-> 0]
NoRs == [error |-> "none", actual |-> 0]
Answer(error, actual_bytes) == [error |-> hb_err_to_io_error(error), actual |-> actual_bytes]
Asked(c) == IF Phase(c) = "issued" THEN DescriptorOf(ioreq[c].request) ELSE NoRq
View(c) == <<Phase(c), Asked(c), Result(c)>>

InSubmit(c) == \E s \in Members(submit_queue) : slot_owner[s] = c
Free(c) == task[c] = "waiting" /\ ~Queued(c) /\ ~Owner(c)
Kept(c) == [error |-> ioreq[c].io_error,
            actual |-> IF ioreq[c].io_error = "IOERR_ABORTED" THEN 0 ELSE ioreq[c].request.actual]

ViewsOf(c) ==
    /\ task[c] = "idle" => View(c) = <<"idle", NoRq, NoRs>>
    /\ task[c] = "begun" \/ Queued(c) \/ InSubmit(c) =>
          View(c) = <<"issued", DescriptorOf(ioreq[c].request), NoRs>>
    /\ \A i \in 1 .. Len(completion_queue) : slot_owner[completion_queue[i].ptr] = c =>
          View(c) = <<"performed", NoRq,
                      Answer(completion_queue[i].error, completion_queue[i].actual)>>
    /\ pc = "complete" /\ slot_owner[a2] = c => View(c) = <<"performed", NoRq, Answer(d1, d2)>>
    /\ Free(c) => View(c) = <<IF ioreq[c].ln_type = "REPLYMSG" THEN "done" ELSE "performed",
                              NoRq, Kept(c)>>

Places(c) ==
    \/ task[c] \in {"idle", "begun"} \/ Queued(c) \/ InSubmit(c)
    \/ \E i \in 1 .. Len(completion_queue) : slot_owner[completion_queue[i].ptr] = c
    \/ pc = "complete" /\ slot_owner[a2] = c
    \/ Free(c)

LEMMA Views == DriverInv => \A c \in Clients : ViewsOf(c) /\ Places(c)
<1> SUFFICES ASSUME DriverInv, NEW c \in Clients PROVE ViewsOf(c) /\ Places(c)
  OBVIOUS
<1> USE DEF DriverInv
<1>1. c # NoReq /\ task[c] \in {"idle", "begun", "waiting"}
  BY DeviceAssumption DEF DriverTypes
<1>2. Issued(c) <=> task[c] = "begun" \/ Queued(c) \/ InSubmit(c)
  BY DEF Issued, Queued, InSubmit, Members, Pending
<1>3. ASSUME NEW i \in 1 .. Len(completion_queue), slot_owner[completion_queue[i].ptr] = c
      PROVE  /\ Owner(c) /\ completion_queue[i].ptr \in PtrsOf(completion_queue)
             /\ completion_queue[i].ptr \in Slots
  <2>1. completion_queue[i].ptr \in PtrsOf(completion_queue)
    BY DEF PtrsOf
  <2> QED
    BY <1>3, <2>1, SubmittedSlots
<1>4. InSubmit(c) => Owner(c)
  BY SubmittedSlots DEF InSubmit
<1>5. pc = "complete" /\ slot_owner[a2] = c => Owner(c)
  BY SubmittedSlots DEF InHand
<1>6. Owner(c) => task[c] = "waiting" /\ ~Queued(c) /\ ioreq[c].ln_type = "MESSAGE"
  BY DEF RequestsAccounted
<1>7. Queued(c) => task[c] = "waiting"
  BY DEF RequestsAccounted
<1>8. \A s, t \in Slots : slot_owner[s] = c /\ slot_owner[t] = c => s = t
  BY <1>1 DEF RequestsAccounted
<1>9. ASSUME task[c] = "idle" PROVE View(c) = <<"idle", NoRq, NoRs>>
  BY <1>9 DEF View, Asked, Phase, Result, NoRs
<1>10. ASSUME task[c] = "begun" \/ Queued(c) \/ InSubmit(c)
       PROVE  View(c) = <<"issued", DescriptorOf(ioreq[c].request), NoRs>>
  <2>1. Phase(c) = "issued"
    BY <1>2, <1>4, <1>6, <1>7, <1>10 DEF Phase
  <2> QED
    BY <2>1 DEF View, Asked, Result, NoRs
<1>11. ASSUME NEW i \in 1 .. Len(completion_queue), slot_owner[completion_queue[i].ptr] = c
       PROVE  View(c) = <<"performed", NoRq,
                          Answer(completion_queue[i].error, completion_queue[i].actual)>>
  <2>1. Owner(c) /\ completion_queue[i].ptr \in PtrsOf(completion_queue)
        /\ completion_queue[i].ptr \in Slots
    BY <1>3, <1>11
  <2>2. ~InSubmit(c)
    <3>1. \A s \in Members(submit_queue) : s \in Slots /\ s \notin PtrsOf(completion_queue)
      BY SubmittedSlots DEF SlotsAccounted
    <3> QED
      BY <1>8, <1>11, <2>1, <3>1 DEF InSubmit
  <2>3. Phase(c) = "performed"
    BY <1>2, <1>6, <2>1, <2>2 DEF Phase
  <2>4. Unread(c) = {i}
    <3>1. i \in Unread(c)
      BY <1>11 DEF Unread
    <3>2. ASSUME NEW j \in Unread(c) PROVE j = i
      <4>1. j \in 1 .. Len(completion_queue) /\ slot_owner[completion_queue[j].ptr] = c
        BY DEF Unread
      <4>2. completion_queue[j].ptr \in Slots
        BY <1>3, <4>1
      <4> QED
        BY <1>8, <1>11, <2>1, <4>1, <4>2 DEF SlotsAccounted, DistinctPtrs
    <3> QED
      BY <3>1, <3>2
  <2>5. (CHOOSE j \in Unread(c) : TRUE) = i
    BY <2>4
  <2>6. Result(c) = Answer(completion_queue[i].error, completion_queue[i].actual)
    BY <2>3, <2>4, <2>5 DEF Result, Answer
  <2> QED
    BY <2>3, <2>6 DEF View, Asked
<1>12. Unread(c) # {} => \E i \in 1 .. Len(completion_queue) :
                           slot_owner[completion_queue[i].ptr] = c
  BY DEF Unread
<1>13. ASSUME pc = "complete", slot_owner[a2] = c
       PROVE  View(c) = <<"performed", NoRq, Answer(d1, d2)>>
  <2>1. Owner(c) /\ a2 \in Slots /\ InHand = {a2}
    BY <1>5, <1>13 DEF InHand, HandlerReads
  <2>2. ~InSubmit(c) /\ Unread(c) = {}
    <3>1. \A s \in Members(submit_queue) : s \in Slots /\ s # a2
      BY <2>1, SubmittedSlots DEF SlotsAccounted
    <3>2. \A i \in 1 .. Len(completion_queue) :
             slot_owner[completion_queue[i].ptr] = c => completion_queue[i].ptr # a2
      BY <1>3, <2>1 DEF SlotsAccounted
    <3> QED
      BY <1>3, <1>8, <1>12, <1>13, <2>1, <3>1, <3>2 DEF InSubmit
  <2>3. Phase(c) = "performed"
    BY <1>2, <1>6, <2>1, <2>2 DEF Phase
  <2>4. Result(c) = Answer(d1, d2)
    BY <1>13, <2>2, <2>3 DEF Result, Answer
  <2> QED
    BY <2>3, <2>4 DEF View, Asked
<1>14. ASSUME Free(c)
       PROVE  View(c) = <<IF ioreq[c].ln_type = "REPLYMSG" THEN "done" ELSE "performed",
                          NoRq, Kept(c)>>
  <2>1. ~InSubmit(c) /\ Unread(c) = {} /\ ~(pc = "complete" /\ slot_owner[a2] = c)
        /\ task[c] = "waiting" /\ ~Queued(c)
    BY <1>3, <1>4, <1>5, <1>12, <1>14 DEF Free
  <2>2. Phase(c) = IF ioreq[c].ln_type = "REPLYMSG" THEN "done" ELSE "performed"
    BY <1>2, <2>1 DEF Phase
  <2>3. Result(c) = Kept(c)
    BY <2>1, <2>2 DEF Result, Kept
  <2> QED
    BY <2>2, <2>3 DEF View, Asked
<1>15. Places(c)
  <2>1. ASSUME NEW s \in Slots, slot_owner[s] = c
        PROVE  \/ InSubmit(c)
               \/ \E i \in 1 .. Len(completion_queue) : slot_owner[completion_queue[i].ptr] = c
               \/ pc = "complete" /\ slot_owner[a2] = c
    <3>1. s \in Members(submit_queue) \cup PtrsOf(completion_queue) \cup InHand
      BY <1>1, <2>1 DEF SlotsAccounted
    <3>2. CASE s \in Members(submit_queue)
      BY <2>1, <3>2 DEF InSubmit
    <3>3. CASE s \in PtrsOf(completion_queue)
      BY <2>1, <3>3 DEF PtrsOf
    <3>4. CASE s \in InHand
      BY <2>1, <3>4 DEF InHand
    <3> QED
      BY <3>1, <3>2, <3>3, <3>4
  <2> QED
    BY <1>1, <2>1 DEF Places, Free, Owner
<1> QED
  BY <1>9, <1>10, <1>11, <1>13, <1>14, <1>15 DEF ViewsOf

LEMMA ViewsNext == DriverInv' => \A c \in Clients : ViewsOf(c)' /\ Places(c)'
<1>1. (DriverInv => \A c \in Clients : ViewsOf(c) /\ Places(c))'
  BY Views, PTL
<1> QED
  BY <1>1

(* The service's view changes for one client at a time. *)
Bystanders(c) == \A b \in Clients : b # c => View(b)' = View(b)

LEMMA MapStutter ==
    ASSUME \A b \in Clients : View(b)' = View(b), mem' = mem, disk' = disk
    PROVE  UNCHANGED Service!serviceVars
<1>1. \A b \in Clients : Phase(b)' = Phase(b) /\ Asked(b)' = Asked(b) /\ Result(b)' = Result(b)
  BY DEF View
<1> QED
  BY <1>1 DEF Service!serviceVars, Asked, NoRq

(* The mapped variables of the service. *)
MapPhase == [c \in Clients |-> Phase(c)]
MapRequest == [c \in Clients |->
                  IF Phase(c) = "issued" THEN DescriptorOf(ioreq[c].request)
                  ELSE [command |-> "none", unit |-> 0, length |-> 0, offset |-> 0, buffer |-> 0]]
MapResult == [c \in Clients |-> Result(c)]

LEMMA MapStep ==
    ASSUME NEW c \in Clients, Bystanders(c),
           NEW ph, NEW rq, NEW rs, View(c)' = <<ph, rq, rs>>
    PROVE  /\ MapPhase' = [MapPhase EXCEPT ![c] = ph]
           /\ MapRequest' = [MapRequest EXCEPT ![c] = rq]
           /\ MapResult' = [MapResult EXCEPT ![c] = rs]
           /\ Asked(c) = rq => MapRequest' = MapRequest
           /\ Result(c) = rs => MapResult' = MapResult
<1>1. \A b \in Clients : b # c =>
         Phase(b)' = Phase(b) /\ Asked(b)' = Asked(b) /\ Result(b)' = Result(b)
  BY DEF View, Bystanders
<1>2. Phase(c)' = ph /\ Asked(c)' = rq /\ Result(c)' = rs
  BY DEF View
<1>3. MapRequest = [b \in Clients |-> Asked(b)] /\ MapRequest' = [b \in Clients |-> Asked(b)']
  BY DEF MapRequest, Asked, NoRq
<1>4. MapPhase' = [MapPhase EXCEPT ![c] = ph] /\ MapResult' = [MapResult EXCEPT ![c] = rs]
      /\ (Result(c) = rs => MapResult' = MapResult)
  BY <1>1, <1>2 DEF MapPhase, MapResult
<1>5. MapRequest' = [MapRequest EXCEPT ![c] = rq] /\ (Asked(c) = rq => MapRequest' = MapRequest)
  BY <1>1, <1>2, <1>3
<1> QED
  BY <1>4, <1>5

LEMMA MapIssue ==
    ASSUME NEW c \in Clients, Bystanders(c), NEW d \in Descriptors,
           View(c) = <<"idle", NoRq, NoRs>>, View(c)' = <<"issued", d, NoRs>>,
           mem' = mem, disk' = disk
    PROVE  Service!ServiceNext
<1>1. MapPhase[c] = "idle" /\ Result(c) = NoRs
  BY DEF View, MapPhase
<1>2. /\ MapPhase' = [MapPhase EXCEPT ![c] = "issued"]
      /\ MapRequest' = [MapRequest EXCEPT ![c] = d]
      /\ MapResult' = MapResult
  BY <1>1, MapStep
<1>3. Service!Issue(c, d)
  BY <1>1, <1>2 DEF Service!Issue, MapPhase, MapRequest, MapResult
<1> QED
  BY <1>3 DEF Service!ServiceNext

(* The service transfers as the card does. *)
LEMMA SameTransfer ==
    /\ \A e : Service!NoTransfer(e) = NoTransfer(e)
    /\ \A d : Service!transfer(d) = transfer(d)
    /\ \A o : Service!actual(o) = actual(o)
    /\ \A d, n, ram, store :
          /\ Service!MemAfter(d, n, ram, store) = MemAfter(d, n, ram, store)
          /\ Service!DiskAfter(d, n, ram, store) = DiskAfter(d, n, ram, store)
<1>1. \A d : Service!start_lba(d) = start_lba(d) /\ Service!sector_count(d) = sector_count(d)
  BY DEF Service!start_lba, start_lba, Service!sector_count, sector_count
<1>2. \A e : Service!NoTransfer(e) = NoTransfer(e)
  BY DEF Service!NoTransfer, NoTransfer
<1>3. \A o : Service!actual(o) = actual(o)
  BY DEF Service!actual, actual
<1>4. \A d : Service!transfer(d) = transfer(d)
  BY <1>1, <1>2 DEF Service!transfer, transfer
<1>5. Service!Cells = Cells /\ \A u : Service!Sectors(u) = Sectors(u)
  BY DEF Service!Cells, Cells, Service!Sectors, Sectors
<1>6. ASSUME NEW d, NEW n, NEW ram, NEW store
      PROVE  Service!MemAfter(d, n, ram, store) = MemAfter(d, n, ram, store)
  BY <1>1, <1>5 DEF Service!MemAfter, MemAfter
<1>7. ASSUME NEW d, NEW n, NEW ram, NEW store
      PROVE  Service!DiskAfter(d, n, ram, store) = DiskAfter(d, n, ram, store)
  BY <1>1, <1>5 DEF Service!DiskAfter, DiskAfter
<1> QED
  BY <1>2, <1>3, <1>4, <1>6, <1>7

LEMMA MapPerform ==
    ASSUME NEW c \in Clients, Bystanders(c), NEW d, NEW o,
           View(c) = <<"issued", d, NoRs>>,
           View(c)' = <<"performed", NoRq, Answer(o.error, actual(o))>>,
           o \in IF d.unit \notin Attached THEN NoTransfer("BAD_UNIT")
                 ELSE IF d.command \in {"READ", "WRITE"} THEN transfer(d)
                 ELSE NoTransfer("OK"),
           mem' = MemAfter(d, o.moved, mem, disk),
           disk' = DiskAfter(d, o.moved, mem, disk)
    PROVE  Service!ServiceNext
<1>1. MapPhase[c] = "issued" /\ MapRequest[c] = d
  BY DEF View, MapPhase, MapRequest, Asked
<1>2. /\ MapPhase' = [MapPhase EXCEPT ![c] = "performed"]
      /\ MapRequest' = [MapRequest EXCEPT ![c] = NoRq]
      /\ MapResult' = [MapResult EXCEPT ![c] = Answer(o.error, actual(o))]
  BY MapStep
<1>3. \E p \in IF d.unit \notin Attached THEN Service!NoTransfer("BAD_UNIT")
               ELSE IF d.command \in {"READ", "WRITE"} THEN Service!transfer(d)
               ELSE Service!NoTransfer("OK") :
         /\ MapResult' = [MapResult EXCEPT ![c] = [error |-> hb_err_to_io_error(p.error),
                                                   actual |-> Service!actual(p)]]
         /\ mem' = Service!MemAfter(d, p.moved, mem, disk)
         /\ disk' = Service!DiskAfter(d, p.moved, mem, disk)
  BY <1>2, SameTransfer DEF Answer
<1>4. NoRq = Service!NoRequest
  BY DEF NoRq, Service!NoRequest
<1>5. Service!Perform(c)
  BY <1>1, <1>2, <1>3, <1>4 DEF Service!Perform, MapPhase, MapRequest, MapResult
<1> QED
  BY <1>5 DEF Service!ServiceNext

LEMMA MapCancel ==
    ASSUME NEW c \in Clients, Bystanders(c),
           View(c)[1] = "issued",
           View(c)' = <<"done", NoRq, [error |-> "IOERR_ABORTED", actual |-> 0]>>,
           mem' = mem, disk' = disk
    PROVE  Service!ServiceNext
<1>1. MapPhase[c] = "issued"
  BY DEF View, MapPhase
<1>2. /\ MapPhase' = [MapPhase EXCEPT ![c] = "done"]
      /\ MapRequest' = [MapRequest EXCEPT ![c] = NoRq]
      /\ MapResult' = [MapResult EXCEPT ![c] = [error |-> "IOERR_ABORTED", actual |-> 0]]
  BY MapStep
<1>3. Service!Cancel(c)
  BY <1>1, <1>2 DEF Service!Cancel, Service!NoRequest, Service!Aborted, NoRq,
     MapPhase, MapRequest, MapResult
<1> QED
  BY <1>3 DEF Service!ServiceNext

LEMMA MapReply ==
    ASSUME NEW c \in Clients, Bystanders(c), NEW rs,
           View(c) = <<"performed", NoRq, rs>>, View(c)' = <<"done", NoRq, rs>>,
           mem' = mem, disk' = disk
    PROVE  Service!ServiceNext
<1>1. MapPhase[c] = "performed" /\ Asked(c) = NoRq /\ Result(c) = rs
  BY DEF View, MapPhase
<1>2. /\ MapPhase' = [MapPhase EXCEPT ![c] = "done"]
      /\ MapRequest' = MapRequest /\ MapResult' = MapResult
  BY <1>1, MapStep
<1>3. Service!Reply(c)
  BY <1>1, <1>2 DEF Service!Reply, MapPhase, MapRequest, MapResult
<1> QED
  BY <1>3 DEF Service!ServiceNext

LEMMA MapReturn ==
    ASSUME NEW c \in Clients, Bystanders(c), NEW rs,
           View(c) = <<"done", NoRq, rs>>, View(c)' = <<"idle", NoRq, NoRs>>,
           mem' = mem, disk' = disk
    PROVE  Service!ServiceNext
<1>1. MapPhase[c] = "done" /\ Asked(c) = NoRq
  BY DEF View, MapPhase
<1>2. /\ MapPhase' = [MapPhase EXCEPT ![c] = "idle"]
      /\ MapRequest' = MapRequest /\ MapResult' = [MapResult EXCEPT ![c] = NoRs]
  BY <1>1, MapStep
<1>3. Service!Return(c)
  BY <1>1, <1>2 DEF Service!Return, Service!NoResult, NoRs, MapPhase, MapRequest, MapResult
<1> QED
  BY <1>3 DEF Service!ServiceNext

(* A client whose request stays where it is, or moves on without the service
   noticing. *)
LEMMA SameView ==
    ASSUME DriverInv, DriverInv', NEW b \in Clients,
           ioreq'[b] = ioreq[b], task'[b] = task[b],
           Queued(b) => Queued(b)' \/ InSubmit(b)',
           InSubmit(b) => InSubmit(b)',
           \A i \in 1 .. Len(completion_queue) : slot_owner[completion_queue[i].ptr] = b =>
              \/ \E j \in 1 .. Len(completion_queue') :
                    completion_queue'[j] = completion_queue[i]
                    /\ slot_owner'[completion_queue[i].ptr] = b
              \/ /\ pc' = "complete" /\ slot_owner'[a2'] = b
                 /\ d1' = completion_queue[i].error /\ d2' = completion_queue[i].actual,
           pc = "complete" /\ slot_owner[a2] = b =>
              pc' = "complete" /\ slot_owner'[a2'] = b /\ d1' = d1 /\ d2' = d2,
           Free(b) => Free(b)'
    PROVE  View(b)' = View(b)
<1>1. ViewsOf(b) /\ Places(b) /\ ViewsOf(b)'
  BY Views, ViewsNext
<1>2. CASE task[b] = "idle"
  BY <1>1, <1>2 DEF ViewsOf
<1>3. CASE task[b] = "begun" \/ Queued(b) \/ InSubmit(b)
  <2>1. View(b) = <<"issued", DescriptorOf(ioreq[b].request), NoRs>>
    BY <1>1, <1>3 DEF ViewsOf
  <2>2. View(b)' = <<"issued", DescriptorOf(ioreq'[b].request), NoRs>>
    BY <1>1, <1>3 DEF ViewsOf
  <2> QED
    BY <2>1, <2>2
<1>4. ASSUME NEW i \in 1 .. Len(completion_queue), slot_owner[completion_queue[i].ptr] = b
      PROVE  View(b)' = View(b)
  <2>1. View(b) = <<"performed", NoRq,
                    Answer(completion_queue[i].error, completion_queue[i].actual)>>
    BY <1>1, <1>4 DEF ViewsOf
  <2>2. ASSUME NEW j \in 1 .. Len(completion_queue'),
               completion_queue'[j] = completion_queue[i],
               slot_owner'[completion_queue[i].ptr] = b
        PROVE  View(b)' = View(b)
    <3>1. View(b)' = <<"performed", NoRq,
                       Answer(completion_queue'[j].error, completion_queue'[j].actual)>>
      BY <1>1, <2>2 DEF ViewsOf
    <3> QED
      BY <2>1, <2>2, <3>1
  <2>3. ASSUME pc' = "complete", slot_owner'[a2'] = b,
               d1' = completion_queue[i].error, d2' = completion_queue[i].actual
        PROVE  View(b)' = View(b)
    <3>1. View(b)' = <<"performed", NoRq, Answer(d1', d2')>>
      BY <1>1, <2>3 DEF ViewsOf
    <3> QED
      BY <2>1, <2>3, <3>1
  <2> QED
    BY <1>4, <2>2, <2>3
<1>5. CASE pc = "complete" /\ slot_owner[a2] = b
  <2>1. View(b) = <<"performed", NoRq, Answer(d1, d2)>>
    BY <1>1, <1>5 DEF ViewsOf
  <2>2. View(b)' = <<"performed", NoRq, Answer(d1', d2')>>
    BY <1>1, <1>5 DEF ViewsOf
  <2> QED
    BY <1>5, <2>1, <2>2
<1>6. CASE Free(b)
  <2>1. View(b) = <<IF ioreq[b].ln_type = "REPLYMSG" THEN "done" ELSE "performed", NoRq, Kept(b)>>
    BY <1>1, <1>6 DEF ViewsOf
  <2>2. View(b)' = <<IF ioreq'[b].ln_type = "REPLYMSG" THEN "done" ELSE "performed", NoRq,
                     Kept(b)'>>
    BY <1>1, <1>6 DEF ViewsOf
  <2>3. Kept(b)' = Kept(b)
    BY DEF Kept
  <2> QED
    BY <2>1, <2>2, <2>3
<1> QED
  BY <1>1, <1>2, <1>3, <1>4, <1>5, <1>6 DEF Places

Refines == Service!ServiceNext \/ UNCHANGED Service!serviceVars

LEMMA QuietRefines ==
    ASSUME DriverInv, DriverInv',
           TakeInt2 \/ ReadPtr \/ ReadError \/ ReadActual \/ ExitInt2 \/ (Poll /\ Line)
             \/ UNCHANGED devVars
    PROVE  Refines
<1>1. UNCHANGED <<submit_queue, completion_queue, ioreq, task, slot_owner, dev_pending, mem, disk>>
  BY DEF TakeInt2, ReadPtr, ReadError, ReadActual, ExitInt2, Poll, Line, devVars, vars, rings,
     data, driverVars, clientVars, poolVars
<1>2. pc # "complete" \/ UNCHANGED <<pc, a2, d1, d2>>
  BY DEF TakeInt2, ReadPtr, ReadError, ReadActual, ExitInt2, Line, devVars, driverVars, intVars
<1>3. ASSUME NEW b \in Clients PROVE View(b)' = View(b)
  <2>1. (Queued(b)' <=> Queued(b)) /\ (InSubmit(b)' <=> InSubmit(b)) /\ (Free(b)' <=> Free(b))
    BY <1>1 DEF Queued, InSubmit, Free, Owner
  <2> QED
    BY <1>1, <1>2, <2>1, SameView
<1> QED
  BY <1>1, <1>3, MapStutter DEF Refines

LEMMA BeginRefines ==
    ASSUME DriverInv, DriverInv', NEW c \in Clients, BeginIO(c)
    PROVE  Refines
<1>1. /\ task[c] = "idle"
      /\ UNCHANGED <<submit_queue, completion_queue, slot_owner, dev_pending, mem, disk,
                     pc, a2, d1, d2>>
      /\ task' = [task EXCEPT ![c] = "begun"]
  BY DEF BeginIO, poolVars, intVars, vars, rings, data
<1>2. PICK r \in Requests[c] :
         ioreq' = [ioreq EXCEPT ![c].request = r, ![c].ln_type = "MESSAGE"]
  BY DEF BeginIO
<1>3. /\ \A b \in Clients : b # c => ioreq'[b] = ioreq[b] /\ task'[b] = task[b]
      /\ ioreq'[c].request = r /\ task'[c] = "begun"
      /\ DescriptorOf(r) \in Descriptors
  BY <1>1, <1>2, DeviceAssumption DEF DriverInv, DriverTypes
<1>4. Bystanders(c)
  <2> SUFFICES ASSUME NEW b \in Clients, b # c PROVE View(b)' = View(b)
    BY DEF Bystanders
  <2>1. (Queued(b)' <=> Queued(b)) /\ (InSubmit(b)' <=> InSubmit(b)) /\ (Free(b)' <=> Free(b))
    BY <1>1, <1>3 DEF Queued, InSubmit, Free, Owner
  <2> QED
    BY <1>1, <1>3, <2>1, SameView
<1>5. View(c) = <<"idle", NoRq, NoRs>>
  BY <1>1, Views DEF ViewsOf
<1>6. View(c)' = <<"issued", DescriptorOf(ioreq'[c].request), NoRs>>
  BY <1>3, ViewsNext DEF ViewsOf
<1> QED
  BY <1>1, <1>3, <1>4, <1>5, <1>6, MapIssue DEF Refines

LEMMA WaitRefines ==
    ASSUME DriverInv, DriverInv', NEW c \in Clients, WaitIO(c)
    PROVE  Refines
<1>1. /\ task[c] = "waiting" /\ ioreq[c].ln_type = "REPLYMSG"
      /\ UNCHANGED <<submit_queue, completion_queue, ioreq, slot_owner, dev_pending, mem, disk,
                     pc, a2, d1, d2>>
      /\ task' = [task EXCEPT ![c] = "idle"]
  BY DEF WaitIO, poolVars, intVars, vars, rings, data
<1>2. (\A b \in Clients : b # c => task'[b] = task[b]) /\ task'[c] = "idle"
  BY <1>1 DEF DriverInv, DriverTypes
<1>3. Bystanders(c)
  <2> SUFFICES ASSUME NEW b \in Clients, b # c PROVE View(b)' = View(b)
    BY DEF Bystanders
  <2>1. (Queued(b)' <=> Queued(b)) /\ (InSubmit(b)' <=> InSubmit(b)) /\ (Free(b)' <=> Free(b))
    BY <1>1, <1>2 DEF Queued, InSubmit, Free, Owner
  <2> QED
    BY <1>1, <1>2, <2>1, SameView
<1>4. Free(c)
  BY <1>1 DEF Free, DriverInv, RequestsAccounted
<1>5. View(c) = <<"done", NoRq, Kept(c)>>
  BY <1>1, <1>4, Views DEF ViewsOf
<1>6. View(c)' = <<"idle", NoRq, NoRs>>
  BY <1>2, ViewsNext DEF ViewsOf
<1>7. PICK rs : rs = Kept(c)
  OBVIOUS
<1> QED
  BY <1>1, <1>3, <1>5, <1>6, <1>7, MapReturn DEF Refines

LEMMA AbortRefines ==
    ASSUME DriverInv, DriverInv', NEW c \in Clients, AbortIO(c)
    PROVE  Refines
<1>1. /\ task[c] = "waiting"
      /\ UNCHANGED <<submit_queue, completion_queue, task, slot_owner, mem, disk, pc, a2, d1, d2>>
      /\ ioreq' = [ioreq EXCEPT ![c].io_error = "IOERR_ABORTED", ![c].ln_type = "REPLYMSG"]
  BY DEF AbortIO, intVars, vars, rings, data
<1>2. PICK k \in 1 .. Len(dev_pending) :
         /\ dev_pending[k] = c
         /\ dev_pending' = SubSeq(dev_pending, 1, k - 1)
                             \o SubSeq(dev_pending, k + 1, Len(dev_pending))
  BY DEF AbortIO
<1>3. /\ Members(dev_pending)' = Members(dev_pending) \ {c}
      /\ c \in Members(dev_pending)
  <2>1. dev_pending \in Seq(Clients) /\ Distinct(dev_pending)
    BY DEF DriverInv, DriverTypes, RequestsAccounted
  <2>2. Members(dev_pending)' = Members(dev_pending) \ {c}
    BY <1>2, <2>1, RemoveMember
  <2>3. c \in Members(dev_pending)
    BY <1>2 DEF Members
  <2> QED
    BY <2>2, <2>3
<1>4. /\ \A b \in Clients : b # c => ioreq'[b] = ioreq[b]
      /\ ioreq'[c].io_error = "IOERR_ABORTED" /\ ioreq'[c].ln_type = "REPLYMSG"
  BY <1>1 DEF DriverInv, DriverTypes
<1>5. \A b \in Clients : (Queued(b)' <=> b # c /\ Queued(b)) /\ (Owner(b)' <=> Owner(b))
                           /\ (InSubmit(b)' <=> InSubmit(b))
  BY <1>1, <1>3 DEF Queued, Owner, InSubmit
<1>6. Bystanders(c)
  <2> SUFFICES ASSUME NEW b \in Clients, b # c PROVE View(b)' = View(b)
    BY DEF Bystanders
  <2>1. Free(b)' <=> Free(b)
    BY <1>1, <1>5 DEF Free
  <2> QED
    BY <1>1, <1>4, <1>5, <2>1, SameView
<1>7. Queued(c) /\ ~Owner(c)
  BY <1>3 DEF Queued, DriverInv, RequestsAccounted
<1>8. View(c) = <<"issued", DescriptorOf(ioreq[c].request), NoRs>>
  BY <1>7, Views DEF ViewsOf
<1>9. Free(c)'
  BY <1>1, <1>5, <1>7 DEF Free
<1>10. View(c)' = <<"done", NoRq, Kept(c)'>>
  BY <1>4, <1>9, ViewsNext DEF ViewsOf
<1>11. Kept(c)' = [error |-> "IOERR_ABORTED", actual |-> 0]
  BY <1>4 DEF Kept
<1> QED
  BY <1>1, <1>6, <1>8, <1>10, <1>11, MapCancel DEF Refines

LEMMA ReplyRefines ==
    ASSUME DriverInv, DriverInv', ReplyMsg
    PROVE  Refines
<1>1. /\ pc = "reply" /\ a4 \in Clients
      /\ UNCHANGED <<submit_queue, completion_queue, task, slot_owner, dev_pending, mem, disk>>
      /\ ioreq' = [ioreq EXCEPT ![a4].ln_type = "REPLYMSG"]
  BY DEF ReplyMsg, poolVars, vars, rings, data, DriverInv, HandlerReads
<1>2. PICK c \in Clients : c = a4
  BY <1>1
<1>3. BeingReplied(c) /\ ~Owner(c) /\ ~Queued(c) /\ task[c] = "waiting"
      /\ ioreq[c].ln_type = "MESSAGE"
  BY <1>1, <1>2 DEF BeingReplied, DriverInv, RequestsAccounted
<1>4. /\ \A b \in Clients : b # c => ioreq'[b] = ioreq[b]
      /\ ioreq'[c].ln_type = "REPLYMSG" /\ ioreq'[c].request = ioreq[c].request
      /\ ioreq'[c].io_error = ioreq[c].io_error
  BY <1>1, <1>2 DEF DriverInv, DriverTypes
<1>5. \A b \in Clients : /\ (Queued(b)' <=> Queued(b)) /\ (InSubmit(b)' <=> InSubmit(b))
                         /\ (Free(b)' <=> Free(b))
  BY <1>1 DEF Queued, InSubmit, Free, Owner
<1>6. Bystanders(c)
  BY <1>1, <1>4, <1>5, SameView DEF Bystanders
<1>7. Free(c) /\ Free(c)'
  BY <1>3, <1>5 DEF Free
<1>8. View(c) = <<"performed", NoRq, Kept(c)>>
  BY <1>3, <1>7, Views DEF ViewsOf
<1>9. View(c)' = <<"done", NoRq, Kept(c)'>>
  BY <1>4, <1>7, ViewsNext DEF ViewsOf
<1>10. Kept(c)' = Kept(c)
  BY <1>4 DEF Kept
<1>11. PICK rs : rs = Kept(c)
  OBVIOUS
<1> QED
  BY <1>1, <1>6, <1>8, <1>9, <1>10, <1>11, MapReply DEF Refines

(* Taking a free slot moves c's request from the task or from DEV_PENDING to
   the submission ring, which the service does not see. *)
LEMMA TakeSlotRefines ==
    ASSUME DriverInv, DriverInv', NEW c \in Clients, NEW s, NEW pending,
           Submitted(c, s, pending),
           task[c] = "begun" \/ Queued(c), ~Owner(c),
           \A b \in Clients : b # c => (b \in Members(pending) <=> Queued(b)),
           \A b \in Clients : b # c => task'[b] = task[b],
           UNCHANGED <<ioreq, completion_queue, mem, disk, d1, d2, a2>>,
           pc # "complete", pc' # "complete"
    PROVE  Refines
<1>1. s \in Slots /\ slot_owner[s] = NoReq /\ c # NoReq /\ NoReq \notin Clients
  BY DeviceAssumption DEF Submitted, FreeSlots
<1>2. \A t \in Slots : slot_owner'[t] = IF t = s THEN c ELSE slot_owner[t]
  BY <1>1 DEF Submitted, DriverInv, DriverTypes
<1>3. Members(submit_queue)' = Members(submit_queue) \cup {s}
  BY <1>1, AppendMember DEF Submitted, DriverInv, DriverTypes
<1>4. Members(submit_queue) \subseteq Slots /\ PtrsOf(completion_queue) \subseteq Slots
  BY SubmittedSlots
<1>5. ASSUME NEW b \in Clients, b # c PROVE View(b)' = View(b)
  <2>1. Queued(b)' <=> Queued(b)
    BY <1>5 DEF Queued, Submitted
  <2>2. InSubmit(b) => InSubmit(b)'
    BY <1>1, <1>2, <1>3, <1>4 DEF InSubmit
  <2>3. Owner(b)' <=> Owner(b)
    BY <1>1, <1>2, <1>5 DEF Owner
  <2>4. Free(b) => Free(b)'
    BY <1>5, <2>1, <2>3 DEF Free
  <2>5. ASSUME NEW i \in 1 .. Len(completion_queue), slot_owner[completion_queue[i].ptr] = b
        PROVE  slot_owner'[completion_queue[i].ptr] = b
    <3>1. completion_queue[i].ptr \in Slots
      BY <1>4 DEF PtrsOf
    <3> QED
      BY <1>1, <1>2, <2>5, <3>1
  <2> QED
    BY <1>5, <2>1, <2>2, <2>4, <2>5, SameView
<1>6. View(c)' = View(c)
  <2>1. View(c) = <<"issued", DescriptorOf(ioreq[c].request), NoRs>>
    BY Views DEF ViewsOf
  <2>2. InSubmit(c)'
    BY <1>1, <1>2, <1>3 DEF InSubmit
  <2>3. View(c)' = <<"issued", DescriptorOf(ioreq'[c].request), NoRs>>
    BY <2>2, ViewsNext DEF ViewsOf
  <2> QED
    BY <2>1, <2>3
<1> QED
  BY <1>5, <1>6, MapStutter DEF Refines

LEMMA SubmitRefines ==
    ASSUME DriverInv, DriverInv', NEW c \in Clients, Submit(c)
    PROVE  Refines
<1>1. /\ pc = "out" /\ task[c] = "begun" /\ submit_or_queue(c, dev_pending)
      /\ UNCHANGED <<ioreq, pc, a2, d1, d2>>
      /\ task' = [task EXCEPT ![c] = "waiting"]
  BY DEF Submit, intVars
<1>2. (\A b \in Clients : b # c => task'[b] = task[b]) /\ task'[c] = "waiting"
  BY <1>1 DEF DriverInv, DriverTypes
<1>3. ~Owner(c)
  BY <1>1 DEF DriverInv, RequestsAccounted
<1>4. completion_queue' = completion_queue /\ mem' = mem /\ disk' = disk
  BY <1>1, SubmitOrQueue
<1>5. ASSUME NEW s \in FreeSlots, Submitted(c, s, dev_pending) PROVE Refines
  <2>1. \A b \in Clients : b # c => (b \in Members(dev_pending) <=> Queued(b))
    BY DEF Queued
  <2>2. PICK pending : pending = dev_pending
    OBVIOUS
  <2>3. Submitted(c, s, pending) /\ \A b \in Clients : b # c => (b \in Members(pending) <=> Queued(b))
    BY <1>5, <2>1, <2>2
  <2> QED
    BY <1>1, <1>2, <1>3, <1>4, <2>3, TakeSlotRefines
<1>6. ASSUME dev_pending' = Append(dev_pending, c), UNCHANGED <<slot_owner, submit_queue>>
      PROVE  Refines
  <2>1. dev_pending \in Seq(Clients)
    BY DEF DriverInv, DriverTypes
  <2>2. Members(dev_pending)' = Members(dev_pending) \cup {c}
    BY <1>6, <2>1, AppendMember
  <2>3. ASSUME NEW b \in Clients, b # c PROVE View(b)' = View(b)
    <3>1. (Queued(b)' <=> Queued(b)) /\ (InSubmit(b)' <=> InSubmit(b)) /\ (Free(b)' <=> Free(b))
      BY <1>2, <1>6, <2>2, <2>3 DEF Queued, InSubmit, Free, Owner
    <3> QED
      BY <1>1, <1>2, <1>4, <1>6, <2>3, <3>1, SameView
  <2>4. View(c) = <<"issued", DescriptorOf(ioreq[c].request), NoRs>>
    BY <1>1, Views DEF ViewsOf
  <2>5. Queued(c)'
    BY <2>2 DEF Queued
  <2>6. View(c)' = <<"issued", DescriptorOf(ioreq'[c].request), NoRs>>
    BY <2>5, ViewsNext DEF ViewsOf
  <2>7. \A b \in Clients : View(b)' = View(b)
    BY <1>1, <2>3, <2>4, <2>6
  <2> QED
    BY <1>4, <2>7, MapStutter DEF Refines
<1> QED
  BY <1>1, <1>5, <1>6, SubmitOrQueue

LEMMA ResubmitRefines ==
    ASSUME DriverInv, DriverInv', Resubmit
    PROVE  Refines
<1>1. /\ pc = "resubmit" /\ pc' = "reply"
      /\ UNCHANGED <<ioreq, task, a2, d1, d2>>
  BY DEF Resubmit, clientVars
<1>2. CASE dev_pending = <<>> /\ UNCHANGED <<poolVars, rings, int_enable, data, ports>>
  <2>1. UNCHANGED <<submit_queue, completion_queue, slot_owner, dev_pending, mem, disk>>
    BY <1>2 DEF poolVars, rings, data
  <2>2. ASSUME NEW b \in Clients PROVE View(b)' = View(b)
    <3>1. (Queued(b)' <=> Queued(b)) /\ (InSubmit(b)' <=> InSubmit(b)) /\ (Free(b)' <=> Free(b))
      BY <1>1, <2>1 DEF Queued, InSubmit, Free, Owner
    <3> QED
      BY <1>1, <2>1, <3>1, SameView
  <2> QED
    BY <2>1, <2>2, MapStutter DEF Refines
<1>3. CASE dev_pending # <<>> /\ submit_or_queue(Head(dev_pending), Tail(dev_pending))
  <2>1. /\ dev_pending \in Seq(Clients) /\ Distinct(dev_pending) /\ FreeSlots = {a2}
    BY <1>1, <1>3 DEF DriverInv, DriverTypes, RequestsAccounted, PoolCounts
  <2>2. PICK c \in Clients, rest \in Seq(Clients) :
           /\ submit_or_queue(c, rest)
           /\ Members(rest) = Members(dev_pending) \ {c} /\ c \in Members(dev_pending)
    BY <1>3, <2>1, TailMember
  <2>3. Queued(c) /\ ~Owner(c)
    BY <2>2 DEF Queued, DriverInv, RequestsAccounted
  <2>4. \A b \in Clients : b # c => (b \in Members(rest) <=> Queued(b))
    BY <2>2 DEF Queued
  <2>5. completion_queue' = completion_queue /\ mem' = mem /\ disk' = disk
    BY <2>2, SubmitOrQueue
  <2>6. PICK s \in FreeSlots : Submitted(c, s, rest)
    BY <2>1, <2>2, SubmitOrQueue
  <2> QED
    BY <1>1, <2>3, <2>4, <2>5, <2>6, TakeSlotRefines
<1> QED
  BY <1>2, <1>3 DEF Resubmit

LEMMA AdvanceRefines ==
    ASSUME DriverInv, DriverInv', WriteAdvance
    PROVE  Refines
<1>1. /\ pc = "advance" /\ pc' = "complete"
      /\ UNCHANGED <<submit_queue, ioreq, task, slot_owner, dev_pending, mem, disk, a2, d1, d2>>
      /\ completion_queue # <<>> /\ completion_queue' = Tail(completion_queue)
  BY DEF WriteAdvance, Advance, clientVars, poolVars, data, DriverInv, HandlerReads
<1>2. /\ completion_queue[1].ptr = a2
      /\ d1 = completion_queue[1].error /\ d2 = completion_queue[1].actual
  BY <1>1 DEF DriverInv, HandlerReads
<1>3. completion_queue \in Seq(SlotCompletion) /\ DistinctPtrs(completion_queue)
  BY DEF DriverInv, DriverTypes, SlotsAccounted
<1>4. /\ Len(completion_queue') = Len(completion_queue) - 1 /\ Len(completion_queue) \in Nat \ {0}
      /\ \A j \in 1 .. Len(completion_queue') : completion_queue'[j] = completion_queue[j + 1]
  BY <1>1, <1>3, TailCompletion
<1>5. ASSUME NEW i \in 1 .. Len(completion_queue), i # 1
      PROVE  \E j \in 1 .. Len(completion_queue') : completion_queue'[j] = completion_queue[i]
  <2>1. i - 1 \in 1 .. Len(completion_queue') /\ (i - 1) + 1 = i
    BY <1>4, <1>5
  <2> QED
    BY <1>4, <2>1
<1>6. ASSUME NEW b \in Clients PROVE View(b)' = View(b)
  <2>1. (Queued(b)' <=> Queued(b)) /\ (InSubmit(b)' <=> InSubmit(b)) /\ (Free(b)' <=> Free(b))
    BY <1>1 DEF Queued, InSubmit, Free, Owner
  <2>2. ASSUME NEW i \in 1 .. Len(completion_queue), slot_owner[completion_queue[i].ptr] = b
        PROVE  \/ \E j \in 1 .. Len(completion_queue') :
                     completion_queue'[j] = completion_queue[i]
                     /\ slot_owner'[completion_queue[i].ptr] = b
               \/ /\ pc' = "complete" /\ slot_owner'[a2'] = b
                  /\ d1' = completion_queue[i].error /\ d2' = completion_queue[i].actual
    <3>1. CASE i = 1
      BY <1>1, <1>2, <2>2, <3>1
    <3>2. CASE i # 1
      BY <1>1, <1>5, <2>2, <3>2
    <3> QED
      BY <3>1, <3>2
  <2> QED
    BY <1>1, <2>1, <2>2, SameView
<1> QED
  BY <1>1, <1>6, MapStutter DEF Refines

LEMMA CompleteRefines ==
    ASSUME DriverInv, DriverInv', Complete
    PROVE  Refines
<1>1. /\ pc = "complete" /\ pc' = "resubmit" /\ a2 \in Slots
      /\ UNCHANGED <<submit_queue, completion_queue, task, dev_pending, mem, disk, a2, d1, d2>>
      /\ slot_owner' = [slot_owner EXCEPT ![a2] = NoReq]
  BY DEF Complete, vars, rings, data, DriverInv, HandlerReads
<1>2. InHand = {a2}
  BY <1>1 DEF InHand
<1>3. PICK c \in Clients : slot_owner[a2] = c
  BY <1>2, SubmittedSlots
<1>4. NoReq \notin Clients
  BY DeviceAssumption
<1>5. \A s \in Slots : slot_owner'[s] = IF s = a2 THEN NoReq ELSE slot_owner[s]
  BY <1>1 DEF DriverInv, DriverTypes
<1>6. ~Queued(c) /\ task[c] = "waiting" /\ ioreq[c].ln_type = "MESSAGE"
  BY <1>1, <1>3 DEF Owner, DriverInv, RequestsAccounted
<1>7. ioreq' = [ioreq EXCEPT ![c].io_error = hb_err_to_io_error(d1), ![c].request.actual = d2]
  BY <1>3 DEF Complete
<1>8. hb_err_to_io_error(d1) # "IOERR_ABORTED"
  BY DEF DriverInv, DriverTypes, Errors, hb_err_to_io_error
<1>9. /\ \A b \in Clients : b # c => ioreq'[b] = ioreq[b]
      /\ ioreq'[c].ln_type = "MESSAGE" /\ ioreq'[c].io_error = hb_err_to_io_error(d1)
      /\ ioreq'[c].request.actual = d2
  BY <1>6, <1>7 DEF DriverInv, DriverTypes, RequestType
<1>10. \A s \in Slots : slot_owner[s] = c => s = a2
  BY <1>1, <1>3, <1>4 DEF DriverInv, RequestsAccounted
<1>11. \A b \in Clients : Owner(b)' <=> b # c /\ Owner(b)
  BY <1>3, <1>4, <1>5, <1>10 DEF Owner
<1>12. ASSUME NEW b \in Clients, b # c PROVE View(b)' = View(b)
  <2>1. Members(submit_queue) \subseteq Slots /\ PtrsOf(completion_queue) \subseteq Slots
    BY SubmittedSlots
  <2>2. (Queued(b)' <=> Queued(b)) /\ (Free(b)' <=> Free(b))
    BY <1>1, <1>11, <1>12 DEF Queued, Free
  <2>3. InSubmit(b) => InSubmit(b)'
    BY <1>1, <1>3, <1>5, <1>12, <2>1 DEF InSubmit
  <2>4. ASSUME NEW i \in 1 .. Len(completion_queue), slot_owner[completion_queue[i].ptr] = b
        PROVE  slot_owner'[completion_queue[i].ptr] = b
    <3>1. completion_queue[i].ptr \in Slots
      BY <2>1 DEF PtrsOf
    <3> QED
      BY <1>3, <1>5, <1>12, <2>4, <3>1
  <2> QED
    BY <1>1, <1>3, <1>9, <1>12, <2>2, <2>3, <2>4, SameView
<1>13. View(c)' = View(c)
  <2>1. View(c) = <<"performed", NoRq, Answer(d1, d2)>>
    BY <1>1, <1>3, Views DEF ViewsOf
  <2>2. Free(c)'
    BY <1>1, <1>6, <1>11 DEF Free, Queued
  <2>3. View(c)' = <<"performed", NoRq, Kept(c)'>>
    BY <1>9, <2>2, ViewsNext DEF ViewsOf
  <2>4. Kept(c)' = Answer(d1, d2)
    BY <1>8, <1>9 DEF Kept, Answer
  <2> QED
    BY <2>1, <2>3, <2>4
<1> QED
  BY <1>1, <1>12, <1>13, MapStutter DEF Refines

(* What a client asks for is a read, a write or a flush, so the card never
   refuses its command. *)
LEMMA AskedCommand ==
    ASSUME NEW r \in RequestType
    PROVE  DescriptorOf(r).command \in {"READ", "WRITE", "FLUSH"}
<1>1. r.command \in AsyncCommands
  BY DEF RequestType
<1>2. classify_async(r).command \in {"READ", "WRITE", "FLUSH"}
  BY <1>1 DEF AsyncCommands, classify_async
<1> QED
  BY <1>2 DEF DescriptorOf

(***************************************************************************)
(* The engine's step is the service's Perform for the owner of the slot at *)
(* the head of the submission ring.                                        *)
(***************************************************************************)
LEMMA EngineRefines ==
    ASSUME DriverInv, DriverInv', Execute, Line
    PROVE  Refines
<1>1. UNCHANGED <<ioreq, task, slot_owner, dev_pending, pc, a2, d1, d2>>
  BY DEF Line, driverVars, clientVars, poolVars, intVars
<1>2. PICK s \in Slots, d \in Descriptors :
         /\ s = Head(submit_queue) /\ d = desc[s]
         /\ submit_queue # <<>> /\ s \in Members(submit_queue)
         /\ submit_queue' = Tail(submit_queue)
         /\ \E o \in execute(s, d) :
               LET e == [ptr |-> s, error |-> o.error, actual |-> actual(o)]
               IN /\ e \in SlotCompletion
                  /\ completion_queue' = Append(completion_queue, e)
                  /\ mem' = MemAfter(d, o.moved, mem, disk)
                  /\ disk' = DiskAfter(d, o.moved, mem, disk)
  BY ExecuteFacts
<1>3. PICK o \in execute(s, d) :
         /\ [ptr |-> s, error |-> o.error, actual |-> actual(o)] \in SlotCompletion
         /\ completion_queue' = Append(completion_queue,
                                       [ptr |-> s, error |-> o.error, actual |-> actual(o)])
         /\ mem' = MemAfter(d, o.moved, mem, disk)
         /\ disk' = DiskAfter(d, o.moved, mem, disk)
  BY <1>2
<1>4. PICK e \in SlotCompletion : /\ e.ptr = s /\ e.error = o.error /\ e.actual = actual(o)
                                  /\ completion_queue' = Append(completion_queue, e)
  BY <1>3
<1>5. PICK c \in Clients : slot_owner[s] = c
  BY <1>2, SubmittedSlots
<1>6. d = DescriptorOf(ioreq[c].request) /\ ioreq[c].request \in RequestType
  BY <1>2, <1>5 DEF DriverInv, DescriptorsAgree, DriverTypes
<1>7. d.command \in {"READ", "WRITE", "FLUSH"}
  BY <1>6, AskedCommand
<1>8. execute(s, d) = IF d.unit \notin Attached THEN NoTransfer("BAD_UNIT")
                      ELSE IF d.command \in {"READ", "WRITE"} THEN transfer(d)
                      ELSE NoTransfer("OK")
  BY <1>7, DeviceAssumption DEF execute
<1>9. /\ Len(completion_queue') = Len(completion_queue) + 1 /\ Len(completion_queue) \in Nat
      /\ \A i \in 1 .. Len(completion_queue) : completion_queue'[i] = completion_queue[i]
      /\ completion_queue'[Len(completion_queue) + 1] = e
  BY <1>4, AppendCompletion DEF DriverInv, DriverTypes
<1>10. Members(submit_queue)' = Members(submit_queue) \ {s}
  <2>1. submit_queue \in Seq(Slots) /\ Distinct(submit_queue)
    BY DEF DriverInv, DriverTypes, SlotsAccounted
  <2> QED
    BY <1>2, <2>1, TailMember
<1>11. Bystanders(c)
  <2> SUFFICES ASSUME NEW b \in Clients, b # c PROVE View(b)' = View(b)
    BY DEF Bystanders
  <2>1. (Queued(b)' <=> Queued(b)) /\ (Free(b)' <=> Free(b))
    BY <1>1 DEF Queued, Free, Owner
  <2>2. InSubmit(b) => InSubmit(b)'
    BY <1>1, <1>5, <1>10 DEF InSubmit
  <2>3. \A i \in 1 .. Len(completion_queue) : slot_owner[completion_queue[i].ptr] = b =>
           \E j \in 1 .. Len(completion_queue') :
              completion_queue'[j] = completion_queue[i]
              /\ slot_owner'[completion_queue[i].ptr] = b
    BY <1>1, <1>9
  <2> QED
    BY <1>1, <2>1, <2>2, <2>3, SameView
<1>12. View(c) = <<"issued", d, NoRs>>
  <2>1. InSubmit(c)
    BY <1>2, <1>5 DEF InSubmit
  <2> QED
    BY <1>6, <2>1, Views DEF ViewsOf
<1>13. View(c)' = <<"performed", NoRq, Answer(o.error, actual(o))>>
  <2>1. PICK n \in 1 .. Len(completion_queue') : completion_queue'[n] = e
    BY <1>9
  <2>2. slot_owner'[completion_queue'[n].ptr] = c
    BY <1>1, <1>4, <1>5, <2>1
  <2>3. View(c)' = <<"performed", NoRq,
                     Answer(completion_queue'[n].error, completion_queue'[n].actual)>>
    BY <2>2, ViewsNext DEF ViewsOf
  <2> QED
    BY <1>4, <2>1, <2>3
<1>14. o \in IF d.unit \notin Attached THEN NoTransfer("BAD_UNIT")
             ELSE IF d.command \in {"READ", "WRITE"} THEN transfer(d)
             ELSE NoTransfer("OK")
  BY <1>8
<1>15. Service!ServiceNext
  BY <1>3, <1>11, <1>12, <1>13, <1>14, MapPerform
<1> QED
  BY <1>15 DEF Refines

LEMMA RefinesStep ==
    DriverInv /\ DriverInv' /\ [DevNext]_devVars => [Service!ServiceNext]_(Service!serviceVars)
<1> SUFFICES ASSUME DriverInv, DriverInv', [DevNext]_devVars PROVE Refines
  BY DEF Refines
<1>1. ASSUME NEW c \in Clients, BeginIO(c) \/ Submit(c) \/ AbortIO(c) \/ WaitIO(c)
      PROVE  Refines
  BY <1>1, BeginRefines, SubmitRefines, AbortRefines, WaitRefines
<1>2. CASE TakeInt2 \/ IntHandler
  BY <1>2, QuietRefines, AdvanceRefines, CompleteRefines, ResubmitRefines, ReplyRefines
     DEF IntHandler
<1>3. CASE Line
  BY <1>3, QuietRefines, EngineRefines DEF Line, Tick
<1>4. CASE UNCHANGED devVars
  BY <1>4, QuietRefines
<1> QED
  BY <1>1, <1>2, <1>3, <1>4 DEF DevNext

LEMMA RefinesInit == DevInit => Service!ServiceInit
<1> SUFFICES ASSUME DevInit PROVE Service!ServiceInit
  OBVIOUS
<1>1. mem \in Service!MemType /\ disk \in Service!DiskType
  BY HostblkAssumption DEF DevInit, MemType, DiskType, Service!MemType, Service!DiskType,
     Cells, Sectors, Service!Cells, Service!Sectors
<1>2. \A c \in Clients : Phase(c) = "idle"
  BY DEF DevInit, Phase
<1>3. \A c \in Clients : Result(c) = NoRs
  BY <1>2 DEF Result, NoRs
<1> QED
  BY <1>1, <1>2, <1>3 DEF Service!ServiceInit, Service!NoRequest, Service!NoResult, NoRs

(* The driver on the card implements the block service, whatever the depth of
   the rings and however many tasks: each request is executed at most once,
   with the parameters it was issued with, and the reply carries the result of
   that execution; only a request still on DEV_PENDING is cancelled. *)
THEOREM DriverImplementsService == DevSpec => ImplementsBlockService
<1>1. DevSpec => []DriverInv
  BY DriverInvariant
<1> QED
  BY <1>1, RefinesInit, RefinesStep, PTL DEF DevSpec, ImplementsBlockService, Service!ServiceSpec
=============================================================================
