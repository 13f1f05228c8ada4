----------------------------- MODULE PktProofs -----------------------------
(***************************************************************************)
(* Theorems about the packet handler, the pktport card and the volume       *)
(* behind it, for every width of the handle counter, every set of error     *)
(* codes (whatever handles they coincide with) and any number of locks and  *)
(* open files of the clients.                                               *)
(***************************************************************************)
EXTENDS PktHandler, TLAPS

-----------------------------------------------------------------------------
(***************************************************************************)
(* The inductive invariant.                                                *)
(***************************************************************************)
Descriptor == [request : [action : Actions \cup {"NONE"}, arg : 0 .. MaxHandle],
               res1 : Int, res2 : Nat, status : {0, 1}]

Types ==
    /\ TypeOK
    /\ desc \in Descriptor
    /\ pkt.action \in Actions \cup {"NONE"}
    /\ wire.res1 \in Int /\ wire.res2 \in Nat

(* The counter has passed every handle it gave out, until it saturates. *)
CounterIsPast ==
    /\ DOMAIN handles \subseteq issued
    /\ \A h \in issued : h \in Unsaturated => h < next_handle
    /\ purged <= next_handle
    /\ inhibited => DOMAIN handles = {}

(* The request's result is known, on the wire or in the descriptor. *)
Completed == pc = "finish" \/ (pc = "poll" /\ desc.status = 1)
Outcome == IF pc = "finish" THEN wire ELSE Result(desc.res1, desc.res2)

(* The slot is taken only while the handler polls for its own request, and
   STATUS is set only by that request's completion. *)
SlotIsOurs ==
    /\ doorbell_overflow = 0
    /\ pending => pc = "poll" /\ desc.status = 0
    /\ pc = "doorbell" => desc.status = 0
    /\ Completed => fresh

(* Nothing the guest holds is the handle h. *)
Unheld(h) ==
    /\ \A a \in DOMAIN flock : flock[a] # h
    /\ \A f \in DOMAIN fharg : fharg[f] # h

(* What the packet in service names, and what was asked of the host. *)
PacketIsSound ==
    pc # "request_loop" =>
        /\ pkt.action \in FindActions => pkt.addr \in FileAddrs \ DOMAIN fharg
        /\ pkt.action \in {"END", "FILE_IO"} => pkt.addr \in DOMAIN fharg
        /\ job = "release" => pkt.action \in LockActions

RequestAgrees ==
    pc \in {"clear_status", "doorbell", "poll"} /\ ~Completed =>
        \/ /\ job = "packet" /\ desc.request.action = pkt.action
           /\ pkt.action = "FREE_LOCK" => desc.request.arg = 0
           /\ pkt.action = "END" => desc.request.arg = fharg[pkt.addr]
        \/ /\ job = "release" /\ desc.request.action = "FREE_LOCK"
           /\ desc.request.arg \in Unsaturated => Unheld(desc.request.arg)

(* A handle on its way from the table to the guest. *)
New(h, kind) ==
    h \in Unsaturated => h \in issued /\ Unheld(h) /\ (h >= purged => Is(h, kind))

ResultAgrees ==
    Completed /\ job = "packet" =>
        /\ pkt.action \in LockActions /\ Outcome.res2 = 0 =>
              Outcome.res1 \in 0 .. MaxHandle /\ New(Outcome.res1, "Lock")
        /\ pkt.action \in FindActions /\ Outcome.res1 # 0 =>
              Outcome.res2 \in HandleRange /\ New(Outcome.res2, "File")
        /\ pkt.action = "END" /\ fharg[pkt.addr] \in Unsaturated =>
              ~Is(fharg[pkt.addr], "File")

(* Held handles were given out, and are known until a purge. *)
LocksKnown ==
    \A a \in DOMAIN flock : flock[a] \in Unsaturated =>
        flock[a] \in issued /\ (flock[a] >= purged => Is(flock[a], "Lock"))

FilesKnown ==
    \A f \in DOMAIN fharg : fharg[f] \in Unsaturated =>
        /\ fharg[f] \in issued
        /\ fharg[f] >= purged /\ ~(pkt.action = "END" /\ pkt.addr = f /\ pc # "request_loop")
              => Is(fharg[f], "File")

(* Every open file of the table belongs to a FileHandle, or is about to. *)
FilesAccounted ==
    \A h \in DOMAIN handles \cap Unsaturated : handles[h] = "File" =>
        \/ \E f \in DOMAIN fharg : fharg[f] = h
        \/ /\ Completed /\ job = "packet" /\ pkt.action \in FindActions
           /\ Outcome.res1 # 0 /\ Outcome.res2 = h

TablesAgree == OwnsItsHandle /\ LocksKnown /\ FilesKnown /\ FilesAccounted

PktInv ==
    /\ Types /\ CounterIsPast /\ SlotIsOurs /\ PacketIsSound /\ RequestAgrees /\ ResultAgrees
    /\ TablesAgree

-----------------------------------------------------------------------------
(***************************************************************************)
(* The four things an action may do to the handle table.                   *)
(***************************************************************************)
Kept(a, h) ==
    /\ UNCHANGED <<handles, next_handle, inhibited, purged, issued>>
    /\ answer' \in [res1 : Int, res2 : Nat]
    /\ a \in LockActions => answer' = Result(0, 0) \/ answer'.res2 # 0
    /\ a \in FindActions => answer'.res1 = 0
    /\ a = "END" => ~Is(h, "File")

Allocated(a) ==
    \E kind \in Kinds :
        /\ handles' = [k \in DOMAIN handles \cup {next_handle} |->
                          IF k = next_handle THEN kind ELSE handles[k]]
        /\ next_handle' = IF next_handle = MaxHandle THEN MaxHandle ELSE next_handle + 1
        /\ issued' = issued \cup {next_handle}
        /\ ~inhibited /\ UNCHANGED <<inhibited, purged>>
        /\ \/ a \in LockActions /\ kind = "Lock" /\ answer' = Result(next_handle, 0)
           \/ a \in FindActions /\ kind = "File" /\ answer' = Result(DOSTRUE, next_handle)

Removed(a, h) ==
    /\ handles' = [k \in DOMAIN handles \ {h} |-> handles[k]]
    /\ answer' = Result(DOSTRUE, 0)
    /\ UNCHANGED <<next_handle, inhibited, purged, issued>>
    /\ \/ a = "FREE_LOCK" /\ h # 0 /\ Is(h, "Lock")
       \/ a = "END" /\ Is(h, "File")

Cleared(a) ==
    /\ a \in {"INHIBIT", "UNINHIBIT"}
    /\ handles' = EmptyTable
    /\ purged' = next_handle
    /\ inhibited' \in BOOLEAN
    /\ answer' = Result(DOSTRUE, 0)
    /\ UNCHANGED <<next_handle, issued>>

LEMMA ExecuteShape ==
    ASSUME Types, CounterIsPast, NEW a \in Actions \cup {"NONE"}, NEW h \in 0 .. MaxHandle,
           execute(a, h)
    PROVE  /\ Kept(a, h) \/ Allocated(a) \/ Removed(a, h) \/ Cleared(a)
           /\ UNCHANGED writable
<1>1. UNCHANGED writable
  BY DEF execute
<1>2. ASSUME NEW r1 \in Int, NEW r2 \in Nat, Answer(r1, r2)
      PROVE  /\ UNCHANGED <<handles, next_handle, inhibited, purged, issued>>
             /\ answer' \in [res1 : Int, res2 : Nat] /\ answer'.res1 = r1 /\ answer'.res2 = r2
             /\ answer' = Result(r1, r2)
  BY <1>2 DEF Answer, Result
<1>3. ASSUME Refuse, a = "END" => ~Is(h, "File") PROVE Kept(a, h)
  <2>1. PICK e \in Errors : Answer(DOSFALSE, e)
    BY <1>3 DEF Refuse
  <2>2. e \in Nat \ {0} /\ DOSFALSE \in Int
    BY PktVolumeAssumption DEF DOSFALSE
  <2> QED
    BY <1>2, <1>3, <2>1, <2>2 DEF Kept, DOSFALSE
<1>4. ASSUME NEW r1 \in Int, NEW r2 \in Nat, Answer(r1, r2),
             a \notin LockActions \cup FindActions, a = "END" => ~Is(h, "File")
      PROVE  Kept(a, h)
  BY <1>2, <1>4 DEF Kept
<1>5. ASSUME a \in LockActions, RootLock PROVE Kept(a, h)
  <2>1. a \notin FindActions /\ a # "END"
    BY <1>5 DEF LockActions, FindActions
  <2> QED
    BY <1>2, <1>5, <2>1 DEF RootLock, Kept
<1>6. ASSUME a \in LockActions, NewLock, ~inhibited PROVE Allocated(a)
  BY <1>6 DEF NewLock, alloc_handle, Allocated, Kinds, Result
<1>7. /\ DOSTRUE \in Int /\ DOSFALSE \in Int /\ READ_WRITE_ERROR \in Int /\ 0 \in Nat /\ 1 \in Int
      /\ \A e \in Errors : e \in Nat \ {0}
  BY PktVolumeAssumption DEF DOSTRUE, DOSFALSE, READ_WRITE_ERROR
<1>8. CASE AlwaysServed(a)
  <2>1. a \notin LockActions \cup FindActions /\ a # "END"
    BY <1>8 DEF AlwaysServed, LockActions, FindActions
  <2>2. Refuse => Kept(a, h)
    BY <1>3, <2>1
  <2>3. \A r1 \in Int, r2 \in Nat : Answer(r1, r2) => Kept(a, h)
    BY <1>4, <2>1
  <2>4. ASSUME NEW state \in BOOLEAN, ClearTable(state), a \in {"INHIBIT", "UNINHIBIT"} PROVE Cleared(a)
    BY <2>4 DEF ClearTable, Cleared, Result
  <2>5. CASE a = "INHIBIT" /\ inhibit_action(TRUE)
    BY <1>1, <1>7, <2>2, <2>3, <2>4, <2>5 DEF inhibit_action
  <2>6. CASE a = "UNINHIBIT" /\ inhibit_action(FALSE)
    BY <1>1, <1>7, <2>2, <2>3, <2>4, <2>6 DEF inhibit_action
  <2>7. CASE Refuse \/ Answer(DOSTRUE, 0)
    BY <1>1, <1>7, <2>2, <2>3, <2>7
  <2> QED
    BY <1>1, <1>8, <2>5, <2>6, <2>7 DEF AlwaysServed, format_action, fill_disk_info
<1>9. CASE inhibited /\ Refuse
  <2>1. ~Is(h, "File")
    BY <1>9 DEF CounterIsPast, Is
  <2> QED
    BY <1>1, <1>3, <1>9, <2>1
<1>10. CASE ~inhibited /\ Served(a, h)
  <2>1. CASE a \in LockActions
    <3>1. Refuse \/ RootLock \/ NewLock
      BY <1>10, <2>1 DEF Served, LockActions, FindActions, locate_object, copy_dir, parent,
         create_dir_action, dup_lock
    <3>2. a # "END"
      BY <2>1 DEF LockActions
    <3> QED
      BY <1>1, <1>3, <1>5, <1>6, <1>10, <2>1, <3>1, <3>2
  <2>2. CASE a \in FindActions
    <3>1. Refuse \/ alloc_handle("File", DOSTRUE, next_handle)
      BY <1>10, <2>2 DEF Served, FindActions, find
    <3>2. a # "END" /\ a \notin LockActions
      BY <2>2 DEF FindActions, LockActions
    <3>3. CASE alloc_handle("File", DOSTRUE, next_handle)
      BY <1>1, <1>10, <2>2, <3>3 DEF alloc_handle, Allocated, Kinds, Result
    <3> QED
      BY <1>1, <1>3, <3>1, <3>2, <3>3
  <2>3. CASE a = "FREE_LOCK"
    <3>1. a \notin LockActions \cup FindActions /\ a # "END"
      BY <2>3 DEF FindActions, LockActions
    <3>2. free_lock(h)
      BY <1>10, <2>3 DEF Served, FindActions
    <3>3. CASE h = 0 /\ Answer(DOSTRUE, 0)
      BY <1>1, <1>4, <1>7, <3>1, <3>3
    <3>4. CASE Is(h, "Lock") /\ remove(h)
      <4>1. h # 0
        BY <3>4, PktVolumeAssumption DEF Is, Types, TypeOK, VolTypeOK, HandleRange
      <4> QED
        BY <1>1, <2>3, <3>4, <4>1 DEF remove, Removed, Result
    <3> QED
      BY <1>1, <1>3, <3>1, <3>2, <3>3, <3>4 DEF free_lock
  <2>4. CASE a = "END"
    <3>1. end(h)
      BY <1>10, <2>4 DEF Served, FindActions
    <3>2. CASE Is(h, "File") /\ remove(h)
      BY <1>1, <2>4, <3>2 DEF remove, Removed, Result
    <3> QED
      BY <1>1, <1>3, <3>1, <3>2 DEF end
  <2>5. CASE a \in {"OBJECT", "INFO", "FILE_IO", "FLUSH"}
    <3>1. a \notin LockActions \cup FindActions /\ a # "END" /\ a # "FREE_LOCK"
      BY <2>5 DEF FindActions, LockActions
    <3>2. Refuse \/ \E r1 \in Int, r2 \in Nat : Answer(r1, r2)
      BY <1>7, <1>10, <2>5, <3>1 DEF Served, LockActions, same_lock, examine, change_object, fill_disk_info, file_io
    <3> QED
      BY <1>1, <1>3, <1>4, <3>1, <3>2
  <2> QED
    BY <1>10, <2>1, <2>2, <2>3, <2>4, <2>5 DEF Served, LockActions
<1> QED
  BY <1>8, <1>9, <1>10 DEF execute

-----------------------------------------------------------------------------
(***************************************************************************)
(* The handler's steps keep the invariant.                                 *)
(***************************************************************************)
LEMMA PktInit == Init => PktInv
<1> SUFFICES ASSUME Init PROVE PktInv
  OBVIOUS
<1>1. /\ MaxHandle \in Nat \ {0}
      /\ writable \in BOOLEAN /\ desc_in_ram \in BOOLEAN
      /\ inhibited = FALSE /\ pending = FALSE
  BY PktVolumeAssumption DEF Init, CardInit, VolInit
<1>2. DOMAIN handles = {} /\ DOMAIN flock = {} /\ DOMAIN fharg = {} /\ issued = {}
  BY DEF Init, CardInit, VolInit, EmptyTable
<1>3. /\ handles \in [DOMAIN handles -> Kinds]
      /\ flock \in [DOMAIN flock -> 0 .. MaxHandle]
      /\ fharg \in [DOMAIN fharg -> HandleRange]
  BY <1>2 DEF Init, CardInit, VolInit, EmptyTable
<1>4. next_handle \in HandleRange /\ purged \in HandleRange /\ purged <= next_handle
  BY <1>1 DEF Init, CardInit, VolInit, HandleRange
<1>5. answer \in [res1 : Int, res2 : Nat]
  BY DEF Init, CardInit, VolInit
<1>6. desc \in Descriptor /\ desc.request \in [action : Actions \cup {"NONE"}, arg : 0 .. MaxHandle]
      /\ desc.res1 \in Int /\ desc.res2 \in Nat /\ desc.status \in {0, 1}
  BY <1>1 DEF Init, CardInit, Descriptor, NoRequest, Request
<1>7. VolTypeOK
  BY <1>1, <1>2, <1>3, <1>4, <1>5 DEF VolTypeOK
<1>8. Types
  BY <1>1, <1>2, <1>3, <1>6, <1>7 DEF Types, TypeOK, Init, CardInit, NoPacket, Packet, Result
<1>9. CounterIsPast
  BY <1>2, <1>4 DEF CounterIsPast
<1>10. SlotIsOurs /\ PacketIsSound /\ RequestAgrees /\ ResultAgrees
  BY <1>1 DEF Init, CardInit, SlotIsOurs, PacketIsSound, RequestAgrees, ResultAgrees, Completed
<1>11. TablesAgree
  BY <1>2 DEF TablesAgree, OwnsItsHandle, LocksKnown, FilesKnown, FilesAccounted
<1> QED
  BY <1>8, <1>9, <1>10, <1>11 DEF PktInv, TablesAgree

(* A packet is taken between packets, when no result is outstanding. *)
LEMMA TakeStep ==
    ASSUME PktInv, NEW p, NEW request,
           p.action \in Actions,
           p.action \in FindActions => p.addr \in FileAddrs \ DOMAIN fharg,
           p.action \in {"END", "FILE_IO"} => p.addr \in DOMAIN fharg,
           request.action = p.action,
           request \in [action : Actions \cup {"NONE"}, arg : 0 .. MaxHandle],
           p.action = "FREE_LOCK" => request.arg = 0,
           p.action = "END" => request.arg = fharg[p.addr],
           handle_packet(p, request)
    PROVE  PktInv'
<1> USE DEF PktInv, Types, TablesAgree
<1>1. /\ UNCHANGED <<handles, next_handle, inhibited, writable, answer, purged, issued>>
      /\ UNCHANGED <<pending, desc_in_ram, doorbell_overflow, dropped_descriptors, int_status>>
      /\ UNCHANGED <<wire, flock, fharg>>
      /\ pc = "request_loop" /\ pc' = "clear_status" /\ pkt' = p /\ job' = "packet"
      /\ desc' = [desc EXCEPT !.request = request]
  BY DEF handle_packet, Build, volVars
<1>2. desc' \in Descriptor
  BY <1>1 DEF Descriptor
<1>3. /\ desc'.request = request /\ desc'.res1 = desc.res1 /\ desc'.res2 = desc.res2
      /\ desc'.status = desc.status
  BY <1>1 DEF Descriptor
<1>4. ~pending /\ doorbell_overflow = 0 /\ ~Completed /\ ~Completed'
  BY <1>1 DEF SlotIsOurs, Completed
<1>5. Types'
  <2>1. VolTypeOK'
    BY <1>1 DEF TypeOK, VolTypeOK
  <2>2. /\ desc'.request \in [action : Actions \cup {"NONE"}, arg : 0 .. MaxHandle]
        /\ desc'.res1 \in Int /\ desc'.res2 \in Nat /\ desc'.status \in {0, 1}
    BY <1>3 DEF Descriptor
  <2>3. pending' \in BOOLEAN /\ desc_in_ram' \in BOOLEAN
    BY <1>1 DEF TypeOK
  <2> QED
    BY <1>1, <1>2, <2>1, <2>2, <2>3 DEF TypeOK
<1>6. CounterIsPast'
  BY <1>1 DEF CounterIsPast
<1>7. SlotIsOurs' /\ PacketIsSound' /\ RequestAgrees' /\ ResultAgrees'
  BY <1>1, <1>3, <1>4 DEF SlotIsOurs, PacketIsSound, RequestAgrees, ResultAgrees
<1>8. OwnsItsHandle' /\ LocksKnown'
  BY <1>1 DEF OwnsItsHandle, LocksKnown, Is
<1>9. FilesKnown' /\ FilesAccounted'
  BY <1>1, <1>4 DEF FilesKnown, FilesAccounted, Is
<1> QED
  BY <1>5, <1>6, <1>7, <1>8, <1>9

(* The five kinds of packet are packets TakeStep speaks of. *)
LEMMA TakeKeeps == PktInv /\ Take => PktInv'
<1> SUFFICES ASSUME PktInv, Take PROVE PktInv'
  OBVIOUS
<1>1. /\ MaxHandle \in Nat \ {0}
      /\ flock \in [DOMAIN flock -> 0 .. MaxHandle]
      /\ fharg \in [DOMAIN fharg -> HandleRange]
  BY PktVolumeAssumption DEF PktInv, Types, TypeOK
<1>2. \A l \in DOMAIN flock \cup {NoAddr} : xlate_lock(l) \in 0 .. MaxHandle
  BY <1>1 DEF xlate_lock
<1>3. ASSUME NEW action \in Actions, NEW arg \in 0 .. MaxHandle
      PROVE  /\ Request(action, arg) \in [action : Actions \cup {"NONE"}, arg : 0 .. MaxHandle]
             /\ Request(action, arg).action = action /\ Request(action, arg).arg = arg
  BY DEF Request
<1>4. CASE TakeLockPacket
  <2>1. PICK action \in LockActions \cup {"OBJECT"}, l \in DOMAIN flock \cup {NoAddr} :
           handle_packet(Packet(action, l), Request(action, xlate_lock(l)))
    BY <1>4 DEF TakeLockPacket, LockPackets, TranslatedLock, Packet
  <2>2. action \in Actions /\ action \notin FindActions \cup {"END", "FILE_IO", "FREE_LOCK"}
    BY DEF Actions, LockActions, FindActions
  <2> QED
    BY <1>2, <1>3, <2>1, <2>2, TakeStep DEF Packet
<1>5. CASE TakeFreeLock
  <2>1. PICK l \in DOMAIN flock \cup {NoAddr} :
           handle_packet(Packet("FREE_LOCK", l), Request("FREE_LOCK", 0))
    BY <1>5 DEF TakeFreeLock, FreePackets, hp_free_lock, d0_after_clear_desc_args, Packet
  <2>2. "FREE_LOCK" \in Actions /\ "FREE_LOCK" \notin FindActions /\ 0 \in 0 .. MaxHandle
    BY <1>1 DEF Actions, FindActions
  <2> QED
    BY <1>3, <2>1, <2>2, TakeStep DEF Packet
<1>6. CASE TakeFind
  <2>1. PICK action \in FindActions, f \in FileAddrs \ DOMAIN fharg,
             l \in DOMAIN flock \cup {NoAddr} :
           handle_packet(Packet(action, f), Request(action, xlate_lock(l)))
    BY <1>6 DEF TakeFind, FindPackets, Packet
  <2>2. action \in Actions /\ action \notin {"END", "FILE_IO", "FREE_LOCK"}
    BY DEF Actions, FindActions
  <2> QED
    BY <1>2, <1>3, <2>1, <2>2, TakeStep DEF Packet
<1>7. CASE TakeFilePacket
  <2>1. PICK action \in {"END", "FILE_IO"}, f \in DOMAIN fharg :
           handle_packet(Packet(action, f), Request(action, fharg[f]))
    BY <1>7 DEF TakeFilePacket, FilePackets, VerbatimHandle, Packet
  <2>2. action \in Actions /\ action \notin FindActions \cup {"FREE_LOCK"}
    BY DEF Actions, FindActions
  <2>3. fharg[f] \in 0 .. MaxHandle
    BY <1>1 DEF HandleRange
  <2> QED
    BY <1>3, <2>1, <2>2, <2>3, TakeStep DEF Packet
<1>8. CASE TakePlainPacket
  <2>1. PICK action \in {"INFO", "INHIBIT", "UNINHIBIT", "FORMAT", "IS_FILESYSTEM",
                         "DISK_INFO", "FLUSH"} :
           handle_packet(Packet(action, NoAddr), Request(action, 0))
    BY <1>8 DEF TakePlainPacket, PlainPackets, NoArgument, Packet
  <2>2. action \in Actions /\ action \notin FindActions \cup {"END", "FILE_IO", "FREE_LOCK"}
        /\ 0 \in 0 .. MaxHandle
    BY <1>1 DEF Actions, FindActions
  <2> QED
    BY <1>3, <2>1, <2>2, TakeStep DEF Packet
<1> QED
  BY <1>4, <1>5, <1>6, <1>7, <1>8 DEF Take

(* A step that touches only the slot, STATUS, the wire and the program
   counter, and moves a result nowhere but from the descriptor to the wire. *)
LEMMA SlotStep ==
    ASSUME PktInv,
           UNCHANGED <<volVars, pkt, job, flock, fharg>>,
           desc' \in Descriptor, desc'.request = desc.request,
           pending' \in BOOLEAN, desc_in_ram' \in BOOLEAN, int_status' \in {0, 1},
           doorbell_overflow' = 0, dropped_descriptors' \in Nat,
           wire'.res1 \in Int, wire'.res2 \in Nat,
           pc # "request_loop", pc' \in {"doorbell", "poll", "finish"},
           Completed' <=> Completed, Completed => Outcome' = Outcome,
           pc' \in {"doorbell", "poll"} => pc \in {"clear_status", "doorbell", "poll"},
           SlotIsOurs'
    PROVE  PktInv'
<1> USE DEF PktInv, Types, TablesAgree
<1>1. VolTypeOK' /\ CounterIsPast'
  BY DEF TypeOK, VolTypeOK, CounterIsPast, volVars
<1>2. UNCHANGED <<handles, next_handle, inhibited, writable, answer, purged, issued>>
      /\ UNCHANGED <<pkt, job, flock, fharg>>
  BY DEF volVars
<1>3. Types'
  <2>1. /\ desc'.request \in [action : Actions \cup {"NONE"}, arg : 0 .. MaxHandle]
        /\ desc'.res1 \in Int /\ desc'.res2 \in Nat /\ desc'.status \in {0, 1}
    BY DEF Descriptor
  <2> QED
    BY <1>1, <1>2, <2>1 DEF TypeOK
<1>4. PacketIsSound' /\ RequestAgrees'
  BY <1>2 DEF PacketIsSound, RequestAgrees, Unheld
<1>5. ResultAgrees'
  BY <1>2 DEF ResultAgrees, New, Unheld, Is
<1>6. OwnsItsHandle' /\ LocksKnown'
  BY <1>2 DEF OwnsItsHandle, LocksKnown, Is
<1>7. FilesKnown' /\ FilesAccounted'
  BY <1>2 DEF FilesKnown, FilesAccounted, Is
<1> QED
  BY <1>1, <1>3, <1>4, <1>5, <1>6, <1>7

LEMMA ServiceStep ==
    ASSUME PktInv, clear_status \/ doorbell \/ poll \/ (tick_drops /\ CardTick)
    PROVE  PktInv'
<1> USE DEF PktInv, Types
<1>1. /\ desc \in Descriptor /\ wire.res1 \in Int /\ wire.res2 \in Nat
      /\ int_status \in {0, 1} /\ dropped_descriptors \in Nat /\ doorbell_overflow = 0
      /\ pending \in BOOLEAN /\ desc_in_ram \in BOOLEAN
  BY DEF TypeOK, SlotIsOurs
<1>2. CASE clear_status
  <2>1. /\ UNCHANGED <<pending, desc_in_ram, doorbell_overflow, dropped_descriptors, int_status>>
        /\ UNCHANGED <<volVars, pkt, job, flock, fharg>> /\ wire' = wire
        /\ pc = "clear_status" /\ pc' = "doorbell"
        /\ desc' = [desc EXCEPT !.status = 0]
    BY <1>2 DEF clear_status, slotVars
  <2>2. desc' \in Descriptor /\ desc'.request = desc.request /\ desc'.status = 0
    BY <1>1, <2>1 DEF Descriptor
  <2>3. ~pending /\ ~Completed /\ ~Completed'
    BY <2>1 DEF SlotIsOurs, Completed
  <2>4. SlotIsOurs'
    BY <1>1, <2>1, <2>2, <2>3 DEF SlotIsOurs
  <2> QED
    BY <1>1, <2>1, <2>2, <2>3, <2>4, SlotStep
<1>3. CASE doorbell
  <2>1. /\ UNCHANGED <<volVars, pkt, job, flock, fharg>> /\ wire' = wire /\ desc' = desc
        /\ UNCHANGED <<desc_in_ram, dropped_descriptors, int_status>>
        /\ pc = "doorbell" /\ pc' = "poll" /\ pending' = TRUE
        /\ doorbell_overflow' = IF pending THEN doorbell_overflow + 1 ELSE doorbell_overflow
    BY <1>3 DEF doorbell, submit
  <2>2. ~pending /\ ~Completed /\ ~Completed' /\ desc.status = 0
    BY <2>1 DEF SlotIsOurs, Completed
  <2>3. doorbell_overflow' = 0
    BY <1>1, <2>1, <2>2
  <2>4. SlotIsOurs'
    BY <2>1, <2>2, <2>3 DEF SlotIsOurs
  <2> QED
    BY <1>1, <2>1, <2>2, <2>3, <2>4, SlotStep
<1>4. CASE poll
  <2>1. /\ UNCHANGED <<pending, desc_in_ram, doorbell_overflow, dropped_descriptors,
                       int_status, fresh>>
        /\ UNCHANGED <<volVars, pkt, job, flock, fharg>> /\ desc' = desc
        /\ pc = "poll" /\ pc' = "finish" /\ desc.status = 1
        /\ wire' = Result(desc.res1, desc.res2)
    BY <1>4 DEF poll, cardVars, slotVars
  <2>2. wire'.res1 \in Int /\ wire'.res2 \in Nat
    BY <1>1, <2>1 DEF Result, Descriptor
  <2>3. Completed /\ Completed' /\ Outcome' = Outcome
    BY <2>1 DEF Completed, Outcome
  <2>4. SlotIsOurs'
    BY <1>1, <2>1, <2>3 DEF SlotIsOurs
  <2> QED
    BY <1>1, <2>1, <2>2, <2>3, <2>4, SlotStep
<1>5. CASE tick_drops /\ CardTick
  <2>1. /\ UNCHANGED <<volVars, pkt, job, flock, fharg>> /\ wire' = wire /\ desc' = desc
        /\ UNCHANGED <<desc_in_ram, doorbell_overflow, int_status, fresh>>
        /\ pc' = pc /\ pending /\ pending' = FALSE
        /\ dropped_descriptors' = dropped_descriptors + 1
    BY <1>5 DEF tick_drops, CardTick, procVars
  <2>2. pc = "poll" /\ ~Completed /\ ~Completed'
    BY <2>1 DEF SlotIsOurs, Completed
  <2>3. SlotIsOurs'
    BY <1>1, <2>1, <2>2 DEF SlotIsOurs
  <2>4. dropped_descriptors' \in Nat
    BY <1>1, <2>1
  <2> QED
    BY <1>1, <2>1, <2>2, <2>3, <2>4, SlotStep
<1> QED
  BY <1>2, <1>3, <1>4, <1>5

(***************************************************************************)
(* The card executes the request: the table and the result change together. *)
(***************************************************************************)
LEMMA ExecuteStep ==
    ASSUME PktInv, tick_executes, CardTick
    PROVE  PktInv'
<1> USE DEF PktInv, Types
<1> DEFINE a == desc.request.action
           h == desc.request.arg
<1>1. /\ UNCHANGED <<pc, pkt, job, wire, flock, fharg>>
      /\ UNCHANGED <<desc_in_ram, doorbell_overflow, dropped_descriptors>>
      /\ pending /\ pending' = FALSE /\ fresh' = TRUE /\ int_status' = 1
      /\ execute(a, h)
      /\ desc' = [desc EXCEPT !.res1 = answer'.res1, !.res2 = answer'.res2, !.status = 1]
  BY DEF tick_executes, write_results, CardTick, procVars
<1>2. /\ pc = "poll" /\ ~Completed /\ doorbell_overflow = 0
      /\ pc # "request_loop" /\ pc # "finish"
  BY <1>1 DEF SlotIsOurs, Completed
<1>3. a \in Actions \cup {"NONE"} /\ h \in 0 .. MaxHandle
  BY DEF TypeOK
<1>4. /\ Kept(a, h) \/ Allocated(a) \/ Removed(a, h) \/ Cleared(a)
      /\ UNCHANGED writable
  BY <1>1, <1>3, ExecuteShape
<1> HIDE DEF a, h
<1>5. VolTypeOK /\ MaxHandle \in Nat \ {0}
  BY PktVolumeAssumption DEF TypeOK
<1>6. answer' \in [res1 : Int, res2 : Nat]
  BY <1>4, <1>5 DEF Kept, Allocated, Removed, Cleared, Result, DOSTRUE, VolTypeOK, HandleRange
<1>7. VolTypeOK'
  <2>1. next_handle' \in HandleRange /\ purged' \in HandleRange /\ issued' \subseteq HandleRange
    BY <1>4, <1>5 DEF Kept, Allocated, Removed, Cleared, VolTypeOK, HandleRange
  <2>2. DOMAIN handles' \subseteq HandleRange /\ handles' \in [DOMAIN handles' -> Kinds]
    BY <1>4, <1>5 DEF Kept, Allocated, Removed, Cleared, VolTypeOK, EmptyTable
  <2>3. inhibited' \in BOOLEAN
    BY <1>4, <1>5, Zenon DEF Kept, Allocated, Removed, Cleared, VolTypeOK
  <2>4. writable' \in BOOLEAN
    BY <1>4, <1>5, Zenon DEF VolTypeOK
  <2> QED
    BY <1>6, <2>1, <2>2, <2>3, <2>4 DEF VolTypeOK
<1>8. /\ desc' \in Descriptor /\ desc'.request = desc.request /\ desc'.status = 1
      /\ desc'.res1 = answer'.res1 /\ desc'.res2 = answer'.res2
  BY <1>1, <1>6 DEF Descriptor
<1>9. Types'
  <2>1. pending' \in BOOLEAN /\ desc_in_ram' \in BOOLEAN /\ int_status' \in {0, 1}
    BY <1>1 DEF TypeOK
  <2>2. /\ desc'.request \in [action : Actions \cup {"NONE"}, arg : 0 .. MaxHandle]
        /\ desc'.res1 \in Int /\ desc'.res2 \in Nat /\ desc'.status \in {0, 1}
    BY <1>8 DEF Descriptor
  <2> QED
    BY <1>1, <1>2, <1>7, <1>8, <2>1, <2>2 DEF TypeOK
<1>10. Completed' /\ Outcome' = Result(answer'.res1, answer'.res2)
  BY <1>1, <1>2, <1>8 DEF Completed, Outcome
<1>11. SlotIsOurs' /\ PacketIsSound' /\ RequestAgrees'
  BY <1>1, <1>2, <1>8, <1>10 DEF SlotIsOurs, PacketIsSound, RequestAgrees
<1>12. OwnsItsHandle'
  BY <1>1 DEF OwnsItsHandle, TablesAgree
<1>13. \/ /\ job = "packet" /\ a = pkt.action
          /\ a = "FREE_LOCK" => h = 0
          /\ a = "END" => h = fharg[pkt.addr] /\ pkt.addr \in DOMAIN fharg
       \/ job = "release" /\ a = "FREE_LOCK" /\ (h \in Unsaturated => Unheld(h))
  BY <1>2 DEF RequestAgrees, PacketIsSound, a, h
<1>14. \A k \in issued : k \in Unsaturated => k < next_handle /\ k # next_handle
  BY <1>5 DEF CounterIsPast, VolTypeOK, HandleRange, Unsaturated
<1>15. \A k \in DOMAIN handles \cap Unsaturated : handles[k] = "File" =>
          \E f \in DOMAIN fharg : fharg[f] = k
  BY <1>2 DEF TablesAgree, FilesAccounted
<1>16. Outcome'.res1 = answer'.res1 /\ Outcome'.res2 = answer'.res2
  BY <1>10 DEF Result
<1>17. CASE Kept(a, h)
  <2>1. UNCHANGED <<handles, next_handle, inhibited, purged, issued>>
    BY <1>17 DEF Kept
  <2>2. CounterIsPast'
    BY <2>1 DEF CounterIsPast
  <2>3. LocksKnown' /\ FilesKnown'
    BY <1>1, <2>1 DEF TablesAgree, LocksKnown, FilesKnown, Is
  <2>4. FilesAccounted'
    BY <1>1, <1>15, <2>1 DEF FilesAccounted
  <2>5. ResultAgrees'
    <3> SUFFICES ASSUME job = "packet" PROVE ResultAgrees'
      BY <1>1 DEF ResultAgrees
    <3>1. a = pkt.action
      BY <1>13
    <3>2. ASSUME pkt.action \in LockActions, answer'.res2 = 0
          PROVE  answer'.res1 = 0 /\ 0 \in 0 .. MaxHandle /\ New(0, "Lock")'
      BY <1>5, <1>17, <3>1, <3>2 DEF Kept, Result, New, Unsaturated
    <3>3. ~(pkt.action \in FindActions /\ answer'.res1 # 0)
      BY <1>17, <3>1 DEF Kept
    <3>4. pkt.action = "END" => ~Is(fharg[pkt.addr], "File")'
      BY <1>1, <1>13, <1>17, <2>1, <3>1 DEF Kept, Is
    <3> QED
      BY <1>1, <1>16, <3>2, <3>3, <3>4 DEF ResultAgrees
  <2> QED
    BY <1>9, <1>11, <1>12, <2>2, <2>3, <2>4, <2>5 DEF TablesAgree
<1>18. CASE Allocated(a)
  <2>1. PICK kind \in Kinds :
          /\ handles' = [k \in DOMAIN handles \cup {next_handle} |->
                            IF k = next_handle THEN kind ELSE handles[k]]
          /\ next_handle' = IF next_handle = MaxHandle THEN MaxHandle ELSE next_handle + 1
          /\ issued' = issued \cup {next_handle}
          /\ ~inhibited /\ UNCHANGED <<inhibited, purged>>
          /\ \/ a \in LockActions /\ kind = "Lock" /\ answer' = Result(next_handle, 0)
             \/ a \in FindActions /\ kind = "File" /\ answer' = Result(DOSTRUE, next_handle)
    BY <1>18 DEF Allocated
  <2>2. /\ next_handle \in 1 .. MaxHandle /\ purged <= next_handle
        /\ next_handle \in Unsaturated => next_handle' = next_handle + 1
        /\ next_handle' >= next_handle
    BY <1>5, <2>1 DEF VolTypeOK, HandleRange, CounterIsPast, Unsaturated
  <2>3. CounterIsPast'
    <3>1. DOMAIN handles' \subseteq issued'
      BY <2>1 DEF CounterIsPast
    <3>2. \A k \in issued' : k \in Unsaturated => k < next_handle'
      BY <1>5, <1>14, <2>1, <2>2 DEF VolTypeOK, HandleRange, Unsaturated
    <3>3. purged' <= next_handle'
      BY <1>5, <2>1, <2>2 DEF VolTypeOK, HandleRange
    <3> QED
      BY <2>1, <3>1, <3>2, <3>3 DEF CounterIsPast
  <2>4. job = "packet" /\ a = pkt.action /\ a # "END"
    BY <1>13, <2>1 DEF LockActions, FindActions
  <2>5. /\ \A l \in DOMAIN flock : flock[l] \in Unsaturated => flock[l] # next_handle
        /\ \A f \in DOMAIN fharg : fharg[f] \in Unsaturated => fharg[f] # next_handle
    BY <1>14 DEF TablesAgree, LocksKnown, FilesKnown
  <2>6. \A k \in Unsaturated, sort \in Kinds : k # next_handle /\ Is(k, sort) => Is(k, sort)'
    BY <2>1 DEF Is
  <2>7. LocksKnown'
    BY <1>1, <2>1, <2>5, <2>6 DEF TablesAgree, LocksKnown, Kinds
  <2>8. FilesKnown'
    BY <1>1, <2>1, <2>5, <2>6 DEF TablesAgree, FilesKnown, Kinds
  <2>9. PICK n : n = next_handle
    OBVIOUS
  <2>10. ResultAgrees'
    <3>1. n \in Unsaturated => n \in issued' /\ Unheld(n)' /\ Is(n, kind)'
      BY <1>1, <2>1, <2>5, <2>9 DEF Unheld, Is
    <3>2. n \in 0 .. MaxHandle /\ n \in HandleRange
      BY <2>2, <2>9 DEF HandleRange
    <3>3. CASE pkt.action \in LockActions
      <4>1. answer'.res1 = n /\ kind = "Lock" /\ pkt.action \notin FindActions
        BY <2>1, <2>4, <2>9, <3>3 DEF Result, LockActions, FindActions
      <4>2. New(n, "Lock")'
        BY <3>1, <4>1 DEF New
      <4> QED
        BY <1>1, <1>16, <2>4, <3>2, <4>1, <4>2 DEF ResultAgrees
    <3>4. CASE pkt.action \in FindActions
      <4>1. answer'.res2 = n /\ kind = "File" /\ pkt.action \notin LockActions
        BY <2>1, <2>4, <2>9, <3>4 DEF Result, LockActions, FindActions
      <4>2. New(n, "File")'
        BY <3>1, <4>1 DEF New
      <4> QED
        BY <1>1, <1>16, <2>4, <3>2, <4>1, <4>2 DEF ResultAgrees
    <3> QED
      BY <2>1, <2>4, <3>3, <3>4
  <2>11. FilesAccounted'
    <3> SUFFICES ASSUME NEW k \in DOMAIN handles' \cap Unsaturated, handles'[k] = "File"
                 PROVE  \/ \E f \in DOMAIN fharg : fharg[f] = k
                        \/ pkt.action \in FindActions /\ answer'.res1 # 0 /\ answer'.res2 = k
      BY <1>1, <1>10, <1>16, <2>4 DEF FilesAccounted
    <3>1. CASE k # next_handle
      BY <1>15, <2>1, <3>1
    <3>2. CASE k = next_handle
      BY <2>1, <2>4, <3>2 DEF Result, DOSTRUE
    <3> QED
      BY <3>1, <3>2
  <2> QED
    BY <1>9, <1>11, <1>12, <2>3, <2>7, <2>8, <2>10, <2>11 DEF TablesAgree
<1>19. CASE Removed(a, h)
  <2>1. /\ handles' = [k \in DOMAIN handles \ {h} |-> handles[k]]
        /\ UNCHANGED <<next_handle, inhibited, purged, issued>>
        /\ \/ a = "FREE_LOCK" /\ h # 0 /\ Is(h, "Lock")
           \/ a = "END" /\ Is(h, "File")
    BY <1>19 DEF Removed
  <2>2. \/ job = "release" /\ (h \in Unsaturated => Unheld(h))
        \/ /\ job = "packet" /\ pkt.action = "END" /\ Is(h, "File")
           /\ h = fharg[pkt.addr] /\ pkt.addr \in DOMAIN fharg
    BY <1>13, <2>1
  <2>3. CounterIsPast'
    BY <2>1 DEF CounterIsPast
  <2>4. \A k, sort : k # h /\ Is(k, sort) => Is(k, sort)'
    BY <2>1 DEF Is
  <2>5. LocksKnown'
    BY <1>1, <2>1, <2>2, <2>4 DEF TablesAgree, LocksKnown, Unheld, Is
  <2>6. FilesKnown'
    BY <1>1, <1>2, <2>1, <2>2, <2>4 DEF TablesAgree, FilesKnown, OwnsItsHandle, Unheld
  <2>7. FilesAccounted'
    BY <1>1, <1>15, <2>1 DEF FilesAccounted
  <2>8. ResultAgrees'
    BY <1>1, <2>1, <2>2 DEF ResultAgrees, LockActions, FindActions, Is
  <2> QED
    BY <1>9, <1>11, <1>12, <2>3, <2>5, <2>6, <2>7, <2>8 DEF TablesAgree
<1>20. CASE Cleared(a)
  <2>1. /\ DOMAIN handles' = {} /\ purged' = next_handle /\ UNCHANGED <<next_handle, issued>>
        /\ a \in {"INHIBIT", "UNINHIBIT"}
    BY <1>20 DEF Cleared, EmptyTable
  <2>2. job = "packet" /\ pkt.action \in {"INHIBIT", "UNINHIBIT"}
    BY <1>13, <2>1
  <2>3. CounterIsPast'
    BY <1>5, <2>1 DEF CounterIsPast, VolTypeOK, HandleRange
  <2>4. \A k \in issued : k \in Unsaturated => ~(k >= purged')
    BY <1>5, <1>14, <2>1 DEF VolTypeOK, HandleRange, Unsaturated
  <2>5. LocksKnown' /\ FilesKnown'
    BY <1>1, <2>1, <2>4 DEF TablesAgree, LocksKnown, FilesKnown
  <2>6. FilesAccounted'
    BY <2>1 DEF FilesAccounted
  <2>7. ResultAgrees'
    BY <1>1, <2>2 DEF ResultAgrees, LockActions, FindActions
  <2> QED
    BY <1>9, <1>11, <1>12, <2>3, <2>5, <2>6, <2>7 DEF TablesAgree
<1> QED
  BY <1>4, <1>17, <1>18, <1>19, <1>20

(***************************************************************************)
(* The answer: a handle on the wire becomes a structure of the guest's, or  *)
(* goes back.                                                              *)
(***************************************************************************)
LEMMA AnswerStep ==
    ASSUME PktInv, pc = "finish", AnswerPacket,
           DOMAIN flock' \subseteq LockAddrs, flock' \in [DOMAIN flock' -> 0 .. MaxHandle],
           DOMAIN fharg' \subseteq FileAddrs, fharg' \in [DOMAIN fharg' -> HandleRange],
           TablesAgree'
    PROVE  PktInv'
<1> USE DEF PktInv, Types
<1>1. /\ UNCHANGED <<volVars, pending, desc_in_ram, doorbell_overflow, dropped_descriptors,
                     int_status, fresh>>
      /\ pc' = "request_loop" /\ pkt' = NoPacket /\ job' = "packet" /\ wire' = Result(0, 0)
      /\ desc' = [desc EXCEPT !.request = NoRequest]
  BY DEF AnswerPacket, slotVars
<1>2. VolTypeOK' /\ CounterIsPast'
  BY <1>1 DEF TypeOK, VolTypeOK, CounterIsPast, volVars
<1>3. MaxHandle \in Nat \ {0}
  BY PktVolumeAssumption
<1>4. NoRequest \in [action : Actions \cup {"NONE"}, arg : 0 .. MaxHandle]
  BY <1>3 DEF NoRequest, Request
<1>5. desc' \in Descriptor /\ desc'.request = NoRequest /\ desc'.res1 = desc.res1
      /\ desc'.res2 = desc.res2 /\ desc'.status = desc.status
  BY <1>1, <1>4 DEF Descriptor
<1>6. pkt'.action = "NONE" /\ wire'.res1 = 0 /\ wire'.res2 = 0
  BY <1>1 DEF NoPacket, Packet, Result
<1>7. pending' \in BOOLEAN /\ desc_in_ram' \in BOOLEAN
  BY <1>1 DEF TypeOK
<1>8. TypeOK'
  <2>1. /\ desc'.request \in [action : Actions \cup {"NONE"}, arg : 0 .. MaxHandle]
        /\ desc'.res1 \in Int /\ desc'.res2 \in Nat /\ desc'.status \in {0, 1}
    BY <1>4, <1>5 DEF TypeOK
  <2> QED
    BY <1>1, <1>2, <1>7, <2>1 DEF TypeOK
<1>9. Types'
  BY <1>5, <1>6, <1>8
<1>10. SlotIsOurs' /\ PacketIsSound' /\ RequestAgrees' /\ ResultAgrees'
  BY <1>1 DEF SlotIsOurs, PacketIsSound, RequestAgrees, ResultAgrees, Completed
<1> QED
  BY <1>2, <1>9, <1>10

LEMMA FinishStep ==
    ASSUME PktInv, Finish
    PROVE  PktInv'
<1> USE DEF PktInv, Types, TablesAgree
<1>1. /\ MaxHandle \in Nat \ {0}
      /\ DOMAIN flock \subseteq LockAddrs /\ flock \in [DOMAIN flock -> 0 .. MaxHandle]
      /\ DOMAIN fharg \subseteq FileAddrs /\ fharg \in [DOMAIN fharg -> HandleRange]
      /\ VolTypeOK
  BY PktVolumeAssumption DEF TypeOK
<1>2. pc = "finish" /\ Completed /\ Outcome = wire
  BY DEF Finish, lock_fails, lock_is_bnull, alloc_filelock, alloc_fails, released, lock_freed,
         find_finish, verbatim, Finishing, GetsFileLock, Completed, Outcome
<1>3. ASSUME AnswerPacket
      PROVE  /\ UNCHANGED <<handles, purged, issued>>
             /\ pc' = "request_loop" /\ pkt'.action = "NONE"
             /\ pkt'.action # "END" /\ ~Completed'
  BY <1>3 DEF AnswerPacket, volVars, NoPacket, Packet, Completed
<1>4. ASSUME AnswerPacket, UNCHANGED <<flock, fharg>>, pkt.action # "END",
             job = "release" \/ pkt.action \notin FindActions \/ wire.res1 = 0
      PROVE  PktInv'
  <2>1. OwnsItsHandle' /\ LocksKnown'
    BY <1>3, <1>4 DEF OwnsItsHandle, LocksKnown, Is
  <2>2. FilesKnown' /\ FilesAccounted'
    BY <1>2, <1>3, <1>4 DEF FilesKnown, FilesAccounted, Is
  <2> QED
    BY <1>1, <1>2, <1>4, <2>1, <2>2, AnswerStep
<1>5. LockActions \cap FindActions = {} /\ "END" \notin LockActions \cup FindActions
      /\ "PARENT" \in LockActions /\ "FREE_LOCK" \notin LockActions \cup FindActions
  BY DEF LockActions, FindActions
<1>6. CASE lock_fails \/ lock_is_bnull
  BY <1>4, <1>5, <1>6 DEF lock_fails, lock_is_bnull, Finishing
<1>7. CASE released
  BY <1>2, <1>4, <1>5, <1>7 DEF released, PacketIsSound
<1>8. CASE alloc_filelock
  <2>1. PICK l \in LockAddrs \ DOMAIN flock :
          flock' = [k \in DOMAIN flock \cup {l} |-> IF k = l THEN wire.res1 ELSE flock[k]]
    BY <1>8 DEF alloc_filelock
  <2>2. /\ AnswerPacket /\ fharg' = fharg /\ job = "packet"
        /\ pkt.action \in LockActions /\ wire.res2 = 0
    BY <1>8 DEF alloc_filelock, GetsFileLock, Finishing
  <2>3. wire.res1 \in 0 .. MaxHandle /\ New(wire.res1, "Lock")
    BY <1>2, <2>2 DEF ResultAgrees
  <2>4. DOMAIN flock' \subseteq LockAddrs /\ flock' \in [DOMAIN flock' -> 0 .. MaxHandle]
    BY <1>1, <2>1, <2>3
  <2>5. OwnsItsHandle'
    BY <1>3, <2>1, <2>2, <2>3 DEF OwnsItsHandle, New, Unheld
  <2>6. LocksKnown'
    BY <1>3, <2>1, <2>2, <2>3 DEF LocksKnown, New, Is
  <2>7. FilesKnown' /\ FilesAccounted'
    BY <1>2, <1>3, <1>5, <2>2 DEF FilesKnown, FilesAccounted, Is
  <2> QED
    BY <1>1, <1>2, <2>2, <2>4, <2>5, <2>6, <2>7, AnswerStep
<1>9. CASE lock_freed
  <2>1. /\ flock' = [l \in DOMAIN flock \ {pkt.addr} |-> flock[l]]
        /\ AnswerPacket /\ fharg' = fharg /\ pkt.action = "FREE_LOCK"
    BY <1>9 DEF lock_freed, Finishing
  <2>2. DOMAIN flock' \subseteq LockAddrs /\ flock' \in [DOMAIN flock' -> 0 .. MaxHandle]
    BY <1>1, <2>1
  <2>3. OwnsItsHandle' /\ LocksKnown'
    BY <1>3, <2>1 DEF OwnsItsHandle, LocksKnown, Is
  <2>4. FilesKnown' /\ FilesAccounted'
    BY <1>2, <1>3, <1>5, <2>1 DEF FilesKnown, FilesAccounted, Is
  <2> QED
    BY <1>1, <1>2, <2>1, <2>2, <2>3, <2>4, AnswerStep
<1>10. CASE find_finish /\ ~FindSucceeded
  <2>1. AnswerPacket /\ UNCHANGED <<flock, fharg>> /\ pkt.action \in FindActions /\ wire.res1 = 0
    BY <1>10 DEF find_finish, FindSucceeded, Finishing
  <2> QED
    BY <1>4, <1>5, <2>1
<1>11. CASE find_finish /\ FindSucceeded
  <2>1. /\ fharg' = [f \in DOMAIN fharg \cup {pkt.addr} |->
                        IF f = pkt.addr THEN wire.res2 ELSE fharg[f]]
        /\ AnswerPacket /\ flock' = flock /\ job = "packet"
        /\ pkt.action \in FindActions /\ wire.res1 # 0
    BY <1>11 DEF find_finish, FindSucceeded, Finishing
  <2>2. /\ wire.res2 \in HandleRange /\ New(wire.res2, "File")
        /\ pkt.addr \in FileAddrs \ DOMAIN fharg
    BY <1>2, <2>1 DEF ResultAgrees, PacketIsSound
  <2>3. DOMAIN fharg' \subseteq FileAddrs /\ fharg' \in [DOMAIN fharg' -> HandleRange]
    BY <1>1, <2>1, <2>2
  <2>4. OwnsItsHandle'
    BY <1>3, <2>1, <2>2 DEF OwnsItsHandle, New, Unheld
  <2>5. LocksKnown'
    BY <1>3, <2>1 DEF LocksKnown, Is
  <2>6. FilesKnown'
    BY <1>3, <1>5, <2>1, <2>2 DEF FilesKnown, New, Is
  <2>7. FilesAccounted'
    BY <1>2, <1>3, <2>1, <2>2 DEF FilesAccounted
  <2> QED
    BY <1>1, <1>2, <2>1, <2>3, <2>4, <2>5, <2>6, <2>7, AnswerStep
<1>12. CASE verbatim /\ pkt.action # "END"
  <2>1. /\ fharg' = [f \in DOMAIN fharg |-> fharg[f]]
        /\ AnswerPacket /\ flock' = flock /\ pkt.action \notin FindActions
    BY <1>12 DEF verbatim, Finishing
  <2>2. fharg' = fharg
    BY <1>1, <2>1
  <2> QED
    BY <1>4, <1>12, <2>1, <2>2
<1>13. CASE verbatim /\ pkt.action = "END"
  <2>1. /\ fharg' = [f \in DOMAIN fharg \ {pkt.addr} |-> fharg[f]]
        /\ AnswerPacket /\ flock' = flock /\ job = "packet" /\ pkt.action = "END"
    BY <1>13 DEF verbatim, Finishing
  <2>2. fharg[pkt.addr] \in Unsaturated => ~Is(fharg[pkt.addr], "File")
    BY <1>2, <2>1 DEF ResultAgrees
  <2>3. DOMAIN fharg' \subseteq FileAddrs /\ fharg' \in [DOMAIN fharg' -> HandleRange]
    BY <1>1, <2>1
  <2>4. OwnsItsHandle' /\ LocksKnown'
    BY <1>3, <2>1 DEF OwnsItsHandle, LocksKnown, Is
  <2>5. FilesKnown'
    BY <1>3, <2>1 DEF FilesKnown, Is
  <2>6. FilesAccounted'
    BY <1>2, <1>3, <1>5, <2>1, <2>2 DEF FilesAccounted, Is
  <2> QED
    BY <1>1, <1>2, <2>1, <2>3, <2>4, <2>5, <2>6, AnswerStep
<1>14. CASE alloc_fails
  <2>1. /\ UNCHANGED <<handles, next_handle, inhibited, writable, answer, purged, issued>>
        /\ UNCHANGED <<pending, desc_in_ram, doorbell_overflow, dropped_descriptors, int_status>>
        /\ UNCHANGED <<pkt, wire, flock, fharg>>
        /\ desc' = [desc EXCEPT !.request = Request("FREE_LOCK", wire.res1)]
        /\ job' = "release" /\ pc' = "clear_status" /\ job = "packet"
        /\ pkt.action \in LockActions /\ wire.res2 = 0
    BY <1>14 DEF alloc_fails, Build, volVars, GetsFileLock, Finishing
  <2>2. wire.res1 \in 0 .. MaxHandle /\ New(wire.res1, "Lock")
    BY <1>2, <2>1 DEF ResultAgrees
  <2>3. Request("FREE_LOCK", wire.res1) \in [action : Actions \cup {"NONE"}, arg : 0 .. MaxHandle]
    BY <2>2 DEF Request, Actions
  <2>4. /\ desc' \in Descriptor /\ desc'.res1 = desc.res1 /\ desc'.res2 = desc.res2
        /\ desc'.status = desc.status /\ desc'.request = Request("FREE_LOCK", wire.res1)
    BY <2>1, <2>3 DEF Descriptor
  <2>5. desc'.request.action = "FREE_LOCK" /\ desc'.request.arg = wire.res1
    BY <2>4 DEF Request
  <2>6. ~pending /\ ~Completed'
    BY <1>2, <2>1 DEF SlotIsOurs, Completed
  <2>7. Types'
    <3>1. VolTypeOK'
      BY <1>1, <2>1 DEF VolTypeOK
    <3>2. pending' \in BOOLEAN /\ desc_in_ram' \in BOOLEAN
      BY <2>1 DEF TypeOK
    <3>3. /\ desc'.request \in [action : Actions \cup {"NONE"}, arg : 0 .. MaxHandle]
          /\ desc'.res1 \in Int /\ desc'.res2 \in Nat /\ desc'.status \in {0, 1}
      BY <2>3, <2>4 DEF TypeOK
    <3> QED
      BY <2>1, <2>4, <3>1, <3>2, <3>3 DEF TypeOK
  <2>8. CounterIsPast'
    BY <2>1 DEF CounterIsPast
  <2>9. SlotIsOurs' /\ PacketIsSound' /\ ResultAgrees'
    BY <1>2, <2>1, <2>6 DEF SlotIsOurs, PacketIsSound, ResultAgrees, LockActions, FindActions
  <2>10. RequestAgrees'
    BY <2>1, <2>2, <2>5 DEF RequestAgrees, New, Unheld
  <2>11. OwnsItsHandle' /\ LocksKnown'
    BY <2>1 DEF OwnsItsHandle, LocksKnown, Is
  <2>12. FilesKnown' /\ FilesAccounted'
    BY <1>2, <1>5, <2>1 DEF FilesKnown, FilesAccounted, Is
  <2> QED
    BY <2>7, <2>8, <2>9, <2>10, <2>11, <2>12
<1> QED
  BY <1>6, <1>7, <1>8, <1>9, <1>10, <1>11, <1>12, <1>13, <1>14 DEF Finish

-----------------------------------------------------------------------------
(***************************************************************************)
(* The theorems.                                                           *)
(***************************************************************************)
LEMMA PktStep == PktInv /\ [Next]_vars => PktInv'
<1> SUFFICES ASSUME PktInv, [Next]_vars PROVE PktInv'
  OBVIOUS
<1>1. CASE Take
  BY <1>1, TakeKeeps
<1>2. CASE Serve
  BY <1>2, ServiceStep, FinishStep DEF Serve
<1>3. CASE CardTick
  BY <1>3, ServiceStep, ExecuteStep DEF CardTick, tick
<1>4. CASE UNCHANGED vars
  <2>1. UNCHANGED <<volVars, pending, desc, desc_in_ram, doorbell_overflow,
                    dropped_descriptors, int_status, fresh>>
        /\ UNCHANGED <<pc, pkt, job, wire, flock, fharg>>
    BY <1>4 DEF vars, cardVars, slotVars, procVars
  <2>2. UNCHANGED <<handles, next_handle, inhibited, writable, answer, purged, issued>>
    BY <2>1 DEF volVars
  <2>3. Types'
    BY <2>1, <2>2 DEF PktInv, Types, TypeOK, VolTypeOK
  <2>4. CounterIsPast' /\ SlotIsOurs' /\ PacketIsSound' /\ RequestAgrees'
    BY <2>1, <2>2 DEF PktInv, CounterIsPast, SlotIsOurs, PacketIsSound, RequestAgrees,
         Completed, Unheld
  <2>5. ResultAgrees'
    BY <2>1, <2>2 DEF PktInv, ResultAgrees, Completed, Outcome, New, Unheld, Is
  <2>6. OwnsItsHandle' /\ LocksKnown' /\ FilesKnown'
    BY <2>1, <2>2 DEF PktInv, TablesAgree, OwnsItsHandle, LocksKnown, FilesKnown, Is
  <2>7. FilesAccounted'
    BY <2>1, <2>2 DEF PktInv, TablesAgree, FilesAccounted, Completed, Outcome
  <2> QED
    BY <2>3, <2>4, <2>5, <2>6, <2>7 DEF PktInv, TablesAgree
<1> QED
  BY <1>1, <1>2, <1>3, <1>4 DEF Next

(* The guest's structures, the descriptor and the host's table stay in step
   through every packet: each handle the guest holds is its own and known to
   the host, next_handle is past all of them, and the slot belongs to the
   request the handler waits for. *)
THEOREM PktInvariant == Spec => []PktInv
BY PktInit, PktStep, PTL DEF Spec

(* The handler's registers, the descriptor in guest RAM and the card's and
   the volume's counters and tables hold what they may, whatever packets the
   clients send (handle_packet, submit_and_wait, Pktport::tick, execute). *)
THEOREM PktIsTyped == Spec => []TypeOK
<1>1. PktInv => TypeOK
  BY DEF PktInv, Types
<1> QED
  BY <1>1, PktInvariant, PTL

(* FreeLock and Close can never take another structure's object away: no two
   FileLocks, no two FileHandles and no FileLock and FileHandle of the guest
   carry one unsaturated handle (alloc_handle, alloc_filelock_or_fail,
   hp_find_finish, free_lock_wire). *)
THEOREM HandlesAreOwned == Spec => []OwnsItsHandle
<1>1. PktInv => OwnsItsHandle
  BY DEF PktInv, TablesAgree
<1> QED
  BY <1>1, PktInvariant, PTL

(* What the guest holds the host still knows as the kind it is until a
   purge, and between packets no file of the host's table is without its
   FileHandle: hp_find_finish tells success by RES1, so a handle that equals
   an error code is kept and is closed like any other. *)
THEOREM HandlesResolve == Spec => []HeldHandlesResolve
<1>1. PktInv => HeldHandlesResolve
  <2> SUFFICES ASSUME PktInv PROVE HeldHandlesResolve
    OBVIOUS
  <2>1. pc = "request_loop" => ~Completed
    BY DEF Completed
  <2> QED
    BY <2>1 DEF PktInv, TablesAgree, LocksKnown, FilesKnown, FilesAccounted,
         HeldHandlesResolve
<1> QED
  BY <1>1, PktInvariant, PTL

(* `submit_and_wait` returns the results of the request it rang for, though
   STATUS, RES1 and RES2 of the last one stay in the descriptor until they
   are cleared or overwritten; and no doorbell is ever rung while the slot is
   taken. *)
THEOREM AnswersAreItsOwn == Spec => []AnswersItsOwnRequest
<1>1. PktInv => AnswersItsOwnRequest
  BY DEF PktInv, SlotIsOurs, AnswersItsOwnRequest, Completed
<1> QED
  BY <1>1, PktInvariant, PTL

(* A handle that was given back or dropped stays unknown to the host: only
   `alloc_handle` adds one to the table, and it adds next_handle, which every
   handle given out before is below. *)
THEOREM DroppedStayDropped == Spec => DroppedHandlesStayDropped
<1>1. PktInv /\ [Next]_vars
        => [\A h \in issued \cap Unsaturated :
               h \notin DOMAIN handles => h \notin DOMAIN handles']_vars
  <2> SUFFICES ASSUME PktInv, Next, NEW h \in issued \cap Unsaturated, h \notin DOMAIN handles
               PROVE  h \notin DOMAIN handles'
    OBVIOUS
  <2>1. h # next_handle
    BY PktVolumeAssumption DEF PktInv, Types, TypeOK, VolTypeOK, CounterIsPast, HandleRange,
       Unsaturated
  <2>2. CASE tick_executes
    <3>1. execute(desc.request.action, desc.request.arg)
      BY <2>2 DEF tick_executes
    <3>2. desc.request.action \in Actions \cup {"NONE"} /\ desc.request.arg \in 0 .. MaxHandle
      BY DEF PktInv, Types, TypeOK
    <3>3. \/ Kept(desc.request.action, desc.request.arg)
          \/ Allocated(desc.request.action)
          \/ Removed(desc.request.action, desc.request.arg)
          \/ Cleared(desc.request.action)
      BY <3>1, <3>2, ExecuteShape DEF PktInv
    <3> QED
      BY <2>1, <3>3 DEF Kept, Allocated, Removed, Cleared, EmptyTable
  <2>3. CASE tick_drops
    BY <2>3 DEF tick_drops, volVars
  <2>4. CASE Take
    BY <2>4 DEF Take, TakeLockPacket, TakeFreeLock, TakeFind, TakeFilePacket, TakePlainPacket,
       handle_packet, volVars
  <2>5. CASE Serve
    BY <2>5 DEF Serve, clear_status, doorbell, poll, Finish, lock_fails, lock_is_bnull,
       alloc_filelock, alloc_fails, released, lock_freed, find_finish, verbatim, AnswerPacket,
       cardVars, volVars
  <2> QED
    BY <2>2, <2>3, <2>4, <2>5 DEF Next, CardTick, tick
<1> QED
  BY <1>1, PktInvariant, PTL DEF Spec, DroppedHandlesStayDropped
=============================================================================
