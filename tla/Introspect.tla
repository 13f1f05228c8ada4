----------------------------- MODULE Introspect -----------------------------
(* machine-hosted introspect.rs: the report --inspect makes of the guest's
   own Exec, expansion and DOS structures, read from whatever memory the
   guest had when the run ended, between any two of its instructions.

   Memory is an array of cells, a structure's field being one cell: the
   offsets below keep the order the code's offsets have, and the one overlap
   the walks rest on, that a list header read from its lh_Tail on is a node
   (LN_SUCC = lh_Tail, LN_TYPE = lh_Type).  A cell outside RAM reads as all
   ones.  The guest is external: a boot that links structures in a given
   order, and a scheduler that moves tasks between the lists, both one
   instruction (one cell written) at a time. *)
EXTENDS Integers, Sequences, SequencesExt, TLC

CONSTANTS
    RamCells,           \* cells of RAM, from address 0
    OpenBus,               \* what an unmapped cell reads as
    RamFills,           \* what untouched memory may hold
    Boots,              \* boots: sequences of guest operations
    Tasks,              \* the tasks' addresses
    MountList,          \* expansion.library's list of boot nodes
    DosInfo,            \* where dos.library's chain of DosList entries starts
    Strings,            \* the C string or BSTR at an address
    BoardBases,         \* where AUTOCONFIG placed each board
    Manufacturer, Product, Signature,
    MAX_WALK_ENTRIES,
    MaxMoves            \* tasks moved in a behaviour

VARIABLES
    gmem,        \* the guest's memory
    boot,       \* what is left of its boot
    writes,     \* what is left of the operation it is in
    moves,
    truth       \* what the guest has linked so far

introspectVars == <<gmem, boot, writes, moves, truth>>

-----------------------------------------------------------------------------
(* The layouts, each field one cell. *)
SYSBASE == 1
node == [LN_SUCC |-> 0, LN_PRED |-> 1, LN_TYPE |-> 2, LN_NAME |-> 3]
list == [LH_HEAD |-> 0, LH_TAIL |-> 1, LH_TAILPRED |-> 2, LH_TYPE |-> 3]
task == [TC_STATE |-> 4, TC_SIG_WAIT |-> 5]
memheader == [MH_ATTRIBUTES |-> 4, MH_LOWER |-> 5, MH_UPPER |-> 6]
resident == [RT_MATCH_WORD |-> 0, RT_NAME |-> 1, MATCH_WORD |-> 74]
expansionrom == [ER_TYPE |-> 0, ER_PRODUCT |-> 1, ER_MANUFACTURER |-> 2, ER_RESERVED_0C |-> 3]
configdev == [CD_ROM |-> 4, CD_BOARD_ADDR |-> 8, CD_BOARD_SIZE |-> 9]
execbase == [CHK_BASE |-> 4, CHK_SUM |-> 5, THIS_TASK |-> 6, RES_MODULES |-> 7, MEM_LIST |-> 8,
             DEVICE_LIST |-> 12, LIB_LIST |-> 16, TASK_READY |-> 20, TASK_WAIT |-> 24,
             LAST_ALERT |-> 28]
BOOTNODE_BN_DEVICE_NODE == 4
EXPANSIONBASE_MOUNT_LIST == 4
dosbase == [DL_ROOT |-> 4, RN_INFO |-> 0, DI_DEV_INFO |-> 0]
doslist == [DOL_NEXT |-> 0, DOL_TYPE |-> 1, DOL_TASK |-> 2, DOL_STARTUP |-> 3, DOL_NAME |-> 4]
startup == [MP_SIG_TASK |-> 0, FSSM_UNIT |-> 0, FSSM_ENVIRON |-> 1]
device == [DEV_OPENCNT |-> 4, DEV_CAPACITY |-> 5, DEV_SLOTBASE |-> 6,
           SLOT_CMD |-> 0, SLOT_LEN |-> 1, SLOT_OWNER |-> 2, SLOT_SIZE |-> 3]
NT_TASK == 1
NT_DEVICE == 3
NT_LIBRARY == 9
NT_PROCESS == 13
DIAG_MARKER_OFFSET == 1
BOOT_MARKER_OFFSET == 2
PROTOCOL_VERSION == 1
BPTR_UNIT == 2                              \* a BPTR counts units of this many cells

Peek(m, a) == IF a \in DOMAIN m THEN m[a] ELSE OpenBus
read_cstr(a) == IF a \in DOMAIN Strings THEN Strings[a] ELSE ""
Bptr(v) == (v * BPTR_UNIT) % (OpenBus + 1)
read_bstr_via_bptr(v) == read_cstr(Bptr(v))

-----------------------------------------------------------------------------
(* The walker that takes every node up to a null pointer. *)
WalkStep_until_null(m, w) ==
    IF w.ended \/ w.at = 0 THEN [w EXCEPT !.ended = TRUE]
    ELSE [w EXCEPT !.at = Peek(m, w.at + node.LN_SUCC), !.out = Append(@, w.at)]
(* Walking a struct List: a node is real while its successor is not 0, which
   reading through the header's own lh_Tail is. *)
WalkStep(m, w) ==
    LET succ == Peek(m, w.at + node.LN_SUCC)
    IN  IF w.ended \/ succ = 0 THEN [w EXCEPT !.ended = TRUE]
        ELSE [w EXCEPT !.at = succ, !.out = Append(@, w.at)]
Walk(m, l) ==
    FoldLeft(LAMBDA w, i : WalkStep(m, w),
             [at |-> Peek(m, l + list.LH_HEAD), out |-> << >>, ended |-> FALSE],
             [i \in 1..MAX_WALK_ENTRIES |-> i]).out

read_node_name(m, n) == read_cstr(Peek(m, n + node.LN_NAME))
TaskEntry(m, n) ==
    [address |-> n, name |-> read_node_name(m, n), state |-> Peek(m, n + task.TC_STATE),
     sig_wait |-> Peek(m, n + task.TC_SIG_WAIT)]
walk_task_list(m, l) ==
    LET isTask(n) == Peek(m, n + node.LN_TYPE) \in {NT_TASK, NT_PROCESS}
        nodes == SelectSeq(Walk(m, l), isTask)
    IN  [i \in DOMAIN nodes |-> TaskEntry(m, nodes[i])]
(* The single task pointer: a plain task only, a process reads as none. *)
read_task(m, n) ==
    IF n # 0 /\ Peek(m, n + node.LN_TYPE) = NT_TASK THEN <<TaskEntry(m, n)>> ELSE << >>

MEMF == [PUBLIC |-> 1, CHIP |-> 2, FAST |-> 4]
kinds(attributes) == {k \in DOMAIN MEMF : (attributes \div MEMF[k]) % 2 = 1}
walk_mem_list(m, l) ==
    LET nodes == Walk(m, l)
    IN  [i \in DOMAIN nodes |->
            [address |-> nodes[i], name |-> read_node_name(m, nodes[i]),
             kinds |-> kinds(Peek(m, nodes[i] + memheader.MH_ATTRIBUTES)),
             lower |-> Peek(m, nodes[i] + memheader.MH_LOWER),
             upper |-> Peek(m, nodes[i] + memheader.MH_UPPER)]]

ResidentStep(m, w) ==
    LET entry == Peek(m, w.at)
    IN  IF w.ended \/ entry = 0
           \/ Peek(m, entry + resident.RT_MATCH_WORD) # resident.MATCH_WORD
        THEN [w EXCEPT !.ended = TRUE]
        ELSE [w EXCEPT !.at = @ + 1,
                       !.out = Append(@, read_cstr(Peek(m, entry + resident.RT_NAME)))]
walk_resident_modules(m, array) ==
    IF array = 0 THEN << >>
    ELSE FoldLeft(LAMBDA w, i : ResidentStep(m, w), [at |-> array, out |-> << >>, ended |-> FALSE],
                  [i \in 1..MAX_WALK_ENTRIES |-> i]).out

FindNode(m, l, type, name) ==
    LET matches(n) == Peek(m, n + node.LN_TYPE) = type /\ read_node_name(m, n) = name
        found == SelectSeq(Walk(m, l), matches)
    IN  IF found = << >> THEN 0 ELSE Head(found)
find_library_base(m, l, name) == FindNode(m, l, NT_LIBRARY, name)
find_device_base(m, l, name) == FindNode(m, l, NT_DEVICE, name)
walk_boot_nodes(m, l) ==
    LET nodes == Walk(m, l)
    IN  [i \in DOMAIN nodes |-> <<nodes[i], Peek(m, nodes[i] + BOOTNODE_BN_DEVICE_NODE)>>]

chk_sum_consistent(m, base) ==
    FoldLeft(LAMBDA s, i : (s + Peek(m, base + i)) % (OpenBus + 1), 0,
             [i \in 1..execbase.CHK_SUM + 1 |-> i - 1]) = OpenBus

(* Alert codes: a dead-end bit, a subsystem and a detail; the exact code
   first, then the first known one of its subsystem. *)
DEAD_END == 128
SUBSYSTEM == 16
KNOWN_ALERTS == <<
    [code |-> 16, subsystem |-> "exec"], [code |-> 149, subsystem |-> "exec"],
    [code |-> 32, subsystem |-> "graphics"], [code |-> 161, subsystem |-> "graphics"],
    [code |-> 112, subsystem |-> "dos"] >>
decode_alert(code) ==
    LET masked == code % DEAD_END
        exact(k) == k.code % DEAD_END = masked
        close(k) == (k.code % DEAD_END) \div SUBSYSTEM = masked \div SUBSYSTEM
        known == SelectSeq(KNOWN_ALERTS, exact) \o SelectSeq(KNOWN_ALERTS, close)
    IN  CASE code = 0 -> "none"
          [] code = OpenBus -> "uninitialised"
          [] OTHER -> IF known = << >> THEN "unknown subsystem" ELSE Head(known).subsystem

NoReport == [exec_base |-> 0]
(* Whatever is at the pointer must look like a library in RAM. *)
Plausible(m, ptr) ==
    ptr # 0 /\ ptr % 4 = 0 /\ ptr + node.LN_TYPE \in DOMAIN m
        /\ Peek(m, ptr + node.LN_TYPE) = NT_LIBRARY
inspect(m) ==
    LET base == Peek(m, SYSBASE)
    IN  IF ~Plausible(m, base) THEN NoReport
        ELSE [exec_base |-> base,
              chk_base_ok |-> Peek(m, base + execbase.CHK_BASE) = OpenBus - base,
              chk_sum_ok |-> chk_sum_consistent(m, base),
              resident_modules |-> walk_resident_modules(m, Peek(m, base + execbase.RES_MODULES)),
              last_alert |-> decode_alert(Peek(m, base + execbase.LAST_ALERT)),
              task_ready |-> walk_task_list(m, base + execbase.TASK_READY),
              task_wait |-> walk_task_list(m, base + execbase.TASK_WAIT),
              this_task |-> read_task(m, Peek(m, base + execbase.THIS_TASK)),
              mem_list |-> walk_mem_list(m, base + execbase.MEM_LIST),
              intuition_base |-> find_library_base(m, base + execbase.LIB_LIST,
                                                   "intuition.library")]

(* A board's ConfigDev: the first place in chip RAM whose address,
   manufacturer and product all agree with what AUTOCONFIG placed. *)
find_config_dev(m, board) ==
    LET field(a, f) == Peek(m, a + configdev.CD_ROM + f)
        matches(a) == /\ Peek(m, a + configdev.CD_BOARD_ADDR) = BoardBases[board]
                      /\ field(a, expansionrom.ER_MANUFACTURER) = Manufacturer
                      /\ field(a, expansionrom.ER_PRODUCT) = Product[board]
        found == SelectSeq([i \in 1..RamCells |-> i - 1], matches)
    IN  IF found = << >> THEN << >>
        ELSE <<[address |-> Head(found), er_type |-> field(Head(found), expansionrom.ER_TYPE),
                board_size |-> Peek(m, Head(found) + configdev.CD_BOARD_SIZE),
                diag_copy |-> field(Head(found), expansionrom.ER_RESERVED_0C)]>>

find_hostblk_config_dev(m) == find_config_dev(m, "hostblk")
find_input_config_dev(m) == find_config_dev(m, "input")
find_pcibridge_config_dev(m) == find_config_dev(m, "pcibridge")

(* The DiagArea's copy in RAM, found by its first bytes; DiagEntry leaves the
   board's protocol version, the boot code its own mark, in it. *)
find_by_signature(m, board) ==
    LET matches(a) == Peek(m, a) = Signature[board]
        found == SelectSeq([i \in 1..RamCells |-> i - 1], matches)
    IN  IF found = << >> THEN << >>
        ELSE <<[address |-> Head(found), marker |-> Peek(m, Head(found) + DIAG_MARKER_OFFSET)]>>
find_diag_rom_copy_by_signature(m) == find_by_signature(m, "hostblk")
find_input_diag_rom_copy_by_signature(m) == find_by_signature(m, "input")
(* What the ConfigDev says became of the DiagArea. *)
KeptCopy(m, cd) ==
    IF cd.diag_copy = 0 THEN << >>
    ELSE <<[address |-> cd.diag_copy, marker |-> Peek(m, cd.diag_copy + DIAG_MARKER_OFFSET),
            boot_marker |-> Peek(m, cd.diag_copy + BOOT_MARKER_OFFSET)]>>
DiagState(m, cd, copy) ==
    IF cd = << >> THEN [config |-> cd]
    ELSE [config |-> cd, found |-> copy, kept |-> KeptCopy(m, cd[1])]

(* One MountList entry with everything its DeviceNode leads to. *)
format_boot_node(m, addr, dev) ==
    LET port == Peek(m, dev + doslist.DOL_TASK)
        owner == Peek(m, port + startup.MP_SIG_TASK)
        fssm == Bptr(Peek(m, dev + doslist.DOL_STARTUP))
    IN  [address |-> addr, name |-> read_bstr_via_bptr(Peek(m, dev + doslist.DOL_NAME)),
         task |-> IF port = 0 THEN << >>
                  ELSE IF owner = 0 THEN <<"no owning task">>
                  ELSE <<read_node_name(m, owner), Peek(m, owner + task.TC_STATE)>>,
         unit |-> IF fssm = 0 THEN << >> ELSE <<Peek(m, fssm + startup.FSSM_UNIT)>>,
         environ |-> fssm # 0 /\ Peek(m, fssm + startup.FSSM_ENVIRON) # 0]

DosListStep(m, w) ==
    LET addr == Bptr(w.at)
    IN  IF w.at = 0 THEN w
        ELSE [at |-> Peek(m, addr + doslist.DOL_NEXT),
              out |-> Append(w.out, [address |-> addr,
                                     type |-> Peek(m, addr + doslist.DOL_TYPE),
                                     task |-> Peek(m, addr + doslist.DOL_TASK),
                                     name |-> read_bstr_via_bptr(Peek(m, addr + doslist.DOL_NAME))])]
dos_list(m, dos) ==
    LET root == Peek(m, dos + dosbase.DL_ROOT)
        info == Bptr(Peek(m, root + dosbase.RN_INFO))
    IN  FoldLeft(LAMBDA w, i : DosListStep(m, w),
                 [at |-> Peek(m, info + dosbase.DI_DEV_INFO), out |-> << >>],
                 [i \in 1..MAX_WALK_ENTRIES |-> i]).out

(* Each submission slot that ever carried a request. *)
Slots(m, dev) ==
    LET at(i) == Peek(m, dev + device.DEV_SLOTBASE) + i * device.SLOT_SIZE
        used(i) == Peek(m, at(i) + device.SLOT_CMD) # 0 \/ Peek(m, at(i) + device.SLOT_LEN) # 0
    IN  {[slot |-> i, cmd |-> Peek(m, at(i) + device.SLOT_CMD),
          len |-> Peek(m, at(i) + device.SLOT_LEN), owner |-> Peek(m, at(i) + device.SLOT_OWNER)] :
            i \in {j \in 0..15 : j < Peek(m, dev + device.DEV_CAPACITY) /\ used(j)}}

format_input_state(m) ==
    DiagState(m, find_input_config_dev(m), find_input_diag_rom_copy_by_signature(m))
format_pcibridge_state(m) == [config |-> find_pcibridge_config_dev(m)]
format_hostblk_state(m, base) ==
    LET find(name) == IF base = 0 THEN 0 ELSE find_library_base(m, base + execbase.LIB_LIST, name)
        expansion == find("expansion.library")
        dos == find("dos.library")
        dev == IF base = 0 THEN 0
               ELSE find_device_base(m, base + execbase.DEVICE_LIST, "hostblk.device")
        nodes == IF expansion = 0 THEN << >>
                ELSE walk_boot_nodes(m, expansion + EXPANSIONBASE_MOUNT_LIST)
    IN  [diag |-> DiagState(m, find_hostblk_config_dev(m), find_diag_rom_copy_by_signature(m)),
         boot_nodes |-> [i \in DOMAIN nodes |-> format_boot_node(m, nodes[i][1], nodes[i][2])],
         dos_list |-> IF dos = 0 THEN << >> ELSE dos_list(m, dos),
         slots |-> IF dev = 0 THEN {} ELSE Slots(m, dev)]

-----------------------------------------------------------------------------
(* The guest (external).  Its list operations in Exec's order of writes: a
   node is filled in before its predecessor points at it. *)
Store(a, v) == [at |-> a, to |-> v, lists |-> << >>, done |-> {}]
Links(a, v, l, nodes) == [Store(a, v) EXCEPT !.lists = l :> nodes]

NewList(l, type) ==
    <<Store(l + list.LH_HEAD, l + list.LH_TAIL), Store(l + list.LH_TAIL, 0),
      Store(l + list.LH_TYPE, type), Links(l + list.LH_TAILPRED, l, l, << >>)>>
Insert(l, n, k) ==              \* n becomes the k-th node
    LET old == truth.lists[l]
        succ == IF k > Len(old) THEN l + list.LH_TAIL ELSE old[k]
        pred == gmem[succ + node.LN_PRED]
    IN  <<Store(succ + node.LN_PRED, n), Store(n + node.LN_SUCC, succ),
          Store(n + node.LN_PRED, pred),
          Links(pred + node.LN_SUCC, n, l, InsertAt(old, k, n))>>
Unlink(l, n) ==
    LET succ == gmem[n + node.LN_SUCC]
        pred == gmem[n + node.LN_PRED]
        kept(x) == x # n
    IN  <<Links(pred + node.LN_SUCC, succ, l, SelectSeq(truth.lists[l], kept)),
          Store(succ + node.LN_PRED, pred)>>
Mount(info, n) ==               \* a DosList entry goes in front
    <<Store(n + doslist.DOL_NEXT, gmem[info]),
      Links(info + dosbase.DI_DEV_INFO, n \div BPTR_UNIT, info, <<n>> \o truth.lists[info])>>
Fill(cells, tag) ==
    [i \in DOMAIN cells |->
        [Store(cells[i][1], cells[i][2]) EXCEPT !.done = IF i = Len(cells) THEN {tag} ELSE {}]]

Writes(o) ==
    CASE o.op = "fill" -> Fill(o.cells, o.tag)
      [] o.op = "new" -> NewList(o.list, o.type)
      [] o.op = "chain" -> <<Links(o.list, 0, o.list, << >>)>>
      [] o.op = "insert" -> Insert(o.list, o.node, o.k)
      [] o.op = "mount" -> Mount(o.list, o.node)

Published == "exec" \in truth.done
ExecBase == gmem[SYSBASE]
Ready == ExecBase + execbase.TASK_READY
Waiting == ExecBase + execbase.TASK_WAIT
Queued(l) == Range(truth.lists[l])

IntrospectInit ==
    /\ gmem \in {[a \in 0..RamCells - 1 |-> fill] : fill \in RamFills}
    /\ boot \in Boots
    /\ writes = << >> /\ moves = 0
    /\ truth = [lists |-> << >>, done |-> {}]

Begin ==
    /\ writes = << >> /\ boot # << >>
    /\ writes' = Writes(Head(boot)) /\ boot' = Tail(boot)
    /\ UNCHANGED <<gmem, moves, truth>>

(* A task starts or is signalled, waits, leaves its list, is dispatched. *)
Moving(t) ==
    \/ /\ t \notin Queued(Ready) \union Queued(Waiting)
       /\ \/ \E k \in 1..Len(truth.lists[Ready]) + 1 : writes' = Insert(Ready, t, k)
          \/ writes' = Insert(Waiting, t, Len(truth.lists[Waiting]) + 1)
          \/ writes' = Fill(<<<<ExecBase + execbase.THIS_TASK, t>>>>, "dispatched")
    \/ \E l \in {Ready, Waiting} : t \in Queued(l) /\ writes' = Unlink(l, t)
MoveTask ==
    /\ writes = << >> /\ Published /\ moves < MaxMoves
    /\ \E t \in Tasks : Moving(t)
    /\ moves' = moves + 1
    /\ UNCHANGED <<gmem, boot, truth>>

Instruction ==
    /\ writes # << >>
    /\ LET w == Head(writes)
       IN  /\ gmem' = [gmem EXCEPT ![w.at] = w.to]
           /\ truth' = [lists |-> w.lists @@ truth.lists, done |-> w.done \union truth.done]
    /\ writes' = Tail(writes)
    /\ UNCHANGED <<boot, moves>>

IntrospectNext == Begin \/ MoveTask \/ Instruction

-----------------------------------------------------------------------------
First(s) == SubSeq(s, 1, IF Len(s) < MAX_WALK_ENTRIES THEN Len(s) ELSE MAX_WALK_ENTRIES)
AddressesOf(entries) == [i \in DOMAIN entries |-> entries[i].address]
Linked(l) == IF l \in DOMAIN truth.lists THEN truth.lists[l] ELSE << >>

(* Wherever the guest was stopped, half-way through an Insert or a Remove
   included, the report has each list as it was before or after that
   operation, in order, without the header's sentinel, cut only at
   MAX_WALK_ENTRIES; nothing at all before Exec is published; a board's
   ConfigDev once it is complete, and the copy of its DiagArea found both
   ways, with its marker, once DiagEntry has returned. *)
ReportMatches ==
    LET r == inspect(gmem)
        base == r.exec_base
        h == format_hostblk_state(gmem, base)
    IN  /\ (base # 0) = Published
        /\ Published =>
            /\ AddressesOf(r.task_ready) = First(truth.lists[Ready])
            /\ AddressesOf(r.task_wait) = First(truth.lists[Waiting])
            /\ AddressesOf(r.mem_list) = First(truth.lists[base + execbase.MEM_LIST])
            /\ AddressesOf(h.dos_list) = First(Linked(DosInfo))
            /\ AddressesOf(h.boot_nodes) = First(Linked(MountList))
            /\ IF "alert" \in truth.done THEN r.last_alert = "graphics"
               ELSE r.last_alert \in {"none", "uninitialised"}
        /\ (h.diag.config # << >>) = ("hostblk" \in truth.done)
        /\ "diag" \in truth.done =>
            /\ h.diag.kept[1].address = h.diag.found[1].address
            /\ h.diag.kept[1].marker = PROTOCOL_VERSION
        /\ (format_input_state(gmem).config # << >>) = ("input" \in truth.done)
=============================================================================
