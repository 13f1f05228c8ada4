------------------------------- MODULE Mirage -------------------------------
(***************************************************************************)
(* The MIRAGE storage card (mirage.rs): one command at a time, a sector    *)
(* staged in a FIFO the guest drains or fills byte by byte, and nothing    *)
(* completed before a later device tick.  The guest may touch any register *)
(* at any time; the backing device may fail any access.  Of the interrupt  *)
(* sources only transfer completion is kept (notify_media_change sets      *)
(* another bit and a counter nothing here reads).                          *)
(***************************************************************************)
EXTENDS Integers, Sequences

CONSTANTS
    SECTOR_BYTES,   \* bytes of a sector (512 in the code)
    UNIT_COUNT,     \* units the card has
    Attached,       \* units with a device
    Sectors,        \* sectors of an attached device
    RegMod,         \* the LBA and COUNT registers are u32: 2^32
    MaxCommands     \* bound: commands accepted

(* A device larger than the LBA register can address is not considered.    *)
ASSUME MirageAssumption ==
    /\ SECTOR_BYTES \in Nat \ {0} /\ UNIT_COUNT \in Nat /\ Sectors \in Nat
    /\ Attached \subseteq Nat
    /\ RegMod \in Nat \ {0} /\ Sectors <= RegMod

VARIABLES
    card,   \* unit_select, lba, count, status, INT_STATUS's XFER_COMPLETE, state, ...
    disk,   \* disk[unit][lba]: the device's sectors
    job     \* history of the command in flight: what was asked, what moved, the disk before it

mirageVars == <<card, disk, job>>

NoJob == [op |-> "none", unit |-> 0, lba |-> 0, count |-> 0]

MirageInit ==
    /\ card = [unit_select |-> 0, lba |-> 0, count |-> 0, status |-> {}, xfer_complete |-> FALSE,
               state |-> "Idle", active_unit |-> 0, current_lba |-> 0,
               sectors_left |-> 0, ticks_left |-> 0, sector_buf |-> [i \in 1..SECTOR_BYTES |-> 0],
               buf_pos |-> 0]
    /\ disk = [u \in Attached |-> [s \in 0..Sectors - 1 |-> [i \in 1..SECTOR_BYTES |-> <<u, s, i>>]]]
    /\ job = [asked |-> NoJob, moved |-> << >>, before |-> disk, commands |-> 0]

-----------------------------------------------------------------------------
(* The registers (write): the low lane of most; LBA and COUNT are written a *)
(* byte at a time and may come to hold any value.                          *)

SetRegister ==
    /\ \/ \E u \in 0..UNIT_COUNT : card' = [card EXCEPT !.unit_select = u]
       \/ \E l \in 0..RegMod - 1 : card' = [card EXCEPT !.lba = l]
       \/ \E n \in 0..RegMod - 1 : card' = [card EXCEPT !.count = n]
       \/ card' = [card EXCEPT !.xfer_complete = FALSE]
    /\ UNCHANGED <<disk, job>>

(* wrapping_add *)
NextLba(lba) == (lba + 1) % RegMod

Failed(c) == [c EXCEPT !.state = "Idle", !.status = {"ERR"}, !.sectors_left = 0,
                       !.xfer_complete = TRUE]

Begun(c, state, unit) == [c EXCEPT !.active_unit = unit, !.state = state, !.status = {"BUSY"},
                                   !.ticks_left = 1]

(* begin_read, begin_write: the range is checked once, here. *)
BeginTransfer(c, state) ==
    IF c.count = 0 \/ c.lba + c.count > Sectors THEN Failed(c)
    ELSE [Begun(c, state, c.unit_select) EXCEPT !.current_lba = c.lba, !.sectors_left = c.count,
              !.buf_pos = IF state = "WritePending" THEN 0 ELSE @]

do_command ==
    /\ job.commands < MaxCommands
    /\ \E cmd \in {"READ", "WRITE", "FLUSH", "other"} :
        IF card.state # "Idle" THEN UNCHANGED mirageVars
        ELSE LET known == card.unit_select < UNIT_COUNT /\ card.unit_select \in Attached
                 c == CASE ~known \/ cmd = "other" -> Failed(card)
                        [] known /\ cmd = "READ" -> BeginTransfer(card, "ReadPending")
                        [] known /\ cmd = "WRITE" -> BeginTransfer(card, "WritePending")
                        [] known /\ cmd = "FLUSH" -> Begun(card, "FlushPending", card.unit_select)
             IN  /\ card' = c
                 /\ job' = [job EXCEPT !.commands = @ + 1, !.moved = << >>, !.before = disk,
                               !.asked = IF c.state = "Idle" THEN NoJob
                                         ELSE [op |-> cmd, unit |-> card.unit_select,
                                               lba |-> card.lba, count |-> card.count]]
                 /\ UNCHANGED disk

-----------------------------------------------------------------------------
(* tick: at the end of the count the pending step happens.  ok is whether the
   backing device's access succeeded. *)

complete_read_fetch_by_select(c, ok) ==
    IF ~ok \/ c.unit_select \notin Attached THEN Failed(c)
    ELSE [c EXCEPT !.sector_buf = disk[c.unit_select][c.current_lba], !.buf_pos = 0,
                   !.state = "ReadReady", !.status = {"DRQ"}, !.xfer_complete = TRUE]

complete_read_fetch(c, ok) ==
    IF ~ok THEN Failed(c)
    ELSE [c EXCEPT !.sector_buf = disk[c.active_unit][c.current_lba], !.buf_pos = 0,
                   !.state = "ReadReady", !.status = {"DRQ"}, !.xfer_complete = TRUE]

complete_write_prepare(c) ==
    [c EXCEPT !.buf_pos = 0, !.state = "WriteReady", !.status = {"DRQ"}]

complete_write_commit(c, ok) ==
    LET d == [c EXCEPT !.sectors_left = @ - 1, !.xfer_complete = TRUE] IN
    CASE ~ok -> Failed(c)
      [] ok /\ d.sectors_left = 0 -> [d EXCEPT !.state = "Idle", !.status = {}]
      [] OTHER -> [d EXCEPT !.current_lba = NextLba(@), !.buf_pos = 0, !.state = "WriteReady",
                            !.status = {"DRQ"}]

complete_flush(c) ==
    [c EXCEPT !.state = "Idle", !.status = {}, !.xfer_complete = TRUE]

tick ==
    /\ card.ticks_left > 0
    /\ \E ok \in BOOLEAN :
        LET c == [card EXCEPT !.ticks_left = @ - 1] IN
        /\ card' = IF c.ticks_left > 0 THEN c
                   ELSE CASE c.state = "ReadPending" -> complete_read_fetch(c, ok)
                          [] c.state = "WritePending" -> complete_write_prepare(c)
                          [] c.state = "WriteCommitting" -> complete_write_commit(c, ok)
                          [] c.state = "FlushPending" -> complete_flush(c)
                          [] OTHER -> c
        /\ disk' = IF c.ticks_left = 0 /\ c.state = "WriteCommitting" /\ ok
                   THEN [disk EXCEPT ![c.active_unit][c.current_lba] = c.sector_buf]
                   ELSE disk
    /\ UNCHANGED job

-----------------------------------------------------------------------------
(* The DATA register: one byte of the staged sector per access. *)

data_read ==
    /\ card.state = "ReadReady"
    /\ LET c == [card EXCEPT !.buf_pos = @ + 1] IN
       /\ card' = CASE c.buf_pos < SECTOR_BYTES -> c
                    [] c.buf_pos >= SECTOR_BYTES /\ c.sectors_left = 1 ->
                          [c EXCEPT !.sectors_left = 0, !.state = "Idle", !.status = {}]
                    [] OTHER -> [c EXCEPT !.sectors_left = @ - 1, !.current_lba = NextLba(@),
                                          !.state = "ReadPending", !.status = {"BUSY"},
                                          !.ticks_left = 1]
       /\ job' = [job EXCEPT !.moved = Append(@, card.sector_buf[card.buf_pos + 1])]
    /\ UNCHANGED disk

data_write ==
    /\ card.state = "WriteReady"
    /\ LET b == Len(job.moved) + 1     \* each byte of a transfer its own
           c == [card EXCEPT !.sector_buf[card.buf_pos + 1] = b, !.buf_pos = @ + 1] IN
        /\ card' = IF c.buf_pos < SECTOR_BYTES THEN c
                   ELSE [c EXCEPT !.state = "WriteCommitting", !.status = {"BUSY"}, !.ticks_left = 1]
        /\ job' = [job EXCEPT !.moved = Append(@, b)]
    /\ UNCHANGED disk

MirageNext ==
    SetRegister \/ do_command \/ tick \/ data_read \/ data_write

MirageSpec == MirageInit /\ [][MirageNext]_mirageVars

-----------------------------------------------------------------------------
(* The bytes of the asked-for sectors, in order. *)
Asked(k) ==
    LET s == (k - 1) \div SECTOR_BYTES
    IN  job.before[job.asked.unit][job.asked.lba + s][((k - 1) % SECTOR_BYTES) + 1]

(* Sectors of the command whose bytes have all been handed over and accepted. *)
Committed ==
    LET full == Len(job.moved) \div SECTOR_BYTES
    IN  IF card.state = "WriteCommitting" \/ card.status = {"ERR"} THEN full - 1 ELSE full

(* Whatever the guest writes to the selection, address and count registers
   while a transfer runs, and wherever a device access fails, a READ delivers
   the sectors that were addressed when it was accepted, byte for byte and in
   order; a WRITE replaces exactly those sectors, one by one, with what was
   written, and no other sector of any unit ever changes.  A command that ends
   without ERR has moved all of it. *)
TransfersAreTheSectorsAsked ==
    LET a == job.asked
        whole == a.count * SECTOR_BYTES
    IN  /\ Len(job.moved) <= whole
        /\ a.op = "READ" => \A k \in 1..Len(job.moved) : job.moved[k] = Asked(k)
        /\ \A u \in Attached, s \in 0..Sectors - 1 :
              disk[u][s] = IF a.op = "WRITE" /\ u = a.unit
                              /\ s - a.lba \in 0..Committed - 1
                           THEN SubSeq(job.moved, (s - a.lba) * SECTOR_BYTES + 1,
                                       (s - a.lba + 1) * SECTOR_BYTES)
                           ELSE job.before[u][s]
        /\ a.op \in {"READ", "WRITE"} /\ card.state = "Idle" /\ "ERR" \notin card.status =>
              Len(job.moved) = whole

=============================================================================
