----------------------------- MODULE PktVolume -----------------------------
(***************************************************************************)
(* The filesystem service behind the pktport card                          *)
(* (crates/machine-hosted/src/pktvol.rs): the table of host-owned opaque   *)
(* handles, the inhibited state, and what each action does to them.  The   *)
(* filesystem proper is the amiga-ffs crate: whether a name is found, a    *)
(* block is free or a write succeeds is its business, so every action      *)
(* that reaches it may also be refused.  A refusal carries some AmigaDOS   *)
(* error code.  Codes and handles are numbers of the same range and may    *)
(* coincide, as they do in the program (handle 205, error 205).            *)
(***************************************************************************)
EXTENDS Integers, FiniteSets

CONSTANTS
    MaxHandle,  \* u32::MAX, where next_handle saturates
    Errors      \* the AmigaDOS error codes of `mod err`

ASSUME PktVolumeAssumption ==
    /\ MaxHandle \in Nat \ {0}
    /\ Errors \subseteq Nat \ {0}
    /\ Errors # {}

VARIABLES
    handles,      \* handle -> "Lock" or "File"; lock 0, the root, is never in it
    next_handle,  \* the next handle to give out
    inhibited,    \* set by ACTION_INHIBIT(TRUE)
    writable,     \* how the volume was opened
    answer,       \* the (res1, res2) the last `execute` returned
    purged,       \* history: next_handle when the table was last cleared
    issued        \* history: every handle ever given out

volVars == <<handles, next_handle, inhibited, writable, answer, purged, issued>>

DOSTRUE == -1       \* 0xFFFF_FFFF
DOSFALSE == 0
READ_WRITE_ERROR == -1

Kinds == {"Lock", "File"}
HandleRange == 1 .. MaxHandle
EmptyTable == [h \in {} |-> "Lock"]

VolInit ==
    /\ handles = EmptyTable
    /\ next_handle = 1
    /\ inhibited = FALSE
    /\ writable \in BOOLEAN
    /\ answer = [res1 |-> 0, res2 |-> 0]
    /\ purged = 1
    /\ issued = {}

Is(h, kind) == h \in DOMAIN handles /\ handles[h] = kind

(* A wire lock is known: the root, or a Lock of the table. *)
resolve_lock(h) == h = 0 \/ Is(h, "Lock")

(***************************************************************************)
(* The ways an action ends: what happens to the table, and the answer.     *)
(***************************************************************************)
Answer(res1, res2) ==
    /\ answer' = [res1 |-> res1, res2 |-> res2]
    /\ UNCHANGED <<handles, next_handle, inhibited, purged, issued>>

(* The request fails with an error code; nothing changes. *)
Refuse == \E e \in Errors : Answer(DOSFALSE, e)

(* Faulty: the counter is a plain addition, or wraps back to the start. *)
AllocWithCounter(kind, res1, res2, next) ==
    /\ handles' = [h \in DOMAIN handles \cup {next_handle} |->
                      IF h = next_handle THEN kind ELSE handles[h]]
    /\ next_handle' = next
    /\ answer' = [res1 |-> res1, res2 |-> res2]
    /\ issued' = issued \cup {next_handle}
    /\ UNCHANGED <<inhibited, purged>>

alloc_handle_wrapping(kind, res1, res2) ==
    AllocWithCounter(kind, res1, res2, IF next_handle = MaxHandle THEN 1 ELSE next_handle + 1)

(* `alloc_handle`: the next handle names the new object; `insert` replaces
   whatever the table held under it, and the counter saturates. *)
alloc_handle(kind, res1, res2) ==
    /\ handles' = [h \in DOMAIN handles \cup {next_handle} |->
                      IF h = next_handle THEN kind ELSE handles[h]]
    /\ next_handle' = IF next_handle = MaxHandle THEN MaxHandle ELSE next_handle + 1
    /\ answer' = [res1 |-> res1, res2 |-> res2]
    /\ issued' = issued \cup {next_handle}
    /\ UNCHANGED <<inhibited, purged>>

NewLock == alloc_handle("Lock", next_handle, 0)

(* The root is answered with the null lock and allocates nothing. *)
RootLock == Answer(0, 0)

(* `dup_lock` on a header block the filesystem chose. *)
dup_lock == RootLock \/ NewLock

remove(h) ==
    /\ handles' = [k \in DOMAIN handles \ {h} |-> handles[k]]
    /\ answer' = [res1 |-> DOSTRUE, res2 |-> 0]
    /\ UNCHANGED <<next_handle, inhibited, purged, issued>>

(***************************************************************************)
(* The actions.  `h` is the handle or wire lock the request names; a       *)
(* second lock (SAME_LOCK, RENAME_OBJECT) only adds ways to be refused.    *)
(***************************************************************************)
locate_object(h) == Refuse \/ (resolve_lock(h) /\ dup_lock)

(* A table lock is never the root, and lock 0 always is. *)
copy_dir(h) ==
    \/ h = 0 /\ RootLock
    \/ Is(h, "Lock") /\ NewLock
    \/ ~resolve_lock(h) /\ Refuse

parent(h) ==
    \/ h = 0 /\ RootLock
    \/ Is(h, "Lock") /\ (dup_lock \/ Refuse)
    \/ ~resolve_lock(h) /\ Refuse

create_dir_action(h) == Refuse \/ (writable /\ resolve_lock(h) /\ NewLock)

free_lock(h) ==
    \/ h = 0 /\ Answer(DOSTRUE, 0)
    \/ Is(h, "Lock") /\ remove(h)
    \/ ~resolve_lock(h) /\ Refuse

(* FINDINPUT opens on any volume, FINDOUTPUT and FINDUPDATE on a writable
   one; RES1 says success and RES2 carries the handle. *)
find(action, h) ==
    \/ Refuse
    \/ /\ action = "FINDINPUT" \/ writable
       /\ resolve_lock(h)
       /\ alloc_handle("File", DOSTRUE, next_handle)

end(h) == (Is(h, "File") /\ remove(h)) \/ (~Is(h, "File") /\ Refuse)

(* READ, WRITE, SEEK and SET_FILE_SIZE move data and the file position. *)
file_io(h) ==
    \/ Is(h, "File") /\ (Answer(1, 0) \/ \E e \in Errors : Answer(READ_WRITE_ERROR, e))
    \/ ~Is(h, "File") /\ (Refuse \/ \E e \in Errors : Answer(READ_WRITE_ERROR, e))

(* Different locks are an answer, an unknown one a refusal. *)
same_lock(h) ==
    \/ resolve_lock(h) /\ (Answer(DOSTRUE, 0) \/ Answer(DOSFALSE, 0))
    \/ Refuse

(* EXAMINE_OBJECT and EXAMINE_NEXT fill in the caller's FileInfoBlock. *)
examine(h) == Refuse \/ (resolve_lock(h) /\ Answer(DOSTRUE, 0))

(* DELETE_OBJECT, RENAME_OBJECT, SET_PROTECT, SET_COMMENT and SET_DATE
   change the medium, not the table. *)
change_object(h) == Refuse \/ (writable /\ resolve_lock(h) /\ Answer(DOSTRUE, 0))

(* INFO and DISK_INFO do not look at a lock. *)
fill_disk_info == Answer(DOSTRUE, 0) \/ Refuse

(* Faulty: the counter starts again with the emptied table. *)
ClearTableAndCounter(state) ==
    /\ handles' = EmptyTable
    /\ purged' = next_handle
    /\ next_handle' = 1
    /\ inhibited' = state
    /\ answer' = [res1 |-> DOSTRUE, res2 |-> 0]
    /\ UNCHANGED issued

(* INHIBIT(TRUE) drops every handle; INHIBIT(FALSE) remounts, which drops
   them again, and fails when the medium cannot be mounted. *)
ClearTable(state) ==
    /\ handles' = EmptyTable
    /\ purged' = next_handle
    /\ inhibited' = state
    /\ answer' = [res1 |-> DOSTRUE, res2 |-> 0]
    /\ UNCHANGED <<next_handle, issued>>

(* Faulty: INHIBIT(FALSE) remounts a volume that was never inhibited. *)
inhibit_action_remounting(want_inhibit) ==
    \/ want_inhibit /\ Answer(DOSTRUE, 0)
    \/ /\ ~want_inhibit
       /\ handles' = EmptyTable
       /\ inhibited' = FALSE
       /\ answer' = [res1 |-> DOSTRUE, res2 |-> 0]
       /\ UNCHANGED <<next_handle, purged, issued>>

inhibit_action(want_inhibit) ==
    \/ want_inhibit = inhibited /\ Answer(DOSTRUE, 0)
    \/ want_inhibit /\ ~inhibited /\ ~writable /\ Refuse
    \/ want_inhibit /\ ~inhibited /\ writable /\ ClearTable(TRUE)
    \/ ~want_inhibit /\ inhibited /\ (ClearTable(FALSE) \/ Refuse)

format_action == Refuse \/ (inhibited /\ writable /\ Answer(DOSTRUE, 0))

LockActions == {"LOCATE_OBJECT", "COPY_DIR", "PARENT", "CREATE_DIR"}
FindActions == {"FINDINPUT", "FINDOUTPUT", "FINDUPDATE"}
Actions == LockActions \cup FindActions \cup
           {"FREE_LOCK", "END", "FILE_IO", "OBJECT", "INFO",
            "INHIBIT", "UNINHIBIT", "FORMAT", "IS_FILESYSTEM", "DISK_INFO", "FLUSH"}

(* `execute_inner`: four actions are served even while inhibited. *)
AlwaysServed(action) ==
    \/ action = "INHIBIT" /\ inhibit_action(TRUE)
    \/ action = "UNINHIBIT" /\ inhibit_action(FALSE)
    \/ action = "FORMAT" /\ format_action
    \/ action = "IS_FILESYSTEM" /\ Answer(DOSTRUE, 0)
    \/ action = "DISK_INFO" /\ fill_disk_info

Served(action, h) ==
    \/ action = "LOCATE_OBJECT" /\ locate_object(h)
    \/ action = "FREE_LOCK" /\ free_lock(h)
    \/ action = "COPY_DIR" /\ copy_dir(h)
    \/ action = "PARENT" /\ parent(h)
    \/ action = "OBJECT" /\ (same_lock(h) \/ examine(h) \/ change_object(h))
    \/ action = "INFO" /\ fill_disk_info
    \/ action \in FindActions /\ find(action, h)
    \/ action = "END" /\ end(h)
    \/ action = "FILE_IO" /\ file_io(h)
    \/ action = "CREATE_DIR" /\ create_dir_action(h)
    \/ action = "FLUSH" /\ Answer(DOSTRUE, 0)

execute(action, h) ==
    /\ \/ AlwaysServed(action)
       \/ /\ action \notin {"INHIBIT", "UNINHIBIT", "FORMAT", "IS_FILESYSTEM", "DISK_INFO"}
          /\ IF inhibited THEN Refuse ELSE Served(action, h)
    /\ UNCHANGED writable

VolTypeOK ==
    /\ DOMAIN handles \subseteq HandleRange
    /\ handles \in [DOMAIN handles -> Kinds]
    /\ next_handle \in HandleRange
    /\ inhibited \in BOOLEAN
    /\ writable \in BOOLEAN
    /\ answer \in [res1 : Int, res2 : Nat]
    /\ purged \in HandleRange
    /\ issued \subseteq HandleRange
=============================================================================
