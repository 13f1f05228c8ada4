----------------------------- MODULE MCHostblk -----------------------------
(* The hostblk card on a small machine: two units, the second              *)
(* write-protected, two RAM cells, and one descriptor for each check the   *)
(* engine makes.                                                           *)
EXTENDS Hostblk

D(command, unit, length, offset, buffer) ==
    [command |-> command, unit |-> unit, length |-> length,
     offset |-> offset, buffer |-> buffer]

MCUnitIds == {0, 1, 8}
MCAttached == {0, 1}
MCSectorCount == [u \in MCAttached |-> IF u = 0 THEN 2 ELSE 1]
MCWriteProtect == [u \in MCAttached |-> u = 1]
MCValues == {"blank", "a", "b", "c"}
MCDescriptors ==
    { D("READ", 0, 4, 0, 0),     \* both sectors
      D("READ", 1, 2, 0, 1),
      D("WRITE", 0, 2, 2, 1),
      D("WRITE", 1, 2, 0, 0),    \* write-protected
      D("READ", 0, 3, 0, 0),     \* not a multiple of a sector
      D("WRITE", 0, 2, 1, 0),    \* misaligned
      D("READ", 0, 4, 2, 0),     \* runs past the end of the unit
      D("READ", 0, 4, 0, 1),     \* buffer runs past the end of RAM
      D("READ", 8, 2, 0, 0),     \* no such unit
      D("FLUSH", 0, 0, 0, 0),
      D("OTHER", 0, 2, 0, 0) }
MCInitialDesc == [p \in {"p"} |-> D("READ", 0, 4, 0, 0)]
MCInitialMem == [c \in 0 .. 1 |-> "blank"]
MCInitialDisk == [u \in MCAttached |-> [s \in 0 .. MCSectorCount[u] - 1 |->
                    IF u = 1 THEN "c" ELSE IF s = 0 THEN "a" ELSE "b"]]
=============================================================================
