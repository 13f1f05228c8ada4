-------------------------- MODULE MCHostblkDevice --------------------------
(* Three clients sharing two slots: one request always has to wait on      *)
(* DEV_PENDING.  One unit of two sectors, two RAM cells.                   *)
EXTENDS HostblkDevice, TLC

R(command, length, offset, buffer, hi) ==
    [command |-> command, unit |-> 0, length |-> length, offset |-> offset,
     data |-> buffer, actual |-> hi]

MCSectorCount == [u \in {0} |-> 2]
MCWriteProtect == [u \in {0} |-> FALSE]
MCValues == {"blank", "a", "b"}
CONSTANTS x, y, z
MCClients == {x, y, z}
ReadBoth == R("CMD_READ", 4, 0, 0, 0)
WriteSecond == R("TD_WRITE64", 2, 0, 1, 1)      \* high word 1: offset 2, the second sector
MCRequests == (x :> {ReadBoth}) @@ (y :> {WriteSecond}) @@ (z :> {ReadBoth})
MCDescriptors ==
    { [command |-> "READ", unit |-> 0, length |-> 4, offset |-> 0, buffer |-> 0],
      [command |-> "WRITE", unit |-> 0, length |-> 2, offset |-> 2, buffer |-> 1] }
MCPtrs == 1 .. SubmitCapacity + 1
MCInitialDesc == [p \in MCPtrs |-> CHOOSE d \in MCDescriptors : TRUE]
MCInitialMem == [c \in 0 .. 1 |-> "blank"]
MCInitialDisk == [u \in {0} |-> [s \in 0 .. 1 |-> IF s = 0 THEN "a" ELSE "b"]]
=============================================================================
