----------------------------- MODULE MCTimeBase -----------------------------
(***************************************************************************)
(* Instances of TimeBase for TLC.  A raster line is 6 CPU clocks and an E  *)
(* clock 4, so the two drift against each other as 908 and 20 do; the      *)
(* registers are one bit per byte, so a timer counts at most 4 E clocks    *)
(* and TOD wraps after 8 ticks.                                            *)
(***************************************************************************)
EXTENDS TimeBase

MCCiaReads ==
    {[cia |-> "A", reg |-> "TA", byte |-> 0],
     [cia |-> "A", reg |-> "ICR"],
     [cia |-> "B", reg |-> "TOD", byte |-> 2]}

MCCiaWrites ==
    {[cia |-> "A", reg |-> "CRA", value |-> Control(TRUE, FALSE, "E", FALSE), load |-> FALSE],
     [cia |-> "A", reg |-> "TA", byte |-> 1, value |-> 0],
     [cia |-> "A", reg |-> "ICR", set |-> TRUE, value |-> {"TA", "ALRM"}],
     [cia |-> "B", reg |-> "CRB", value |-> Control(TRUE, TRUE, "E", TRUE), load |-> FALSE],
     [cia |-> "B", reg |-> "TOD", byte |-> 0, value |-> 1],
     [cia |-> "B", reg |-> "ICR", set |-> TRUE, value |-> {"TB", "ALRM"}]}

MCIntreqBits == {{"PORTS", "EXTER"}}
=============================================================================
