------------------------------- MODULE MCHost -------------------------------
(* The run loops with, in turn: a wandering or looping guest; the serial   *)
(* line with a script and a TCP client; the input card with a script.      *)
EXTENDS RunLoop

\* From one far-off address to the other; five addresses, of which those up to
\* Span apart make a loop; and one address.
Wander == [pc \in {0, 9} |-> {9 - pc}]
Loops == [pc \in 0..4 |-> 0..4]
Sits == [pc \in {0} |-> {0}]
Base == [mode |-> "hook", tcp |-> FALSE, sscript |-> <<>>, iscript |-> <<>>, guest |-> "none", kind |-> <<>>,
         flow |-> Wander, exits |-> {}, times |-> {1}, max_frames |-> 2, max_instructions |-> 0]
Modes == {"hook", "max"}

WedgeRigs == {[Base EXCEPT !.mode = mode, !.flow = Loops, !.exits = {"stopped"}, !.times = {0, 1}, !.max_frames = 1]
                : mode \in Modes}
StormRigs == {[Base EXCEPT !.mode = mode, !.exits = {"aline", "illegal", "stopped"}, !.times = {0, 4},
                           !.max_frames = 1, !.max_instructions = 6] : mode \in Modes}

Script == <<[op |-> "Wait", needle |-> 1, frames |-> 1],
            [op |-> "Send", bytes |-> <<<<"script", 1>>, <<"script", 2>>>>],
            [op |-> "Sleep", frames |-> 1]>>
Burst == <<Script[2]>>
SerialRigs == {[Base EXCEPT !.tcp = TRUE, !.sscript = Script, !.guest = "serial"],
               [Base EXCEPT !.guest = "serial", !.max_frames = 1]}
              \cup {[Base EXCEPT !.mode = "max", !.tcp = TRUE, !.sscript = script, !.guest = "serial",
                                  !.flow = Sits, !.exits = ends, !.max_frames = 1]
                      : <<script, ends>> \in {<<Burst, {}>>, <<<<>>, {"stopped"}>>}}

Key == [op |-> "Key"]
Move == [op |-> "Move"]
InputRigs == {[Base EXCEPT !.iscript = script, !.guest = "card", !.max_frames = 4]
                : script \in {<<Key, Move, Key, Move, Key, Key>>,
                              <<Move, Key, [op |-> "Sleep", frames |-> 1], Move, Key, Key>>}}
             \cup {[Base EXCEPT !.mode = "max", !.iscript = <<Key>>, !.guest = "card", !.max_frames = 1]}

Texts == {<<"char", "char", "char">>, <<"char", "high", "lf">>, <<"lf", "cr", "char">>, <<"char", "lf", "char">>}
BoardRigs == {[Base EXCEPT !.mode = board, !.guest = "serial", !.kind = text, !.max_frames = 1]
                : board \in {"virt", "q35"}, text \in Texts}
             \cup {[Base EXCEPT !.mode = "virt", !.flow = Loops, !.exits = {"stopped", "illegal"}, !.max_frames = 1],
                   [Base EXCEPT !.mode = "q35", !.exits = {"aline", "illegal"}, !.max_frames = 1, !.max_instructions = 6]}

HostRigs == BoardRigs \cup WedgeRigs \cup StormRigs \cup SerialRigs \cup InputRigs
=============================================================================
