------------------------------ MODULE HostSerial ------------------------------
(***************************************************************************)
(* The serial line between guest and host: the chipset's two rings         *)
(* (chipset.rs), the console tail (console.rs), the serial script          *)
(* (serial_script.rs) and the TCP bridge (serial_tcp.rs).  The bridge is a *)
(* thread of its own: it shares `output` and `input` with the run loop     *)
(* under two locks, and writes to the socket holding neither.              *)
(*                                                                         *)
(* The guest's n-th output byte is the number n; an input byte says who    *)
(* sent it and which of that sender's bytes it is.                         *)
(***************************************************************************)
EXTENDS Integers, Sequences, SequencesExt

CONSTANTS
    SerialBufCap,    \* SERIAL_BUF_CAP, 32
    SerialInBufCap,  \* SERIAL_IN_BUF_CAP, 32
    OutputBufCap,    \* OUTPUT_BUF_CAP, 4096
    InputBufCap,     \* INPUT_BUF_CAP, 512
    ReadSize,        \* bytes one read of the socket takes at most, 256
    GuestTailCap,    \* GUEST_TAIL_CAP, 4096
    LineCap,         \* the size of the virt board's GuestLine.buf, 256
    MaxSent,         \* bound of the model: bytes the guest writes
    MaxTyped         \* bound of the model: bytes the TCP clients type

ASSUME SerialConstants ==
    \A c \in {SerialBufCap, SerialInBufCap, OutputBufCap, InputBufCap, ReadSize, GuestTailCap, LineCap} : c \in Nat \ {0}

VARIABLES
    port,     \* Chipset: [out, in, overrun, rbf]
    tail,     \* Console.guest_tail
    sscript,  \* SerialScript: [remaining, current]
    output,   \* SerialTcpBridge.output; on a bare-metal board, GuestLine.buf
    input,    \* SerialTcpBridge.input
    bridge,   \* poll_loop: [at, client, pending]
    wire,     \* the socket: [received, typed], the bytes the clients got (with
              \* no bridge, the console; on a board, its UART) and how many
              \* the clients have typed that poll_loop has not read
    trail     \* history, read by no guard but the bounds: [sent, lost, read,
              \* typed, dropped]; dropped are the bytes typed that went with
              \* their client

serialVars == <<port, tail, sscript, output, input, bridge, wire, trail>>

Idle == [op |-> "None"]

SerialInit(script) ==
    /\ port = [out |-> <<>>, in |-> <<>>, overrun |-> FALSE, rbf |-> FALSE]
    /\ tail = <<>>
    /\ sscript = [remaining |-> script, current |-> Idle]
    /\ output = <<>> /\ input = <<>>
    /\ bridge = [at |-> "accept", client |-> FALSE, pending |-> <<>>]
    /\ wire = [received |-> <<>>, typed |-> 0]
    /\ trail = [sent |-> 0, lost |-> {}, read |-> <<>>, typed |-> 0, dropped |-> {}]

-----------------------------------------------------------------------------
(* The chipset's side, as register accesses of the guest.                  *)

\* A byte written to SERDAT goes into the ring; a full ring drops it.
push_serial_byte ==
    LET n == trail.sent + 1
    IN  /\ n <= MaxSent
        /\ IF Len(port.out) < SerialBufCap
           THEN /\ port' = [port EXCEPT !.out = Append(@, n)]
                /\ trail' = [trail EXCEPT !.sent = n]
           ELSE /\ trail' = [trail EXCEPT !.sent = n, !.lost = @ \cup {n}]
                /\ UNCHANGED port
        /\ UNCHANGED <<tail, sscript, output, input, bridge, wire>>

\* SERDATR takes the oldest input byte and clears the overrun latch.
read_serdatr ==
    /\ port' = [port EXCEPT !.in = IF @ = <<>> THEN @ ELSE Tail(@), !.overrun = FALSE]
    /\ trail' = IF port.in = <<>> THEN trail
                  ELSE [trail EXCEPT !.read = Append(@, Head(port.in))]
    /\ UNCHANGED <<tail, sscript, output, input, bridge, wire>>

\* INTREQ: the guest acknowledges RBF.
ClearRbf == port' = [port EXCEPT !.rbf = FALSE] /\ UNCHANGED <<tail, sscript, output, input, bridge, wire, trail>>

\* The host takes the oldest byte.
take_serial_byte == port.out # <<>> /\ port' = [port EXCEPT !.out = Tail(@)]

serial_in_has_room == Len(port.in) < SerialInBufCap

\* RBF is one bit of INTREQ, however many bytes are queued.
push_serial_in_byte(b) ==
    port' = IF Len(port.in) < SerialInBufCap
            THEN [port EXCEPT !.in = Append(@, b), !.rbf = TRUE]
            ELSE [port EXCEPT !.overrun = TRUE]

-----------------------------------------------------------------------------
(* drain_serial moves one byte from the ring to the console and the TCP    *)
(* queue, which drops its oldest byte when full.  With no bridge the       *)
(* console is the only receiver.                                           *)

guest_byte(b) == tail' = LET t == Append(tail, b) IN IF Len(t) > GuestTailCap THEN Tail(t) ELSE t

push_guest_byte(b) ==
    IF Len(output) >= OutputBufCap
    THEN /\ output' = Append(Tail(output), b)
         /\ trail' = [trail EXCEPT !.lost = @ \cup {Head(output)}]
    ELSE /\ output' = Append(output, b)
         /\ UNCHANGED trail

drain_serial(tcp) ==
    /\ take_serial_byte
    /\ guest_byte(Head(port.out))
    /\ IF tcp THEN push_guest_byte(Head(port.out)) /\ UNCHANGED wire
       ELSE /\ wire' = [wire EXCEPT !.received = Append(@, Head(port.out))]
            /\ UNCHANGED <<output, trail>>
    /\ UNCHANGED <<sscript, input, bridge>>

-----------------------------------------------------------------------------
(* The bare-metal boards print whole lines instead.  `kind` says what a    *)
(* byte is: "char", "high" (no UTF-8 by itself), "lf" or "cr".  virt keeps *)
(* the line in an array and prints a placeholder for one that is not       *)
(* UTF-8; q35 keeps it in a String, a character per byte.                  *)

\* The line goes out with the byte that ended it, if one did; an empty one
\* prints nothing.
flush_line(board, kind, end) ==
    LET garbled == board = "virt" /\ \E b \in Range(output) : kind[b] = "high"
        prints == output # <<>> /\ ~garbled
    IN  /\ wire' = [wire EXCEPT !.received = IF prints THEN @ \o output \o end ELSE @]
        /\ trail' = [trail EXCEPT !.lost = IF prints THEN @ ELSE @ \cup Range(output \o end)]
        /\ output' = <<>>

GuestLinePush(board, kind, b) ==
    IF kind[b] = "lf" THEN flush_line(board, kind, <<b>>)
    ELSE IF kind[b] = "cr" \/ (board = "virt" /\ Len(output) = LineCap)
         THEN trail' = [trail EXCEPT !.lost = @ \cup {b}] /\ UNCHANGED <<output, wire>>
         ELSE output' = Append(output, b) /\ UNCHANGED <<wire, trail>>

boot_drain_serial(board, kind) ==
    /\ take_serial_byte
    /\ GuestLinePush(board, kind, Head(port.out))
    /\ UNCHANGED <<tail, sscript, input, bridge>>

-----------------------------------------------------------------------------
(* SerialScript::tick, one turn of its loop per step.  A directive is      *)
(* [op |-> "Send", bytes], ["Wait", needle, frames] or ["Sleep", frames].  *)
(* ScriptWaits says the turn ends the tick.                                *)

guest_tail_contains(needle) == needle \in Range(tail)

Finish == sscript' = [sscript EXCEPT !.current = Idle]

\* Take the next directive; a WAIT that is already satisfied is passed over.
StartDirective(frame) ==
    LET d    == Head(sscript.remaining)
        rest == Tail(sscript.remaining)
        flight == CASE d.op = "Send"  -> d
                    [] d.op = "Wait"  -> IF guest_tail_contains(d.needle) THEN Idle
                                         ELSE [op |-> "Wait", needle |-> d.needle, due |-> frame + d.frames]
                    [] d.op = "Sleep" -> [op |-> "Sleep", due |-> frame + d.frames]
    IN  /\ sscript.current = Idle /\ sscript.remaining # <<>>
        /\ sscript' = [remaining |-> rest, current |-> flight]
        /\ UNCHANGED <<port, tail, output, input, bridge, wire, trail>>

\* A WAIT that matches or times out, and a SLEEP that is over, go on at once.
DirectiveEnds(frame) ==
    LET c == sscript.current
    IN  /\ \/ c.op = "Wait" /\ (guest_tail_contains(c.needle) \/ frame >= c.due)
           \/ c.op = "Sleep" /\ frame >= c.due
           \/ c.op = "Send" /\ c.bytes = <<>>
        /\ Finish
        /\ UNCHANGED <<port, tail, output, input, bridge, wire, trail>>

\* One byte per tick, and only when the chipset has room for it.
SendByte ==
    LET c == sscript.current
    IN  /\ c.op = "Send" /\ c.bytes # <<>>
        /\ IF serial_in_has_room
           THEN /\ push_serial_in_byte(Head(c.bytes))
                /\ sscript' = [sscript EXCEPT !.current =
                                 IF Len(c.bytes) = 1 THEN Idle ELSE [c EXCEPT !.bytes = Tail(@)]]
           ELSE UNCHANGED <<port, sscript>>
        /\ UNCHANGED <<tail, output, input, bridge, wire, trail>>

ScriptWaits(frame) ==
    LET c == sscript.current
    IN  /\ \/ c = Idle /\ sscript.remaining = <<>>
           \/ c.op = "Wait" /\ ~guest_tail_contains(c.needle) /\ frame < c.due
           \/ c.op = "Sleep" /\ frame < c.due
        /\ UNCHANGED serialVars

\* The byte the run loop takes from the TCP queue for the guest, if there is room.
ReceiveHostByteBlind ==
    /\ IF input # <<>>
       THEN push_serial_in_byte(Head(input)) /\ input' = Tail(input)
       ELSE UNCHANGED <<port, input>>
    /\ UNCHANGED <<tail, sscript, output, bridge, wire, trail>>
ReceiveHostByte ==
    /\ IF serial_in_has_room /\ input # <<>>
       THEN push_serial_in_byte(Head(input)) /\ input' = Tail(input)
       ELSE UNCHANGED <<port, input>>
    /\ UNCHANGED <<tail, sscript, output, bridge, wire, trail>>

-----------------------------------------------------------------------------
(* The bridge thread: accept, flush_output, fill_input, for ever.          *)

bridgeAt(pc) == bridge.at = pc
mainUnchanged == UNCHANGED <<port, tail, sscript>>

Accept ==
    /\ bridgeAt("accept")
    /\ \/ bridge' = [bridge EXCEPT !.at = "flush", !.client = TRUE]
       \/ ~bridge.client /\ UNCHANGED bridge          \* nobody there: sleep and look again
    /\ UNCHANGED <<output, input, wire, trail>> /\ mainUnchanged

\* The client is gone, and with its socket what was typed and never read.
Unread == trail.typed - wire.typed + 1 .. trail.typed
DropClient ==
    /\ bridge' = [at |-> "accept", client |-> FALSE, pending |-> <<>>]
    /\ wire' = [wire EXCEPT !.typed = 0]
    /\ trail' = [trail EXCEPT !.lost = @ \cup Range(bridge.pending), !.dropped = @ \cup Unread]

\* flush_output takes everything under the lock ...
FlushTake ==
    /\ bridgeAt("flush")
    /\ bridge' = [bridge EXCEPT !.at = IF output = <<>> THEN "fill" ELSE "write", !.pending = output]
    /\ output' = <<>>
    /\ UNCHANGED <<input, wire, trail>> /\ mainUnchanged

\* ... writes without it: all, a part, or nothing goes out; or the write fails,
\* and what was taken is gone with the client.
FlushWrite ==
    /\ bridgeAt("write")
    /\ \/ \E n \in 0..Len(bridge.pending) :
            /\ wire' = [wire EXCEPT !.received = @ \o SubSeq(bridge.pending, 1, n)]
            /\ bridge' = [bridge EXCEPT !.pending = SubSeq(@, n + 1, Len(@)),
                            !.at = IF n < Len(bridge.pending) THEN "requeue" ELSE "fill"]
            /\ UNCHANGED trail
       \/ DropClient
    /\ UNCHANGED <<output, input>> /\ mainUnchanged

\* What did not go out is put back in front of what the guest wrote meanwhile.
FlushRequeueBehind ==
    /\ bridgeAt("requeue")
    /\ output' = output \o bridge.pending
    /\ bridge' = [bridge EXCEPT !.at = "fill", !.pending = <<>>]
    /\ UNCHANGED <<input, wire, trail>> /\ mainUnchanged
FlushRequeue ==
    /\ bridgeAt("requeue")
    /\ output' = bridge.pending \o output
    /\ bridge' = [bridge EXCEPT !.at = "fill", !.pending = <<>>]
    /\ UNCHANGED <<input, wire, trail>> /\ mainUnchanged

\* fill_input reads until the queue is full or nothing is left; the length is
\* looked at under the lock, the bytes are appended under it later.
FillInput ==
    /\ bridgeAt("fill")
    /\ IF Len(input) >= InputBufCap \/ wire.typed = 0
       THEN /\ bridge' = [bridge EXCEPT !.at = "flush"]
            /\ UNCHANGED <<input, wire, trail>>
       ELSE /\ bridge' = [bridge EXCEPT !.at = "append"]
            /\ UNCHANGED <<input, wire, trail>>
    /\ UNCHANGED output /\ mainUnchanged

FillAppend ==
    LET n == IF wire.typed < ReadSize THEN wire.typed ELSE ReadSize
    IN  /\ bridgeAt("append")
        /\ input' = input \o [i \in 1..n |-> <<"tcp", trail.typed - wire.typed + i>>]
        /\ wire' = [wire EXCEPT !.typed = @ - n]
        /\ bridge' = [bridge EXCEPT !.at = "fill"]
        /\ UNCHANGED <<output, trail>> /\ mainUnchanged

\* Read returns 0 once everything typed was read, or fails before that.
ClientLeaves ==
    /\ bridgeAt("fill") /\ Len(input) < InputBufCap
    /\ DropClient
    /\ UNCHANGED <<output, input>> /\ mainUnchanged

\* The environment: a connected client types.
ClientTypes ==
    /\ bridge.client /\ trail.typed < MaxTyped
    /\ wire' = [wire EXCEPT !.typed = @ + 1]
    /\ trail' = [trail EXCEPT !.typed = @ + 1]
    /\ UNCHANGED <<output, input, bridge>> /\ mainUnchanged

poll_loop == Accept \/ FlushTake \/ FlushWrite \/ FlushRequeue \/ FillInput \/ FillAppend \/ ClientLeaves

-----------------------------------------------------------------------------
Increasing(s) == \A i \in 1..Len(s) - 1 : s[i] < s[i + 1]

(***************************************************************************)
(* Whatever the bridge thread and the run loop do to `output` between two  *)
(* locks, what the clients received and what is still on its way is the    *)
(* guest's output in order, each byte once, and a byte is missing only     *)
(* where the code says it drops one: a full ring, a full queue, a broken   *)
(* connection; on a board, a carriage return, an empty line, a byte past   *)
(* the line buffer or a line that is not text.                             *)
(***************************************************************************)
SerialOutInOrder ==
    LET line == wire.received \o bridge.pending \o output \o port.out
    IN  Increasing(line) /\ Range(line) \cup trail.lost = 1..trail.sent

\* How many of the first n bytes of s are this sender's.
Share(who, s, n) == Cardinality({j \in 1..n : s[j][1] = who})

\* The bytes of s the clients sent, and the numbers they have.
FromClient(s) == {i \in 1..Len(s) : s[i][1] = "tcp"}
NumbersOf(s) == {s[i][2] : i \in FromClient(s)}

(***************************************************************************)
(* What the guest has read, what its ring holds and what the bridge queues *)
(* are the input in order, each byte once: of the script's bytes 1, 2, 3,  *)
(* ..., and of the clients' every one that poll_loop read or that is not   *)
(* recorded as gone with its client, which a failed write or read of the   *)
(* socket drops unread bytes and all (serial_tcp.rs:230-239, 273).  And    *)
(* the receiver never overruns, however the script, the bridge and the     *)
(* guest's reads fall.                                                     *)
(***************************************************************************)
SerialInInOrder ==
    LET got  == trail.read \o port.in
        line == got \o input
    IN  /\ ~port.overrun
        /\ \A i \in 1..Len(got) : got[i][1] = "script" => got[i][2] = Share("script", got, i)
        /\ \A i, j \in FromClient(line) : i < j => line[i][2] < line[j][2]
        /\ NumbersOf(line) \cup trail.dropped = 1..(trail.typed - wire.typed)
        /\ NumbersOf(line) \cap trail.dropped = {}
===============================================================================
