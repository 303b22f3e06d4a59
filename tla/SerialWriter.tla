---------------------------- MODULE SerialWriter ----------------------------
(***************************************************************************)
(* The sending half of SerialPort (SerialPort.cpp) with what it drives:    *)
(* the tty of the message module (a kernel output queue behind an          *)
(* O_NONBLOCK descriptor) and the modem, which cuts what arrives on the    *)
(* wire into lines at "\r\n".                                              *)
(*                                                                         *)
(* Messages are numbered 1, 2, ... in the order in which main hands them   *)
(* to writeBuffer.  A message is a sequence of chunks, the last of which   *)
(* ends its line; message size 0 is the empty string that PackMsgToAlarm   *)
(* returns for an empty phone number.  main ignores the result of          *)
(* writeBuffer and goes on to the next message.                            *)
(***************************************************************************)
EXTENDS Integers, Sequences, FiniteSets

CONSTANTS
    Sizes,       \* chunks in a message; 0 is the empty message
    Room,        \* chunks the kernel's output queue holds
    NumPorts,    \* entries of dev_t in Open (3)
    MaxMessages  \* bound: calls of writeBuffer in a behaviour

ASSUME WriterAssumption ==
    /\ Sizes \subseteq Nat
    /\ Room \in Nat \ {0}
    /\ NumPorts \in Nat \ {0}
    /\ MaxMessages \in Nat

Ports == 0 .. NumPorts - 1

VARIABLES
    plugged,   \* the devices /dev/ttyUSB<p> that exist
    pc,        \* where main is: open, set, ready, flush, closed
    port_id,   \* the device Open tries
    fd,        \* the device behind the descriptor, or UART_FALSE
    hungup,    \* the device behind fd was unplugged after the open
    isnormal,  \* result of Set
    txq,       \* the kernel's output queue
    wire,      \* history: chunks the modem has received
    sizes,     \* history: sizes of the messages given to writeBuffer
    results    \* history: what writeBuffer returned, where it has returned

deviceVars == <<plugged, hungup>>
vars == <<plugged, pc, port_id, fd, hungup, isnormal, txq, wire, sizes, results>>

UART_FALSE == -1
UART_TRUE  == 0

Chunk(n, k, size) == [msg |-> n, pos |-> k, end |-> k = size]
Message(n, size)  == [k \in 1 .. size |-> Chunk(n, k, size)]

Init ==
    /\ plugged \in SUBSET Ports
    /\ pc = "open"
    /\ port_id = 0
    /\ fd = UART_FALSE
    /\ hungup = FALSE
    /\ isnormal = UART_FALSE
    /\ txq = <<>> /\ wire = <<>>
    /\ sizes = <<>> /\ results = <<>>

-----------------------------------------------------------------------------
(* One turn of the while of Open: the first device that can be opened.     *)
(* After the last one Open returns UART_FALSE and main goes to its end.    *)
Open ==
    /\ pc = "open"
    /\ IF port_id \in plugged
       THEN fd' = port_id /\ pc' = "set" /\ UNCHANGED port_id
       ELSE /\ port_id' = port_id + 1
            /\ pc' = IF port_id' >= NumPorts THEN "closed" ELSE "open"
            /\ UNCHANGED fd
    /\ UNCHANGED <<deviceVars, isnormal, txq, wire, sizes, results>>

(* Set with the arguments of main (115200, 8, 1, 'N'), all supported: only *)
(* tcgetattr and tcsetattr can fail, on a device that is gone.             *)
Set ==
    /\ pc = "set"
    /\ isnormal' = IF hungup THEN UART_FALSE ELSE UART_TRUE
    /\ pc' = IF hungup THEN "closed" ELSE "ready"
    /\ UNCHANGED <<deviceVars, port_id, fd, txq, wire, sizes, results>>

(* What write() accepts of a message: what fits, and nothing once the      *)
(* device is gone.                                                         *)
Accepted(size) ==
    LET free == Room - Len(txq) IN
    IF hungup THEN 0 ELSE IF size <= free THEN size ELSE free

Success_Partial(size) == Accepted(size) > 0
Success(size) == Accepted(size) > 0 /\ Accepted(size) = size

(* main gets here only with isnormal = UART_TRUE, so the early return of   *)
(* writeBuffer is never taken.  Everything accepted is success; anything   *)
(* else, the empty message and a partial write included, goes on to        *)
(* tcflush.                                                                *)
writeBuffer(size) ==
    LET n == Len(sizes) + 1 IN
    /\ pc = "ready" /\ isnormal = UART_TRUE
    /\ n <= MaxMessages
    /\ sizes' = Append(sizes, size)
    /\ txq' = txq \o SubSeq(Message(n, size), 1, Accepted(size))
    /\ IF Success(size)
       THEN results' = Append(results, UART_TRUE) /\ UNCHANGED pc
       ELSE pc' = "flush" /\ UNCHANGED results
    /\ UNCHANGED <<deviceVars, port_id, fd, isnormal, wire>>

(* tcflush(fd, TCOFLUSH) drops whatever the kernel still holds, and        *)
(* writeBuffer returns UART_FALSE.                                         *)
AfterFlush_Retry == Message(Len(sizes), sizes[Len(sizes)])
AfterFlush == <<>>

TcFlush ==
    /\ pc = "flush"
    /\ txq' = AfterFlush
    /\ results' = Append(results, UART_FALSE)
    /\ pc' = "ready"
    /\ UNCHANGED <<deviceVars, port_id, fd, isnormal, wire, sizes>>

(* Close, at the end of main; the kernel may or may not drain its queue.   *)
Close ==
    /\ pc = "ready"
    /\ pc' = "closed"
    /\ txq' \in {txq, <<>>}
    /\ UNCHANGED <<deviceVars, port_id, fd, isnormal, wire, sizes, results>>

-----------------------------------------------------------------------------
(* The device. *)

(* The UART sends the next chunk. *)
Transmit ==
    /\ txq # <<>> /\ ~hungup
    /\ wire' = Append(wire, Head(txq))
    /\ txq' = Tail(txq)
    /\ UNCHANGED <<deviceVars, pc, port_id, fd, isnormal, sizes, results>>

(* A plug is pulled.  What was in the queue is gone, and the descriptor    *)
(* stays dead even if the device comes back: nothing opens it again.       *)
Unplug(p) ==
    /\ p \in plugged
    /\ plugged' = plugged \ {p}
    /\ hungup' = (hungup \/ fd = p)
    /\ txq' = IF fd = p THEN <<>> ELSE txq
    /\ UNCHANGED <<pc, port_id, fd, isnormal, wire, sizes, results>>

Plug(p) ==
    /\ p \notin plugged
    /\ plugged' = plugged \cup {p}
    /\ UNCHANGED <<pc, port_id, fd, hungup, isnormal, txq, wire, sizes, results>>

Main == Open \/ Set \/ (\E size \in Sizes : writeBuffer(size)) \/ TcFlush \/ Close

Next == Main \/ Transmit \/ \E p \in Ports : Unplug(p) \/ Plug(p)

(* The UART keeps sending; nothing is assumed of main or of the plugs.     *)
Spec == Init /\ [][Next]_vars /\ WF_vars(Transmit)

-----------------------------------------------------------------------------
(* Properties. *)

Before(c, d) == c.msg < d.msg \/ (c.msg = d.msg /\ c.pos < d.pos)

(* Whatever is flushed, cut short or lost, what the modem receives and     *)
(* what still waits in the kernel is in the order in which writeBuffer was *)
(* called, and nothing is sent twice.                                      *)
SentInOrder ==
    LET out == wire \o txq IN
    \A a, b \in DOMAIN out : a < b => Before(out[a], out[b])

(* The line that ends at place p of the wire is one whole message. *)
IsLineEnd(p) == wire[p].end
Intact(p) ==
    LET n == wire[p].msg
        size == sizes[n]
    IN  /\ p >= size
        /\ SubSeq(wire, p - size + 1, p) = Message(n, size)
        /\ p = size \/ IsLineEnd(p - size)

Failures == {n \in DOMAIN results : results[n] = UART_FALSE}

(* A line that the modem cannot use (a torn message, or a message glued    *)
(* to the torn one before it) always comes from a writeBuffer that         *)
(* returned UART_FALSE, one line at most from each.                        *)
TornLinesHaveFailures ==
    Cardinality({p \in DOMAIN wire : IsLineEnd(p) /\ ~Intact(p)})
        <= Cardinality(Failures)

AllSent(n) == \E p \in DOMAIN wire : wire[p].msg = n /\ wire[p].end

(* A message for which writeBuffer returned UART_TRUE is sent to its end,  *)
(* unless a later message fails, the device goes or the port is closed.    *)
AcceptedIsSent ==
    \A n \in 1 .. MaxMessages :
        (n \in DOMAIN results /\ results[n] = UART_TRUE)
            ~> \/ AllSent(n)
               \/ \E m \in Failures : m > n
               \/ hungup \/ pc = "closed"

(* What the comment of writeBuffer says it does: the data whose write was  *)
(* reported as correct is sent on the serial line, as long as the device   *)
(* is there and the port open.                                             *)
SuccessMeansSent ==
    \A n \in 1 .. MaxMessages :
        (n \in DOMAIN results /\ results[n] = UART_TRUE)
            ~> (AllSent(n) \/ hungup \/ pc = "closed")

=============================================================================
