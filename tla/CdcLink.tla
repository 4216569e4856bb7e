------------------------------- MODULE CdcLink -------------------------------
(***************************************************************************)
(* One direction of a serial line between the two CDC class drivers:       *)
(* Class/Device/CDC.c and Class/Host/CDC.c, with the streams and waits     *)
(* they are built on.  The two write alike and read alike; they differ in  *)
(* that the host's pipe sends and receives only while a call has unfrozen  *)
(* it, and that the device does nothing until the host has set a baud      *)
(* rate.                                                                   *)
(*                                                                         *)
(* A byte is its number in the order of writing.  The reader asks how many *)
(* bytes were received before it receives them, and calls USB_USBTask,     *)
(* which handles control requests, only after that.                        *)
(***************************************************************************)
EXTENDS Integers, Sequences

CONSTANTS Banks, BankSize,
          Longest       \* bound: bytes written

VARIABLES
    way,                \* "IN", where the device writes, or "OUT", where the host does
    BaudRate,           \* LineEncoding.BaudRateBPS is not zero
    polled,             \* the host's pipe is not frozen
    writer,             \* where the writer is in which call
    rest,               \* of SendString: the bytes still to write
    BankFull,           \* of Flush
    bank, queue,        \* the bank being filled, those given to the controller
    received,           \* the banks of the reader
    reader, readable,   \* whether it is in a call; the bytes it was told of
    accepted, got,      \* bytes written, and bytes received
    short,              \* the last packet given to the controller was not full
    lapsed              \* a wait has failed

sides == <<way, BaudRate, polled>>
writes == <<writer, rest, BankFull, bank, queue, accepted, short, lapsed>>
reads == <<received, reader, readable, got>>
linkvars == <<sides, writes, reads>>

Init ==
    /\ way \in {"IN", "OUT"} /\ BaudRate = FALSE /\ polled = FALSE
    /\ writer = "idle" /\ rest = 0 /\ BankFull = FALSE /\ bank = <<>> /\ queue = <<>>
    /\ received = <<>> /\ reader = "idle" /\ readable = 0
    /\ accepted = 0 /\ got = 0 /\ short = TRUE /\ lapsed = FALSE

-----------------------------------------------------------------------------
(* The bus, and the host's control of the line.                            *)

Transfer ==
    /\ polled /\ queue # <<>> /\ Len(received) < Banks
    /\ received' = Append(received, Head(queue)) /\ queue' = Tail(queue)
    /\ UNCHANGED <<sides, writer, rest, BankFull, bank, accepted, short, lapsed, reader,
                   readable, got>>

\* CDC_Host_SetLineEncoding, with a baud rate or without; or the device is configured anew.
SetLineEncoding ==
    /\ BaudRate' = ~BaudRate
    /\ way = "IN" => writer = "idle"
    /\ way = "OUT" => readable = 0
    /\ UNCHANGED <<way, polled, writes, reads>>

-----------------------------------------------------------------------------
(* The writer.                                                             *)

Ready == Len(queue) < Banks
ReadWriteAllowed == Ready /\ Len(bank) < BankSize
BytesIn == Len(IF Ready THEN bank ELSE Head(queue))

\* Endpoint_ClearIN, Pipe_ClearOUT.
Clear ==
    IF Ready THEN queue' = Append(queue, bank) /\ bank' = <<>> /\ short' = (Len(bank) < BankSize)
             ELSE UNCHANGED <<queue, bank, short>>

\* A call begins; the host's unfreezes its pipe, the device's needs a baud rate.
Called ==
    /\ writer = "idle" /\ (way = "IN" => BaudRate)
    /\ polled' = (polled \/ way = "OUT")
    /\ UNCHANGED <<way, BaudRate, BankFull, bank, queue, accepted, short, lapsed, reads>>

Room == accepted + rest < Longest

SendByte == Called /\ Room /\ writer' = (IF ReadWriteAllowed THEN "write" ELSE "clear") /\ rest' = 0

SendString == Called /\ Room /\ writer' = "wait string" /\ rest' \in 1..(Longest - accepted)

Flush == Called /\ writer' = "bytes" /\ UNCHANGED rest

\* A call returns; Freezes says whether the host's freezes its pipe.
Returns(Freezes) ==
    /\ writer' = "idle" /\ rest' = 0
    /\ polled' = (polled /\ ~(way = "OUT" /\ Freezes))

\* What was tested need no longer hold: the controller may have freed a bank since.
ClearFirst ==
    /\ writer \in {"clear", "clear string"} /\ Clear
    /\ writer' = (IF writer = "clear" THEN "wait" ELSE "wait string")
    /\ UNCHANGED <<sides, rest, BankFull, accepted, lapsed, reads>>

\* A bank that is not free, or full, takes no byte: it would be lost.
Put ==
    /\ bank' = IF ReadWriteAllowed THEN Append(bank, accepted + 1) ELSE bank
    /\ accepted' = accepted + 1

WriteByte ==
    /\ writer = "write"
    /\ Put /\ Returns(TRUE)
    /\ UNCHANGED <<way, BaudRate, BankFull, queue, short, lapsed, reads>>

\* One turn of the loop of the streams.
Stream ==
    /\ writer = "string"
    /\ \/ /\ rest = 0 /\ Returns(TRUE) /\ UNCHANGED <<bank, accepted>>
       \/ /\ rest > 0 /\ ~ReadWriteAllowed
          /\ writer' = "clear string" /\ UNCHANGED <<polled, rest, bank, accepted>>
       \/ /\ rest > 0 /\ ReadWriteAllowed
          /\ Put /\ rest' = rest - 1 /\ UNCHANGED <<polled, writer>>
    /\ UNCHANGED <<way, BaudRate, BankFull, queue, short, lapsed, reads>>

AnyBytes ==
    /\ writer = "bytes"
    /\ IF BytesIn = 0 THEN Returns(FALSE) ELSE writer' = "full" /\ UNCHANGED <<rest, polled>>
    /\ UNCHANGED <<way, BaudRate, BankFull, bank, queue, accepted, short, lapsed, reads>>

LookFull ==
    /\ writer = "full" /\ writer' = "flush" /\ BankFull' = ~ReadWriteAllowed
    /\ UNCHANGED <<sides, rest, bank, queue, accepted, short, lapsed, reads>>

\* Slip: a full packet is not followed by an empty one.
AfterFullNothing == "idle"
AfterFull == "wait flush"

ClearFlushed ==
    /\ writer = "flush" /\ Clear
    /\ IF BankFull THEN writer' = AfterFull /\ UNCHANGED <<rest, polled>> ELSE Returns(TRUE)
    /\ UNCHANGED <<way, BaudRate, BankFull, accepted, lapsed, reads>>

ClearEmpty ==
    /\ writer = "empty" /\ Clear /\ Returns(TRUE)
    /\ UNCHANGED <<way, BaudRate, BankFull, accepted, lapsed, reads>>

\* Endpoint_WaitUntilReady, Pipe_WaitUntilReady: a bank is free.
Waiting == writer \in {"wait", "wait string", "wait flush"}

Waited ==
    /\ Waiting /\ Ready
    /\ writer' = CASE writer = "wait" -> "write" [] writer = "wait string" -> "string" [] OTHER -> "empty"
    /\ UNCHANGED <<sides, rest, BankFull, bank, queue, accepted, short, lapsed, reads>>

\* A stall, the cable or the timeout ends the wait; only SendString freezes the pipe then.
WaitFails ==
    /\ Waiting /\ ~Ready
    /\ lapsed' = TRUE /\ Returns(writer = "wait string")
    /\ UNCHANGED <<way, BaudRate, BankFull, bank, queue, accepted, short, reads>>

Writer ==
    ClearFirst \/ WriteByte \/ Stream \/ AnyBytes \/ LookFull \/ ClearFlushed \/ ClearEmpty \/ Waited

-----------------------------------------------------------------------------
(* The reader.                                                             *)

\* Gives an empty bank back.  Slips: whatever is left in it; never.
GivenBackAlways(banks) == IF banks = <<>> THEN banks ELSE Tail(banks)
GivenBack(banks) == IF banks # <<>> /\ Head(banks) = <<>> THEN Tail(banks) ELSE banks

\* The host unfreezes its pipe while it looks, and receives what comes meanwhile.
Look ==
    /\ reader = "idle" /\ reader' = "looking"
    /\ polled' = (polled \/ way = "IN")
    /\ UNCHANGED <<way, BaudRate, writes, received, readable, got>>

Looked == reader = "looking" /\ reader' = "idle" /\ polled' = (polled /\ way = "OUT")

BytesReceived ==
    /\ Looked /\ (way = "OUT" => BaudRate)
    /\ received' = GivenBack(received)
    /\ readable' = (IF received' = <<>> THEN 0 ELSE Len(Head(received')))
    /\ UNCHANGED <<way, BaudRate, writes, got>>

NoBaudRate ==
    /\ Looked /\ way = "OUT" /\ ~BaudRate
    /\ UNCHANGED <<way, BaudRate, writes, received, readable, got>>

ReceiveByte ==
    /\ Looked /\ readable > 0
    /\ got' = Head(Head(received)) /\ readable' = readable - 1
    /\ received' = GivenBack([received EXCEPT ![1] = Tail(@)])
    /\ UNCHANGED <<way, BaudRate, writes>>

\* CDC_Device_USBTask flushes what the device writes, and gives back empty packets of the host.
DeviceTask ==
    /\ way = "OUT" /\ BaudRate /\ reader = "idle"
    /\ received' = GivenBack(received) /\ received' # received
    /\ UNCHANGED <<sides, writes, reader, readable, got>>

Reader == BytesReceived \/ NoBaudRate \/ ReceiveByte

Next ==
    \/ SendByte \/ SendString \/ Flush \/ Writer \/ WaitFails
    \/ Look \/ Reader \/ DeviceTask
    \/ Transfer \/ SetLineEncoding

Spec == Init /\ [][Next]_linkvars

-----------------------------------------------------------------------------
\* Packets that hold the bytes from the first to the last, each once, in order.
Hold(packets, first, last) ==
    /\ \A p \in DOMAIN packets : \A k \in DOMAIN packets[p] : packets[p][k] \in first..last
    /\ \A byte \in first..last :
          \E p \in DOMAIN packets : \E k \in DOMAIN packets[p] : packets[p][k] = byte
    /\ \A p, q \in DOMAIN packets : \A k \in DOMAIN packets[p], n \in DOMAIN packets[q] :
          p < q \/ (p = q /\ k < n) => packets[p][k] < packets[q][n]

\* Every byte that a call wrote is on its way, once and in order, whatever timed out, was
\* flushed or was found empty: none is overwritten in a bank that is not free, or given back
\* unread.
InOrder == Hold(received \o queue \o <<bank>>, got + 1, accepted)

\* A flush after which the receiver knows that no more comes: as long as no wait has failed, the
\* last packet it sends is not a full one.
FlushEnds ==
    [][writer' = "idle" /\ writer \in {"bytes", "flush", "empty"} /\ ~lapsed => short' /\ Len(bank') = 0]_linkvars
=============================================================================
