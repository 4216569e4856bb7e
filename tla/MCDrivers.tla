------------------------------ MODULE MCDrivers ------------------------------
(* The class drivers of the library, one of them in each behaviour: the    *)
(* one that "program" names runs, and the others stay as they begin.       *)
EXTENDS Integers, Sequences

CONSTANTS
    Commands, TotalLUNs, StorageCalls, Controls, BlockSize, HeaderSize, StatusSize,
    Inputs, Zero, Banks, IdlePeriods,
    BankSize, Longest,
    Messages, Parts, MessageCalls, Frames

VARIABLES
    program,
    call, stage, need, command, tag, origin, failed, hostOUT, hostIN, thawed, RXSTALL, request,
    requests, attached, task, block, left, Status, taken, deviceOUT, deviceIN, halted,
    IsMassStoreReset,
    input, PrevReportIN, IdleCount, IdleMSRemaining, endpoint, pipe, sent, seen, fetched,
    way, BaudRate, polled, writer, rest, BankFull, bank, queue, received, reader, readable,
    accepted, got, short, lapsed,
    host, RequestID, answer, settled, buffer, MessageLength, ResponseReady, notified,
    CurrRNDISState, step, FrameIN, FrameOUT, pipeOUT, pipeIN, bankOUT, bankIN, frozen, place,
    moved, sentOUT, gotOUT, sentIN, gotIN, brokenOUT, brokenIN

\* A command block fills a bank, and has a header; commands transfer data one way.
ASSUME StorageAssumption ==
    /\ BlockSize \in Nat /\ HeaderSize \in Nat \ {0} /\ HeaderSize <= BlockSize
    /\ StatusSize \in Nat \ {0}
    /\ Commands # {} /\ \A c \in Commands : c.length \in Nat /\ c.direction \in {"IN", "OUT"}

\* There is a bank, with room for a byte.
ASSUME LineAssumption == Banks \in Nat \ {0} /\ BankSize \in Nat \ {0} /\ Longest \in Nat

\* A frame has a bank.
ASSUME NetworkAssumption == Parts \in Nat \ {0}

Storage == INSTANCE MassStorage WITH Calls <- StorageCalls, BankSize <- BlockSize
Reports == INSTANCE HIDReports
Line    == INSTANCE CdcLink
Network == INSTANCE Rndis WITH Calls <- MessageCalls

storage == <<call, stage, need, command, tag, origin, failed, hostOUT, hostIN, thawed, RXSTALL, request,
             requests, attached, task, block, left, Status, taken, deviceOUT, deviceIN, halted,
             IsMassStoreReset>>
reports == <<input, PrevReportIN, IdleCount, IdleMSRemaining, endpoint, pipe, sent, seen, fetched>>
line    == <<way, BaudRate, polled, writer, rest, BankFull, bank, queue, received, reader, readable,
             accepted, got, short, lapsed>>
network == <<host, RequestID, answer, settled, buffer, MessageLength, ResponseReady, notified,
             CurrRNDISState, step, FrameIN, FrameOUT, pipeOUT, pipeIN, bankOUT, bankIN, frozen, place,
             moved, sentOUT, gotOUT, sentIN, gotIN, brokenOUT, brokenIN>>
vars == <<program, storage, reports, line, network>>

Init ==
    /\ program \in {"storage", "reports", "line", "network"}
    /\ Storage!Init /\ Reports!Init /\ Line!Init /\ Network!Init
    /\ program # "line" => way = "IN"

\* A step of one of the programs.
InStorage == program = "storage" /\ UNCHANGED <<program, reports, line, network>>
InReports == program = "reports" /\ UNCHANGED <<program, storage, line, network>>
InLine    == program = "line" /\ UNCHANGED <<program, storage, reports, network>>
InNetwork == program = "network" /\ UNCHANGED <<program, storage, reports, line>>

Next ==
    \/ InStorage /\ Storage!Next
    \/ InReports /\ Reports!Next
    \/ InLine /\ Line!Next
    \/ InNetwork /\ Network!Next

\* The assumptions of the programs.  As "program" never changes, a disjunction of steps of
\* several programs is each of these steps, in its program; three kinds of a network adapter's
\* steps, which happen finitely often, stand together too.
Fairness ==
    /\ WF_vars(\/ InStorage /\ Storage!HostStep
               \/ InReports /\ Reports!HID_Device_USBTask(FALSE)
               \/ InNetwork /\ Network!Task)
    /\ WF_vars(\/ InReports /\ Reports!HID_Device_MillisecondElapsed
               \/ InNetwork /\ (Network!GetResponse \/ Network!TaskFails \/ Network!Bus))
    /\ WF_vars(\/ InReports /\ Reports!Host
               \/ InNetwork /\ Network!PacketPart)
    /\ WF_vars(InNetwork /\ Network!PacketFails)
    /\ SF_vars(\/ InStorage /\ Storage!Timeout
               \/ InNetwork /\ Network!TakeFrame)
    /\ SF_vars(InNetwork /\ Network!ReadPacket)

FairSpec == Init /\ [][Next]_vars /\ Fairness

-----------------------------------------------------------------------------
(* What is checked of each: stated, and explained, in its module.          *)

\* What a mass storage host takes for a command's status and data are its own.
OwnAnswers == Storage!OwnAnswers
\* A mass storage device carries out each command block once, in order.
ExecutedInOrder == Storage!ExecutedInOrder
\* A call of the mass storage host ends.
CallsEnd == Storage!CallsEnd
\* A HID input that stays reaches the host.
ReportsSeen == Reports!ReportsSeen
\* Bytes of a serial line arrive once and in order.
InOrder == Line!InOrder
\* A flush of a serial line ends with a short packet.
FlushEnds == Line!FlushEnds
\* A network host takes the response to its own message.
OwnResponse == Network!OwnResponse
\* Frames of a network adapter flow.
FramesFlow == Network!FramesFlow

-----------------------------------------------------------------------------
Command(direction, length, lun) == [direction |-> direction, length |-> length, lun |-> lun]
TheCommands ==
    {Command("IN", 0, 0), Command("IN", 4, 0), Command("OUT", 4, 0), Command("IN", 0, 1)}
=============================================================================
