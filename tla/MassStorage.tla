----------------------------- MODULE MassStorage -----------------------------
(***************************************************************************)
(* The mass storage class of the library, both ends of it: the commands    *)
(* of Class/Host/MassStorage.c and the task of Class/Device/MassStorage.c, *)
(* over one bulk pipe in each direction.  A command is a command block,    *)
(* its data and a status; either end gives up on the other when it stalls, *)
(* goes or takes too long, and the other does not learn of it.             *)
(*                                                                         *)
(* A command block fills a bank: 31 bytes, of which the device first reads *)
(* 15, the header.  Data toggles are left out.                             *)
(***************************************************************************)
EXTENDS Integers, Sequences, FiniteSets, SequencesExt

CONSTANTS Commands,    \* what the host may ask: records of direction, length and lun
          TotalLUNs,
          Calls,       \* bound: calls made
          Controls,    \* bound: class requests made
          BankSize, HeaderSize, StatusSize

VARIABLES
    call,              \* where the host's call is
    stage, need,       \* the transfer it is in, and how much of it is left
    command, tag,      \* SCSICommandBlock, TransactionTag
    origin,            \* what it took for its data and for its status
    failed,            \* a call has returned an error
    hostOUT, hostIN,   \* the banks of its pipes, with at most one packet
    thawed, RXSTALL,   \* the pipes not frozen; those that have seen a stall
    request, requests, \* the control request the device has not handled yet
    attached,
    task,              \* where the device's task is
    block,             \* CommandBlock, or its number
    left,              \* how much the device has still to transfer
    Status,            \* the outcome it will report
    taken,             \* what it took for the data of the command
    deviceOUT, deviceIN, halted, IsMassStoreReset

hostVars   == <<call, stage, need, command, tag, origin, failed, thawed>>
deviceVars == <<task, block, left, Status, taken, IsMassStoreReset>>
vars == <<hostVars, hostOUT, hostIN, RXSTALL, request, requests, attached,
          deviceVars, deviceOUT, deviceIN, halted>>

Least(a, b) == IF a < b THEN a ELSE b
None == [data |-> {}, status |-> {}]
\* The packets, with the number of the command they belong to.
Block == [kind |-> "block", number |-> tag, size |-> BankSize, asks |-> command]
Data(n, size) == [kind |-> "data", number |-> n, size |-> size]
CommandStatus == [kind |-> "status", number |-> block.number, size |-> StatusSize,
                  passed |-> Status]

Init ==
    /\ call = "idle" /\ stage = "data" /\ need = 0
    /\ command = (CHOOSE c \in Commands : TRUE) /\ tag = 0 /\ origin = None /\ failed = FALSE
    /\ hostOUT = <<>> /\ hostIN = <<>> /\ thawed = {} /\ RXSTALL = {}
    /\ request = <<>> /\ requests = 0 /\ attached = TRUE
    /\ task = "idle" /\ block = [command |-> command, number |-> 0]
    /\ left = 0 /\ Status = TRUE /\ taken = {}
    /\ deviceOUT = <<>> /\ deviceIN = <<>> /\ halted = {} /\ IsMassStoreReset = FALSE

-----------------------------------------------------------------------------
(* The bus, when it polls a pipe that is not frozen.                       *)

Sees(pipe) == RXSTALL' = RXSTALL \cup {pipe} /\ thawed' = thawed \ {pipe}

BusOUT ==
    /\ attached /\ "OUT" \in thawed /\ hostOUT # <<>>
    /\ \/ "OUT" \in halted /\ Sees("OUT") /\ UNCHANGED <<hostOUT, deviceOUT>>
       \/ /\ "OUT" \notin halted /\ deviceOUT = <<>>
          /\ deviceOUT' = hostOUT /\ hostOUT' = <<>> /\ UNCHANGED <<RXSTALL, thawed>>
    /\ UNCHANGED <<call, stage, need, command, tag, origin, failed, hostIN, request, requests,
                   attached, deviceVars, deviceIN, halted>>

BusIN ==
    /\ attached /\ "IN" \in thawed /\ hostIN = <<>>
    /\ \/ "IN" \in halted /\ Sees("IN") /\ UNCHANGED <<hostIN, deviceIN>>
       \/ /\ "IN" \notin halted /\ deviceIN # <<>>
          /\ hostIN' = deviceIN /\ deviceIN' = <<>> /\ UNCHANGED <<RXSTALL, thawed>>
    /\ UNCHANGED <<call, stage, need, command, tag, origin, failed, hostOUT, request, requests,
                   attached, deviceVars, deviceOUT, halted>>

Detach ==
    /\ attached /\ attached' = FALSE
    /\ UNCHANGED <<hostVars, hostOUT, hostIN, RXSTALL, request, requests, deviceVars, deviceOUT,
                   deviceIN, halted>>

-----------------------------------------------------------------------------
(* The host.                                                               *)

elsewhere == <<tag, requests, attached, deviceVars, deviceOUT, deviceIN, halted>>

\* Pipe_IsStalled, or the host state is Unattached.
Broken(pipe) == pipe \in RXSTALL \/ ~attached

\* A call returns an error; the pipe that is selected is frozen, or none of the two.
Returns(frozen) ==
    /\ call' = "idle" /\ thawed' = thawed \ frozen
    /\ failed' = (failed \/ stage # "class")

\* MS_Host_SendCommand freezes what its callees leave selected, MS_Host_GetReturnedStatus does not.
Selected(pipe) == IF stage = "data" THEN {pipe} ELSE {}

StartCommand(c) ==
    /\ call = "idle" /\ attached /\ tag < Calls
    /\ call' = "block" /\ command' = c /\ tag' = tag + 1 /\ origin' = None
    /\ stage' = "data" /\ need' = c.length /\ thawed' = thawed \cup {"OUT"}
    /\ UNCHANGED <<failed, hostOUT, hostIN, RXSTALL, request, requests, attached, deviceVars,
                   deviceOUT, deviceIN, halted>>

SendBlock ==
    /\ call = "block" /\ hostOUT = <<>>
    /\ hostOUT' = <<Block>> /\ call' = "sent"
    /\ UNCHANGED <<stage, need, command, origin, failed, hostIN, thawed, RXSTALL, request,
                   elsewhere>>

\* The wait after it ends in any way: its result is not looked at.
BlockSent ==
    /\ call = "sent"
    /\ IF command.length > 0 /\ command.direction = "OUT"
       THEN call' = "write" /\ thawed' = thawed \cup {"OUT"} /\ UNCHANGED <<stage, need>>
       ELSE /\ call' = "receive" /\ thawed' = (thawed \ {"OUT"}) \cup {"IN"}
            /\ stage' = (IF command.length > 0 THEN "data" ELSE "status")
            /\ need' = (IF command.length > 0 THEN need ELSE StatusSize)
    /\ UNCHANGED <<command, origin, failed, hostOUT, hostIN, RXSTALL, request, elsewhere>>

\* MS_Host_WaitForDataReceived: both pipes are polled in turn, one of them frozen.
Receive ==
    /\ call = "receive"
    /\ IF hostIN # <<>> THEN call' = "read" /\ thawed' = {"IN"}
                        ELSE call' = "tryOUT" /\ thawed' = {"OUT"}
    /\ UNCHANGED <<stage, need, command, origin, failed, hostOUT, hostIN, RXSTALL, request,
                   elsewhere>>

Clears(pipe) == call' = "control" /\ request' = <<pipe>> /\ UNCHANGED <<failed, thawed>>

TryOUT ==
    /\ call = "tryOUT"
    /\ IF "OUT" \in RXSTALL THEN Clears("OUT")
       ELSE call' = "tryIN" /\ thawed' = {"IN"} /\ UNCHANGED <<failed, request>>
    /\ UNCHANGED <<stage, need, command, origin, hostOUT, hostIN, RXSTALL, elsewhere>>

TryIN ==
    /\ call = "tryIN"
    /\ \/ "IN" \in RXSTALL /\ Clears("IN")
       \/ "IN" \notin RXSTALL /\ ~attached /\ Returns(Selected("IN")) /\ UNCHANGED request
       \/ "IN" \notin RXSTALL /\ attached /\ call' = "receive" /\ UNCHANGED <<failed, thawed, request>>
    /\ UNCHANGED <<stage, need, command, origin, hostOUT, hostIN, RXSTALL, elsewhere>>

AwaitStatus ==
    stage' = "status" /\ need' = StatusSize /\ call' = "receive" /\ thawed' = {"IN"}

\* Pipe_ClearIN after a transfer.  Slip: it is left out.
NotEmptied(packet) == <<packet>>
Emptied(packet) == <<>>

\* Pipe_Read_Stream_LE: what is in the bank, as far as it is needed; the rest of a packet is lost.
Read ==
    /\ call = "read" /\ hostIN # <<>>
    /\ LET packet == Head(hostIN)
           rest == need - Least(need, packet.size) IN
       /\ origin' = [origin EXCEPT ![stage] = @ \cup {packet}]
       /\ \/ rest > 0 /\ need' = rest /\ UNCHANGED <<call, stage, thawed>>
          \/ rest = 0 /\ stage = "data" /\ AwaitStatus
          \/ /\ rest = 0 /\ stage = "status"
             /\ call' = "idle" /\ need' = 0 /\ thawed' = thawed \ {"IN"} /\ UNCHANGED stage
       /\ hostIN' = IF rest = 0 THEN Emptied(packet) ELSE <<>>
    /\ UNCHANGED <<command, failed, hostOUT, RXSTALL, request, elsewhere>>

Write ==
    /\ call = "write" /\ hostOUT = <<>>
    /\ LET size == Least(need, BankSize) IN
       /\ hostOUT' = <<Data(tag, size)>>
       /\ need' = need - size
       /\ call' = (IF need = size THEN "written" ELSE "write")
    /\ UNCHANGED <<stage, command, origin, failed, hostIN, thawed, RXSTALL, request, elsewhere>>

\* The loop of line 249 looks at nothing but the bank and the host's state.
Written ==
    /\ call = "written"
    /\ \/ hostOUT = <<>> /\ AwaitStatus /\ UNCHANGED failed
       \/ hostOUT # <<>> /\ ~attached /\ Returns({"OUT"}) /\ UNCHANGED <<stage, need>>
    /\ UNCHANGED <<command, origin, hostOUT, hostIN, RXSTALL, request, elsewhere>>

\* A wait ends because of a stall or of the cable.
GiveUp ==
    /\ \/ call \in {"block", "write"} /\ hostOUT # <<>> /\ Broken("OUT")
          /\ Returns(IF call = "write" THEN {"OUT"} ELSE {})
       \/ call = "read" /\ hostIN = <<>> /\ Broken("IN") /\ Returns(Selected("IN"))
       \/ call = "control" /\ (request = <<>> \/ ~attached) /\ Returns({})
    /\ UNCHANGED <<stage, need, command, origin, hostOUT, hostIN, RXSTALL, request, elsewhere>>

\* A wait ends because of its timeout.  Slip: the wait for data has none.
WaitsForBanks ==
    \/ call \in {"block", "write"} /\ hostOUT # <<>>
    \/ call = "read" /\ hostIN = <<>>
    \/ call = "control"
Waits ==
    \/ call \in {"block", "write"} /\ hostOUT # <<>>
    \/ call \in {"read", "receive"} /\ hostIN = <<>>
    \/ call = "control"
Timeout ==
    /\ Waits
    /\ Returns(CASE call = "write" -> {"OUT"}
                 [] call \in {"read", "receive"} -> Selected("IN")
                 [] OTHER -> {})
    /\ UNCHANGED <<stage, need, command, origin, hostOUT, hostIN, RXSTALL, request, elsewhere>>

\* MS_Host_ResetMSInterface and MS_Host_GetMaxLUN.
ClassRequest(name) ==
    /\ call = "idle" /\ attached /\ requests < Controls
    /\ requests' = requests + 1 /\ request' = <<name>>
    /\ call' = "control" /\ stage' = "class"
    /\ UNCHANGED <<need, command, tag, origin, failed, hostOUT, hostIN, thawed, RXSTALL, attached,
                   deviceVars, deviceOUT, deviceIN, halted>>

-----------------------------------------------------------------------------
(* The device.                                                             *)

away == <<call, stage, need, command, tag, origin, failed, thawed, hostOUT, hostIN, RXSTALL,
          requests, attached>>

\* The end of MS_Device_USBTask, where a reset is carried out.
Ends(out, in, stalled) ==
    /\ task' = "idle"
    /\ IF IsMassStoreReset
       THEN deviceOUT' = <<>> /\ deviceIN' = <<>> /\ halted' = {} /\ IsMassStoreReset' = FALSE
       ELSE /\ deviceOUT' = out /\ deviceIN' = in /\ halted' = stalled
            /\ UNCHANGED IsMassStoreReset

\* What remains of a packet of which some bytes were read.
After(packet, size) == <<[packet EXCEPT !.size = @ - size]>>

Valid(packet) ==
    packet.kind = "block" /\ packet.size = BankSize /\ packet.asks.lun < TotalLUNs

\* Slip: the bank is not given back.
KeepsBlock == deviceOUT
ClearsBlock == <<>>

\* MS_Device_ReadInCommandBlock.
ReadBlock ==
    /\ task = "idle" /\ attached /\ deviceOUT # <<>>
    /\ LET packet == Head(deviceOUT) IN
       /\ packet.size > 0
       /\ \/ /\ Valid(packet)
             /\ task' = "command" /\ block' = [command |-> packet.asks, number |-> packet.number]
             /\ left' = packet.asks.length /\ taken' = {} /\ deviceOUT' = ClearsBlock
             /\ UNCHANGED <<deviceIN, halted, IsMassStoreReset>>
          \/ /\ ~Valid(packet) /\ packet.size >= HeaderSize
             /\ Ends(After(packet, HeaderSize), deviceIN, {"OUT", "IN"})
             /\ UNCHANGED <<block, left, taken>>
          \/ /\ ~Valid(packet) /\ packet.size < HeaderSize
             /\ task' = "header" /\ left' = HeaderSize - packet.size /\ deviceOUT' = <<>>
             /\ UNCHANGED <<block, taken, deviceIN, halted, IsMassStoreReset>>
    /\ UNCHANGED <<Status, request, away>>

\* The rest of a header that began in an earlier packet; what it makes up is no command block.
ReadHeader ==
    /\ task = "header" /\ attached /\ deviceOUT # <<>>
    /\ LET packet == Head(deviceOUT) IN
       \/ /\ packet.size >= left /\ left' = 0
          /\ Ends(After(packet, left), deviceIN, {"OUT", "IN"})
       \/ /\ packet.size < left /\ left' = left - packet.size /\ deviceOUT' = <<>>
          /\ UNCHANGED <<task, deviceIN, halted, IsMassStoreReset>>
    /\ UNCHANGED <<block, Status, taken, request, away>>

\* The wait for it ends because of a stall or of its timeout.
NoHeader ==
    /\ task = "header" /\ attached /\ deviceOUT = <<>>
    /\ Ends(deviceOUT, deviceIN, halted)
    /\ UNCHANGED <<block, left, Status, taken, request, away>>

\* The application's CALLBACK_MS_Device_SCSICommandReceived.
Transfer ==
    /\ task = "command" /\ attached /\ left > 0
    /\ \/ /\ block.command.direction = "IN" /\ deviceIN = <<>>
          /\ LET size == Least(left, BankSize) IN
             deviceIN' = <<Data(block.number, size)>> /\ left' = left - size
          /\ UNCHANGED <<taken, deviceOUT>>
       \/ /\ block.command.direction = "OUT" /\ deviceOUT # <<>>
          /\ LET packet == Head(deviceOUT) IN
             /\ taken' = taken \cup {packet} /\ left' = left - Least(left, packet.size)
          /\ deviceOUT' = <<>> /\ UNCHANGED deviceIN
    /\ UNCHANGED <<task, block, Status, IsMassStoreReset, halted, request, away>>

\* It returns; a command that failed with data left stalls the pipe of the data.
EndCommand ==
    /\ task = "command" /\ attached
    /\ \E passed \in BOOLEAN :
          /\ passed => left = 0
          /\ Status' = passed
          /\ halted' = IF ~passed /\ left > 0
                       THEN halted \cup {block.command.direction} ELSE halted
    /\ task' = "status"
    /\ UNCHANGED <<block, left, taken, IsMassStoreReset, deviceOUT, deviceIN, request, away>>

\* MS_Device_ReturnCommandStatus: once no pipe is stalled; it gives up when the bank is not
\* emptied in time, or when a reset is asked for while it waits for a stall to be cleared.
ReturnStatus ==
    /\ task = "status" /\ attached
    /\ \/ halted = {} /\ deviceIN = <<>> /\ Ends(deviceOUT, <<CommandStatus>>, {})
       \/ halted = {} /\ deviceIN # <<>> /\ Ends(deviceOUT, deviceIN, {})
       \/ halted # {} /\ IsMassStoreReset /\ Ends(deviceOUT, deviceIN, halted)
    /\ UNCHANGED <<block, left, Status, taken, request, away>>

Reset ==
    /\ task = "idle" /\ attached /\ IsMassStoreReset
    /\ \A k \in DOMAIN deviceOUT : deviceOUT[k].size = 0
    /\ Ends(deviceOUT, deviceIN, halted)
    /\ UNCHANGED <<block, left, Status, taken, request, away>>

\* USB_USBTask runs between two turns of the task, while it waits for a stall to be cleared, and
\* when the application has transferred a bank.
Polls == task = "idle" \/ task = "command" \/ (task = "status" /\ halted # {})

HandleRequest ==
    /\ Polls /\ attached /\ request # <<>>
    /\ LET name == Head(request) IN
       /\ halted' = halted \ {name}
       /\ deviceOUT' = IF name = "OUT" THEN <<>> ELSE deviceOUT
       /\ deviceIN' = IF name = "IN" THEN <<>> ELSE deviceIN
       /\ IsMassStoreReset' = (IsMassStoreReset \/ name = "reset")
    /\ request' = <<>>
    /\ UNCHANGED <<task, block, left, Status, taken, away>>

-----------------------------------------------------------------------------
Ask == (\E c \in Commands : StartCommand(c)) \/ (\E name \in {"reset", "maxlun"} : ClassRequest(name))

HostStep ==
    SendBlock \/ BlockSent \/ Receive \/ TryOUT \/ TryIN \/ Read \/ Write \/ Written \/ GiveUp

DeviceStep ==
    \/ ReadBlock \/ ReadHeader \/ NoHeader \/ Transfer \/ EndCommand \/ ReturnStatus \/ Reset
    \/ HandleRequest

Next == Ask \/ HostStep \/ Timeout \/ BusOUT \/ BusIN \/ Detach \/ DeviceStep

Spec == Init /\ [][Next]_vars

\* The host's code runs, and a frame comes each millisecond.
Fairness == WF_vars(HostStep) /\ SF_vars(Timeout)

FairSpec == Spec /\ Fairness

-----------------------------------------------------------------------------
Own(packets, kind) == \A p \in packets : p.kind = kind /\ p.number = tag

Completes == call = "read" /\ stage = "status" /\ call' = "idle" /\ need' = 0

\* The host trusts its place in the sequence of packets alone: it compares neither tag nor
\* signature.  As long as no call has failed, what it takes for the status of a command is that
\* command's status, what it takes for its data are its data, and a device that reports success
\* has taken only that command's data, whatever timed out or was reset on the way.
OwnAnswers ==
    [][Completes /\ ~failed =>
          /\ Own(origin'.status, "status") /\ Own(origin'.data, "data")
          /\ Own(taken, "data")]_vars

\* No stall, timeout, reset or retry makes the device carry out a command block twice, or an
\* older one after a newer one.
ExecutedInOrder ==
    [][task = "idle" /\ task' = "command" => block'.number > block.number]_vars

\* A call ends, except one that waits for the last bank of its data to be taken, which looks at
\* no stall and counts no frames.
CallsEnd == []<>(call = "idle") \/ <>[](call = "written")
=============================================================================
