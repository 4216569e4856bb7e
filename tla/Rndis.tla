-------------------------------- MODULE Rndis --------------------------------
(***************************************************************************)
(* A network adapter with the RNDIS class driver (Class/Device/RNDIS.c)    *)
(* and a host with the other one (Class/Host/RNDIS.c): messages, which     *)
(* are sent and answered by two control requests and share one buffer in   *)
(* the device, and frames, which the device moves only when that buffer    *)
(* holds nothing and the host has set a packet filter.                     *)
(*                                                                         *)
(* The library is built as in this repository: the device handles control  *)
(* requests in an interrupt, between any two steps of its task.  The host  *)
(* thaws a pipe for a call and freezes it at its end; the bus moves a bank *)
(* only while its pipe is thawed, so that the last bank of a frame may     *)
(* stay in the host.  A frame takes up to Parts banks.  Once a stream has  *)
(* failed half-way its frames no longer begin where the receiver expects   *)
(* them: that direction is then left out.                                  *)
(***************************************************************************)
EXTENDS Integers, Sequences

CONSTANTS Messages,     \* what a host may send: "initialize", "filter" (the set of the packet
                        \* filter), "set", "query", "reset", "keepalive", "halt", "unknown"
          Parts,        \* the most banks that a frame takes
          Calls, Frames \* bounds: calls with a message; frames in both directions

VARIABLES
    host,               \* where the host's call is
    RequestID,          \* the number of its message
    answer,             \* the number of the message whose response the last call read, or 0
    settled,            \* the last call with a message succeeded
    buffer,             \* RNDISMessageBuffer: the number of the message it answers
    MessageLength,      \* is not zero
    ResponseReady, notified,
    CurrRNDISState,
    step,               \* where RNDIS_Device_USBTask is
    FrameIN, FrameOUT,  \* the frame each holds, or 0
    pipeOUT, pipeIN,    \* a part of a frame in the host's pipes, and whether more follow
    bankOUT, bankIN,    \* the same, in the device's endpoints
    frozen,             \* the pipes that are
    place, moved,       \* the parts the host has sent or read of a frame, and the device
    sentOUT, gotOUT, sentIN, gotIN,     \* the frames sent and received; Unread for a lost one
    brokenOUT, brokenIN                 \* a stream has failed half-way

calls == <<host, RequestID, answer, settled>>
control == <<buffer, MessageLength, ResponseReady, CurrRNDISState>>
device == <<step, moved, notified, FrameIN, FrameOUT>>
banks == <<pipeOUT, pipeIN, bankOUT, bankIN, frozen>>
frames == <<place, sentOUT, gotOUT, sentIN, gotIN, brokenOUT, brokenIN>>
rndisvars == <<calls, control, device, banks, frames>>

Init ==
    /\ host = "idle" /\ RequestID = 0
    /\ answer = 0 /\ settled = FALSE
    /\ buffer = 0 /\ MessageLength = FALSE /\ ResponseReady = FALSE /\ notified = FALSE
    /\ CurrRNDISState = "Uninitialized"
    /\ step = "notify" /\ FrameIN = 0 /\ FrameOUT = 0
    /\ pipeOUT = <<>> /\ pipeIN = <<>> /\ bankOUT = <<>> /\ bankIN = <<>> /\ frozen = {"OUT", "IN"}
    /\ place = 0 /\ moved = 0
    /\ sentOUT = 0 /\ gotOUT = <<>> /\ sentIN = 0 /\ gotIN = <<>>
    /\ brokenOUT = FALSE /\ brokenIN = FALSE

-----------------------------------------------------------------------------
(* Messages.                                                               *)

\* What each message makes of the device's state.
NewState(message) ==
    CASE message = "initialize" -> "Initialized"
      [] message = "halt" -> "Uninitialized"
      [] message = "filter" -> "Data_Initialized"
      [] OTHER -> CurrRNDISState

\* What the buffer answers next: the message took the place of any response left in it.  Slip: a
\* response that was not fetched is kept.
KeptUnread(message) == IF MessageLength THEN buffer ELSE RequestID'
Taken(message) == IF message = "unknown" THEN 0 ELSE RequestID'

\* RNDIS_Device_ProcessRNDISControlMessage: the response takes the place of the message.
ProcessMessage(message) ==
    /\ buffer' = Taken(message)
    /\ MessageLength' = (message # "halt")
    /\ ResponseReady' = (IF message = "unknown" THEN ResponseReady ELSE message # "halt")
    /\ CurrRNDISState' = NewState(message)

\* Halting is not answered, and the host's class driver sends no message it knows nothing of.
Answered(message) == message \notin {"halt", "unknown"}

\* SEND_ENCAPSULATED_COMMAND: it may fail before it reaches the device, or after.
SendCommand(message) ==
    \/ ProcessMessage(message) /\ host' \in {"idle", IF Answered(message) THEN "get" ELSE "idle"}
    \/ host' = "idle" /\ UNCHANGED control

StartCall ==
    /\ host = "idle" /\ RequestID < Calls
    /\ RequestID' = RequestID + 1 /\ answer' = 0 /\ settled' = FALSE
    /\ \E message \in Messages : SendCommand(message)
    /\ UNCHANGED <<device, banks, frames>>

\* The response is given away.  Slip: the buffer stays in use.
KeepsResponse == MessageLength
FreesBuffer == FALSE

\* GET_ENCAPSULATED_RESPONSE, likewise; a device without a response sends a byte of zero.
GetResponse ==
    /\ host = "get" /\ host' = "idle"
    /\ \/ /\ MessageLength' = FreesBuffer
          /\ \/ answer' = (IF MessageLength THEN buffer ELSE 0) /\ settled' = TRUE
             \/ UNCHANGED <<answer, settled>>
       \/ UNCHANGED <<MessageLength, answer, settled>>
    /\ UNCHANGED <<RequestID, buffer, ResponseReady, CurrRNDISState, device, banks, frames>>

-----------------------------------------------------------------------------
(* RNDIS_Device_USBTask.                                                   *)

\* The host's class driver reads no notification: the first stays in the endpoint.
Notify ==
    /\ step = "notify"
    /\ IF ~notified /\ ResponseReady THEN step' = "notified" /\ notified' = TRUE
                                     ELSE step' = "frames" /\ UNCHANGED notified
    /\ UNCHANGED <<moved, FrameIN, FrameOUT, calls, control, banks, frames>>

\* A message that came since the notification was written is not notified.
Notified ==
    /\ step = "notified" /\ step' = "frames" /\ ResponseReady' = FALSE
    /\ UNCHANGED <<notified, moved, FrameIN, FrameOUT, calls, buffer, MessageLength,
                   CurrRNDISState, banks, frames>>

MovesFrames ==
    /\ step = "frames"
    /\ step' = (IF CurrRNDISState = "Data_Initialized" /\ ~MessageLength THEN "read" ELSE "notify")
    /\ UNCHANGED <<notified, moved, FrameIN, FrameOUT, calls, control, banks, frames>>

\* Room for a frame from the host.
RoomForFrame == FrameIN = 0

\* A frame has no more than Parts banks: whether a part after "count" others is followed by one.
More(count) == {more \in BOOLEAN : more => count + 1 < Parts}
Part(frame, more) == <<[frame |-> frame, more |-> more]>>

\* Endpoint_Read_Stream_LE, a bank at a time, and Endpoint_ClearOUT.
ReadPart ==
    /\ step = "read" /\ ~brokenOUT /\ bankOUT # <<>> /\ (moved = 0 => RoomForFrame)
    /\ bankOUT' = <<>>
    /\ IF Head(bankOUT).more THEN moved' = moved + 1 /\ UNCHANGED <<FrameIN, step>>
                             ELSE moved' = 0 /\ FrameIN' = Head(bankOUT).frame /\ step' = "write"
    /\ UNCHANGED <<notified, FrameOUT, calls, control, pipeOUT, pipeIN, bankIN, frozen, frames>>

NothingToRead ==
    /\ step = "read" /\ step' = "write" /\ moved = 0
    /\ bankOUT = <<>> \/ ~RoomForFrame \/ brokenOUT
    /\ UNCHANGED <<notified, moved, FrameIN, FrameOUT, calls, control, banks, frames>>

\* A wait inside the stream fails: what there is of the frame is moved for the whole.
ReadFails ==
    /\ step = "read" /\ moved > 0 /\ bankOUT = <<>>
    /\ step' = "write" /\ moved' = 0 /\ brokenOUT' = TRUE
    /\ UNCHANGED <<notified, FrameIN, FrameOUT, calls, control, banks, place, sentOUT, gotOUT,
                   sentIN, gotIN, brokenIN>>

WritePart ==
    /\ step = "write" /\ FrameOUT # 0 /\ bankIN = <<>> /\ ~brokenIN
    /\ \E more \in More(moved) :
         /\ bankIN' = Part(FrameOUT, more)
         /\ IF more THEN moved' = moved + 1 /\ UNCHANGED <<FrameOUT, step>>
                    ELSE moved' = 0 /\ FrameOUT' = 0 /\ step' = "notify"
    /\ UNCHANGED <<notified, FrameIN, calls, control, pipeOUT, pipeIN, bankOUT, frozen, frames>>

NothingToWrite ==
    /\ step = "write" /\ step' = "notify" /\ moved = 0
    /\ FrameOUT = 0 \/ bankIN # <<>> \/ brokenIN
    /\ UNCHANGED <<notified, moved, FrameIN, FrameOUT, calls, control, banks, frames>>

WriteFails ==
    /\ step = "write" /\ moved > 0 /\ bankIN # <<>>
    /\ step' = "notify" /\ moved' = 0 /\ FrameOUT' = 0 /\ brokenIN' = TRUE
    /\ UNCHANGED <<notified, FrameIN, calls, control, banks, place, sentOUT, gotOUT, sentIN,
                   gotIN, brokenOUT>>

\* The application takes a frame, and offers one.
TakeFrame ==
    /\ FrameIN # 0 /\ step = "notify"
    /\ gotOUT' = Append(gotOUT, FrameIN) /\ FrameIN' = 0
    /\ UNCHANGED <<step, moved, notified, FrameOUT, calls, control, banks, place, sentOUT, sentIN,
                   gotIN, brokenOUT, brokenIN>>

OfferFrame ==
    /\ FrameOUT = 0 /\ step = "notify" /\ sentOUT + sentIN < Frames
    /\ sentIN' = sentIN + 1 /\ FrameOUT' = sentIN'
    /\ UNCHANGED <<step, moved, notified, FrameIN, calls, control, banks, place, sentOUT, gotOUT,
                   gotIN, brokenOUT, brokenIN>>

-----------------------------------------------------------------------------
(* RNDIS_Host_SendPacket, RNDIS_Host_IsPacketReceived and                  *)
(* RNDIS_Host_ReadPacket.                                                  *)

SendPacket ==
    /\ host = "idle" /\ sentOUT + sentIN < Frames /\ ~brokenOUT
    /\ host' = "sending" /\ frozen' = frozen \ {"OUT"}
    /\ UNCHANGED <<RequestID, answer, settled, control, device, pipeOUT, pipeIN, bankOUT,
                   bankIN, frames>>

\* Pipe_Write_Stream_LE, a bank at a time, and Pipe_ClearOUT.
SendPart ==
    /\ host = "sending" /\ pipeOUT = <<>>
    /\ \E more \in More(place) :
         /\ pipeOUT' = Part(sentOUT + 1, more)
         /\ IF more THEN place' = place + 1 /\ UNCHANGED <<sentOUT, host>>
                    ELSE place' = 0 /\ sentOUT' = sentOUT + 1 /\ host' = "sent"
    /\ UNCHANGED <<RequestID, answer, settled, control, device, pipeIN, bankOUT, bankIN,
                   frozen, gotOUT, sentIN, gotIN, brokenOUT, brokenIN>>

\* It is only looked for a frame; and one is read.
IsPacketReceived ==
    /\ host = "idle" /\ host' = "received" /\ frozen' = frozen \ {"IN"}
    /\ UNCHANGED <<RequestID, answer, settled, control, device, pipeOUT, pipeIN, bankOUT,
                   bankIN, frames>>

ReadPacket ==
    /\ host = "idle" /\ ~brokenIN
    /\ host' = "reading" /\ frozen' = frozen \ {"IN"}
    /\ UNCHANGED <<RequestID, answer, settled, control, device, pipeOUT, pipeIN, bankOUT,
                   bankIN, frames>>

\* Pipe_IsReadWriteAllowed, for a pipe that was thawed just now.
Readable ==
    /\ host = "reading" /\ host' = (IF pipeIN # <<>> THEN "receiving" ELSE "unreadable")
    /\ UNCHANGED <<RequestID, answer, settled, control, device, banks, frames>>

\* Pipe_IsINReceived, after that test: a bank that came since is given back unread.
Unread == 0
Unreadable ==
    /\ host = "unreadable" /\ host' = "received" /\ pipeIN' = <<>>
    /\ IF pipeIN = <<>> THEN UNCHANGED <<gotIN, brokenIN>>
       ELSE IF Head(pipeIN).more THEN brokenIN' = TRUE /\ UNCHANGED gotIN
       ELSE gotIN' = Append(gotIN, Unread) /\ UNCHANGED brokenIN
    /\ UNCHANGED <<RequestID, answer, settled, control, device, pipeOUT, bankOUT, bankIN,
                   frozen, place, sentOUT, gotOUT, sentIN, brokenOUT>>

\* Pipe_Read_Stream_LE, a bank at a time, and Pipe_ClearIN.
ReceivePart ==
    /\ host = "receiving" /\ pipeIN # <<>>
    /\ pipeIN' = <<>>
    /\ IF Head(pipeIN).more THEN place' = place + 1 /\ UNCHANGED <<gotIN, host>>
       ELSE place' = 0 /\ gotIN' = Append(gotIN, Head(pipeIN).frame) /\ host' = "received"
    /\ UNCHANGED <<RequestID, answer, settled, control, device, pipeOUT, bankOUT, bankIN,
                   frozen, sentOUT, gotOUT, sentIN, brokenOUT, brokenIN>>

\* A call freezes its pipe last.
Freeze ==
    /\ host \in {"sent", "received"} /\ host' = "idle"
    /\ frozen' = frozen \cup {IF host = "sent" THEN "OUT" ELSE "IN"}
    /\ UNCHANGED <<RequestID, answer, settled, control, device, pipeOUT, pipeIN, bankOUT,
                   bankIN, frames>>

\* A wait fails.  Without the first part nothing was sent, and the call ends with its pipe thawed;
\* so it does when it fails in the header of a frame, and later ones are not looked at.
PacketFails ==
    /\ place' = 0
    /\ \/ /\ host = "sending" /\ pipeOUT # <<>> /\ brokenOUT' = (brokenOUT \/ place > 0) /\ UNCHANGED brokenIN
          /\ host' \in {"idle", IF place > 0 THEN "sent" ELSE "idle"}
       \/ /\ host = "receiving" /\ pipeIN = <<>> /\ brokenIN' = TRUE /\ UNCHANGED brokenOUT
          /\ host' \in {"idle", "received"}
    /\ UNCHANGED <<RequestID, answer, settled, control, device, banks, sentOUT, gotOUT,
                   sentIN, gotIN>>

\* The bus moves a bank of a pipe that is not frozen.
Bus ==
    /\ \/ /\ "OUT" \notin frozen /\ pipeOUT # <<>> /\ bankOUT = <<>>
          /\ bankOUT' = pipeOUT /\ pipeOUT' = <<>> /\ UNCHANGED <<bankIN, pipeIN>>
       \/ /\ "IN" \notin frozen /\ bankIN # <<>> /\ pipeIN = <<>>
          /\ pipeIN' = bankIN /\ bankIN' = <<>> /\ UNCHANGED <<bankOUT, pipeOUT>>
    /\ UNCHANGED <<calls, control, device, frozen, frames>>

Task ==
    \/ Notify \/ Notified \/ MovesFrames \/ ReadPart \/ NothingToRead \/ WritePart \/ NothingToWrite
PacketPart == SendPart \/ Readable \/ Unreadable \/ ReceivePart \/ Freeze
TaskFails == ReadFails \/ WriteFails

Next ==
    \/ StartCall \/ GetResponse \/ Task \/ TaskFails \/ TakeFrame \/ OfferFrame
    \/ SendPacket \/ IsPacketReceived \/ ReadPacket \/ PacketPart \/ PacketFails \/ Bus

\* Both programs run; the device's takes the frames it finds, the host's looks for frames.  The
\* bus moves a bank whose pipe stays thawed, but need not while it is thawed for a call that
\* finds nothing.  A wait that lasts fails.
Fairness ==
    /\ WF_rndisvars(Task) /\ WF_rndisvars(TaskFails) /\ SF_rndisvars(TakeFrame)
    /\ WF_rndisvars(GetResponse) /\ WF_rndisvars(PacketPart) /\ WF_rndisvars(PacketFails)
    /\ SF_rndisvars(ReadPacket) /\ WF_rndisvars(Bus)

FairSpec == Init /\ [][Next]_rndisvars /\ Fairness

-----------------------------------------------------------------------------
\* What a call takes for the response to its message is that: the host compares no RequestId,
\* and messages that failed on the way have left their responses in the buffer.
OwnResponse == settled => answer = RequestID

Broken == brokenOUT \/ brokenIN

\* The frame that waits in a pipe that its call has frozen again, for the next call; and those
\* that the device has for the host.
HeldOUT == IF "OUT" \in frozen /\ pipeOUT # <<>> THEN <<Head(pipeOUT).frame>> ELSE <<>>
HeldIN ==
    (IF bankIN = <<>> THEN <<>> ELSE <<Head(bankIN).frame>>)
        \o (IF FrameOUT = 0 THEN <<>> ELSE <<FrameOUT>>)

\* Frames flow once a filter is set, whatever failed before, as soon as a call has succeeded and
\* none follows it: no response is left in the buffer that would stop them.  Each arrives once
\* and in order, except the one that stays in the host's frozen pipe; of those for the host the
\* device fills the bank, and what has crossed the bus is read, or given back unread.
FramesFlow ==
    <>[](settled /\ CurrRNDISState = "Data_Initialized" /\ ~Broken) =>
        <>[](/\ gotOUT \o HeldOUT = [k \in 1..sentOUT |-> k]
             /\ Len(gotIN \o HeldIN) = sentIN /\ pipeIN = <<>> /\ (FrameOUT # 0 => bankIN # <<>>)
             /\ \A k \in 1..sentIN : (gotIN \o HeldIN)[k] \in {k, Unread})
=============================================================================
