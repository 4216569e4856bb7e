------------------------------ MODULE UsbHost ------------------------------
(***************************************************************************)
(* LUFA as a USB host: the enumeration of a device (Host.c), the control   *)
(* requests it is made of (HostChapter9.c), and the host half of the       *)
(* interrupt USB_GEN_vect (USBInterrupt.c) that comes between any two      *)
(* steps of main(), which polls USB_USBTask.                               *)
(*                                                                         *)
(* The interrupt is its four tests in their order; while it runs, main()   *)
(* does not, and main() takes no step while an enabled interrupt waits.    *)
(***************************************************************************)
EXTENDS Integers, Sequences, FiniteSets

CONSTANTS USB_HOST_TIMEOUT_MS,
          HOST_DEVICE_SETTLE_DELAY_MS,
          ShortWait, LongWait,   \* the 100 and 200 of HOST_TASK_NONBLOCK_WAIT
          ResetWait,             \* the 10 of USB_Host_ResetDevice
          DescriptorLength       \* the 8 bytes first asked for, in packets of one

\* The waits between states take 100 and 200 turns.  In a wait of a single turn a new device
\* could be announced in the turn that ends it, and be taken for the one before.
ASSUME HostAssumption ==
    /\ USB_HOST_TIMEOUT_MS \in Nat /\ USB_HOST_TIMEOUT_MS < 65536
    /\ HOST_DEVICE_SETTLE_DELAY_MS \in Nat
    /\ ShortWait \in Nat /\ ShortWait > 1 /\ LongWait \in Nat \ {0}
    /\ ResetWait \in Nat /\ DescriptorLength \in Nat \ {0}

VARIABLES
    USB_HostState,
    pc,                         \* where main() is
    goal,                       \* the state it is about to store
    WaitMSRemaining, PostWaitState,
    caller, suspended,          \* USB_Host_WaitMS: who called, BusSuspended
    ErrorCode,                  \* what it returned, or the request, or the pass
    request, stage, DataLen, TimeoutCounter,    \* USB_Host_SendControlRequest
    idleBus,                    \* BusSuspended of the request or of the bus reset
    MSRem,
    DataBuffer, USB_ControlPipeSize,   \* the size "reported", or uninitialised "garbage"
    gen,                        \* the tests of USB_GEN_vect it has passed, 0 outside it
    flags, enabled,             \* interrupt flags and enables
    SOFEN, VBUS, UHADDR,
    plugged, connected,         \* the cable; the controller's view of it
    device, reply,              \* the device's state; its answer in this stage
    announced,                  \* DeviceAttached without DeviceUnattached
    frames                      \* frames started in this stage

sizes == <<DataBuffer, USB_ControlPipeSize>>
request_vars == <<request, stage, DataLen, TimeoutCounter, idleBus>>
wait_vars == <<caller, suspended>>
task_vars == <<pc, goal, WaitMSRemaining, PostWaitState, wait_vars, ErrorCode, request_vars,
               MSRem, sizes>>

bus_vars == <<SOFEN, VBUS, UHADDR, connected>>
device_vars == <<plugged, device, reply>>
vars == <<USB_HostState, task_vars, gen, flags, enabled, bus_vars, device_vars, announced, frames>>

Init ==
    /\ USB_HostState = "Unattached" /\ pc = "idle" /\ goal = "Unattached"
    /\ WaitMSRemaining = 0 /\ PostWaitState = "WaitForDeviceRemoval"
    /\ caller = "idle" /\ suspended = FALSE /\ ErrorCode = "none"
    /\ request = "none" /\ stage = 1 /\ DataLen = 0 /\ TimeoutCounter = 0 /\ idleBus = FALSE
    /\ MSRem = 0 /\ DataBuffer = "garbage" /\ USB_ControlPipeSize = "reported"
    /\ gen = 0 /\ flags = {} /\ enabled = {"SRPI", "BCERRI"}
    /\ SOFEN = FALSE /\ VBUS = "manual" /\ UHADDR = 0
    /\ plugged = FALSE /\ connected = FALSE /\ device = "off" /\ reply = "none"
    /\ announced = FALSE /\ frames = 0

-----------------------------------------------------------------------------
(* What several steps share.                                               *)

MainRuns(label) == pc = label /\ gen = 0 /\ flags \cap enabled = {}

\* The frames of a stage are counted, up to one more than the timeout.
InStage == pc \in {"ios", "waitedms"} \/ (pc = "ms" /\ caller = "waitedms")

\* A frame starts every millisecond while a device is seen that is to be kept awake.
FramesRun == connected /\ VBUS # "off" /\ SOFEN

\* USB_ResetInterface, in host mode.
ResetInterface ==
    /\ flags' = {} /\ enabled' = {"SRPI", "BCERRI"}
    /\ USB_HostState' = "Unattached"
    /\ SOFEN' = FALSE /\ VBUS' = "manual" /\ UHADDR' = 0 /\ connected' = FALSE

EventAttached == announced' = TRUE
EventUnattached == announced' = FALSE

\* HOST_TASK_NONBLOCK_WAIT: its store of USB_HostState is the step Assign.
NonBlockWait(duration, nextstate) ==
    /\ goal' = "WaitForDevice" /\ pc' = "assign"
    /\ WaitMSRemaining' = duration /\ PostWaitState' = nextstate

GoTo(nextstate) ==
    /\ goal' = nextstate /\ pc' = "assign"
    /\ UNCHANGED <<WaitMSRemaining, PostWaitState>>

\* The end of a pass that found an error.
Fails(code) ==
    /\ pc' = "error" /\ ErrorCode' = code
    /\ UNCHANGED <<goal, WaitMSRemaining, PostWaitState>>

UnchangedTask == UNCHANGED <<goal, WaitMSRemaining, PostWaitState>>

-----------------------------------------------------------------------------
(* USB_Host_WaitMS(1).                                                     *)

\* Slip: a bus that sleeps is left asleep.
CallWaitMSAsleep(label) ==
    /\ pc' = "ms" /\ caller' = label
    /\ suspended' = FALSE /\ UNCHANGED SOFEN

CallWaitMS(label) ==
    /\ pc' = "ms" /\ caller' = label
    /\ suspended' = ~SOFEN /\ SOFEN' = TRUE

\* One turn of the loop ends the wait, if anything does.
WaitMS ==
    /\ MainRuns("ms")
    /\ \/ USB_HostState = "Unattached" /\ ErrorCode' = "disconnect" /\ UNCHANGED reply
       \/ /\ USB_HostState # "Unattached" /\ reply \in {"error", "stall"}
          /\ ErrorCode' = reply /\ reply' = "none"
       \/ /\ USB_HostState # "Unattached" /\ reply \notin {"error", "stall"} /\ "HSOFI" \in flags
          /\ ErrorCode' = "none" /\ UNCHANGED reply
    /\ flags' = flags \ {"HSOFI"}
    /\ SOFEN' = (SOFEN /\ ~suspended)
    /\ pc' = caller /\ caller' = "idle" /\ suspended' = FALSE
    /\ UnchangedTask
    /\ UNCHANGED <<USB_HostState, request_vars, MSRem, sizes, gen, enabled, VBUS, UHADDR, connected, plugged, device, announced, frames>>

-----------------------------------------------------------------------------
(* USB_Host_SendControlRequest: the stages of a request are the conditions *)
(* it waits for in turn.  A bank that was never used is free.              *)

Stages == [descriptor |-> <<"setup", "in", "free", "sent">>,
           address    |-> <<"setup", "in">>,
           command    |-> <<"setup", "in">>,
           write      |-> <<"setup", "free", "sent", "in">>]

Stage == Stages[request][stage]

\* The stages that are repeated for every packet of data.
InData == DataLen > 0 /\ <<request, Stage>> \in {<<"descriptor", "in">>, <<"write", "sent">>}

SendControlRequest(r, len) ==
    /\ request' = r /\ stage' = 1 /\ DataLen' = len
    /\ idleBus' = ~SOFEN
    /\ SOFEN' = TRUE /\ suspended' = FALSE
    /\ pc' = "ms" /\ caller' = "begin"

StartStage ==
    /\ pc' = "ios" /\ TimeoutCounter' = USB_HOST_TIMEOUT_MS
    /\ reply' = "none" /\ frames' = 0

\* Returned from WaitMS before the SETUP packet, and again before the next stage.
BeginStages ==
    /\ MainRuns("begin")
    /\ IF ErrorCode = "none"
         THEN StartStage
         ELSE pc' = "end" /\ UNCHANGED <<TimeoutCounter, reply, frames>>
    /\ UnchangedTask
    /\ UNCHANGED <<USB_HostState, wait_vars, ErrorCode, request, stage, DataLen, idleBus, MSRem,
                   sizes, gen, flags, enabled, bus_vars, plugged, device, announced>>

\* USB_Host_WaitForIOS finds what it waits for: the next packet or stage.
\* A device may end its data early with an empty packet.
StageReady ==
    /\ MainRuns("ios") /\ (reply = "ready" \/ Stage = "free")
    /\ \/ /\ InData /\ DataLen' = DataLen - 1
          /\ DataBuffer' = IF request = "descriptor" /\ DataLen = 1 THEN "reported" ELSE DataBuffer
       \/ /\ InData /\ Stage = "in" /\ DataLen' = 0
          /\ UNCHANGED DataBuffer
       \/ ~InData /\ UNCHANGED <<DataLen, DataBuffer>>
    /\ LET again == InData /\ DataLen' > 0
           last == stage = Len(Stages[request]) /\ ~again IN
       /\ stage' = IF again \/ last THEN stage ELSE stage + 1
       /\ IF last
            THEN pc' = "end" /\ UNCHANGED <<wait_vars, SOFEN, TimeoutCounter, reply, frames>>
            ELSE IF Stage = "setup"
                   THEN CallWaitMS("begin") /\ UNCHANGED <<TimeoutCounter, reply, frames>>
                   ELSE StartStage /\ UNCHANGED <<wait_vars, SOFEN>>
    /\ UnchangedTask
    /\ UNCHANGED <<USB_HostState, ErrorCode, request, idleBus, MSRem, USB_ControlPipeSize, gen,
                   flags, enabled, VBUS, UHADDR, connected, plugged, device, announced>>

StageWaits ==
    /\ MainRuns("ios") /\ reply # "ready" /\ Stage # "free"
    /\ CallWaitMS("waitedms")
    /\ UnchangedTask
    /\ UNCHANGED <<USB_HostState, ErrorCode, request_vars, MSRem, sizes, gen, flags, enabled,
                   VBUS, UHADDR, connected, device_vars, announced, frames>>

\* TimeoutCounter--, tested before the decrement.  Slip: tested after it.
ExpiredEarly == TimeoutCounter <= 1
Expired == TimeoutCounter = 0

StageWaited ==
    /\ MainRuns("waitedms")
    /\ IF ErrorCode # "none"
         THEN pc' = "end" /\ UNCHANGED <<ErrorCode, TimeoutCounter>>
         ELSE /\ pc' = IF Expired THEN "end" ELSE "ios"
              /\ ErrorCode' = IF Expired THEN "timeout" ELSE "none"
              /\ TimeoutCounter' = (TimeoutCounter - 1) % 65536
    /\ UnchangedTask
    /\ UNCHANGED <<USB_HostState, wait_vars, request, stage, DataLen, idleBus, MSRem, sizes, gen,
                   flags, enabled, bus_vars, device_vars, announced, frames>>

\* End_Of_Control_Send; Pipe_ResetPipe forgets what the device answered.
EndRequest ==
    /\ MainRuns("end")
    /\ SOFEN' = (SOFEN /\ ~idleBus)
    /\ reply' = "none" /\ frames' = 0
    /\ pc' = request
    /\ request' = "none" /\ stage' = 1 /\ DataLen' = 0 /\ TimeoutCounter' = 0 /\ idleBus' = FALSE
    /\ UnchangedTask
    /\ UNCHANGED <<USB_HostState, wait_vars, ErrorCode, MSRem, sizes, gen, flags, enabled, VBUS,
                   UHADDR, connected, plugged, device, announced>>

-----------------------------------------------------------------------------
(* USB_Host_ResetDevice.                                                   *)

ResetDevice ==
    /\ idleBus' = ~SOFEN
    /\ enabled' = enabled \ {"DDISCI"}
    /\ pc' = "reset"

\* The reset ends after its time, whoever is there to hear it.
BusReset ==
    /\ MainRuns("reset")
    /\ device' = IF plugged THEN "default" ELSE device
    /\ SOFEN' = TRUE
    /\ flags' = flags \ {"HSOFI"}
    /\ MSRem' = ResetWait
    /\ pc' = "look"
    /\ UnchangedTask
    /\ UNCHANGED <<USB_HostState, wait_vars, ErrorCode, request_vars, sizes, gen, enabled, VBUS,
                   UHADDR, connected, plugged, reply, announced, frames>>

\* "if it is found within 10ms, the device is still present": in a millisecond
\* without a frame there is none to be found.  Finding one ends the loop.
LookForFrame ==
    /\ MainRuns("look") /\ MSRem # 0
    /\ \/ /\ "HSOFI" \in flags
          /\ flags' = flags \ {"HSOFI", "DDISCI"}
          /\ MSRem' = 0
       \/ /\ "HSOFI" \notin flags /\ ~FramesRun
          /\ MSRem' = MSRem - 1
          /\ UNCHANGED flags
    /\ UnchangedTask
    /\ UNCHANGED <<USB_HostState, pc, wait_vars, ErrorCode, request_vars, sizes, gen, enabled,
                   bus_vars, device_vars, announced, frames>>

\* Disconnections are heard again, and the state that asked for the reset waits.
EndReset ==
    /\ MainRuns("look") /\ MSRem = 0
    /\ SOFEN' = (SOFEN /\ ~idleBus) /\ idleBus' = FALSE
    /\ enabled' = enabled \cup {"DDISCI"}
    /\ NonBlockWait(LongWait, goal)
    /\ UNCHANGED <<USB_HostState, wait_vars, ErrorCode, request, stage, DataLen, TimeoutCounter,
                   MSRem, sizes, gen, flags, VBUS, UHADDR, connected, device_vars, announced, frames>>

-----------------------------------------------------------------------------
(* USB_Host_ProcessNextHostState: one pass of main() through the states.   *)

\* The switch.  States that have no code of their own end the pass.
Pass(state) ==
    /\ MainRuns("idle") /\ USB_HostState = state

WaitForDevice ==
    /\ Pass("WaitForDevice") /\ WaitMSRemaining # 0
    /\ CallWaitMS("waited")
    /\ UnchangedTask
    /\ UNCHANGED <<USB_HostState, ErrorCode, request_vars, MSRem, sizes, gen, flags, enabled,
                   VBUS, UHADDR, connected, device_vars, announced, frames>>

\* A wait that failed stores the next state as well as the error.
Waited ==
    /\ MainRuns("waited")
    /\ WaitMSRemaining' = IF ErrorCode = "none" THEN WaitMSRemaining - 1 ELSE WaitMSRemaining
    /\ pc' = IF ErrorCode = "none" /\ WaitMSRemaining' # 0 THEN "idle" ELSE "assign"
    /\ goal' = PostWaitState
    /\ UNCHANGED <<USB_HostState, PostWaitState, wait_vars, ErrorCode, request_vars, MSRem, sizes,
                   gen, flags, enabled, bus_vars, device_vars, announced, frames>>

Powered ==
    /\ Pass("Powered")
    /\ WaitMSRemaining' = HOST_DEVICE_SETTLE_DELAY_MS
    /\ goal' = "WaitForDeviceSettle" /\ pc' = "assign"
    /\ UNCHANGED <<USB_HostState, PostWaitState, wait_vars, ErrorCode, request_vars, MSRem, sizes,
                   gen, flags, enabled, bus_vars, device_vars, announced, frames>>

WaitForDeviceSettle ==
    /\ Pass("WaitForDeviceSettle")
    /\ WaitMSRemaining' = (WaitMSRemaining - 1) % 65536
    /\ IF WaitMSRemaining # 0
         THEN UNCHANGED <<pc, goal, VBUS>>
         ELSE VBUS' = "auto" /\ goal' = "WaitForConnect" /\ pc' = "assign"
    /\ UNCHANGED <<USB_HostState, PostWaitState, wait_vars, ErrorCode, request_vars, MSRem, sizes,
                   gen, flags, enabled, SOFEN, UHADDR, connected, device_vars, announced, frames>>

WaitForConnect ==
    /\ Pass("WaitForConnect") /\ "DCONNI" \in flags
    /\ flags' = flags \ {"DCONNI", "DDISCI", "VBERRI"}
    /\ enabled' = enabled \cup {"VBERRI"}
    /\ SOFEN' = TRUE
    /\ NonBlockWait(ShortWait, "DoReset")
    /\ UNCHANGED <<USB_HostState, wait_vars, ErrorCode, request_vars, MSRem, sizes, gen, VBUS,
                   UHADDR, connected, device_vars, announced, frames>>

DoReset ==
    /\ Pass("DoReset")
    /\ ResetDevice /\ goal' = "ConfigPipe"
    /\ UNCHANGED <<USB_HostState, WaitMSRemaining, PostWaitState, wait_vars, ErrorCode, request,
                   stage, DataLen, TimeoutCounter, MSRem, sizes, gen, flags, bus_vars,
                   device_vars, announced, frames>>

\* With the default size the control pipe can always be configured.
ConfigPipe ==
    /\ Pass("ConfigPipe")
    /\ GoTo("Default")
    /\ UNCHANGED <<USB_HostState, wait_vars, ErrorCode, request_vars, MSRem, sizes, gen, flags,
                   enabled, bus_vars, device_vars, announced, frames>>

Default ==
    /\ Pass("Default")
    /\ SendControlRequest("descriptor", DescriptorLength)
    /\ UnchangedTask
    /\ UNCHANGED <<USB_HostState, ErrorCode, TimeoutCounter, MSRem, sizes, gen, flags,
                    enabled, VBUS, UHADDR, connected, device_vars, announced, frames>>

HaveDescriptor ==
    /\ MainRuns("descriptor")
    /\ DataBuffer' = "garbage"
    /\ IF ErrorCode # "none"
         THEN Fails(ErrorCode) /\ UNCHANGED <<USB_ControlPipeSize, idleBus, enabled>>
         ELSE /\ USB_ControlPipeSize' = DataBuffer
              /\ ResetDevice /\ goal' = "PostReset"
              /\ UNCHANGED <<ErrorCode, WaitMSRemaining, PostWaitState>>
    /\ UNCHANGED <<USB_HostState, wait_vars, request, stage, DataLen, TimeoutCounter, MSRem, gen,
                   flags, bus_vars, device_vars, announced, frames>>

\* Garbage for a size may be one the controller refuses.
PostReset ==
    /\ Pass("PostReset")
    /\ \/ /\ SendControlRequest("address", 0)
          /\ UnchangedTask /\ UNCHANGED ErrorCode
       \/ /\ USB_ControlPipeSize = "garbage"
          /\ Fails("config")
          /\ UNCHANGED <<request, stage, DataLen, idleBus, SOFEN, wait_vars>>
    /\ UNCHANGED <<USB_HostState, TimeoutCounter, MSRem, sizes, gen, flags, enabled, VBUS,
                   UHADDR, connected, device_vars, announced, frames>>

\* Whether SET_ADDRESS went well.  Slip: nobody asks.
AddressSentUnasked == TRUE
AddressSent == ErrorCode = "none"

HaveAddress ==
    /\ MainRuns("address")
    /\ IF AddressSent
         THEN NonBlockWait(ShortWait, "PostAddressSet") /\ ErrorCode' = "none"
         ELSE Fails(ErrorCode)
    /\ UNCHANGED <<USB_HostState, wait_vars, request_vars, MSRem, sizes, gen, flags, enabled,
                   bus_vars, device_vars, announced, frames>>

PostAddressSet ==
    /\ Pass("PostAddressSet")
    /\ UHADDR' = 1
    /\ GoTo("Addressed")
    /\ UNCHANGED <<USB_HostState, wait_vars, ErrorCode, request_vars, MSRem, sizes, gen, flags,
                   enabled, SOFEN, VBUS, connected, device_vars, announced, frames>>

\* The store of USB_HostState that ends a state, some time after the switch.
Assign ==
    /\ MainRuns("assign")
    /\ USB_HostState' = goal
    /\ pc' = IF ErrorCode = "none" THEN "idle" ELSE "error"
    /\ goal' = "Unattached"
    /\ UNCHANGED <<WaitMSRemaining, PostWaitState>>
    /\ UNCHANGED <<wait_vars, ErrorCode, request_vars, MSRem, sizes, gen, flags, enabled,
                   bus_vars, device_vars, announced, frames>>

\* The error is reported unless the device is known to be gone.
ReportError ==
    /\ MainRuns("error")
    /\ ErrorCode' = "none"
    /\ IF USB_HostState # "Unattached"
         THEN /\ pc' = "failed" /\ EventUnattached
              /\ VBUS' = IF VBUS = "auto" THEN "off" ELSE VBUS
         ELSE pc' = "idle" /\ UNCHANGED <<VBUS, announced>>
    /\ UnchangedTask
    /\ UNCHANGED <<USB_HostState, wait_vars, request_vars, MSRem, sizes, gen, flags, enabled,
                   SOFEN, UHADDR, connected, device_vars, frames>>

Failed ==
    /\ MainRuns("failed") /\ pc' = "idle"
    /\ ResetInterface
    /\ UnchangedTask
    /\ UNCHANGED <<wait_vars, ErrorCode, request_vars, MSRem, sizes, gen, device_vars, announced,
                   frames>>

\* The application's own requests in the states it implements; it sees to errors.
AppRequest ==
    /\ Pass("Addressed")
    /\ \/ SendControlRequest("command", 0) \/ SendControlRequest("write", 1)
    /\ UnchangedTask
    /\ UNCHANGED <<USB_HostState, ErrorCode, TimeoutCounter, MSRem, sizes, gen, flags, enabled,
                   VBUS, UHADDR, connected, device_vars, announced, frames>>

AppDone ==
    /\ MainRuns("command") \/ MainRuns("write")
    /\ pc' = "idle" /\ ErrorCode' = "none"
    /\ UnchangedTask
    /\ UNCHANGED <<USB_HostState, wait_vars, request_vars, MSRem, sizes, gen, flags, enabled,
                   bus_vars, device_vars, announced, frames>>

Main ==
    \/ WaitMS \/ BeginStages \/ StageReady \/ StageWaits \/ StageWaited \/ EndRequest
    \/ BusReset \/ LookForFrame \/ EndReset
    \/ WaitForDevice \/ Waited \/ Powered \/ WaitForDeviceSettle \/ WaitForConnect \/ DoReset
    \/ ConfigPipe \/ Default \/ HaveDescriptor \/ PostReset \/ HaveAddress \/ PostAddressSet
    \/ Assign \/ ReportError \/ Failed \/ AppDone

-----------------------------------------------------------------------------
(* USB_GEN_vect.                                                           *)

\* The handler whose test is the n-th runs if its flag is raised and enabled, after
\* the tests before it that found nothing.
Tests == <<"DDISCI", "VBERRI", "SRPI", "BCERRI">>
Occurred(n) == Tests[n] \in flags \cap enabled

Handles(n) ==
    /\ n > gen /\ Occurred(n) /\ \A passed \in gen + 1..n - 1 : ~Occurred(passed)
    /\ gen' = n % Len(Tests)

DeviceDisconnected ==
    /\ Handles(1)
    /\ EventUnattached /\ ResetInterface
    /\ UNCHANGED <<task_vars, device_vars, frames>>

VBusError ==
    /\ Handles(2)
    /\ flags' = flags \ {"VBERRI"}
    /\ VBUS' = "off"
    /\ EventUnattached
    /\ USB_HostState' = "Unattached"
    /\ UNCHANGED <<task_vars, enabled, SOFEN, UHADDR, connected, device_vars, frames>>

SessionRequest ==
    /\ Handles(3)
    /\ flags' = flags \ {"SRPI"}
    /\ enabled' = (enabled \ {"SRPI"}) \cup {"DDISCI"}
    /\ EventAttached
    /\ USB_HostState' = "Powered"
    /\ UNCHANGED <<task_vars, bus_vars, device_vars, frames>>

BConnectionError ==
    /\ Handles(4)
    /\ EventUnattached /\ ResetInterface
    /\ UNCHANGED <<task_vars, device_vars, frames>>

Return ==
    /\ gen # 0 /\ \A n \in gen + 1..Len(Tests) : ~Occurred(n)
    /\ gen' = 0
    /\ UNCHANGED <<USB_HostState, task_vars, flags, enabled, bus_vars, device_vars, announced, frames>>

GenStep == DeviceDisconnected \/ VBusError \/ SessionRequest \/ BConnectionError \/ Return

-----------------------------------------------------------------------------
(* The cable, the controller and the device.                               *)

\* Plugging in and detecting it take longer than main() does to look once.
MainLooked == gen = 0 /\ (pc = "idle" \/ (pc = "ms" /\ USB_HostState # "Unattached"))

Plug ==
    /\ ~plugged /\ ~connected /\ "DDISCI" \notin flags \cap enabled
    /\ MainLooked
    /\ plugged' = TRUE /\ device' = "powered"
    /\ flags' = flags \cup {"SRPI"}
    /\ UNCHANGED <<USB_HostState, task_vars, gen, enabled, bus_vars, reply, announced, frames>>

Unplug ==
    /\ plugged /\ plugged' = FALSE /\ device' = "off"
    /\ UNCHANGED <<USB_HostState, task_vars, gen, flags, enabled, bus_vars, reply, announced, frames>>

\* A device that is still there after a reset of the interface may be announced again.
DetectConnect ==
    /\ ~connected /\ plugged /\ VBUS # "off"
    /\ MainLooked
    /\ connected' = TRUE
    /\ \E again \in SUBSET {"SRPI"} : flags' = flags \cup {"DCONNI"} \cup again
    /\ UNCHANGED <<USB_HostState, task_vars, gen, enabled, SOFEN, VBUS, UHADDR, device_vars,
                   announced, frames>>

DetectDisconnect ==
    /\ connected /\ (~plugged \/ VBUS = "off")
    /\ connected' = FALSE
    /\ flags' = flags \cup {"DDISCI"}
    /\ device' = IF plugged THEN "powered" ELSE "off"
    /\ UNCHANGED <<USB_HostState, task_vars, gen, enabled, SOFEN, VBUS, UHADDR, plugged, reply,
                   announced, frames>>

VBusDip ==
    /\ plugged /\ VBUS = "auto" /\ "VBERRI" \notin flags
    /\ flags' = flags \cup {"VBERRI"}
    /\ UNCHANGED <<USB_HostState, task_vars, gen, enabled, bus_vars, device_vars, announced, frames>>

ConnectionFails ==
    /\ plugged /\ USB_HostState = "WaitForConnect" /\ "BCERRI" \notin flags
    /\ flags' = flags \cup {"BCERRI"}
    /\ UNCHANGED <<USB_HostState, task_vars, gen, enabled, bus_vars, device_vars, announced, frames>>

Frame ==
    /\ FramesRun
    /\ flags' = flags \cup {"HSOFI"}
    /\ frames' = IF InStage /\ frames <= USB_HOST_TIMEOUT_MS THEN frames + 1 ELSE frames
    /\ UNCHANGED <<USB_HostState, task_vars, gen, enabled, bus_vars, device_vars, announced>>

\* A device that was reset answers at its address, or not at all.  It takes a new
\* address when it has acknowledged the request.
Reply(r) ==
    /\ FramesRun /\ plugged /\ reply = "none"
    /\ InStage
    /\ <<device, UHADDR>> \in {<<"default", 0>>, <<"addressed", 1>>}
    /\ Stage # "free" /\ (r = "stall" => Stage # "setup")
    /\ reply' = r
    /\ device' = IF request = "address" /\ Stage = "in" /\ r = "ready" THEN "addressed" ELSE device
    /\ UNCHANGED <<USB_HostState, task_vars, gen, flags, enabled, bus_vars, plugged, announced, frames>>

Next ==
    \/ Main \/ AppRequest
    \/ GenStep
    \/ Plug \/ Unplug \/ DetectConnect \/ DetectDisconnect \/ VBusDip \/ ConnectionFails
    \/ Frame
    \/ \E r \in {"ready", "stall", "error"} : Reply(r)

Spec == Init /\ [][Next]_vars

\* main() keeps polling, interrupts are taken, a bus with a device has frames, and
\* the controller notices what is plugged in.
FairSpec ==
    Spec /\ WF_vars(Main) /\ WF_vars(GenStep) /\ WF_vars(Frame)
         /\ WF_vars(DetectConnect) /\ WF_vars(DetectDisconnect)

-----------------------------------------------------------------------------
\* A stage is given up for want of an answer only after the whole timeout, also
\* when the first frame seen is an old one.
AnswersInTime ==
    [][pc = "waitedms" /\ ErrorCode = "none" /\ pc' = "end" => frames >= USB_HOST_TIMEOUT_MS]_vars

\* As long as VBUS holds, an enumeration comes to its end for whatever device stays
\* plugged in, and so does each call of USB_USBTask, though the device stall, fail or
\* never answer.  (A dip of VBUS that comes while USB_Host_ResetDevice runs is
\* forgotten, and main() then waits for frames that nothing sends.)
EnumerationEnds ==
    []("VBERRI" \notin flags) /\ <>[]plugged
        => /\ []<>(USB_HostState \in {"Unattached", "Addressed"})
           /\ []<>(pc = "idle")

\* EVENT_USB_Host_DeviceEnumerationComplete fires when "an attached USB device has
\* been completely enumerated": a device that is there, and that the application was
\* told of, has taken its address by then.
EnumeratedCompletely ==
    [][UHADDR = 0 /\ UHADDR' = 1 /\ plugged /\ connected /\ announced => device = "addressed"]_vars
=============================================================================
