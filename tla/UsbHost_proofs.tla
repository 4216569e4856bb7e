---------------------------- MODULE UsbHost_proofs ----------------------------
(***************************************************************************)
(* What the host side keeps: its control requests, for every timeout below *)
(* 2^16 and every length of the waits of the enumeration; the pipes of a   *)
(* class driver, for all class drivers and configurations; the fields of a *)
(* HID report, for all report descriptors.                                 *)
(***************************************************************************)
EXTENDS MCHost, TLAPS

\* The start of frame flag may have been raised before the wait that finds it.
Seen == IF "HSOFI" \in flags THEN 1 ELSE 0

\* The frames of the stage, and the turns the counter still grants, make up the timeout, less
\* what is outstanding.
OnTime(outstanding) ==
    \/ frames > USB_HOST_TIMEOUT_MS
    \/ frames + TimeoutCounter + outstanding >= USB_HOST_TIMEOUT_MS + Seen

\* The first turn may have found an old frame; a turn that is over has used its frame up.
CountInv ==
    /\ frames \in Nat /\ TimeoutCounter \in Nat /\ TimeoutCounter < 65536
    /\ request \in {"none", "descriptor", "address", "command", "write"}
    /\ caller # "ios"
    /\ pc = "ios" \/ (pc = "ms" /\ caller = "waitedms") => OnTime(1)
    /\ pc = "waitedms" /\ ErrorCode = "none" => OnTime(0)

count_vars == <<pc, caller, ErrorCode, request, TimeoutCounter, frames>>

\* A step that leaves the wait alone, and finds or raises no frame.
LEMMA CountFrame ==
    ASSUME CountInv, UNCHANGED count_vars, "HSOFI" \in flags' => "HSOFI" \in flags
    PROVE  CountInv'
    BY HostAssumption DEF HostAssumption, CountInv, OnTime, Seen, count_vars

\* A step outside the waits of a stage.
LEMMA CountElsewhere ==
    ASSUME CountInv, pc' \notin {"ios", "waitedms"}, pc' = "ms" => caller' # "waitedms", caller' # "ios",
           frames' \in {frames, 0}, TimeoutCounter' \in {TimeoutCounter, 0},
           request' \in {request, "none", "descriptor", "address", "command", "write"}
    PROVE  CountInv'
    BY DEF CountInv

\* A stage begins with the whole timeout.
LEMMA CountBegins ==
    ASSUME CountInv, StartStage, UNCHANGED <<request, caller, ErrorCode>>
    PROVE  CountInv'
    BY HostAssumption DEF HostAssumption, CountInv, OnTime, Seen, StartStage

\* The steps of a request.
LEMMA CountRequest ==
    ASSUME CountInv,
           WaitMS \/ BeginStages \/ StageReady \/ StageWaits \/ StageWaited \/ EndRequest
    PROVE  CountInv'
<1> USE DEF UnchangedTask, request_vars, wait_vars, bus_vars, device_vars
<1>1. CASE WaitMS
  <2>1. /\ pc = "ms" /\ pc' = caller /\ flags' = flags \ {"HSOFI"} /\ caller' = "idle"
        /\ UNCHANGED <<frames, TimeoutCounter, request>>
      BY <1>1 DEF WaitMS, MainRuns
  <2>2. ErrorCode' = "none" => "HSOFI" \in flags
      BY <1>1 DEF WaitMS
  <2>3. Seen' = 0
      BY <2>1 DEF Seen
  <2> QED
      BY <2>1, <2>2, <2>3, HostAssumption DEF HostAssumption, CountInv, OnTime, Seen
<1>2. CASE BeginStages
  <2>1. CASE ErrorCode = "none"
      BY <1>2, <2>1, CountBegins DEF BeginStages
  <2>2. CASE ErrorCode # "none"
      BY <1>2, <2>2, CountElsewhere DEF BeginStages, CountInv
  <2> QED
      BY <2>1, <2>2
<1>3. CASE StageReady
  <2>1. CASE StartStage
    <3>1. UNCHANGED <<request, caller, ErrorCode>>
        BY <1>3, <2>1 DEF StageReady, StartStage, CallWaitMS
    <3> QED
        BY <2>1, <3>1, CountBegins
  <2>2. CASE pc' = "end" /\ UNCHANGED <<TimeoutCounter, frames>>
    <3>1. UNCHANGED <<request, caller>>
        BY <1>3, <2>2 DEF StageReady, StartStage, CallWaitMS
    <3> QED
        BY <2>2, <3>1, CountElsewhere DEF CountInv
  <2>3. CASE CallWaitMS("begin") /\ UNCHANGED <<TimeoutCounter, frames>>
      BY <1>3, <2>3, CountElsewhere DEF StageReady, CallWaitMS
  <2> QED
      BY <1>3, <2>1, <2>2, <2>3 DEF StageReady
<1>4. CASE StageWaits
  <2>1. /\ pc = "ios" /\ pc' = "ms" /\ UNCHANGED <<TimeoutCounter, frames, flags, request>>
        /\ caller' = "waitedms"
      BY <1>4 DEF StageWaits, MainRuns, CallWaitMS
  <2> QED
      BY <2>1, HostAssumption DEF HostAssumption, CountInv, OnTime, Seen
<1>5. CASE StageWaited
  <2>1. pc = "waitedms" /\ UNCHANGED <<frames, flags, request, caller>>
      BY <1>5 DEF StageWaited, MainRuns
  <2>2. CASE pc' = "end"
    <3>1. TimeoutCounter' \in Nat /\ TimeoutCounter' < 65536
        BY <1>5, HostAssumption DEF HostAssumption, StageWaited, CountInv
    <3> QED
        BY <2>1, <2>2, <3>1 DEF CountInv
  <2>3. CASE pc' # "end"
    <3>1. ErrorCode = "none" /\ TimeoutCounter # 0 /\ pc' = "ios"
          /\ TimeoutCounter' = (TimeoutCounter - 1) % 65536
        BY <1>5, <2>3 DEF StageWaited, Expired
    <3>2. TimeoutCounter' = TimeoutCounter - 1
        BY <3>1 DEF CountInv
    <3> QED
        BY <2>1, <3>1, <3>2, HostAssumption DEF HostAssumption, CountInv, OnTime, Seen
  <2> QED
      BY <2>2, <2>3
<1>6. CASE EndRequest
  <2>1. /\ pc' = request /\ request' = "none" /\ TimeoutCounter' = 0 /\ frames' = 0
        /\ caller' = caller
      BY <1>6 DEF EndRequest
  <2> QED
      BY <2>1, CountElsewhere DEF CountInv
<1> QED
    BY <1>1, <1>2, <1>3, <1>4, <1>5, <1>6

\* The passes through the states, whose waits are not those of a stage.
LEMMA CountPasses ==
    ASSUME CountInv,
           \/ BusReset \/ LookForFrame \/ EndReset \/ WaitForDevice \/ Waited \/ Powered
           \/ WaitForDeviceSettle \/ WaitForConnect \/ DoReset \/ ConfigPipe \/ Default
           \/ HaveDescriptor \/ PostReset \/ HaveAddress \/ PostAddressSet \/ Assign
           \/ ReportError \/ Failed \/ AppDone \/ AppRequest
    PROVE  CountInv'
<1> USE DEF UnchangedTask, request_vars, wait_vars, bus_vars, device_vars, MainRuns, Pass
<1>1. CASE BusReset \/ LookForFrame \/ EndReset
    BY <1>1, CountElsewhere DEF BusReset, LookForFrame, EndReset, NonBlockWait, CountInv
<1>2. CASE WaitForDevice \/ Waited
    BY <1>2, CountElsewhere DEF WaitForDevice, Waited, CallWaitMS, CountInv
<1>3. CASE Powered \/ WaitForDeviceSettle \/ WaitForConnect \/ DoReset \/ ConfigPipe
    BY <1>3, CountElsewhere
    DEF Powered, WaitForDeviceSettle, WaitForConnect, DoReset, ConfigPipe, ResetDevice,
        NonBlockWait, GoTo, CountInv
<1>4. CASE Default \/ AppRequest
    BY <1>4, CountElsewhere DEF Default, AppRequest, SendControlRequest, CountInv
<1>5. CASE HaveDescriptor \/ PostReset
    BY <1>5, CountElsewhere
    DEF HaveDescriptor, PostReset, Fails, ResetDevice, SendControlRequest, CountInv
<1>6. CASE HaveAddress \/ PostAddressSet \/ Assign
    BY <1>6, CountElsewhere DEF HaveAddress, PostAddressSet, Assign, NonBlockWait, Fails, GoTo, CountInv
<1>7. CASE ReportError \/ Failed \/ AppDone
    BY <1>7, CountElsewhere DEF ReportError, Failed, AppDone, CountInv
<1> QED
    BY <1>1, <1>2, <1>3, <1>4, <1>5, <1>6, <1>7

\* Interrupts and the cable clear the flag at most; a frame that sets it is counted.
LEMMA CountBus ==
    ASSUME CountInv,
           \/ GenStep \/ Plug \/ Unplug \/ DetectConnect \/ DetectDisconnect \/ VBusDip
           \/ ConnectionFails \/ Frame \/ (\E r \in {"ready", "stall", "error"} : Reply(r))
           \/ UNCHANGED vars
    PROVE  CountInv'
<1> USE DEF task_vars, request_vars, wait_vars, bus_vars, device_vars, count_vars
<1>1. CASE GenStep
    BY <1>1, CountFrame
    DEF GenStep, DeviceDisconnected, VBusError, SessionRequest, BConnectionError, Return,
        ResetInterface
<1>2. CASE Plug \/ Unplug \/ DetectConnect \/ DetectDisconnect \/ VBusDip \/ ConnectionFails
    BY <1>2, CountFrame
    DEF Plug, Unplug, DetectConnect, DetectDisconnect, VBusDip, ConnectionFails
<1>3. CASE Frame
  <2>1. UNCHANGED <<pc, caller, ErrorCode, request, TimeoutCounter>> /\ "HSOFI" \in flags'
      BY <1>3 DEF Frame
  <2>2. frames' = frames \/ frames' = frames + 1
      BY <1>3 DEF Frame
  <2>3. InStage => frames > USB_HOST_TIMEOUT_MS \/ frames' = frames + 1
      BY <1>3, HostAssumption DEF HostAssumption, Frame, CountInv
  <2>4. pc \in {"ios", "waitedms"} \/ (pc = "ms" /\ caller = "waitedms") => InStage
      BY DEF InStage
  <2> QED
      BY <2>1, <2>2, <2>3, <2>4, HostAssumption DEF HostAssumption, CountInv, OnTime, Seen
<1>4. ASSUME NEW r \in {"ready", "stall", "error"}, Reply(r) PROVE CountInv'
    BY <1>4, CountFrame DEF Reply
<1>5. CASE UNCHANGED vars
    BY <1>5, CountFrame DEF vars
<1> QED
    BY <1>1, <1>2, <1>3, <1>4, <1>5

\* A stage is given up only in the turn after its last, which has used up its frame.
LEMMA GivenUp ==
    ASSUME CountInv, [Next]_vars, pc = "waitedms", ErrorCode = "none", pc' = "end"
    PROVE  frames >= USB_HOST_TIMEOUT_MS
<1>1. CASE StageWaited
  <2>1. TimeoutCounter = 0
      BY <1>1 DEF StageWaited, Expired
  <2> QED
      BY <2>1, HostAssumption DEF HostAssumption, CountInv, OnTime, Seen
<1>2. CASE ~StageWaited
  <2>1. pc' = pc \/ pc # "waitedms"
      BY <1>2 DEF Next, Main, WaitMS, BeginStages, StageReady, StageWaits, EndRequest, BusReset,
          LookForFrame, EndReset, WaitForDevice, Waited, Powered, WaitForDeviceSettle,
          WaitForConnect, DoReset, ConfigPipe, Default, HaveDescriptor, PostReset, HaveAddress,
          PostAddressSet, Assign, ReportError, Failed, AppDone, AppRequest, MainRuns, Pass,
          GenStep, DeviceDisconnected, VBusError, SessionRequest, BConnectionError, Return,
          Plug, Unplug, DetectConnect, DetectDisconnect, VBusDip, ConnectionFails, Frame, Reply,
          vars, task_vars
  <2> QED
      BY <2>1
<1> QED
    BY <1>1, <1>2

\* A device has at least the whole timeout for each stage of a request, although the first start
\* of frame the wait finds may be an old one and the counter is an unsigned one that wraps.
THEOREM TimeoutCorrect == Spec => AnswersInTime
<1>1. Init => CountInv
    BY DEF Init, CountInv
<1>2. CountInv /\ [Next]_vars => CountInv'
    BY CountRequest, CountPasses, CountBus DEF Next, Main
<1>3. CountInv /\ [Next]_vars
      => (pc = "waitedms" /\ ErrorCode = "none" /\ pc' = "end" => frames >= USB_HOST_TIMEOUT_MS)
    BY GivenUp
<1> QED
    BY <1>1, <1>2, <1>3, PTL DEF Spec, AnswersInTime

-----------------------------------------------------------------------------
(* The address of the device.                                            *)

\* An interrupt that main() does not overtake.
Pending(f) == f \in flags \cap enabled

\* One of the waits between two states of the enumeration.
Waiting == pc = "waited" \/ (pc = "ms" /\ caller = "waited")

\* Where main() and the states of the enumeration go together.
Places ==
    /\ pc = "ms" => caller \in {"begin", "waitedms", "waited"}
    /\ pc \in {"reset", "look"} => goal \in {"ConfigPipe", "PostReset"}
    /\ request \in {"none", "descriptor", "address", "command", "write"}
    /\ stage \in Nat
    /\ USB_HostState = "PostAddressSet" => pc \in {"idle", "assign", "error", "failed"}
    /\ USB_HostState = "WaitForDevice" => pc \in {"idle", "assign", "error", "failed"} \/ Waiting

\* Unless the bus is being reset, the application hears of a device that leaves.
Heard ==
    /\ announced => "DDISCI" \in enabled \/ pc \in {"reset", "look"}
    /\ pc = "failed" => ~announced /\ ~Pending("SRPI")

\* How an address gets from the device's acknowledgement to UHADDR.
Answered == request = "address" /\ stage = 2 /\ reply = "ready" /\ InStage
Sent == ErrorCode = "none" /\ (pc = "address" \/ (pc = "end" /\ request = "address"))
ToWait == pc = "assign" /\ goal = "WaitForDevice" /\ PostWaitState = "PostAddressSet"
Waits ==
    /\ PostWaitState = "PostAddressSet"
    /\ \/ pc = "idle" /\ USB_HostState = "WaitForDevice"
       \/ pc = "ms" /\ caller = "waited"
       \/ pc = "waited" /\ ErrorCode = "none"
ToSet == pc = "assign" /\ goal = "PostAddressSet" /\ ErrorCode = "none"
Sets == pc = "idle" /\ USB_HostState = "PostAddressSet"

\* What has become of the device meanwhile: it is still the one that answered; its
\* disconnection waits to be handled; another one is there, which nobody was told of; or
\* the interface was reset while main() looked elsewhere.
Here == connected /\ (plugged => device = "addressed")
Leaving == "DDISCI" \in flags
Unheard == connected /\ ~announced /\ ~Pending("SRPI")
Gone == /\ ~connected /\ ~announced /\ USB_HostState = "Unattached" /\ pc # "idle"
        /\ "SRPI" \notin flags /\ "HSOFI" \notin flags
Known == Here \/ Leaving \/ Unheard \/ Gone

\* A wait that was stored over the state of a reset interface, and that another device may
\* find: it is announced before a turn of the wait has ended, and then the state is
\* not that of the wait any more when the turn ends.
Anew ==
    /\ WaitMSRemaining > 1
    /\ \/ USB_HostState # "WaitForDevice"
       \/ pc # "waited" /\ Pending("SRPI")
       \/ pc # "waited" /\ ~connected /\ ~announced /\ "HSOFI" \notin flags

OnItsWay ==
    /\ Answered \/ Sent \/ ToWait \/ ToSet => Known
    /\ ToWait => WaitMSRemaining > 1
    /\ Waits => Known \/ Anew
    /\ Sets => Here \/ Leaving \/ ~announced

AddressInv == Places /\ Heard /\ OnItsWay

\* A step of main() that leaves the device and the interrupts alone.
LEMMA KnownKept ==
    ASSUME Known, UNCHANGED <<USB_HostState, connected, announced, plugged, device, enabled>>,
           flags' \in {flags, flags \ {"HSOFI"}}, pc' # "idle"
    PROVE  Known'
    BY DEF Known, Here, Leaving, Unheard, Gone, Pending

\* SET_ADDRESS is a SETUP packet and the device's acknowledgement.
LEMMA AddressStages ==
    ASSUME request = "address", stage \in Nat
    PROVE  /\ Len(Stages[request]) = 2 /\ ~InData
           /\ stage = 2 => Stage = "in"
    BY DEF Stages, Stage, InData

\* A step to where no address is on its way.
LEMMA Elsewhere ==
    ASSUME pc' \notin {"ios", "waitedms", "ms", "waited", "address", "end", "assign", "idle"}
    PROVE  OnItsWay'
    BY DEF OnItsWay, Answered, InStage, Sent, ToWait, Waits, ToSet, Sets

\* The steps of a request keep an address that was acknowledged.
LEMMA AddressRequest ==
    ASSUME AddressInv,
           WaitMS \/ BeginStages \/ StageReady \/ StageWaits \/ StageWaited \/ EndRequest
    PROVE  AddressInv'
<1> USE DEF UnchangedTask, request_vars, wait_vars, bus_vars, device_vars, MainRuns
<1>1. CASE WaitMS
  <2>1. /\ pc = "ms" /\ pc' = caller /\ caller' = "idle" /\ flags' = flags \ {"HSOFI"}
        /\ flags \cap enabled = {}
        /\ UNCHANGED <<USB_HostState, goal, WaitMSRemaining, PostWaitState, request, stage,
                       enabled, connected, plugged, device, announced>>
      BY <1>1 DEF WaitMS
  <2>2. caller \in {"begin", "waitedms", "waited"}
      BY <2>1 DEF AddressInv, Places
  <2>3. Places' /\ Heard'
      BY <2>1, <2>2 DEF AddressInv, Places, Heard, Waiting
  <2>4. Known => Known'
      BY <2>1, <2>2, KnownKept
  <2>5. Answered' => Answered
      BY <1>1, <2>1, <2>2 DEF WaitMS, Answered, InStage
  <2>6. CASE Waits'
    <3>1. Waits /\ pc' = "waited" /\ ErrorCode' = "none"
        BY <2>1, <2>2, <2>6 DEF Waits
    <3>2. "HSOFI" \in flags
        BY <1>1, <3>1 DEF WaitMS
    <3>3. Anew => Anew'
        BY <2>1, <3>2 DEF Anew, Pending
    <3> QED
        BY <2>1, <2>2, <2>3, <2>4, <2>5, <3>1, <3>3
        DEF AddressInv, OnItsWay, Sent, ToWait, ToSet, Sets
  <2>7. CASE ~Waits'
      BY <2>1, <2>2, <2>3, <2>4, <2>5, <2>7 DEF AddressInv, OnItsWay, Sent, ToWait, ToSet, Sets
  <2> QED
      BY <2>6, <2>7
<1>2. CASE BeginStages
  <2>1. /\ pc = "begin" /\ pc' \in {"ios", "end"} /\ (pc' = "end" => ErrorCode # "none")
        /\ pc' = "ios" => reply' = "none"
        /\ UNCHANGED <<USB_HostState, ErrorCode, request, stage, flags, enabled, announced>>
      BY <1>2 DEF BeginStages, StartStage
  <2>2. Places' /\ Heard'
      BY <2>1 DEF AddressInv, Places, Heard, Waiting
  <2>3. OnItsWay'
      BY <2>1 DEF OnItsWay, Answered, InStage, Sent, ToWait, Waits, ToSet, Sets
  <2> QED
      BY <2>2, <2>3 DEF AddressInv
<1>3. CASE StageReady
  <2>1. /\ pc = "ios"
        /\ UNCHANGED <<USB_HostState, ErrorCode, request, flags, enabled, connected, plugged,
                       device, announced>>
      BY <1>3 DEF StageReady
  <2>2. stage \in Nat /\ stage' \in {stage, stage + 1}
      BY <1>3 DEF StageReady, AddressInv, Places
  <2>3. \/ pc' = "end" /\ UNCHANGED caller
        \/ pc' = "ms" /\ caller' = "begin"
        \/ pc' = "ios" /\ reply' = "none" /\ UNCHANGED caller
      BY <1>3 DEF StageReady, StartStage, CallWaitMS
  <2>4. Places' /\ Heard'
      BY <2>1, <2>2, <2>3 DEF AddressInv, Places, Heard, Waiting
  <2>5. CASE pc' = "end" /\ request = "address"
    <3>1. Len(Stages[request]) = 2 /\ ~InData
        BY <2>2, <2>5, AddressStages
    <3>2. stage = 2
        BY <1>3, <2>5, <3>1 DEF StageReady, StartStage, CallWaitMS
    <3>3. reply = "ready"
        BY <1>3, <2>2, <2>5, <3>2, AddressStages DEF StageReady
    <3>4. Known
        BY <2>1, <2>5, <3>2, <3>3 DEF AddressInv, OnItsWay, Answered, InStage
    <3>5. Known'
        BY <2>1, <2>5, <3>4, KnownKept
    <3> QED
        BY <2>4, <2>5, <3>5 DEF AddressInv, OnItsWay, Answered, InStage, Sent, ToWait, Waits, ToSet, Sets
  <2>6. CASE ~(pc' = "end" /\ request = "address")
      BY <2>1, <2>3, <2>4, <2>6
      DEF AddressInv, OnItsWay, Answered, InStage, Sent, ToWait, Waits, ToSet, Sets
  <2> QED
      BY <2>5, <2>6
<1>4. CASE StageWaits
  <2>1. /\ pc = "ios" /\ pc' = "ms" /\ caller' = "waitedms" /\ reply # "ready" /\ UNCHANGED reply
        /\ UNCHANGED <<USB_HostState, request, stage, flags, enabled, announced>>
      BY <1>4 DEF StageWaits, CallWaitMS
  <2>2. Places' /\ Heard'
      BY <2>1 DEF AddressInv, Places, Heard, Waiting
  <2>3. OnItsWay'
      BY <2>1 DEF OnItsWay, Answered, InStage, Sent, ToWait, Waits, ToSet, Sets
  <2> QED
      BY <2>2, <2>3 DEF AddressInv
<1>5. CASE StageWaited
  <2>1. /\ pc = "waitedms" /\ pc' \in {"ios", "end"} /\ (pc' = "end" => ErrorCode' # "none")
        /\ UNCHANGED <<USB_HostState, request, stage, reply, flags, enabled, connected, plugged,
                       device, announced>>
      BY <1>5 DEF StageWaited
  <2>2. Places' /\ Heard'
      BY <2>1 DEF AddressInv, Places, Heard, Waiting
  <2>3. Answered' => Known'
      BY <2>1, KnownKept DEF AddressInv, OnItsWay, Answered, InStage
  <2>4. OnItsWay'
      BY <2>1, <2>3 DEF OnItsWay, Sent, ToWait, Waits, ToSet, Sets
  <2> QED
      BY <2>2, <2>4 DEF AddressInv
<1>6. CASE EndRequest
  <2>1. /\ pc = "end" /\ pc' = request /\ request' = "none" /\ stage' = 1
        /\ UNCHANGED <<USB_HostState, ErrorCode, flags, enabled, connected, plugged, device, announced>>
      BY <1>6 DEF EndRequest
  <2>2. request \in {"none", "descriptor", "address", "command", "write"}
      BY DEF AddressInv, Places
  <2>3. Places' /\ Heard'
      BY <2>1, <2>2 DEF AddressInv, Places, Heard, Waiting
  <2>4. Sent' => Known'
      BY <2>1, <2>2, KnownKept DEF AddressInv, OnItsWay, Sent
  <2>5. OnItsWay'
      BY <2>1, <2>2, <2>4 DEF OnItsWay, Answered, InStage, ToWait, Waits, ToSet, Sets
  <2> QED
      BY <2>3, <2>5 DEF AddressInv
<1> QED
    BY <1>1, <1>2, <1>3, <1>4, <1>5, <1>6

\* The waits of the enumeration.  The wait after SET_ADDRESS is of more than one turn, and a
\* turn that ends has seen a frame.
LEMMA AddressWaits ==
    ASSUME AddressInv,
           WaitForDevice \/ Waited \/ HaveAddress \/ PostAddressSet \/ Assign \/ EndReset
    PROVE  AddressInv'
<1> USE DEF UnchangedTask, request_vars, wait_vars, bus_vars, device_vars, MainRuns, Pass
<1>1. CASE WaitForDevice
  <2>1. /\ pc = "idle" /\ pc' = "ms" /\ caller' = "waited" /\ USB_HostState = "WaitForDevice"
        /\ UNCHANGED <<USB_HostState, PostWaitState, WaitMSRemaining, flags, enabled, connected,
                       plugged, device, announced, request, stage>>
      BY <1>1 DEF WaitForDevice, CallWaitMS
  <2>2. Places' /\ Heard'
      BY <2>1 DEF AddressInv, Places, Heard, Waiting
  <2>3. Known => Known'
      BY <2>1, KnownKept
  <2>4. Anew => Anew'
      BY <2>1 DEF Anew, Pending
  <2>5. Waits' => Waits
      BY <2>1 DEF Waits
  <2>6. OnItsWay'
      BY <2>1, <2>3, <2>4, <2>5
      DEF AddressInv, OnItsWay, Answered, InStage, Sent, ToWait, ToSet, Sets
  <2> QED
      BY <2>2, <2>6 DEF AddressInv
<1>2. CASE Waited
  <2>1. /\ pc = "waited" /\ goal' = PostWaitState
        /\ UNCHANGED <<USB_HostState, PostWaitState, ErrorCode, flags, enabled, connected,
                       plugged, device, announced, request, stage, caller>>
      BY <1>2 DEF Waited
  <2>2. pc' = "idle" \/ pc' = "assign"
      BY <1>2 DEF Waited
  <2>3. Places' /\ Heard'
      BY <2>1, <2>2 DEF AddressInv, Places, Heard, Waiting
  <2>4. USB_HostState # "PostAddressSet"
      BY <2>1 DEF AddressInv, Places
  <2>5. ~(Answered \/ Sent \/ ToWait)' /\ ~Sets'
      BY <2>1, <2>2, <2>4 DEF Answered, InStage, Sent, ToWait, Sets
  <2>6. CASE PostWaitState = "PostAddressSet" /\ ErrorCode = "none"
    <3>1. WaitMSRemaining' = WaitMSRemaining - 1
          /\ pc' = IF WaitMSRemaining' # 0 THEN "idle" ELSE "assign"
        BY <1>2, <2>6 DEF Waited
    <3>2. Waits
        BY <2>1, <2>6 DEF Waits
    <3>3. Known \/ Anew
        BY <3>2 DEF AddressInv, OnItsWay
    <3>4. CASE Known
      <4>1. pc' = "assign" => Known'
          BY <2>1, <3>4, KnownKept
      <4>2. pc' = "idle" /\ USB_HostState = "WaitForDevice" => Known'
          BY <2>1, <3>4 DEF Known, Here, Leaving, Unheard, Gone, Pending
      <4> QED
          BY <2>1, <2>2, <2>3, <2>5, <4>1, <4>2 DEF AddressInv, OnItsWay, Waits, ToSet
    <3>5. CASE Anew
      <4>1. USB_HostState # "WaitForDevice" /\ WaitMSRemaining > 1
          BY <2>1, <3>5 DEF Anew
      <4>2. WaitMSRemaining' # 0 /\ pc' = "idle"
          BY <3>1, <4>1
      <4> QED
          BY <2>1, <2>3, <2>5, <4>1, <4>2 DEF AddressInv, OnItsWay, Waits, ToSet
    <3> QED
        BY <3>3, <3>4, <3>5
  <2>7. CASE PostWaitState # "PostAddressSet"
    <3>1. ~Waits' /\ ~ToSet'
        BY <2>1, <2>7 DEF Waits, ToSet
    <3> QED
        BY <2>3, <2>5, <3>1 DEF AddressInv, OnItsWay
  <2>8. CASE ErrorCode # "none"
    <3>1. pc' = "assign"
        BY <1>2, <2>8 DEF Waited
    <3>2. ~Waits' /\ ~ToSet'
        BY <2>1, <2>8, <3>1 DEF Waits, ToSet
    <3> QED
        BY <2>3, <2>5, <3>2 DEF AddressInv, OnItsWay
  <2> QED
      BY <2>6, <2>7, <2>8
<1>3. CASE HaveAddress
  <2>1. /\ pc = "address"
        /\ UNCHANGED <<USB_HostState, flags, enabled, connected, plugged, device, announced,
                       request, stage, caller>>
      BY <1>3 DEF HaveAddress
  <2>2. CASE ErrorCode # "none"
    <3>1. pc' = "error"
        BY <1>3, <2>2 DEF HaveAddress, AddressSent, Fails
    <3>2. Places' /\ Heard'
        BY <2>1, <3>1 DEF AddressInv, Places, Heard, Waiting
    <3> QED
        BY <3>1, <3>2, Elsewhere DEF AddressInv
  <2>3. CASE ErrorCode = "none"
    <3>1. pc' = "assign" /\ goal' = "WaitForDevice" /\ WaitMSRemaining' = ShortWait
        BY <1>3, <2>3 DEF HaveAddress, AddressSent, NonBlockWait
    <3>2. Places' /\ Heard'
        BY <2>1, <3>1 DEF AddressInv, Places, Heard, Waiting
    <3>3. Known'
        BY <2>1, <2>3, <3>1, KnownKept DEF AddressInv, OnItsWay, Sent
    <3>4. WaitMSRemaining' > 1
        BY <3>1, HostAssumption DEF HostAssumption
    <3> QED
        BY <3>1, <3>2, <3>3, <3>4 DEF AddressInv, OnItsWay, Waits, Sets
  <2> QED
      BY <2>2, <2>3
<1>4. CASE PostAddressSet
  <2>1. /\ pc = "idle" /\ pc' = "assign" /\ goal' = "Addressed"
        /\ UNCHANGED <<USB_HostState, flags, enabled, announced, request, stage, caller>>
      BY <1>4 DEF PostAddressSet, GoTo
  <2>2. Places' /\ Heard'
      BY <2>1 DEF AddressInv, Places, Heard, Waiting
  <2>3. OnItsWay'
      BY <2>1 DEF OnItsWay, Answered, InStage, Sent, ToWait, Waits, ToSet, Sets
  <2> QED
      BY <2>2, <2>3 DEF AddressInv
<1>5. CASE Assign
  <2>1. /\ pc = "assign" /\ USB_HostState' = goal
        /\ pc' = IF ErrorCode = "none" THEN "idle" ELSE "error"
        /\ flags \cap enabled = {}
        /\ UNCHANGED <<PostWaitState, WaitMSRemaining, ErrorCode, flags, enabled, connected,
                       plugged, device, announced, request, stage, caller>>
      BY <1>5 DEF Assign
  <2>2. Places' /\ Heard'
      BY <2>1 DEF AddressInv, Places, Heard, Waiting
  <2>3. CASE ErrorCode = "none"
    <3>1. (Waits' => ToWait) /\ (Sets' => ToSet)
        BY <2>1, <2>3 DEF Waits, Sets, ToWait, ToSet
    <3>2. ~(Answered \/ Sent \/ ToWait \/ ToSet)'
        BY <2>1, <2>3 DEF Answered, InStage, Sent, ToWait, ToSet
    <3>3. Waits' => Known' \/ Anew'
        BY <2>1, <2>3, <3>1
        DEF AddressInv, OnItsWay, Known, Here, Leaving, Unheard, Gone, Anew, Pending
    <3>4. Sets' => (Here \/ Leaving \/ ~announced)'
        BY <2>1, <3>1 DEF AddressInv, OnItsWay, Known, Here, Leaving, Unheard, Gone
    <3> QED
        BY <2>2, <3>2, <3>3, <3>4 DEF AddressInv, OnItsWay
  <2>4. CASE ErrorCode # "none"
      BY <2>1, <2>2, <2>4, Elsewhere DEF AddressInv
  <2> QED
      BY <2>3, <2>4
<1>6. CASE EndReset
  <2>1. /\ pc = "look" /\ pc' = "assign" /\ goal' = "WaitForDevice" /\ PostWaitState' = goal
        /\ enabled' = enabled \cup {"DDISCI"}
        /\ UNCHANGED <<USB_HostState, flags, announced, request, stage, caller>>
      BY <1>6 DEF EndReset, NonBlockWait
  <2>2. goal # "PostAddressSet"
      BY <2>1 DEF AddressInv, Places
  <2>3. Places' /\ Heard'
      BY <2>1 DEF AddressInv, Places, Heard, Waiting
  <2>4. OnItsWay'
      BY <2>1, <2>2 DEF OnItsWay, Answered, InStage, Sent, ToWait, Waits, ToSet, Sets
  <2> QED
      BY <2>3, <2>4 DEF AddressInv
<1> QED
    BY <1>1, <1>2, <1>3, <1>4, <1>5, <1>6

\* The passes in which no address is on its way.
LEMMA AddressPasses ==
    ASSUME AddressInv,
           \/ BusReset \/ LookForFrame \/ Powered \/ WaitForDeviceSettle \/ WaitForConnect
           \/ DoReset \/ ConfigPipe \/ Default \/ HaveDescriptor \/ PostReset
           \/ ReportError \/ Failed \/ AppDone \/ AppRequest
    PROVE  AddressInv'
<1> USE DEF UnchangedTask, request_vars, wait_vars, bus_vars, device_vars, MainRuns, Pass
<1>1. CASE BusReset \/ LookForFrame
  <2>1. /\ pc \in {"reset", "look"} /\ pc' = "look"
        /\ UNCHANGED <<goal, USB_HostState, enabled, announced, request, stage>>
      BY <1>1 DEF BusReset, LookForFrame
  <2>2. Places' /\ Heard'
      BY <2>1 DEF AddressInv, Places, Heard, Waiting
  <2> QED
      BY <2>1, <2>2, Elsewhere DEF AddressInv
<1>2. CASE Powered \/ ConfigPipe
  <2>1. /\ pc = "idle" /\ pc' = "assign" /\ goal' \in {"WaitForDeviceSettle", "Default"}
        /\ UNCHANGED <<USB_HostState, flags, enabled, announced, request, stage, caller>>
      BY <1>2 DEF Powered, ConfigPipe, GoTo
  <2>2. Places' /\ Heard'
      BY <2>1 DEF AddressInv, Places, Heard, Waiting
  <2>3. OnItsWay'
      BY <2>1 DEF OnItsWay, Answered, InStage, Sent, ToWait, Waits, ToSet, Sets
  <2> QED
      BY <2>2, <2>3 DEF AddressInv
<1>3. CASE WaitForDeviceSettle
  <2>1. /\ pc = "idle" /\ USB_HostState = "WaitForDeviceSettle"
        /\ pc' = "idle" \/ (pc' = "assign" /\ goal' = "WaitForConnect")
        /\ UNCHANGED <<USB_HostState, flags, enabled, announced, request, stage, caller>>
      BY <1>3 DEF WaitForDeviceSettle
  <2>2. Places' /\ Heard'
      BY <2>1 DEF AddressInv, Places, Heard, Waiting
  <2>3. OnItsWay'
      BY <2>1 DEF OnItsWay, Answered, InStage, Sent, ToWait, Waits, ToSet, Sets
  <2> QED
      BY <2>2, <2>3 DEF AddressInv
<1>4. CASE WaitForConnect
  <2>1. /\ pc = "idle" /\ pc' = "assign" /\ goal' = "WaitForDevice" /\ PostWaitState' = "DoReset"
        /\ USB_HostState = "WaitForConnect" /\ enabled' = enabled \cup {"VBERRI"}
        /\ UNCHANGED <<USB_HostState, announced, request, stage, caller>>
      BY <1>4 DEF WaitForConnect, NonBlockWait
  <2>2. Places' /\ Heard'
      BY <2>1 DEF AddressInv, Places, Heard, Waiting
  <2>3. OnItsWay'
      BY <2>1 DEF OnItsWay, Answered, InStage, Sent, ToWait, Waits, ToSet, Sets
  <2> QED
      BY <2>2, <2>3 DEF AddressInv
<1>5. CASE DoReset \/ HaveDescriptor
  <2>1. /\ \/ pc = "idle" /\ USB_HostState = "DoReset"
           \/ pc = "descriptor"
        /\ UNCHANGED <<USB_HostState, flags, announced, request, stage, caller>>
      BY <1>5 DEF DoReset, HaveDescriptor
  <2>2. \/ pc' = "reset" /\ goal' \in {"ConfigPipe", "PostReset"}
        \/ pc' = "error" /\ UNCHANGED enabled
      BY <1>5 DEF DoReset, HaveDescriptor, ResetDevice, Fails
  <2>3. Places' /\ Heard'
      BY <2>1, <2>2 DEF AddressInv, Places, Heard, Waiting
  <2> QED
      BY <2>2, <2>3, Elsewhere DEF AddressInv
<1>6. CASE Default \/ PostReset \/ AppRequest
  <2>1. /\ pc = "idle" /\ USB_HostState \in {"Default", "PostReset", "Addressed"}
        /\ UNCHANGED <<USB_HostState, flags, enabled, announced>>
      BY <1>6 DEF Default, PostReset, AppRequest
  <2>2. \/ /\ pc' = "ms" /\ caller' = "begin" /\ stage' = 1
           /\ request' \in {"descriptor", "address", "command", "write"}
        \/ pc' = "error" /\ UNCHANGED <<request, stage>>
      BY <1>6 DEF Default, PostReset, AppRequest, SendControlRequest, Fails
  <2>3. Places' /\ Heard'
      BY <2>1, <2>2 DEF AddressInv, Places, Heard, Waiting
  <2>4. OnItsWay'
      BY <2>2 DEF OnItsWay, Answered, InStage, Sent, ToWait, Waits, ToSet, Sets
  <2> QED
      BY <2>3, <2>4 DEF AddressInv
<1>7. CASE ReportError
  <2>1. /\ pc = "error" /\ flags \cap enabled = {}
        /\ UNCHANGED <<USB_HostState, flags, enabled, request, stage, caller>>
      BY <1>7 DEF ReportError
  <2>2. \/ pc' = "failed" /\ ~announced'
        \/ pc' = "idle" /\ USB_HostState = "Unattached" /\ UNCHANGED announced
      BY <1>7 DEF ReportError, EventUnattached
  <2>3. Places' /\ Heard'
      BY <2>1, <2>2 DEF AddressInv, Places, Heard, Waiting, Pending
  <2>4. OnItsWay'
      BY <2>1, <2>2 DEF OnItsWay, Answered, InStage, Sent, ToWait, Waits, ToSet, Sets
  <2> QED
      BY <2>3, <2>4 DEF AddressInv
<1>8. CASE Failed
  <2>1. /\ pc = "failed" /\ pc' = "idle" /\ USB_HostState' = "Unattached"
        /\ UNCHANGED <<announced, request, stage, caller>>
      BY <1>8 DEF Failed, ResetInterface
  <2>2. Places' /\ Heard'
      BY <2>1 DEF AddressInv, Places, Heard, Waiting
  <2>3. OnItsWay'
      BY <2>1 DEF OnItsWay, Answered, InStage, Sent, ToWait, Waits, ToSet, Sets
  <2> QED
      BY <2>2, <2>3 DEF AddressInv
<1>9. CASE AppDone
  <2>1. /\ pc \in {"command", "write"} /\ pc' = "idle"
        /\ UNCHANGED <<USB_HostState, enabled, announced, request, stage, caller>>
      BY <1>9 DEF AppDone
  <2>2. USB_HostState \notin {"PostAddressSet", "WaitForDevice"}
      BY <2>1 DEF AddressInv, Places, Waiting
  <2>3. Places' /\ Heard'
      BY <2>1, <2>2 DEF AddressInv, Places, Heard, Waiting
  <2>4. OnItsWay'
      BY <2>1, <2>2 DEF OnItsWay, Answered, InStage, Sent, ToWait, Waits, ToSet, Sets
  <2> QED
      BY <2>3, <2>4 DEF AddressInv
<1> QED
    BY <1>1, <1>2, <1>3, <1>4, <1>5, <1>6, <1>7, <1>8, <1>9

\* USB_GEN_vect: a handler that resets the interface finds main() elsewhere or idle.
LEMMA AddressInterrupt ==
    ASSUME AddressInv, GenStep
    PROVE  AddressInv'
<1> USE DEF task_vars, request_vars, wait_vars, bus_vars, device_vars
<1>1. /\ UNCHANGED <<pc, goal, WaitMSRemaining, PostWaitState, caller, ErrorCode, request, stage>>
      /\ UNCHANGED <<plugged, device, reply>>
    BY DEF GenStep, DeviceDisconnected, VBusError, SessionRequest, BConnectionError, Return
<1>2. (Answered' <=> Answered) /\ (Sent' <=> Sent) /\ (ToWait' <=> ToWait) /\ (ToSet' <=> ToSet)
    BY <1>1 DEF Answered, InStage, Sent, ToWait, ToSet
<1>3. Answered \/ Sent \/ ToWait \/ ToSet => pc # "idle"
    BY DEF Answered, InStage, Sent, ToWait, ToSet
<1>4. CASE DeviceDisconnected \/ BConnectionError
  <2>1. /\ USB_HostState' = "Unattached" /\ ~announced' /\ ~connected' /\ flags' = {}
      BY <1>4 DEF DeviceDisconnected, BConnectionError, ResetInterface, EventUnattached
  <2>2. Places' /\ Heard'
      BY <1>1, <2>1 DEF AddressInv, Places, Heard, Waiting, Pending
  <2>3. pc # "idle" => Known'
      BY <1>1, <2>1 DEF Known, Gone
  <2>4. Waits' => Waits /\ pc # "idle"
      BY <1>1, <2>1 DEF Waits
  <2>5. ~Sets'
      BY <2>1 DEF Sets
  <2> QED
      BY <1>1, <1>2, <1>3, <2>2, <2>3, <2>4, <2>5 DEF AddressInv, OnItsWay
<1>5. CASE VBusError
  <2>1. /\ USB_HostState' = "Unattached" /\ ~announced' /\ flags' = flags \ {"VBERRI"}
        /\ UNCHANGED <<enabled, connected>>
      BY <1>5 DEF VBusError, EventUnattached
  <2>2. Places' /\ Heard'
      BY <1>1, <2>1 DEF AddressInv, Places, Heard, Waiting, Pending
  <2>3. Known => Known'
      BY <1>1, <2>1 DEF Known, Here, Leaving, Unheard, Gone, Pending
  <2>4. Anew => Anew'
      BY <1>1, <2>1 DEF Anew
  <2>5. (Waits' => Waits) /\ ~Sets'
      BY <1>1, <2>1 DEF Waits, Sets
  <2> QED
      BY <1>1, <1>2, <2>2, <2>3, <2>4, <2>5 DEF AddressInv, OnItsWay
<1>6. CASE SessionRequest
  <2>1. /\ USB_HostState' = "Powered" /\ flags' = flags \ {"SRPI"} /\ Pending("SRPI")
        /\ enabled' = (enabled \ {"SRPI"}) \cup {"DDISCI"}
        /\ UNCHANGED connected
      BY <1>6 DEF SessionRequest, Handles, Occurred, Tests, Pending
  <2>2. Places' /\ Heard'
      BY <1>1, <2>1 DEF AddressInv, Places, Heard, Waiting
  <2>3. Known => Known'
      BY <1>1, <2>1 DEF Known, Here, Leaving, Unheard, Gone, Pending
  <2>4. Anew => Anew'
      BY <1>1, <2>1 DEF Anew
  <2>5. (Waits' => Waits) /\ ~Sets'
      BY <1>1, <2>1 DEF Waits, Sets
  <2> QED
      BY <1>1, <1>2, <2>2, <2>3, <2>4, <2>5 DEF AddressInv, OnItsWay
<1>7. CASE Return
  <2>1. UNCHANGED <<USB_HostState, flags, enabled, connected, announced>>
      BY <1>7 DEF Return
  <2> QED
      BY <1>1, <2>1
      DEF AddressInv, Places, Heard, OnItsWay, Answered, InStage, Sent, ToWait, Waits, Waiting,
          ToSet, Sets, Known, Here, Leaving, Unheard, Gone, Anew, Pending
<1> QED
    BY <1>4, <1>5, <1>6, <1>7 DEF GenStep

\* The cable and the controller: a device that goes is noticed before another one comes.
LEMMA AddressCable ==
    ASSUME AddressInv,
           Plug \/ Unplug \/ DetectConnect \/ DetectDisconnect \/ VBusDip \/ ConnectionFails
    PROVE  AddressInv'
<1> USE DEF task_vars, request_vars, wait_vars, bus_vars, device_vars
<1>1. /\ UNCHANGED <<pc, goal, WaitMSRemaining, PostWaitState, caller, ErrorCode, request, stage>>
      /\ UNCHANGED <<USB_HostState, reply, enabled, announced>>
    BY DEF Plug, Unplug, DetectConnect, DetectDisconnect, VBusDip, ConnectionFails
<1>2. /\ (Answered' <=> Answered) /\ (Sent' <=> Sent) /\ (ToWait' <=> ToWait) /\ (ToSet' <=> ToSet)
      /\ (Waits' <=> Waits) /\ (Sets' <=> Sets)
    BY <1>1 DEF Answered, InStage, Sent, ToWait, ToSet, Waits, Sets
<1>3. Places'
    BY <1>1 DEF AddressInv, Places, Waiting
<1>4. CASE Plug \/ DetectConnect
  <2>1. ~connected /\ (pc = "idle" \/ (pc = "ms" /\ USB_HostState # "Unattached"))
      BY <1>4 DEF Plug, DetectConnect, MainLooked
  <2>2. Heard'
      BY <1>1, <2>1 DEF AddressInv, Heard
  <2>3. /\ "DDISCI" \in flags' <=> "DDISCI" \in flags
        /\ "HSOFI" \in flags' <=> "HSOFI" \in flags
        /\ "SRPI" \in flags => "SRPI" \in flags'
      BY <1>4 DEF Plug, DetectConnect
  <2>4. Known => Known'
      BY <2>1, <2>3 DEF Known, Here, Leaving, Unheard, Gone
  <2>5. Anew => Known' \/ Anew'
      BY <1>1, <1>4, <2>1, <2>3 DEF Plug, DetectConnect, Known, Unheard, Anew, Pending
  <2>6. Here \/ Leaving \/ ~announced => (Leaving \/ ~announced)'
      BY <1>1, <2>1, <2>3 DEF Here, Leaving
  <2> QED
      BY <1>1, <1>2, <1>3, <2>2, <2>4, <2>5, <2>6 DEF AddressInv, OnItsWay
<1>5. CASE Unplug \/ VBusDip \/ ConnectionFails
  <2>1. /\ UNCHANGED connected
        /\ plugged' => plugged /\ UNCHANGED device
        /\ "SRPI" \in flags' <=> "SRPI" \in flags
        /\ "DDISCI" \in flags' <=> "DDISCI" \in flags
        /\ "HSOFI" \in flags' <=> "HSOFI" \in flags
      BY <1>5 DEF Unplug, VBusDip, ConnectionFails
  <2>2. Heard'
      BY <1>1, <2>1 DEF AddressInv, Heard, Pending
  <2>3. /\ Known => Known'
        /\ Here => Here'
        /\ Leaving => Leaving'
      BY <1>1, <2>1 DEF Known, Here, Leaving, Unheard, Gone, Pending
  <2>4. Anew => Anew'
      BY <1>1, <2>1 DEF Anew, Pending
  <2> QED
      BY <1>1, <1>2, <1>3, <2>2, <2>3, <2>4 DEF AddressInv, OnItsWay
<1>6. CASE DetectDisconnect
  <2>1. flags' = flags \cup {"DDISCI"}
      BY <1>6 DEF DetectDisconnect
  <2>2. Heard'
      BY <1>1, <2>1 DEF AddressInv, Heard, Pending
  <2>3. Leaving'
      BY <2>1 DEF Leaving
  <2> QED
      BY <1>1, <1>2, <1>3, <2>2, <2>3 DEF AddressInv, OnItsWay, Known
<1> QED
    BY <1>4, <1>5, <1>6

\* Frames and answers: the device that acknowledges SET_ADDRESS is connected, and takes its address.
LEMMA AddressAnswer ==
    ASSUME AddressInv,
           Frame \/ (\E r \in {"ready", "stall", "error"} : Reply(r)) \/ UNCHANGED vars
    PROVE  AddressInv'
<1> USE DEF task_vars, request_vars, wait_vars, bus_vars, device_vars
<1>1. /\ UNCHANGED <<pc, goal, WaitMSRemaining, PostWaitState, caller, ErrorCode, request, stage>>
      /\ UNCHANGED <<USB_HostState, enabled, announced, connected, plugged>>
    BY DEF Frame, Reply, vars
<1>2. /\ (Sent' <=> Sent) /\ (ToWait' <=> ToWait) /\ (ToSet' <=> ToSet)
      /\ (Waits' <=> Waits) /\ (Sets' <=> Sets)
    BY <1>1 DEF Sent, ToWait, ToSet, Waits, Sets
<1>3. Places'
    BY <1>1 DEF AddressInv, Places, Waiting
<1>4. CASE Frame
  <2>1. flags' = flags \cup {"HSOFI"} /\ connected /\ UNCHANGED <<device, reply>>
      BY <1>4 DEF Frame, FramesRun
  <2>2. Heard'
      BY <1>1, <2>1 DEF AddressInv, Heard, Pending
  <2>3. (Known => Known') /\ (Here => Here') /\ (Leaving => Leaving')
      BY <1>1, <2>1 DEF Known, Here, Leaving, Unheard, Gone, Pending
  <2>4. Anew => Anew'
      BY <1>1, <2>1 DEF Anew, Pending
  <2>5. Answered' <=> Answered
      BY <1>1, <2>1 DEF Answered, InStage
  <2> QED
      BY <1>1, <1>2, <1>3, <2>2, <2>3, <2>4, <2>5 DEF AddressInv, OnItsWay
<1>5. ASSUME NEW r \in {"ready", "stall", "error"}, Reply(r) PROVE AddressInv'
  <2>1. /\ connected /\ UNCHANGED flags /\ reply' = r
        /\ device' = IF request = "address" /\ Stage = "in" /\ r = "ready"
                       THEN "addressed" ELSE device
      BY <1>5 DEF Reply, FramesRun
  <2>2. Heard'
      BY <1>1, <2>1 DEF AddressInv, Heard, Pending
  <2>3. (Known => Known') /\ (Here => Here') /\ (Leaving => Leaving')
      BY <1>1, <2>1 DEF Known, Here, Leaving, Unheard, Gone, Pending
  <2>4. Anew => Anew'
      BY <1>1, <2>1 DEF Anew, Pending
  <2>5. Answered' => Known'
    <3>1. SUFFICES ASSUME Answered' PROVE Known'
        OBVIOUS
    <3>2. request = "address" /\ stage = 2 /\ r = "ready"
        BY <1>1, <2>1, <3>1 DEF Answered
    <3>3. Stage = "in"
        BY <3>2, AddressStages
    <3> QED
        BY <1>1, <2>1, <3>2, <3>3 DEF Known, Here
  <2> QED
      BY <1>1, <1>2, <1>3, <2>2, <2>3, <2>4, <2>5 DEF AddressInv, OnItsWay
<1>6. CASE UNCHANGED vars
  <2>1. UNCHANGED <<flags, device, reply>>
      BY <1>6 DEF vars
  <2> QED
      BY <1>1, <2>1
      DEF AddressInv, Places, Heard, OnItsWay, Answered, InStage, Sent, ToWait, Waits, Waiting,
          ToSet, Sets, Known, Here, Leaving, Unheard, Gone, Anew, Pending
<1> QED
    BY <1>4, <1>5, <1>6

\* Only PostAddressSet gives the controller an address, and main() runs only when no
\* disconnection waits.
LEMMA AddressGiven ==
    ASSUME AddressInv, [Next]_vars, UHADDR = 0, UHADDR' = 1, plugged, connected, announced
    PROVE  device = "addressed"
<1>1. CASE PostAddressSet
  <2>1. Sets /\ flags \cap enabled = {}
      BY <1>1 DEF PostAddressSet, Pass, MainRuns, Sets
  <2>2. "DDISCI" \in enabled
      BY <2>1 DEF AddressInv, Heard, Sets
  <2> QED
      BY <2>1, <2>2 DEF AddressInv, OnItsWay, Here, Leaving
<1>2. CASE ~PostAddressSet
  <2>1. UHADDR' \in {UHADDR, 0}
      BY <1>2 DEF Next, Main, WaitMS, BeginStages, StageReady, StageWaits, StageWaited, EndRequest,
          BusReset, LookForFrame, EndReset, WaitForDevice, Waited, Powered, WaitForDeviceSettle,
          WaitForConnect, DoReset, ConfigPipe, Default, HaveDescriptor, PostReset, HaveAddress,
          Assign, ReportError, Failed, AppDone, AppRequest, ResetInterface,
          GenStep, DeviceDisconnected, VBusError, SessionRequest, BConnectionError, Return,
          Plug, Unplug, DetectConnect, DetectDisconnect, VBusDip, ConnectionFails, Frame, Reply,
          vars, bus_vars
  <2> QED
      BY <2>1
<1> QED
    BY <1>1, <1>2

\* A device that is there, and that the application was told of, has taken its address when
\* the enumeration goes on with it, whatever interrupts, cable and bus did since it was asked to.
THEOREM EnumerationCorrect == Spec => EnumeratedCompletely
<1>1. Init => AddressInv
    BY DEF Init, AddressInv, Places, Heard, Waiting, OnItsWay, Answered, InStage, Sent, ToWait, Waits,
           ToSet, Sets
<1>2. AddressInv /\ [Next]_vars => AddressInv'
    BY AddressRequest, AddressWaits, AddressPasses, AddressInterrupt, AddressCable, AddressAnswer
    DEF Next, Main
<1>3. AddressInv /\ [Next]_vars
      => (UHADDR = 0 /\ UHADDR' = 1 /\ plugged /\ connected /\ announced => device = "addressed")
    BY AddressGiven
<1> QED
    BY <1>1, <1>2, <1>3, PTL DEF Spec, EnumeratedCompletely

-----------------------------------------------------------------------------
(* The turns of a control request.                                         *)

\* main() is in USB_Host_SendControlRequest.
InRequest ==
    \/ pc \in {"begin", "ios", "waitedms", "end"}
    \/ pc = "ms" /\ caller \in {"begin", "waitedms"}

\* The stages of the request.
AllStages == Len(Stages[request])

\* The stages, and packets, that it has before it.
StagesLeft == AllStages - stage + DataLen

\* The steps that it can take in its stage, three for each turn of the wait.
TurnsLeft ==
    CASE pc = "ms" /\ caller = "begin" -> 3 * USB_HOST_TIMEOUT_MS + 5
      [] pc = "begin" -> 3 * USB_HOST_TIMEOUT_MS + 4
      [] pc = "ios" -> 3 * TimeoutCounter + 3
      [] pc = "ms" /\ caller = "waitedms" -> 3 * TimeoutCounter + 2
      [] pc = "waitedms" -> 3 * TimeoutCounter + 1
      [] OTHER -> 0

\* A request has no more before it than its stages, its data and a whole timeout for each.
RequestBounded ==
    InRequest =>
      /\ StagesLeft \in Nat /\ StagesLeft <= DescriptorLength + 3
      /\ TurnsLeft \in Nat /\ TurnsLeft <= 3 * USB_HOST_TIMEOUT_MS + 5

\* Every step of main() in a request takes a stage, or a turn of the stage, from what it has
\* before it, and nothing that the device, the cable or an interrupt does adds to that.
RequestShrinks ==
    [][InRequest /\ InRequest' =>
         /\ Main => \/ StagesLeft' < StagesLeft
                    \/ StagesLeft' = StagesLeft /\ TurnsLeft' < TurnsLeft
         /\ ~Main => StagesLeft' = StagesLeft /\ TurnsLeft' = TurnsLeft]_vars

RequestTypes ==
    /\ DataLen \in Nat /\ stage \in Nat /\ TimeoutCounter \in Nat
    /\ request \in {"none", "descriptor", "address", "command", "write"}
    /\ caller # "ios"

\* The counter of a stage that waits has not wrapped.
RequestInv ==
    /\ RequestTypes
    /\ pc = "ms" => caller \in {"begin", "waitedms", "waited"}
    /\ InRequest => /\ request # "none" /\ 1 <= stage /\ stage <= AllStages
                    /\ DataLen <= DescriptorLength
    /\ pc \in {"ios", "waitedms"} \/ (pc = "ms" /\ caller = "waitedms")
         => TimeoutCounter <= USB_HOST_TIMEOUT_MS

\* No request has more than four stages.
LEMMA StagesKnown ==
    ASSUME request \in {"descriptor", "address", "command", "write"}
    PROVE  AllStages \in Nat /\ 2 <= AllStages /\ AllStages <= 4
<1>1. AllStages = 2 \/ AllStages = 4
    BY DEF Stages, AllStages
<1> QED
    BY <1>1

\* They are those of the request.
LEMMA StagesSame == ASSUME UNCHANGED request PROVE AllStages' = AllStages
    BY DEF AllStages

\* A stage that is over, or one of its packets.
LEMMA FewerLeft ==
    ASSUME NEW all \in Nat, NEW s \in Nat, NEW d \in Nat, NEW t \in Nat, NEW e \in Nat,
           t = s \/ t = s + 1, e <= d
    PROVE  \/ all - t + e < all - s + d
           \/ all - t + e = all - s + d /\ t = s /\ e = d
    OBVIOUS

\* A step outside a request.
LEMMA RequestElsewhere ==
    ASSUME RequestInv, pc' \notin {"begin", "ios", "waitedms", "end"},
           pc' = "ms" => caller' = "waited", caller' # "ios",
           stage' \in {stage, 1}, DataLen' \in {DataLen, 0}, TimeoutCounter' \in {TimeoutCounter, 0},
           request' \in {request, "none"}
    PROVE  RequestInv'
<1>1. ~InRequest'
    BY DEF InRequest
<1>2. RequestTypes'
    BY DEF RequestInv, RequestTypes
<1> QED
    BY <1>1, <1>2 DEF RequestInv

\* A request begins with its first stage.
LEMMA RequestBegins ==
    ASSUME RequestInv, NEW r \in {"descriptor", "address", "command", "write"}, NEW len \in Nat,
           len <= DescriptorLength, SendControlRequest(r, len), UNCHANGED TimeoutCounter
    PROVE  RequestInv'
<1>1. /\ request' = r /\ stage' = 1 /\ DataLen' = len /\ pc' = "ms" /\ caller' = "begin"
    BY DEF SendControlRequest
<1>2. RequestTypes'
    BY <1>1 DEF RequestInv, RequestTypes
<1>3. AllStages' = 2 \/ AllStages' = 4
    BY <1>1 DEF Stages, AllStages
<1> QED
    BY <1>1, <1>2, <1>3 DEF RequestInv

\* The turns left at each place.
TurnsByPlace ==
    /\ pc = "ms" /\ caller = "begin" => TurnsLeft = 3 * USB_HOST_TIMEOUT_MS + 5
    /\ pc = "begin" => TurnsLeft = 3 * USB_HOST_TIMEOUT_MS + 4
    /\ pc = "ios" => TurnsLeft = 3 * TimeoutCounter + 3
    /\ pc = "ms" /\ caller = "waitedms" => TurnsLeft = 3 * TimeoutCounter + 2
    /\ pc = "waitedms" => TurnsLeft = 3 * TimeoutCounter + 1
    /\ pc = "end" => TurnsLeft = 0

\* The same, a case at a time, before a step and after it.
LEMMA TurnsAt == TurnsByPlace /\ TurnsByPlace'
<1>1. TurnsByPlace
  <2>1. CASE pc = "ms"
      BY <2>1 DEF TurnsLeft, TurnsByPlace
  <2>2. CASE pc # "ms"
      BY <2>2 DEF TurnsLeft, TurnsByPlace
  <2> QED
      BY <2>1, <2>2
<1>2. TurnsByPlace'
  <2>1. CASE pc' = "ms"
      BY <2>1 DEF TurnsLeft, TurnsByPlace
  <2>2. CASE pc' # "ms"
      BY <2>2 DEF TurnsLeft, TurnsByPlace
  <2> QED
      BY <2>1, <2>2
<1> QED
    BY <1>1, <1>2

\* A stage that is over: the next packet or stage, or the end of the request.
LEMMA StageOver ==
    ASSUME RequestInv, StageReady
    PROVE  /\ RequestInv'
           /\ \/ StagesLeft' < StagesLeft
              \/ StagesLeft' = StagesLeft /\ TurnsLeft' < TurnsLeft
<1>1. /\ pc = "ios" /\ request \in {"descriptor", "address", "command", "write"} /\ request' = request
      /\ DataLen \in Nat /\ stage \in Nat /\ 1 <= stage /\ stage <= AllStages
      /\ DataLen <= DescriptorLength /\ TimeoutCounter \in Nat /\ caller # "ios"
      /\ USB_HOST_TIMEOUT_MS \in Nat
    BY HostAssumption DEF HostAssumption, StageReady, MainRuns, RequestInv, RequestTypes, InRequest
<1>2. /\ AllStages \in Nat /\ 2 <= AllStages /\ AllStages <= 4 /\ AllStages' = AllStages
    BY <1>1, StagesKnown, StagesSame
<1>3. /\ DataLen' \in Nat /\ DataLen' <= DataLen
      /\ InData => DataLen' < DataLen
      /\ ~InData => DataLen' = DataLen
    BY <1>1 DEF StageReady, InData
<1>4. /\ stage' = (IF (InData /\ DataLen' > 0) \/ stage = AllStages THEN stage ELSE stage + 1)
      /\ \/ /\ stage = AllStages /\ ~(InData /\ DataLen' > 0)
            /\ pc' = "end" /\ UNCHANGED <<wait_vars, TimeoutCounter>>
         \/ /\ (InData /\ DataLen' > 0) \/ stage # AllStages
            /\ \/ CallWaitMS("begin") /\ UNCHANGED TimeoutCounter
               \/ StartStage /\ UNCHANGED wait_vars
    BY DEF StageReady, AllStages
<1>5. \/ pc' = "end" /\ UNCHANGED <<caller, TimeoutCounter>>
      \/ pc' = "ms" /\ caller' = "begin" /\ UNCHANGED TimeoutCounter
      \/ pc' = "ios" /\ caller' = caller /\ TimeoutCounter' = USB_HOST_TIMEOUT_MS
    BY <1>4 DEF CallWaitMS, StartStage, wait_vars
<1>6. stage' \in Nat /\ 1 <= stage' /\ stage' <= AllStages
    BY <1>1, <1>2, <1>4
<1>7. RequestInv'
  <2>1. RequestTypes'
      BY <1>1, <1>3, <1>5, <1>6 DEF RequestTypes
  <2>2. DataLen' <= DescriptorLength
      BY <1>1, <1>3, HostAssumption DEF HostAssumption
  <2> QED
      BY <1>1, <1>2, <1>5, <1>6, <2>1, <2>2 DEF RequestInv
<1>8. \/ StagesLeft' < StagesLeft
      \/ StagesLeft' = StagesLeft /\ stage' = stage /\ DataLen' = DataLen
  <2>1. StagesLeft = AllStages - stage + DataLen /\ StagesLeft' = AllStages - stage' + DataLen'
      BY <1>2 DEF StagesLeft
  <2>2. stage' \in Nat /\ (stage' = stage \/ stage' = stage + 1)
      BY <1>4, <1>6
  <2>3. /\ AllStages \in Nat /\ stage \in Nat /\ DataLen \in Nat /\ DataLen' \in Nat
        /\ DataLen' <= DataLen
      BY <1>1, <1>2, <1>3
  <2>4. PICK t \in Nat : t = stage'
      BY <2>2
  <2>5. PICK e \in Nat : e = DataLen'
      BY <2>3
  <2>6. \/ AllStages - t + e < AllStages - stage + DataLen
        \/ AllStages - t + e = AllStages - stage + DataLen /\ t = stage /\ e = DataLen
    <3>1. (t = stage \/ t = stage + 1) /\ e <= DataLen
        BY <2>2, <2>3, <2>4, <2>5
    <3> QED
        BY <2>3, <3>1, FewerLeft
  <2>7. StagesLeft' = AllStages - t + e
      BY <2>1, <2>4, <2>5
  <2> QED
      BY <2>1, <2>4, <2>5, <2>6, <2>7
<1>9. CASE stage = AllStages /\ ~(InData /\ DataLen' > 0)
  <2>1. pc' = "end" /\ stage' = stage
      BY <1>4, <1>9
  <2>2. TurnsLeft' = 0 /\ TurnsLeft = 3 * TimeoutCounter + 3
      BY <1>1, <2>1, TurnsAt DEF TurnsByPlace
  <2>3. TurnsLeft' < TurnsLeft
      BY <1>1, <2>2
  <2> QED
      BY <1>7, <1>8, <2>3
<1>10. CASE (InData /\ DataLen' > 0) \/ stage # AllStages
  <2>1. stage' # stage \/ DataLen' # DataLen
    <3>1. CASE InData /\ DataLen' > 0
        BY <1>1, <1>3, <3>1
    <3>2. CASE ~(InData /\ DataLen' > 0)
        BY <1>1, <1>4, <1>10, <3>2
    <3> QED
        BY <3>1, <3>2
  <2> QED
      BY <1>7, <1>8, <2>1
<1> QED
    BY <1>9, <1>10

\* The other steps of a request.
LEMMA StageGoesOn ==
    ASSUME RequestInv, InRequest, InRequest',
           WaitMS \/ BeginStages \/ StageWaits \/ StageWaited \/ EndRequest
    PROVE  RequestInv' /\ StagesLeft' = StagesLeft /\ TurnsLeft' < TurnsLeft
<1> USE DEF request_vars, wait_vars, MainRuns
<1>1. /\ TimeoutCounter \in Nat /\ USB_HOST_TIMEOUT_MS \in Nat /\ RequestTypes
      /\ request # "none" /\ 1 <= stage /\ stage <= AllStages /\ DataLen <= DescriptorLength
    BY HostAssumption DEF HostAssumption, RequestInv, RequestTypes
<1>2. CASE WaitMS
  <2>1. /\ pc = "ms" /\ pc' = caller /\ caller' = "idle" /\ caller \in {"begin", "waitedms"}
        /\ UNCHANGED <<request, stage, DataLen, TimeoutCounter>>
      BY <1>2 DEF WaitMS, InRequest
  <2>2. RequestInv'
      BY <2>1, StagesSame DEF RequestInv, RequestTypes, InRequest
  <2>3. TurnsLeft' < TurnsLeft
      BY <1>1, <2>1, TurnsAt DEF TurnsByPlace
  <2> QED
      BY <2>1, <2>2, <2>3, StagesSame DEF StagesLeft
<1>3. CASE BeginStages
  <2>1. /\ pc = "begin" /\ UNCHANGED <<request, stage, DataLen, caller>>
        /\ \/ pc' = "ios" /\ TimeoutCounter' = USB_HOST_TIMEOUT_MS
           \/ pc' = "end" /\ UNCHANGED TimeoutCounter
      BY <1>3 DEF BeginStages, StartStage
  <2>2. RequestInv'
      BY <1>1, <2>1, StagesSame DEF RequestInv, RequestTypes, InRequest
  <2>3. TurnsLeft' < TurnsLeft
      BY <1>1, <2>1, TurnsAt DEF TurnsByPlace
  <2> QED
      BY <2>1, <2>2, <2>3, StagesSame DEF StagesLeft
<1>4. CASE StageWaits
  <2>1. /\ pc = "ios" /\ pc' = "ms" /\ caller' = "waitedms"
        /\ UNCHANGED <<request, stage, DataLen, TimeoutCounter>>
      BY <1>4 DEF StageWaits, CallWaitMS
  <2>2. RequestInv'
      BY <2>1, StagesSame DEF RequestInv, RequestTypes, InRequest
  <2>3. TurnsLeft' < TurnsLeft
      BY <1>1, <2>1, TurnsAt DEF TurnsByPlace
  <2> QED
      BY <2>1, <2>2, <2>3, StagesSame DEF StagesLeft
<1>5. CASE StageWaited
  <2>1. pc = "waitedms" /\ UNCHANGED <<request, stage, DataLen, caller>>
        /\ TimeoutCounter <= USB_HOST_TIMEOUT_MS
      BY <1>5 DEF StageWaited, RequestInv
  <2>2. CASE pc' = "end"
    <3>1. TimeoutCounter' \in Nat
      <4>1. TimeoutCounter' = TimeoutCounter \/ TimeoutCounter' = (TimeoutCounter - 1) % 65536
          BY <1>5 DEF StageWaited
      <4> QED
          BY <1>1, <4>1
    <3>2. RequestInv'
        BY <1>1, <2>1, <2>2, <3>1, StagesSame DEF RequestInv, RequestTypes
    <3>3. TurnsLeft' < TurnsLeft
        BY <1>1, <2>1, <2>2, TurnsAt DEF TurnsByPlace
    <3> QED
        BY <2>1, <3>2, <3>3, StagesSame DEF StagesLeft
  <2>3. CASE pc' # "end"
    <3>1. TimeoutCounter # 0 /\ pc' = "ios" /\ TimeoutCounter' = (TimeoutCounter - 1) % 65536
        BY <1>5, <2>3 DEF StageWaited, Expired
    <3>2. TimeoutCounter' = TimeoutCounter - 1
        BY <1>1, <2>1, <3>1, HostAssumption DEF HostAssumption
    <3>3. RequestInv'
        BY <1>1, <2>1, <3>1, <3>2, StagesSame DEF RequestInv, RequestTypes
    <3>4. TurnsLeft' < TurnsLeft
        BY <1>1, <2>1, <3>1, <3>2, TurnsAt DEF TurnsByPlace
    <3> QED
        BY <2>1, <3>3, <3>4, StagesSame DEF StagesLeft
  <2> QED
      BY <2>2, <2>3
<1>6. CASE EndRequest
  <2>1. pc' = request
      BY <1>6 DEF EndRequest
  <2>2. ~InRequest'
      BY <1>1, <2>1 DEF InRequest, RequestTypes
  <2> QED
      BY <2>2
<1> QED
    BY <1>2, <1>3, <1>4, <1>5, <1>6

\* The end of a wait between two states, and the passes through the states.
LEMMA RequestPasses ==
    ASSUME RequestInv,
           \/ WaitMS /\ ~InRequest
           \/ EndRequest
           \/ BusReset \/ LookForFrame \/ EndReset \/ WaitForDevice \/ Waited \/ Powered
           \/ WaitForDeviceSettle \/ WaitForConnect \/ DoReset \/ ConfigPipe \/ Default
           \/ HaveDescriptor \/ PostReset \/ HaveAddress \/ PostAddressSet \/ Assign
           \/ ReportError \/ Failed \/ AppDone \/ AppRequest
    PROVE  RequestInv' /\ ~(InRequest /\ InRequest')
<1> USE DEF UnchangedTask, request_vars, wait_vars, MainRuns, Pass, InRequest
<1>1. CASE WaitMS /\ ~InRequest
  <2>1. /\ pc = "ms" /\ pc' = caller /\ caller' = "idle" /\ caller \notin {"begin", "waitedms"}
        /\ UNCHANGED <<stage, DataLen, TimeoutCounter, request>>
      BY <1>1 DEF WaitMS
  <2>2. caller \in {"waited"}
      BY <2>1 DEF RequestInv
  <2> QED
      BY <1>1, <2>1, <2>2, RequestElsewhere DEF RequestInv, RequestTypes
<1>2. CASE EndRequest
  <2>1. /\ pc = "end" /\ pc' = request /\ caller' = caller
        /\ request' = "none" /\ stage' = 1 /\ DataLen' = 0 /\ TimeoutCounter' = 0
      BY <1>2 DEF EndRequest
  <2>2. pc' \in {"none", "descriptor", "address", "command", "write"} /\ caller # "ios"
      BY <2>1 DEF RequestInv, RequestTypes
  <2>3. RequestInv'
      BY <2>1, <2>2, RequestElsewhere
  <2> QED
      BY <2>2, <2>3
<1>3. CASE BusReset \/ LookForFrame \/ EndReset
    BY <1>3, RequestElsewhere
    DEF BusReset, LookForFrame, EndReset, NonBlockWait, RequestInv, RequestTypes
<1>4. CASE WaitForDevice \/ Waited
    BY <1>4, RequestElsewhere DEF WaitForDevice, Waited, CallWaitMS, RequestInv, RequestTypes
<1>5. CASE Powered \/ WaitForDeviceSettle \/ WaitForConnect \/ DoReset \/ ConfigPipe
    BY <1>5, RequestElsewhere
    DEF Powered, WaitForDeviceSettle, WaitForConnect, DoReset, ConfigPipe, ResetDevice,
        NonBlockWait, GoTo, RequestInv, RequestTypes
<1>6. CASE Default \/ AppRequest
  <2>1. pc = "idle" /\ UNCHANGED TimeoutCounter
      BY <1>6 DEF Default, AppRequest
  <2>2. PICK r \in {"descriptor", "address", "command", "write"}, len \in {0, 1, DescriptorLength} :
          SendControlRequest(r, len)
      BY <1>6 DEF Default, AppRequest
  <2>3. len \in Nat /\ len <= DescriptorLength
      BY <2>2, HostAssumption DEF HostAssumption
  <2>4. RequestInv'
      BY <2>1, <2>2, <2>3, RequestBegins
  <2> QED
      BY <2>1, <2>4
<1>7. CASE PostReset
  <2>1. pc = "idle" /\ UNCHANGED TimeoutCounter
      BY <1>7 DEF PostReset
  <2>2. CASE SendControlRequest("address", 0)
    <3>1. RequestInv'
        BY <2>1, <2>2, RequestBegins, HostAssumption DEF HostAssumption
    <3> QED
        BY <2>1, <3>1
  <2>3. CASE ~SendControlRequest("address", 0)
      BY <1>7, <2>3, RequestElsewhere DEF PostReset, Fails, RequestInv, RequestTypes
  <2> QED
      BY <2>2, <2>3
<1>8. CASE HaveDescriptor
    BY <1>8, RequestElsewhere DEF HaveDescriptor, Fails, ResetDevice, RequestInv, RequestTypes
<1>9. CASE HaveAddress \/ PostAddressSet \/ Assign
    BY <1>9, RequestElsewhere
    DEF HaveAddress, PostAddressSet, Assign, NonBlockWait, Fails, GoTo, RequestInv, RequestTypes
<1>10. CASE ReportError \/ Failed \/ AppDone
    BY <1>10, RequestElsewhere DEF ReportError, Failed, AppDone, RequestInv, RequestTypes
<1> QED
    BY <1>1, <1>2, <1>3, <1>4, <1>5, <1>6, <1>7, <1>8, <1>9, <1>10

\* Interrupts, the cable and the bus leave main() where it is.
LEMMA RequestBus ==
    ASSUME RequestInv,
           \/ GenStep \/ Plug \/ Unplug \/ DetectConnect \/ DetectDisconnect \/ VBusDip
           \/ ConnectionFails \/ Frame \/ (\E r \in {"ready", "stall", "error"} : Reply(r))
           \/ UNCHANGED vars
    PROVE  RequestInv' /\ StagesLeft' = StagesLeft /\ TurnsLeft' = TurnsLeft
<1>1. UNCHANGED task_vars
    BY DEF GenStep, DeviceDisconnected, VBusError, SessionRequest, BConnectionError, Return,
           Plug, Unplug, DetectConnect, DetectDisconnect, VBusDip, ConnectionFails, Frame, Reply, vars
<1>2. UNCHANGED <<pc, caller, request, stage, DataLen, TimeoutCounter>>
    BY <1>1 DEF task_vars, wait_vars, request_vars
<1>3. AllStages' = AllStages
    BY <1>2, StagesSame
<1> QED
    BY <1>2, <1>3 DEF RequestInv, RequestTypes, InRequest, StagesLeft, TurnsLeft

\* What it has before it is bounded.
LEMMA RequestHasBounds == RequestInv => RequestBounded
<1> SUFFICES ASSUME RequestInv, InRequest
             PROVE  /\ StagesLeft \in Nat /\ StagesLeft <= DescriptorLength + 3
                    /\ TurnsLeft \in Nat /\ TurnsLeft <= 3 * USB_HOST_TIMEOUT_MS + 5
    BY DEF RequestBounded
<1>1. /\ request \in {"descriptor", "address", "command", "write"}
      /\ DataLen \in Nat /\ stage \in Nat /\ 1 <= stage /\ stage <= AllStages
      /\ DataLen <= DescriptorLength /\ TimeoutCounter \in Nat
      /\ USB_HOST_TIMEOUT_MS \in Nat /\ DescriptorLength \in Nat
    BY HostAssumption DEF HostAssumption, RequestInv, RequestTypes
<1>2. AllStages \in Nat /\ AllStages <= 4
    BY <1>1, StagesKnown
<1>3. StagesLeft \in Nat /\ StagesLeft <= DescriptorLength + 3
    BY <1>1, <1>2 DEF StagesLeft
<1>4. TurnsLeft \in Nat /\ TurnsLeft <= 3 * USB_HOST_TIMEOUT_MS + 5
    BY <1>1, TurnsAt DEF TurnsByPlace, RequestInv, InRequest
<1> QED
    BY <1>3, <1>4

\* USB_Host_SendControlRequest always returns: whatever the device answers, or fails to, it has
\* no more before it than its stages and its bytes with a whole timeout for each, and each of its
\* steps takes from that; an interrupt, the cable or the bus cannot put the end off.
THEOREM RequestCorrect == Spec => []RequestBounded /\ RequestShrinks
<1>1. Init => RequestInv
    BY DEF Init, RequestInv, RequestTypes, InRequest
<1>2. RequestInv /\ [Next]_vars
      => /\ RequestInv'
         /\ InRequest /\ InRequest' =>
              /\ Main => \/ StagesLeft' < StagesLeft
                         \/ StagesLeft' = StagesLeft /\ TurnsLeft' < TurnsLeft
              /\ ~Main => StagesLeft' = StagesLeft /\ TurnsLeft' = TurnsLeft
  <2> SUFFICES ASSUME RequestInv, [Next]_vars
               PROVE  /\ RequestInv'
                      /\ InRequest /\ InRequest' =>
                           /\ Main => \/ StagesLeft' < StagesLeft
                                      \/ StagesLeft' = StagesLeft /\ TurnsLeft' < TurnsLeft
                           /\ ~Main => StagesLeft' = StagesLeft /\ TurnsLeft' = TurnsLeft
      OBVIOUS
  <2>1. CASE Main
    <3>1. CASE StageReady
        BY <2>1, <3>1, StageOver
    <3>2. CASE WaitMS \/ BeginStages \/ StageWaits \/ StageWaited
      <4>1. CASE InRequest /\ InRequest'
          BY <2>1, <3>2, <4>1, StageGoesOn
      <4>2. CASE ~InRequest
        <5>1. WaitMS
            BY <3>2, <4>2 DEF InRequest, BeginStages, StageWaits, StageWaited, MainRuns
        <5> QED
            BY <4>2, <5>1, RequestPasses
      <4>3. CASE InRequest /\ ~InRequest'
        <5>1. FALSE
            BY <3>2, <4>3 DEF InRequest, WaitMS, BeginStages, StageWaits, StageWaited, MainRuns,
                StartStage, CallWaitMS, wait_vars, RequestInv
        <5> QED
            BY <5>1
      <4> QED
          BY <4>1, <4>2, <4>3
    <3>3. CASE ~(StageReady \/ WaitMS \/ BeginStages \/ StageWaits \/ StageWaited)
        BY <2>1, <3>3, RequestPasses DEF Main
    <3> QED
        BY <3>1, <3>2, <3>3
  <2>2. CASE ~Main /\ AppRequest
      BY <2>2, RequestPasses
  <2>3. CASE ~Main /\ ~AppRequest
      BY <2>3, RequestBus DEF Next
  <2> QED
      BY <2>1, <2>2, <2>3
<1>3. RequestInv => RequestBounded
    BY RequestHasBounds
<1> QED
    BY <1>1, <1>2, <1>3, PTL DEF Spec, RequestShrinks

-----------------------------------------------------------------------------
(* The frames that main() waits for.                                       *)

\* USB_Host_WaitMS waits on a bus that is awake, or for a device that it can see is gone.
WaitsAwake == pc = "ms" => SOFEN \/ USB_HostState = "Unattached"

\* A bus that falls asleep in the wait was reset by an interrupt, which left no announcement of
\* another device behind it.
AwakeInv ==
    /\ pc = "ms" => caller \in {"begin", "waitedms", "waited"}
    /\ request \in {"none", "descriptor", "address", "command", "write"}
    /\ pc = "ms" /\ ~SOFEN => USB_HostState = "Unattached" /\ "SRPI" \notin flags

\* The steps of main() begin a wait on a bus that they have woken, or are none of a wait.
LEMMA AwakeMain ==
    ASSUME AwakeInv, Main \/ AppRequest
    PROVE  AwakeInv'
<1> USE DEF UnchangedTask, request_vars, wait_vars, MainRuns, Pass, AwakeInv
<1>1. CASE WaitMS
    BY <1>1 DEF WaitMS
<1>2. CASE BeginStages \/ StageWaits \/ StageWaited \/ EndRequest
    BY <1>2 DEF BeginStages, StageWaits, StageWaited, EndRequest, StartStage, CallWaitMS, bus_vars
<1>3. CASE StageReady
  <2>1. request' = request /\ pc' \in {"end", "ms", "ios"}
        /\ (pc' = "ms" => caller' = "begin" /\ SOFEN' = TRUE)
      BY <1>3 DEF StageReady, StartStage, CallWaitMS
  <2> QED
      BY <2>1
<1>4. CASE BusReset \/ LookForFrame \/ EndReset
    BY <1>4 DEF BusReset, LookForFrame, EndReset, NonBlockWait, bus_vars
<1>5. CASE WaitForDevice
    BY <1>5 DEF WaitForDevice, CallWaitMS
<1>6. CASE Waited
  <2>1. pc' \in {"idle", "assign"} /\ request' = request
      BY <1>6 DEF Waited
  <2> QED
      BY <2>1
<1>7. CASE Powered \/ WaitForDeviceSettle \/ WaitForConnect \/ DoReset \/ ConfigPipe
    BY <1>7
    DEF Powered, WaitForDeviceSettle, WaitForConnect, DoReset, ConfigPipe, ResetDevice,
        NonBlockWait, GoTo, bus_vars
<1>8. CASE Default \/ AppRequest
    BY <1>8 DEF Default, AppRequest, SendControlRequest
<1>9. CASE HaveDescriptor \/ PostReset
    BY <1>9 DEF HaveDescriptor, PostReset, Fails, ResetDevice, SendControlRequest
<1>10. CASE HaveAddress \/ PostAddressSet \/ Assign
    BY <1>10 DEF HaveAddress, PostAddressSet, Assign, NonBlockWait, Fails, GoTo
<1>11. CASE ReportError \/ Failed \/ AppDone
    BY <1>11 DEF ReportError, Failed, AppDone
<1> QED
    BY <1>1, <1>2, <1>3, <1>4, <1>5, <1>6, <1>7, <1>8, <1>9, <1>10, <1>11 DEF Main

\* An interrupt that puts the bus to sleep forgets the device; one that announces another finds an
\* announcement that can only have come before.
LEMMA AwakeBus ==
    ASSUME AwakeInv,
           \/ GenStep \/ Plug \/ Unplug \/ DetectConnect \/ DetectDisconnect \/ VBusDip
           \/ ConnectionFails \/ Frame \/ (\E r \in {"ready", "stall", "error"} : Reply(r))
           \/ UNCHANGED vars
    PROVE  AwakeInv'
<1>1. UNCHANGED <<pc, caller, request>>
  <2>1. UNCHANGED task_vars
      BY DEF GenStep, DeviceDisconnected, VBusError, SessionRequest, BConnectionError, Return,
             Plug, Unplug, DetectConnect, DetectDisconnect, VBusDip, ConnectionFails, Frame, Reply, vars
  <2> QED
      BY <2>1 DEF task_vars, wait_vars, request_vars
<1>2. CASE DeviceDisconnected \/ BConnectionError
    BY <1>1, <1>2 DEF DeviceDisconnected, BConnectionError, ResetInterface, AwakeInv
<1>3. CASE VBusError \/ Return
    BY <1>1, <1>3 DEF VBusError, Return, AwakeInv, bus_vars
<1>4. CASE SessionRequest
  <2>1. "SRPI" \in flags /\ SOFEN' = SOFEN
      BY <1>4 DEF SessionRequest, Handles, Occurred, Tests, bus_vars
  <2> QED
      BY <1>1, <2>1 DEF AwakeInv
<1>5. CASE Plug \/ DetectConnect
    BY <1>1, <1>5 DEF Plug, DetectConnect, MainLooked, AwakeInv, bus_vars
<1>6. CASE Unplug \/ DetectDisconnect \/ VBusDip \/ ConnectionFails \/ Frame
    BY <1>1, <1>6 DEF Unplug, DetectDisconnect, VBusDip, ConnectionFails, Frame, AwakeInv, bus_vars
<1>7. ASSUME NEW r \in {"ready", "stall", "error"}, Reply(r) PROVE AwakeInv'
    BY <1>1, <1>7 DEF Reply, AwakeInv, bus_vars
<1>8. CASE UNCHANGED vars
    BY <1>1, <1>8 DEF vars, AwakeInv, bus_vars
<1> QED
    BY <1>2, <1>3, <1>4, <1>5, <1>6, <1>7, <1>8 DEF GenStep

\* main() never waits for the frames of a bus that nobody will wake: an interrupt that resets the
\* interface in the middle of USB_Host_WaitMS leaves the state in which the next turn ends it.
THEOREM AwakeCorrect == Spec => []WaitsAwake
<1>1. Init => AwakeInv
    BY DEF Init, AwakeInv
<1>2. AwakeInv /\ [Next]_vars => AwakeInv'
    BY AwakeMain, AwakeBus DEF Next
<1>3. AwakeInv => WaitsAwake
    BY DEF AwakeInv, WaitsAwake
<1> QED
    BY <1>1, <1>2, <1>3, PTL DEF Spec

-----------------------------------------------------------------------------
(* The pipes of a class driver.                                          *)

\* What holds of a pipe that is bound.
BindingOK(p) ==
    /\ p \in {"IN", "OUT"} => pipes[p].direction = p
    /\ pipes[p].transfer \in driver.transfers
    /\ driver.checked =>
         [address |-> pipes[p].address, direction |-> pipes[p].direction] \notin others
    /\ driver.data = "none" => pipes[p].interface.place = number
    /\ driver.data # "none" =>
         \/ pipes[p].interface.place = own /\ pipes[p].interface.class = driver.interface
         \/ pipes[p].interface.place > own /\ pipes[p].interface.class = driver.data

\* What holds of the interface whose endpoints are bound.
InterfaceOK ==
    /\ driver.data = "none" => interface.place = number
    /\ driver.data # "none" =>
         \/ interface.place = own /\ interface.class = driver.interface
         \/ interface.place > own /\ interface.class = driver.data

\* The pipes of data that are bound are bound in this interface.
DataIn(place) == \A p \in Config!Bound \cap {"IN", "OUT"} : pipes[p].interface.place = place

\* A search that went back stands on an interface it has entered.
PendingOK ==
    pending # <<>> => /\ Config!IsInterface(Head(pending).descriptor)
                      /\ interface.class = Head(pending).descriptor.class

StageOK ==
    /\ search = "interface" => Config!Bound = {} /\ ~partial /\ pending = <<>>
    /\ search \in {"hid", "endpoint", "required"} =>
         InterfaceOK /\ pending = <<>> /\ (~partial => DataIn(interface.place))
    /\ search \in {"hid", "again"} => Config!Bound = {}
    /\ search \in {"data", "again"} => driver.data # "none" /\ (BytesRem => interface.place > own)
    /\ search = "data" => (~partial => Config!Bound \cap {"IN", "OUT"} = {})
    /\ search = "active" => driver.enough \subseteq Config!Bound /\ (~partial => \E place : DataIn(place))

PipeInv ==
    /\ driver \in Drivers /\ own \in Nat /\ interface.place \in Nat /\ own <= interface.place
    /\ pipes = [p \in Config!Pipes |-> pipes[p]] /\ partial \in BOOLEAN
    /\ PendingOK /\ StageOK
    /\ \A p \in Config!Bound : BindingOK(p)

\* Nothing is bound in the beginning.
LEMMA PipeInit == Config!Init => PipeInv
<1> SUFFICES ASSUME Config!Init PROVE PipeInv
    OBVIOUS
<1>1. Config!Bound = {}
    BY DEF Config!Init, Config!Bound, Config!Nothing
<1>2. pipes = [p \in Config!Pipes |-> pipes[p]]
    BY DEF Config!Init
<1>3. StageOK /\ PendingOK
    BY <1>1 DEF Config!Init, StageOK, PendingOK
<1>4. driver \in Drivers /\ own = 0 /\ interface.place = 0
    BY DEF Config!Init
<1>5. partial \in BOOLEAN /\ ~partial
    BY DEF Config!Init
<1>6. own \in Nat /\ interface.place \in Nat /\ own <= interface.place
    BY <1>4
<1> QED
    BY <1>1, <1>2, <1>3, <1>4, <1>5, <1>6 DEF PipeInv

\* The interface that a turn of a search reads.
LEMMA Entered ==
    ASSUME PipeInv, NEW d, NEW last, Config!Look(d, last)
    PROVE  /\ interface'.place \in Nat /\ interface.place <= interface'.place
           /\ Config!IsInterface(d) => interface'.class = d.class
           /\ Config!IsInterface(d) /\ pending = <<>> => interface.place < interface'.place
           /\ ~Config!IsInterface(d) => interface' = interface
           /\ pending # <<>> => Config!IsInterface(d) /\ interface' = interface
    BY DEF Config!Look, Config!Enter, PipeInv, PendingOK

\* Where a search goes on after what it looked for.
LEMMA FoundKeeps ==
    ASSUME PipeInv, NEW d \in Descriptors, NEW last, Config!Look(d, last), Config!Compare(d) = "Found"
    PROVE  PipeInv'
<1>1. /\ Config!Searching /\ Config!Found(d) /\ pending' = <<>> /\ UNCHANGED <<driver, others>>
    BY DEF Config!Look
<1>2. PendingOK'
    BY <1>1 DEF PendingOK
<1>3. /\ interface'.place \in Nat /\ interface.place <= interface'.place
      /\ Config!IsInterface(d) => interface'.class = d.class
      /\ ~Config!IsInterface(d) => interface' = interface
    BY Entered
<1>4. CASE search = "interface"
  <2>1. /\ UNCHANGED <<pipes, partial>> /\ number' = interface'.place /\ own' = interface'.place
        /\ search' \in {"hid", "endpoint"}
      BY <1>1, <1>4 DEF Config!Found
  <2>2. Config!IsInterface(d) /\ d.class = driver.interface
      BY <1>4 DEF Config!Compare, Config!OfClass
  <2>3. Config!Bound = {} /\ Config!Bound' = {} /\ ~partial
      BY <1>4, <2>1 DEF PipeInv, StageOK, Config!Bound
  <2>4. InterfaceOK'
      BY <1>1, <1>3, <2>1, <2>2, <2>3 DEF InterfaceOK
  <2>5. StageOK'
      BY <1>1, <2>1, <2>3, <2>4 DEF StageOK, DataIn
  <2> QED
      BY <1>1, <1>2, <1>3, <2>1, <2>3, <2>5 DEF PipeInv
<1>5. CASE search = "hid"
  <2>1. UNCHANGED <<pipes, number, own, partial>> /\ search' = "endpoint"
      BY <1>1, <1>5 DEF Config!Found
  <2>2. d.type = "hid" /\ interface' = interface
      BY <1>3, <1>5 DEF Config!Compare, Config!NextHID, Config!IsInterface
  <2>3. Config!Bound = {} /\ Config!Bound' = {}
      BY <1>5, <2>1 DEF PipeInv, StageOK, Config!Bound
  <2>4. InterfaceOK'
      BY <1>1, <1>5, <2>1, <2>2 DEF InterfaceOK, PipeInv, StageOK
  <2>5. StageOK'
      BY <1>1, <2>1, <2>3, <2>4 DEF StageOK, DataIn
  <2> QED
      BY <1>1, <1>2, <1>3, <2>1, <2>2, <2>3, <2>5 DEF PipeInv
<1>6. CASE search \in {"data", "again"}
  <2>1. /\ UNCHANGED <<pipes, number, partial>> /\ search' = "required"
        /\ own' = IF search = "again" THEN interface'.place ELSE own
      BY <1>1, <1>6 DEF Config!Found
  <2>2. /\ Config!IsInterface(d)
        /\ search = "data" => d.class = driver.data
        /\ search = "again" => d.class = driver.interface
      BY <1>6 DEF Config!Compare, Config!OfClass
  <2>3. Config!Bound' = Config!Bound
      BY <2>1 DEF Config!Bound
  <2>4. BytesRem
      BY DEF Config!Look
  <2>5. InterfaceOK'
      BY <1>1, <1>3, <1>6, <2>1, <2>2, <2>4 DEF InterfaceOK, PipeInv, StageOK
  <2>6. ~partial' => DataIn(interface.place)'
      BY <1>6, <2>1, <2>3 DEF PipeInv, StageOK, DataIn
  <2>7. StageOK'
      BY <1>1, <2>1, <2>5, <2>6 DEF StageOK
  <2>8. \A p \in Config!Bound' : BindingOK(p)'
    <3>1. CASE search = "again"
        BY <2>3, <3>1 DEF PipeInv, StageOK
    <3>2. CASE search = "data"
        BY <1>1, <2>1, <2>3, <3>2 DEF PipeInv, BindingOK
    <3> QED
        BY <1>6, <3>1, <3>2
  <2>9. own' \in Nat /\ own' <= interface'.place
      BY <1>3, <2>1 DEF PipeInv
  <2> QED
      BY <1>1, <1>2, <1>3, <2>1, <2>7, <2>8, <2>9 DEF PipeInv
<1>7. CASE search \in {"endpoint", "required"}
  <2>1. Config!Bind(d) /\ UNCHANGED <<number, own, partial>>
      BY <1>1, <1>7 DEF Config!Found
  <2>2. d.type = "endpoint" /\ Config!Wanted(d) /\ interface' = interface
      BY <1>3, <1>7 DEF Config!Compare, Config!NextEndpoint, Config!Wanted, Config!IsInterface
  <2>3. InterfaceOK /\ InterfaceOK'
      BY <1>1, <1>7, <2>1, <2>2 DEF InterfaceOK, PipeInv, StageOK
  <2>4. d.direction \in {"IN", "OUT"} /\ driver.enough \subseteq driver.wanted
      BY <2>2, DriversAssumption DEF PipeInv
  <2>5. Config!PipeFor(d) \in Config!Pipes
      BY <2>4 DEF Config!PipeFor, Config!Pipes
  <2>6. PICK b : /\ b.bound /\ b.address = d.address /\ b.direction = d.direction
                 /\ b.transfer = d.transfer /\ b.interface = interface
                 /\ pipes' = IF Config!Passed(d) THEN pipes
                             ELSE [pipes EXCEPT ![Config!PipeFor(d)] = b]
    <3>1. PICK b : b = [bound |-> TRUE, address |-> d.address, direction |-> d.direction,
                        transfer |-> d.transfer, interface |-> interface', beyond |-> ~BytesRem']
        OBVIOUS
    <3>2. pipes' = IF Config!Passed(d) THEN pipes ELSE [pipes EXCEPT ![Config!PipeFor(d)] = b]
        BY <2>1, <3>1 DEF Config!Bind
    <3>3. /\ b.bound /\ b.address = d.address /\ b.direction = d.direction
          /\ b.transfer = d.transfer /\ b.interface = interface
        BY <2>2, <3>1
    <3> QED
        BY <3>2, <3>3
  <2>7. /\ search' \in {"active", "endpoint"}
        /\ search' = "active" => \A p \in driver.wanted : pipes'[p].bound
      BY <2>1, <2>6 DEF Config!Bind
  <2>8. pipes' = [p \in Config!Pipes |-> pipes'[p]]
      BY <2>5, <2>6 DEF PipeInv
  <2>9. ASSUME NEW p \in Config!Bound' PROVE BindingOK(p)'
    <3>1. CASE pipes'[p] = pipes[p]
      <4>1. p \in Config!Bound
          BY <2>9, <3>1 DEF Config!Bound
      <4> QED
          BY <1>1, <2>1, <3>1, <4>1 DEF PipeInv, BindingOK
    <3>2. CASE pipes'[p] # pipes[p]
      <4>1. p = Config!PipeFor(d) /\ pipes'[p] = b
          BY <2>5, <2>6, <2>9, <3>2 DEF PipeInv, Config!Bound
      <4>2. p \in {"IN", "OUT"} => d.direction = p
          BY <2>4, <4>1 DEF Config!PipeFor
      <4>3. driver.checked => [address |-> d.address, direction |-> d.direction] \notin others
          BY <2>2 DEF Config!Wanted, Config!IsEndpointBound
      <4> QED
          BY <1>1, <2>1, <2>2, <2>3, <2>6, <4>1, <4>2, <4>3
          DEF BindingOK, InterfaceOK, Config!Wanted
    <3> QED
        BY <3>1, <3>2
  <2>10. search' = "active" => driver.enough \subseteq Config!Bound'
      BY <2>4, <2>7, DriversAssumption DEF PipeInv, Config!Bound
  <2>a. ~partial' => DataIn(interface.place)'
    <3> SUFFICES ASSUME ~partial, NEW p \in Config!Bound' \cap {"IN", "OUT"}
                 PROVE  pipes'[p].interface.place = interface.place
        BY <2>1, <2>2 DEF DataIn
    <3>1. CASE pipes'[p] = pipes[p]
        BY <1>7, <3>1 DEF PipeInv, StageOK, DataIn, Config!Bound
    <3>2. CASE pipes'[p] # pipes[p]
        BY <2>5, <2>6, <3>2 DEF PipeInv, Config!Bound
    <3> QED
        BY <3>1, <3>2
  <2>11. StageOK'
      BY <1>1, <2>3, <2>7, <2>10, <2>a DEF StageOK
  <2> QED
      BY <1>1, <1>2, <2>1, <2>2, <2>8, <2>9, <2>11 DEF PipeInv
<1> QED
    BY <1>1, <1>4, <1>5, <1>6, <1>7 DEF Config!Searching

\* Where a search goes on that found nothing: it has gone back, or nothing remains.
LEMMA NotFoundKeeps ==
    ASSUME PipeInv, Config!Searching, Config!NotFound, UNCHANGED <<driver, others>>,
           PendingOK', interface'.place \in Nat, interface.place <= interface'.place,
           BytesRem' => \/ interface.place < interface'.place
                        \/ search \in {"data", "again"} /\ interface' = interface
    PROVE  PipeInv'
<1>1. CASE /\ search' \in {"NoInterfaceFound", "NoHIDDescriptorFound", "EndpointsNotFound", "data"}
           /\ UNCHANGED <<pipes, number, own>> /\ (partial => partial') /\ partial' \in BOOLEAN
           /\ search' = "data" => /\ search = "endpoint" /\ driver.data # "none"
                                 /\ partial' = (partial \/ Config!Bound \cap {"IN", "OUT"} # {})
  <2>1. Config!Bound' = Config!Bound
      BY <1>1 DEF Config!Bound
  <2>2. search' = "data" /\ BytesRem' => interface'.place > own
      BY <1>1 DEF PipeInv
  <2>3. StageOK'
      BY <1>1, <2>1, <2>2 DEF StageOK
  <2> QED
      BY <1>1, <2>1, <2>3 DEF PipeInv, BindingOK
<1>2. CASE /\ search = "endpoint" /\ driver.data = "none" /\ search' = "active"
           /\ driver.enough \subseteq Config!Bound /\ UNCHANGED <<pipes, number, own, partial>>
  <2>1. Config!Bound' = Config!Bound
      BY <1>2 DEF Config!Bound
  <2>2. ~partial => \E place : DataIn(place)'
    <3>1. ~partial => DataIn(interface.place)
        BY <1>2 DEF PipeInv, StageOK
    <3>2. \A place : DataIn(place) => DataIn(place)'
        BY <1>2, <2>1 DEF DataIn
    <3> QED
        BY <3>1, <3>2
  <2>3. StageOK'
      BY <1>2, <2>1, <2>2 DEF StageOK, DataIn
  <2> QED
      BY <1>2, <2>1, <2>3 DEF PipeInv, BindingOK
<1>3. CASE /\ search = "endpoint" /\ driver.data # "none" /\ search' = "again"
           /\ pipes' = Config!Disabled /\ UNCHANGED <<number, own, partial>>
  <2>1. Config!Bound' = {}
      BY <1>3 DEF Config!Bound, Config!Disabled, Config!Nothing
  <2>2. BytesRem' => interface'.place > own
      BY <1>3 DEF PipeInv
  <2>3. StageOK'
      BY <1>3, <2>1, <2>2 DEF StageOK
  <2>4. pipes' = [p \in Config!Pipes |-> pipes'[p]]
      BY <1>3 DEF Config!Disabled
  <2> QED
      BY <1>3, <2>1, <2>3, <2>4 DEF PipeInv
<1>4. CASE search = "endpoint" /\ driver.data # "none" /\ "NOTIFICATION" \in Config!Bound
  <2>1. search' = "data" /\ partial' = (partial \/ Config!Bound \cap {"IN", "OUT"} # {}) /\ UNCHANGED <<pipes, number, own>>
      BY <1>4 DEF Config!NotFound
  <2>2. (partial => partial') /\ partial' \in BOOLEAN
      BY <2>1, Zenon
  <2> QED
      BY <1>1, <1>4, <2>1, <2>2
<1>5. CASE search = "endpoint" /\ driver.data # "none" /\ "NOTIFICATION" \notin Config!Bound
    BY <1>3, <1>5 DEF Config!NotFound
<1>6. CASE search = "endpoint" /\ driver.data = "none"
  <2>1. partial \in BOOLEAN
      BY DEF PipeInv
  <2> QED
      BY <1>1, <1>2, <1>6, <2>1 DEF Config!NotFound
<1>7. CASE search # "endpoint"
  <2>1. partial \in BOOLEAN
      BY DEF PipeInv
  <2> QED
      BY <1>1, <1>7, <2>1 DEF Config!NotFound, Config!Searching
<1> QED
    BY <1>4, <1>5, <1>6, <1>7

\* A turn of a search.
LEMMA LookKeeps ==
    ASSUME PipeInv, NEW d \in Descriptors, NEW last, Config!Look(d, last)
    PROVE  PipeInv'
<1>1. Config!Searching /\ BytesRem /\ UNCHANGED <<driver, others>>
    BY DEF Config!Look
<1>2. CASE Config!Compare(d) = "Found"
    BY <1>2, FoundKeeps
<1>3. CASE Config!Compare(d) = "Fail"
  <2>1. Config!NotFound /\ pending' = <<[descriptor |-> d, last |-> last]>>
      BY <1>3 DEF Config!Look
  <2>2. Config!IsInterface(d) /\ search \in {"hid", "endpoint", "required"}
      BY <1>1, <1>3
      DEF Config!Compare, Config!OfClass, Config!NextHID, Config!NextEndpoint, Config!Searching
  <2>3. pending = <<>>
      BY <2>2 DEF PipeInv, StageOK
  <2>4. /\ interface'.class = d.class /\ interface.place < interface'.place
        /\ interface'.place \in Nat
      BY <2>2, <2>3, Entered
  <2>5. PendingOK'
      BY <2>1, <2>2, <2>4 DEF PendingOK
  <2> QED
      BY <1>1, <2>1, <2>4, <2>5, NotFoundKeeps DEF PipeInv
<1>4. CASE Config!Compare(d) \notin {"Found", "Fail"}
  <2>1. pending' = <<>> /\ UNCHANGED <<search, pipes, number, own, partial>> /\ (BytesRem' => BytesRem)
      BY <1>1, <1>4 DEF Config!Look
  <2>2. interface'.place \in Nat /\ interface.place <= interface'.place
      BY Entered
  <2>3. search \in {"hid", "endpoint", "required"} => interface' = interface
    <3>1. search \in {"hid", "endpoint", "required"} => ~Config!IsInterface(d)
        BY <1>4 DEF Config!Compare, Config!NextHID, Config!NextEndpoint
    <3> QED
        BY <3>1, Entered
  <2>4. CASE search = "interface"
    <3>1. Config!Bound = {} /\ Config!Bound' = {} /\ ~partial
        BY <2>1, <2>4 DEF PipeInv, StageOK, Config!Bound
    <3> QED
        BY <1>1, <2>1, <2>2, <2>4, <3>1 DEF PipeInv, StageOK, PendingOK
  <2>5. CASE search # "interface"
    <3>1. Config!Bound' = Config!Bound
        BY <2>1 DEF Config!Bound
    <3>2. InterfaceOK /\ search \in {"hid", "endpoint", "required"} => InterfaceOK'
        BY <1>1, <2>1, <2>3 DEF InterfaceOK
    <3>4. /\ DataIn(interface.place) /\ search \in {"hid", "endpoint", "required"} => DataIn(interface.place)'
          /\ (\E place : DataIn(place)) => \E place : DataIn(place)'
        BY <2>1, <2>3, <3>1 DEF DataIn
    <3>3. StageOK'
        BY <1>1, <2>1, <2>2, <2>5, <3>1, <3>2, <3>4 DEF PipeInv, StageOK
    <3> QED
        BY <1>1, <2>1, <2>2, <3>1, <3>3 DEF PipeInv, PendingOK, BindingOK
  <2> QED
      BY <2>4, <2>5
<1> QED
    BY <1>2, <1>3, <1>4

\* An active class driver of one interface has its pipes in that one; one of two has them in its
\* control interface and the interfaces of data after it, IN and OUT in the same one unless it left
\* one that had only one of them: for all class drivers and configurations, whatever lies beyond
\* their last descriptor.
THEOREM PipesCorrect == HostSpec => []PipesBelongTogether
<1>1. HostInit => PipeInv
    BY PipeInit DEF HostInit
<1>2. PipeInv /\ [HostNext]_parts => PipeInv'
  <2> SUFFICES ASSUME PipeInv, [HostNext]_parts PROVE PipeInv'
      OBVIOUS
  <2>1. CASE UNCHANGED config
      BY <2>1 DEF config, PipeInv, PendingOK, StageOK, InterfaceOK, BindingOK, DataIn, Config!Bound
  <2>2. CASE Config!Next
    <3>1. ASSUME NEW d \in Descriptors, NEW last, Config!Look(d, last) PROVE PipeInv'
        BY <3>1, LookKeeps
    <3>2. ASSUME Config!EndOfDescriptor PROVE PipeInv'
      <4>1. /\ Config!Searching /\ ~BytesRem /\ Config!NotFound
            /\ UNCHANGED <<driver, interface, pending, BytesRem, others>>
          BY <3>2 DEF Config!EndOfDescriptor
      <4>2. PendingOK'
          BY <4>1 DEF PipeInv, PendingOK
      <4> QED
          BY <4>1, <4>2, NotFoundKeeps DEF PipeInv
    <3> QED
        BY <2>2, <3>1, <3>2 DEF Config!Next
  <2> QED
      BY <2>1, <2>2 DEF HostNext, InStack, InConfig, InParser, parts
<1>3. PipeInv => PipesBelongTogether
  <2> SUFFICES ASSUME PipeInv, search = "active" PROVE Config!PipesBelongTogether
      BY DEF PipesBelongTogether, Config!PipesBelongTogether
  <2>1. driver.enough \subseteq Config!Bound /\ driver.enough # {}
      BY DriversAssumption DEF PipeInv, StageOK
  <2>2. \A b \in Config!Bindings : \E p \in Config!Bound : b = pipes[p] /\ BindingOK(p)
      BY DEF Config!Bindings, PipeInv
  <2>3. driver.data = "none" => Config!Places(Config!Pipes) = {number}
    <3>1. SUFFICES ASSUME driver.data = "none" PROVE Config!Places(Config!Pipes) = {number}
        OBVIOUS
    <3>2. \A p \in Config!Bound : p \in Config!Pipes /\ pipes[p].interface.place = number
        BY <3>1 DEF PipeInv, BindingOK, Config!Bound
    <3>3. PICK q \in Config!Bound : TRUE
        BY <2>1
    <3> QED
        BY <3>2, <3>3 DEF Config!Places
  <2>4. ~partial => \A one, other \in Config!Places({"IN", "OUT"}) : one = other
      BY DEF PipeInv, StageOK, DataIn, Config!Places
  <2>5. \A p \in Config!Bound \cap {"IN", "OUT"} : pipes[p].direction = p
      BY DEF PipeInv, BindingOK
  <2>6. \A b \in Config!Bindings :
           /\ b.transfer \in driver.transfers
           /\ driver.checked => [address |-> b.address, direction |-> b.direction] \notin others
           /\ driver.data # "none" =>
                \/ b.interface.place = own /\ b.interface.class = driver.interface
                \/ b.interface.place > own /\ b.interface.class = driver.data
      BY <2>2 DEF BindingOK
  <2> QED
      BY <2>1, <2>3, <2>4, <2>5, <2>6 DEF Config!PipesBelongTogether
<1> QED
    BY <1>1, <1>2, <1>3, PTL DEF HostSpec

-----------------------------------------------------------------------------
(* Where the fields of a report lie.                                       *)

Reports == [ReportID : Nat, ReportSizeBits : [Parser!Types -> Nat]]
Globals == [BitSize : Nat, ReportCount : Nat, ReportID : Nat]

\* Fields of the time before the first REPORT ID do not count once there is one.
Counts(field) == UsingReportIDs => field.of # 0

\* A field lies within what its report has come to.
FitsIn(entries, field) ==
    \E e \in DOMAIN entries :
       /\ entries[e].ReportID = field.of
       /\ field.BitOffset + field.BitSize <= entries[e].ReportSizeBits[field.ItemType]

\* A field lies behind another of its report, if that came before it.
Behind(field, other) ==
    field.of = other.of /\ field.ItemType = other.ItemType =>
       field.BitOffset + field.BitSize <= other.BitOffset

IsField(field) ==
    field.BitOffset \in Nat /\ field.BitSize \in Nat /\ field.ItemType \in Parser!Types

ReportsOK ==
    /\ ReportIDSizes \in Seq(Reports) /\ info \in DOMAIN ReportIDSizes
    /\ ~UsingReportIDs => Len(ReportIDSizes) = 1 /\ ReportIDSizes[1].ReportID = 0
    /\ \A e, f \in DOMAIN ReportIDSizes : ReportIDSizes[e].ReportID = ReportIDSizes[f].ReportID => e = f

FieldsOK ==
    /\ ReportItems = [k \in 1..Len(ReportItems) |-> ReportItems[k]] /\ Len(ReportItems) \in Nat
    /\ \A k \in 1..Len(ReportItems) :
          /\ IsField(ReportItems[k])
          /\ ~UsingReportIDs => ReportItems[k].of = 0
          /\ Counts(ReportItems[k]) => FitsIn(ReportIDSizes, ReportItems[k])
    /\ \A k, m \in 1..Len(ReportItems) :
          k < m /\ Counts(ReportItems[k]) /\ Counts(ReportItems[m]) => Behind(ReportItems[k], ReportItems[m])

ParserInv ==
    StateTable \in Seq(Globals) /\ StateTable # <<>> /\ UsingReportIDs \in BOOLEAN /\ ReportsOK /\ FieldsOK

\* What fits in a uint8_t or a uint16_t is kept as it is, and what is kept is a number.
LEMMA Widths ==
    ASSUME NEW n \in Nat
    PROVE  /\ Parser!Byte(n) \in Nat /\ Parser!Word(n) \in Nat
           /\ Parser!Word(n) = n <=> n < 65536
    BY DEF Parser!Byte, Parser!Word

\* Multiples are in the order of their factors.
LEMMA Multiples ==
    ASSUME NEW b \in Nat, NEW n \in Nat, NEW m \in Nat, n <= m
    PROVE  n * b \in Nat /\ m * b \in Nat /\ n * b <= m * b
<1>1. (m - n) * b \in Nat
    OBVIOUS
<1>2. m * b = n * b + (m - n) * b
    OBVIOUS
<1> QED
    BY <1>1, <1>2

\* A descriptor begins with one report, of ID 0, and without fields.
LEMMA ParserBegin == Parser!Begin => ParserInv
<1> SUFFICES ASSUME Parser!Begin PROVE ParserInv
    OBVIOUS
<1>1. Parser!NoBits \in [Parser!Types -> Nat]
    BY DEF Parser!NoBits
<1>2. ReportIDSizes = <<[ReportID |-> 0, ReportSizeBits |-> Parser!NoBits]>> /\ info = 1 /\ ~UsingReportIDs
    BY DEF Parser!Begin
<1>3. ReportsOK
    BY <1>1, <1>2 DEF ReportsOK, Reports
<1>4. FieldsOK
    BY DEF Parser!Begin, FieldsOK
<1>5. StateTable = <<[BitSize |-> 0, ReportCount |-> 0, ReportID |-> 0]>>
    BY DEF Parser!Begin
<1>6. [BitSize |-> 0, ReportCount |-> 0, ReportID |-> 0] \in Globals
    BY DEF Globals
<1>7. StateTable \in Seq(Globals) /\ StateTable # <<>>
    BY <1>5, <1>6
<1>8. UsingReportIDs \in BOOLEAN
    BY DEF Parser!Begin
<1> QED
    BY <1>3, <1>4, <1>7, <1>8 DEF ParserInv

\* The state on the top of the stack.
LEMMA StateIs ==
    ASSUME ParserInv
    PROVE  /\ Len(StateTable) \in Nat \ {0} /\ Parser!Depth \in 1..Len(StateTable)
           /\ Parser!State \in Globals
    BY DEF ParserInv, Parser!Depth, Parser!State

\* An item that lays out no fields and names no report.
LEMMA ReportsKept ==
    ASSUME ParserInv, UNCHANGED <<ReportIDSizes, info, UsingReportIDs, ReportItems>>,
           StateTable' \in Seq(Globals), StateTable' # <<>>
    PROVE  ParserInv'
    BY DEF ParserInv, ReportsOK, FieldsOK, Counts, FitsIn, Behind, IsField

\* Two sequences, one after the other.
LEMMA Joined ==
    ASSUME NEW p, NEW q, NEW n \in Nat, NEW m \in Nat,
           p = [k \in 1..n |-> p[k]], q = [k \in 1..m |-> q[k]]
    PROVE  /\ Len(p \o q) = n + m
           /\ p \o q = [k \in 1..n + m |-> IF k <= n THEN p[k] ELSE q[k - n]]
<1> DEFINE S == {p[k] : k \in 1..n} \cup {q[k] : k \in 1..m}
<1>1. p \in [1..n -> S] /\ q \in [1..m -> S]
    OBVIOUS
<1>2. p \in Seq(S) /\ Len(p) = n
    BY <1>1
<1>3. q \in Seq(S) /\ Len(q) = m
    BY <1>1
<1> HIDE DEF S
<1>4. p \o q \in Seq(S) /\ Len(p \o q) = n + m
    BY <1>2, <1>3
<1>5. \A k \in 1..n + m : (p \o q)[k] = IF k <= n THEN p[k] ELSE q[k - n]
    BY <1>2, <1>3
<1> QED
    BY <1>4, <1>5

\* The report that fields are laid out in.
LEMMA ReportIs ==
    ASSUME ParserInv
    PROVE  /\ ReportIDSizes \in Seq(Reports) /\ info \in 1..Len(ReportIDSizes)
           /\ \A e \in 1..Len(ReportIDSizes) :
                 /\ ReportIDSizes[e] \in Reports /\ ReportIDSizes[e].ReportID \in Nat
                 /\ \A t \in Parser!Types : ReportIDSizes[e].ReportSizeBits[t] \in Nat
<1>1. ReportIDSizes \in Seq(Reports) /\ info \in DOMAIN ReportIDSizes
    BY DEF ParserInv, ReportsOK
<1>2. DOMAIN ReportIDSizes = 1..Len(ReportIDSizes)
    BY <1>1
<1>3. \A e \in 1..Len(ReportIDSizes) : ReportIDSizes[e] \in Reports
    BY <1>1
<1>4. \A r \in Reports : r.ReportID \in Nat /\ r.ReportSizeBits \in [Parser!Types -> Nat]
    BY DEF Reports
<1> QED
    BY <1>1, <1>2, <1>3, <1>4

\* The fields of one item lie behind what the report has come to, in order and within what it comes to.
LEMMA FieldsAre ==
    ASSUME ParserInv, NEW type \in Parser!Types, NEW k \in 1..Parser!State.ReportCount,
           Parser!Word(Parser!Grown(type)) = Parser!Grown(type)
    PROVE  LET field == Parser!Fields(type)[k]
               base == ReportIDSizes[info].ReportSizeBits[type]
           IN  /\ IsField(field) /\ field.ItemType = type /\ field.of = ReportIDSizes[info].ReportID
               /\ base <= field.BitOffset
               /\ field.BitOffset + field.BitSize <= base + Parser!State.ReportCount * Parser!State.BitSize
               /\ \A m \in 1..Parser!State.ReportCount : k < m => Behind(field, Parser!Fields(type)[m])
<1> DEFINE n == Parser!State.ReportCount
           b == Parser!State.BitSize
           base == ReportIDSizes[info].ReportSizeBits[type]
           F(i) == Parser!Fields(type)[i]
<1>1. n \in Nat /\ b \in Nat /\ base \in Nat
    BY StateIs, ReportIs DEF Globals
<1>2. \A i \in 1..n : /\ F(i).ItemType = type /\ F(i).of = ReportIDSizes[info].ReportID
                      /\ F(i).BitSize = b /\ F(i).BitOffset = Parser!Word(base + (i - 1) * b)
    BY DEF Parser!Fields
<1>a. Parser!Grown(type) = base + n * b
    BY DEF Parser!Grown
<1> HIDE DEF n, b, base, F
<1>3. \A i \in 1..n : (i - 1) * b \in Nat /\ i * b \in Nat /\ (i - 1) * b + b = i * b /\ i * b <= n * b
  <2> SUFFICES ASSUME NEW i \in 1..n
               PROVE (i - 1) * b \in Nat /\ i * b \in Nat /\ (i - 1) * b + b = i * b /\ i * b <= n * b
      OBVIOUS
  <2>1. i \in Nat /\ i - 1 \in Nat /\ i <= n
      BY <1>1
  <2>2. (i - 1) * b \in Nat /\ i * b \in Nat /\ i * b <= n * b
      BY <1>1, <2>1, Multiples
  <2>3. (i - 1) * b + b = i * b
      BY <1>1, <2>1
  <2> QED
      BY <2>2, <2>3
<1>b. \A i \in 1..n : F(i).BitOffset = base + (i - 1) * b
  <2> SUFFICES ASSUME NEW i \in 1..n PROVE F(i).BitOffset = base + (i - 1) * b
      OBVIOUS
  <2>1. n * b \in Nat
      BY <1>1, Multiples
  <2>2. base + n * b < 65536
      BY <1>1, <1>a, <2>1, Widths
  <2>3. base + (i - 1) * b \in Nat /\ base + (i - 1) * b < 65536
      BY <1>1, <1>3, <2>1, <2>2
  <2> QED
      BY <1>2, <2>3, Widths
<1>4. \A i \in 1..n : F(i).BitOffset \in Nat /\ F(i).BitSize \in Nat /\ F(i).ItemType \in Parser!Types
    BY <1>1, <1>2, <1>3, <1>b
<1>5. \A i \in 1..n : base <= F(i).BitOffset /\ F(i).BitOffset + F(i).BitSize = base + i * b
    BY <1>1, <1>2, <1>3, <1>b
<1>6. \A i \in 1..n : F(i).BitOffset + F(i).BitSize <= base + n * b
  <2> SUFFICES ASSUME NEW i \in 1..n PROVE F(i).BitOffset + F(i).BitSize <= base + n * b
      OBVIOUS
  <2>1. i * b \in Nat /\ i * b <= n * b /\ n * b \in Nat
      BY <1>1, <1>3, Multiples
  <2> QED
      BY <1>1, <1>5, <2>1
<1>7. \A i, m \in 1..n : i < m => F(i).BitOffset + F(i).BitSize <= F(m).BitOffset
  <2> SUFFICES ASSUME NEW i \in 1..n, NEW m \in 1..n, i < m
               PROVE F(i).BitOffset + F(i).BitSize <= F(m).BitOffset
      OBVIOUS
  <2>1. i \in Nat /\ m - 1 \in Nat /\ i <= m - 1
      BY <1>1
  <2>2. i * b <= (m - 1) * b /\ i * b \in Nat /\ (m - 1) * b \in Nat
      BY <1>1, <2>1, Multiples
  <2>3. F(i).BitOffset + F(i).BitSize = base + i * b /\ F(m).BitOffset = base + (m - 1) * b
      BY <1>5, <1>b
  <2> QED
      BY <1>1, <2>2, <2>3
<1>8. \A m \in 1..n : k < m => Behind(F(k), F(m))
    BY <1>7 DEF Behind, n
<1>9. IsField(F(k))
    BY <1>4 DEF IsField, n
<1> QED
    BY <1>2, <1>5, <1>6, <1>8, <1>9 DEF n, b, base, F

\* Items that lay out no fields and name no report.
LEMMA OtherItems ==
    ASSUME ParserInv,
           \/ Parser!Push \/ Parser!Pop \/ Parser!SizeOrCount \/ Parser!Usage
           \/ Parser!Collection \/ Parser!EndCollection \/ Parser!EndOfReport
    PROVE  ParserInv'
<1>1. UNCHANGED <<ReportIDSizes, info, UsingReportIDs, ReportItems>>
    BY DEF Parser!Push, Parser!Pop, Parser!SizeOrCount, Parser!Usage, Parser!Collection,
           Parser!EndCollection, Parser!EndOfReport, Parser!Return
<1>2. StateTable \in Seq(Globals) /\ StateTable # <<>>
    BY DEF ParserInv
<1>3. CASE UNCHANGED StateTable
    BY <1>1, <1>2, <1>3, ReportsKept
<1>4. CASE StateTable' = Append(StateTable, Parser!State)
  <2>1. StateTable' \in Seq(Globals) /\ StateTable' # <<>>
      BY <1>2, <1>4, StateIs
  <2> QED
      BY <1>1, <2>1, ReportsKept
<1>5. CASE Parser!Depth > 1 /\ StateTable' = SubSeq(StateTable, 1, Parser!Depth - 1)
  <2>1. StateTable' \in Seq(Globals) /\ Len(StateTable') = Parser!Depth - 1
      BY <1>2, <1>5, StateIs DEF Parser!Depth
  <2>2. StateTable' # <<>>
      BY <2>1, <1>5, StateIs
  <2> QED
      BY <1>1, <2>1, <2>2, ReportsKept
<1>6. CASE \E n \in Nat : \/ StateTable' = [StateTable EXCEPT ![Parser!Depth].BitSize = n]
                          \/ StateTable' = [StateTable EXCEPT ![Parser!Depth].ReportCount = n]
  <2>1. PICK n \in Nat : \/ StateTable' = [StateTable EXCEPT ![Parser!Depth].BitSize = n]
                         \/ StateTable' = [StateTable EXCEPT ![Parser!Depth].ReportCount = n]
      BY <1>6
  <2>2. PICK g \in Globals : StateTable' = [StateTable EXCEPT ![Parser!Depth] = g]
    <3>1. /\ [Parser!State EXCEPT !.BitSize = n] \in Globals
          /\ [Parser!State EXCEPT !.ReportCount = n] \in Globals
        BY StateIs DEF Globals
    <3> QED
        BY <2>1, <3>1 DEF Parser!State
  <2>3. StateTable' \in Seq(Globals) /\ StateTable' # <<>>
      BY <1>2, <2>2, StateIs
  <2> QED
      BY <1>1, <2>3, ReportsKept
<1>7. \A n \in BitSizes \cup ReportCounts : Parser!Byte(n) \in Nat
    BY ReportAssumption, Widths
<1> QED
    BY <1>3, <1>4, <1>5, <1>6, <1>7
       DEF Parser!Push, Parser!Pop, Parser!SizeOrCount, Parser!Usage, Parser!Collection,
           Parser!EndCollection, Parser!EndOfReport, Parser!Return

\* The fields do not change: they stay in their reports, as these only come to more.
LEMMA FieldsKept ==
    ASSUME FieldsOK, UNCHANGED ReportItems, UsingReportIDs \in BOOLEAN, UsingReportIDs',
           \/ ~UsingReportIDs
           \/ \A e \in DOMAIN ReportIDSizes : e \in DOMAIN ReportIDSizes' /\ ReportIDSizes'[e] = ReportIDSizes[e]
    PROVE  FieldsOK'
<1>1. CASE ~UsingReportIDs
    BY <1>1 DEF FieldsOK, Counts, IsField
<1>2. CASE UsingReportIDs
    BY <1>2 DEF FieldsOK, Counts, IsField, FitsIn, Behind
<1> QED
    BY <1>1, <1>2

\* A report is named.
LEMMA ReportNamed ==
    ASSUME ParserInv, NEW id \in Nat, Parser!ReportID(id)
    PROVE  ParserInv'
<1>1. CASE Parser!Return("InsufficientReportIDItems")
  <2>1. UNCHANGED <<StateTable, ReportIDSizes, info, UsingReportIDs, ReportItems>>
      BY <1>1 DEF Parser!Return
  <2>2. StateTable' \in Seq(Globals) /\ StateTable' # <<>>
      BY <2>1 DEF ParserInv
  <2> QED
      BY <2>1, <2>2, ReportsKept
<1>2. CASE ~Parser!Return("InsufficientReportIDItems")
  <2>1. id \in Nat
      OBVIOUS
  <2>2. /\ StateTable' = [StateTable EXCEPT ![Parser!Depth].ReportID = id]
        /\ UsingReportIDs' /\ UsingReportIDs' \in BOOLEAN /\ UNCHANGED ReportItems
      BY <1>2 DEF Parser!ReportID
  <2>3. StateTable' \in Seq(Globals) /\ StateTable' # <<>>
    <3>1. [Parser!State EXCEPT !.ReportID = id] \in Globals
        BY <2>1, StateIs DEF Globals
    <3>2. StateTable' = [StateTable EXCEPT ![Parser!Depth] = [Parser!State EXCEPT !.ReportID = id]]
        BY <2>2 DEF Parser!State
    <3> QED
        BY <3>1, <3>2, StateIs DEF ParserInv
  <2>4. FieldsOK /\ ReportsOK /\ UsingReportIDs \in BOOLEAN
      BY DEF ParserInv
  <2>5. CASE ~UsingReportIDs
    <3>1. Len(ReportIDSizes) = 1 /\ info = 1
        BY <2>4, <2>5, ReportIs DEF ReportsOK
    <3>2. ReportIDSizes' = [ReportIDSizes EXCEPT ![info].ReportID = id] /\ info' = info
        BY <1>2, <2>5 DEF Parser!ReportID
    <3>3. [ReportIDSizes[1] EXCEPT !.ReportID = id] \in Reports
        BY <2>1, <3>1, ReportIs DEF Reports
    <3>4. [ReportIDSizes[1] EXCEPT !.ReportID = id].ReportID = id
        BY <3>1, ReportIs DEF Reports
    <3>5. /\ ReportIDSizes' \in Seq(Reports) /\ DOMAIN ReportIDSizes' = {1}
          /\ ReportIDSizes'[1].ReportID = id
        BY <3>1, <3>2, <3>3, <3>4, ReportIs
    <3>6. ReportsOK'
        BY <2>1, <2>2, <3>1, <3>2, <3>5 DEF ReportsOK
    <3> QED
        BY <2>2, <2>3, <2>4, <2>5, <3>6, FieldsKept DEF ParserInv
  <2>6. CASE UsingReportIDs /\ Parser!Known(id) # {}
    <3>1. info' \in DOMAIN ReportIDSizes /\ UNCHANGED ReportIDSizes
        BY <1>2, <2>6 DEF Parser!ReportID, Parser!Known
    <3>2. ReportsOK'
        BY <2>2, <2>4, <2>6, <3>1 DEF ReportsOK
    <3> QED
        BY <2>2, <2>3, <2>4, <2>6, <3>1, <3>2, FieldsKept DEF ParserInv
  <2>7. CASE UsingReportIDs /\ Parser!Known(id) = {}
    <3> DEFINE new == [ReportID |-> id, ReportSizeBits |-> Parser!NoBits]
    <3>1. ReportIDSizes' = Append(ReportIDSizes, new) /\ info' = Len(ReportIDSizes) + 1
        BY <1>2, <2>7 DEF Parser!ReportID
    <3>2. new \in Reports /\ new.ReportID = id
        BY <2>1 DEF Reports, Parser!NoBits
    <3> HIDE DEF new
    <3>3. /\ ReportIDSizes' \in Seq(Reports) /\ Len(ReportIDSizes') = Len(ReportIDSizes) + 1
          /\ \A e \in 1..Len(ReportIDSizes) : ReportIDSizes'[e] = ReportIDSizes[e]
          /\ ReportIDSizes'[Len(ReportIDSizes) + 1] = new
        BY <3>1, <3>2, ReportIs
    <3>4. DOMAIN ReportIDSizes' = DOMAIN ReportIDSizes \cup {Len(ReportIDSizes) + 1}
        BY <3>3, ReportIs
    <3>5. \A e \in DOMAIN ReportIDSizes : ReportIDSizes[e].ReportID # id
        BY <2>7 DEF Parser!Known
    <3>6. \A e \in DOMAIN ReportIDSizes : ReportIDSizes'[e] = ReportIDSizes[e]
        BY <3>3, ReportIs
    <3>7. ReportsOK'
      <4>1. \A e, f \in DOMAIN ReportIDSizes' :
               ReportIDSizes'[e].ReportID = ReportIDSizes'[f].ReportID => e = f
          BY <2>4, <3>2, <3>3, <3>4, <3>5, <3>6 DEF ReportsOK
      <4>2. info' \in DOMAIN ReportIDSizes'
          BY <3>1, <3>4
      <4> QED
          BY <2>2, <3>3, <4>1, <4>2 DEF ReportsOK
    <3>8. FieldsOK'
        BY <2>2, <2>4, <3>4, <3>6, FieldsKept
    <3> QED
        BY <2>2, <2>3, <3>7, <3>8 DEF ParserInv
  <2> QED
      BY <2>4, <2>5, <2>6, <2>7
<1> QED
    BY <1>1, <1>2

\* Fields are laid out, or only their place is taken.
LEMMA FieldsLaidOut ==
    ASSUME ParserInv, NEW type \in Parser!Types, NEW wanted \in BOOLEAN,
           Parser!InputOrOutput(type, wanted), ~Parser!Return("InsufficientReportItems"), ~wrapped'
    PROVE  ParserInv'
<1> DEFINE more == Parser!State.ReportCount * Parser!State.BitSize
           base == ReportIDSizes[info].ReportSizeBits[type]
           n == Parser!State.ReportCount
           F == Parser!Fields(type)
           old == Len(ReportItems)
<1>a. Parser!Word(Parser!Grown(type)) = Parser!Grown(type)
    BY DEF Parser!InputOrOutput
<1>1. /\ ReportIDSizes' = [ReportIDSizes EXCEPT ![info].ReportSizeBits[type] = base + more]
      /\ ReportItems' = (IF wanted THEN ReportItems \o F ELSE ReportItems)
      /\ UNCHANGED <<StateTable, info, UsingReportIDs>>
  <2>1. ReportIDSizes' = [ReportIDSizes EXCEPT ![info].ReportSizeBits[type] = Parser!Word(Parser!Grown(type))]
      BY DEF Parser!InputOrOutput
  <2> QED
      BY <1>a, <2>1 DEF Parser!InputOrOutput, Parser!Grown
<1>2. n \in Nat /\ more \in Nat /\ base \in Nat
  <2>1. n \in Nat /\ Parser!State.BitSize \in Nat
      BY StateIs DEF Globals
  <2>2. more \in Nat
      BY <2>1, Multiples
  <2> QED
      BY <2>1, <2>2, ReportIs
<1>3. FieldsOK /\ ReportsOK /\ UsingReportIDs \in BOOLEAN
    BY DEF ParserInv
<1>4. F = [k \in 1..n |-> F[k]]
    BY DEF Parser!Fields
<1>5. \A k \in 1..n :
         /\ IsField(F[k]) /\ F[k].ItemType = type /\ F[k].of = ReportIDSizes[info].ReportID
         /\ base <= F[k].BitOffset
         /\ F[k].BitOffset + F[k].BitSize <= base + more
         /\ \A m \in 1..n : k < m => Behind(F[k], F[m])
    BY <1>a, FieldsAre DEF Parser!Grown
<1> HIDE DEF more, base, n, F
<1> DEFINE larger == [ReportIDSizes[info] EXCEPT !.ReportSizeBits[type] = base + more]
<1>6. /\ larger \in Reports /\ larger.ReportID = ReportIDSizes[info].ReportID
      /\ larger.ReportSizeBits[type] = base + more
      /\ \A t \in Parser!Types \ {type} : larger.ReportSizeBits[t] = ReportIDSizes[info].ReportSizeBits[t]
  <2>1. /\ ReportIDSizes[info] = [ReportID |-> ReportIDSizes[info].ReportID,
                                 ReportSizeBits |-> ReportIDSizes[info].ReportSizeBits]
        /\ ReportIDSizes[info].ReportID \in Nat
        /\ ReportIDSizes[info].ReportSizeBits \in [Parser!Types -> Nat]
      BY ReportIs DEF Reports
  <2>2. PICK bitsOf : bitsOf = ReportIDSizes[info].ReportSizeBits
      OBVIOUS
  <2>3. larger = [ReportID |-> ReportIDSizes[info].ReportID,
                  ReportSizeBits |-> [bitsOf EXCEPT ![type] = base + more]]
      BY <2>1, <2>2
  <2>4. /\ [bitsOf EXCEPT ![type] = base + more] \in [Parser!Types -> Nat]
        /\ [bitsOf EXCEPT ![type] = base + more][type] = base + more
        /\ \A t \in Parser!Types \ {type} : [bitsOf EXCEPT ![type] = base + more][t] = bitsOf[t]
      BY <1>2, <2>1, <2>2
  <2> QED
      BY <2>1, <2>2, <2>3, <2>4 DEF Reports
<1>7. ReportIDSizes' = [ReportIDSizes EXCEPT ![info] = larger]
    BY <1>1
<1> HIDE DEF larger
<1>8. /\ ReportIDSizes' \in Seq(Reports) /\ DOMAIN ReportIDSizes' = DOMAIN ReportIDSizes
      /\ Len(ReportIDSizes') = Len(ReportIDSizes)
      /\ \A e \in DOMAIN ReportIDSizes : /\ ReportIDSizes'[e].ReportID = ReportIDSizes[e].ReportID
                                         /\ e # info => ReportIDSizes'[e] = ReportIDSizes[e]
      /\ ReportIDSizes'[info] = larger
    BY <1>6, <1>7, ReportIs
<1>9. \A e \in DOMAIN ReportIDSizes, t \in Parser!Types :
         ReportIDSizes[e].ReportSizeBits[t] <= ReportIDSizes'[e].ReportSizeBits[t]
  <2> SUFFICES ASSUME NEW e \in DOMAIN ReportIDSizes, NEW t \in Parser!Types
               PROVE ReportIDSizes[e].ReportSizeBits[t] <= ReportIDSizes'[e].ReportSizeBits[t]
      OBVIOUS
  <2>1. ReportIDSizes[e].ReportSizeBits[t] \in Nat
      BY ReportIs
  <2>2. CASE e = info /\ t = type
      BY <1>2, <1>6, <1>8, <2>2 DEF base
  <2>3. CASE ~(e = info /\ t = type)
      BY <1>6, <1>8, <2>1, <2>3
  <2> QED
      BY <2>2, <2>3
<1>10. ReportsOK'
    BY <1>1, <1>3, <1>8 DEF ReportsOK
<1>11. \A field : IsField(field) /\ FitsIn(ReportIDSizes, field) => FitsIn(ReportIDSizes', field)
  <2> SUFFICES ASSUME NEW field, IsField(field), FitsIn(ReportIDSizes, field) PROVE FitsIn(ReportIDSizes', field)
      OBVIOUS
  <2>1. PICK e \in DOMAIN ReportIDSizes :
           /\ ReportIDSizes[e].ReportID = field.of
           /\ field.BitOffset + field.BitSize <= ReportIDSizes[e].ReportSizeBits[field.ItemType]
      BY DEF FitsIn
  <2>2. /\ field.BitOffset + field.BitSize \in Nat /\ ReportIDSizes[e].ReportSizeBits[field.ItemType] \in Nat
        /\ ReportIDSizes[e].ReportSizeBits[field.ItemType] <= ReportIDSizes'[e].ReportSizeBits[field.ItemType]
      BY <1>9, ReportIs DEF IsField
  <2>3. ReportIDSizes'[e].ReportSizeBits[field.ItemType] \in Nat
    <3>1. ReportIDSizes'[e] \in Reports /\ field.ItemType \in Parser!Types
        BY <1>8, <2>1 DEF IsField
    <3> QED
        BY <3>1 DEF Reports
  <2>4. field.BitOffset + field.BitSize <= ReportIDSizes'[e].ReportSizeBits[field.ItemType]
      BY <2>1, <2>2, <2>3
  <2>5. e \in DOMAIN ReportIDSizes' /\ ReportIDSizes'[e].ReportID = field.of
      BY <1>8, <2>1
  <2> QED
      BY <2>4, <2>5 DEF FitsIn
<1>12. CASE ~wanted
  <2>1. ReportItems' = ReportItems /\ UsingReportIDs' = UsingReportIDs
      BY <1>1, <1>12
  <2>2. FieldsOK'
      BY <1>3, <1>11, <2>1 DEF FieldsOK, Counts, Behind, IsField
  <2> QED
      BY <1>1, <1>3, <1>10, <2>2 DEF ParserInv
<1>13. CASE wanted
  <2>1. old \in Nat /\ ReportItems = [k \in 1..old |-> ReportItems[k]]
      BY <1>3 DEF FieldsOK
  <2>2. /\ Len(ReportItems') = old + n
        /\ ReportItems' = [k \in 1..old + n |-> IF k <= old THEN ReportItems[k] ELSE F[k - old]]
      BY <1>1, <1>2, <1>4, <1>13, <2>1, Joined
  <2> HIDE DEF old
  <2>3. \A k \in 1..old : k \in 1..old + n /\ ReportItems'[k] = ReportItems[k]
      BY <1>2, <2>1, <2>2
  <2>4. \A k \in (1..old + n) \ (1..old) : k - old \in 1..n /\ ReportItems'[k] = F[k - old]
      BY <1>2, <2>1, <2>2
  <2>5. \A k \in 1..old : /\ IsField(ReportItems[k])
                          /\ ~UsingReportIDs => ReportItems[k].of = 0
                          /\ Counts(ReportItems[k]) => FitsIn(ReportIDSizes, ReportItems[k])
      BY <1>3 DEF FieldsOK, old
  <2>6. \A k \in 1..n : FitsIn(ReportIDSizes', F[k]) /\ (~UsingReportIDs => F[k].of = 0)
    <3> SUFFICES ASSUME NEW k \in 1..n PROVE FitsIn(ReportIDSizes', F[k]) /\ (~UsingReportIDs => F[k].of = 0)
        OBVIOUS
    <3>1. info \in DOMAIN ReportIDSizes' /\ ReportIDSizes'[info].ReportID = F[k].of
        BY <1>5, <1>8, ReportIs
    <3>2. F[k].BitOffset + F[k].BitSize <= ReportIDSizes'[info].ReportSizeBits[F[k].ItemType]
        BY <1>5, <1>6, <1>8
    <3>3. ~UsingReportIDs => F[k].of = 0
        BY <1>3, <1>5, ReportIs DEF ReportsOK
    <3> QED
        BY <3>1, <3>2, <3>3 DEF FitsIn
  <2>7. \A k \in 1..old, m \in 1..n : Counts(ReportItems[k]) => Behind(ReportItems[k], F[m])
    <3> SUFFICES ASSUME NEW k \in 1..old, NEW m \in 1..n, Counts(ReportItems[k]),
                        ReportItems[k].of = F[m].of, ReportItems[k].ItemType = F[m].ItemType
                 PROVE  ReportItems[k].BitOffset + ReportItems[k].BitSize <= F[m].BitOffset
        BY DEF Behind
    <3>1. PICK e \in DOMAIN ReportIDSizes :
             /\ ReportIDSizes[e].ReportID = ReportItems[k].of
             /\ ReportItems[k].BitOffset + ReportItems[k].BitSize
                  <= ReportIDSizes[e].ReportSizeBits[ReportItems[k].ItemType]
        BY <2>5 DEF FitsIn
    <3>2. e = info
        BY <1>3, <1>5, <3>1, ReportIs DEF ReportsOK
    <3>3. ReportItems[k].BitOffset + ReportItems[k].BitSize <= base
        BY <1>5, <3>1, <3>2 DEF base
    <3>4. base <= F[m].BitOffset /\ F[m].BitOffset \in Nat
        BY <1>5 DEF IsField
    <3>5. ReportItems[k].BitOffset + ReportItems[k].BitSize \in Nat
        BY <2>5 DEF IsField
    <3> QED
        BY <1>2, <3>3, <3>4, <3>5
  <2>8. \A k \in 1..old + n : LET field == ReportItems'[k]
                              IN  /\ IsField(field)
                                  /\ ~UsingReportIDs => field.of = 0
                                  /\ Counts(field) => FitsIn(ReportIDSizes', field)
    <3> SUFFICES ASSUME NEW k \in 1..old + n
                 PROVE  LET field == ReportItems'[k]
                        IN  /\ IsField(field)
                            /\ ~UsingReportIDs => field.of = 0
                            /\ Counts(field) => FitsIn(ReportIDSizes', field)
        OBVIOUS
    <3>1. CASE k \in 1..old
      <4>1. PICK field : field = ReportItems[k]
          OBVIOUS
      <4>2. Counts(field) => FitsIn(ReportIDSizes', field)
          BY <1>11, <2>5, <3>1, <4>1
      <4>3. ReportItems'[k] = field
          BY <2>3, <3>1, <4>1
      <4> QED
          BY <2>5, <3>1, <4>1, <4>2, <4>3
    <3>2. CASE k \notin 1..old
      <4>1. PICK field : field = F[k - old]
          OBVIOUS
      <4>2. ReportItems'[k] = field /\ k - old \in 1..n
          BY <2>4, <3>2, <4>1
      <4>3. FitsIn(ReportIDSizes', field)
          BY <2>6, <4>1, <4>2
      <4> QED
          BY <1>5, <2>6, <4>1, <4>2, <4>3
    <3> QED
        BY <3>1, <3>2
  <2>9. \A k, m \in 1..old + n :
           k < m /\ Counts(ReportItems'[k]) => Behind(ReportItems'[k], ReportItems'[m]) \/ ~Counts(ReportItems'[m])
    <3> SUFFICES ASSUME NEW k \in 1..old + n, NEW m \in 1..old + n, k < m,
                        Counts(ReportItems'[k]), Counts(ReportItems'[m])
                 PROVE  Behind(ReportItems'[k], ReportItems'[m])
        OBVIOUS
    <3>1. CASE m \in 1..old
      <4>1. k \in 1..old
          BY <1>2, <2>1, <3>1
      <4> QED
          BY <1>3, <2>3, <3>1, <4>1 DEF FieldsOK, old
    <3>2. CASE m \notin 1..old /\ k \in 1..old
        BY <2>3, <2>4, <2>7, <3>2
    <3>3. CASE k \notin 1..old /\ m \notin 1..old
      <4>1. k - old \in 1..n /\ m - old \in 1..n /\ k - old < m - old
          BY <1>2, <2>1, <2>4, <3>3
      <4> QED
          BY <1>5, <2>4, <3>3, <4>1
    <3> QED
        BY <3>1, <3>2, <3>3
  <2>10. FieldsOK'
    <3>1. \A field : Counts(field)' <=> Counts(field)
        BY <1>1 DEF Counts
    <3>2. ReportItems' = [k \in 1..Len(ReportItems') |-> ReportItems'[k]] /\ Len(ReportItems') \in Nat
        BY <1>2, <2>1, <2>2
    <3>3. \A k \in 1..Len(ReportItems') :
             /\ IsField(ReportItems'[k])
             /\ ~UsingReportIDs' => ReportItems'[k].of = 0
             /\ (Counts(ReportItems[k])' => FitsIn(ReportIDSizes', ReportItems'[k]))
      <4> SUFFICES ASSUME NEW k \in 1..Len(ReportItems')
                   PROVE  /\ IsField(ReportItems'[k])
                          /\ ~UsingReportIDs' => ReportItems'[k].of = 0
                          /\ (Counts(ReportItems[k])' => FitsIn(ReportIDSizes', ReportItems'[k]))
          OBVIOUS
      <4>1. PICK field : field = ReportItems'[k]
          OBVIOUS
      <4>2. IsField(field) /\ (~UsingReportIDs => field.of = 0) /\ (Counts(field) => FitsIn(ReportIDSizes', field))
          BY <2>2, <2>8, <4>1
      <4> QED
          BY <1>1, <4>1, <4>2 DEF Counts, FitsIn
    <3>4. \A k, m \in 1..Len(ReportItems') :
             k < m /\ Counts(ReportItems[k])' /\ Counts(ReportItems[m])' =>
                Behind(ReportItems'[k], ReportItems'[m])
        BY <1>1, <2>2, <2>9 DEF Counts
    <3> QED
        BY <3>2, <3>3, <3>4 DEF FieldsOK, IsField, Behind, Counts, FitsIn
  <2> QED
      BY <1>1, <1>3, <1>10, <2>10 DEF ParserInv
<1> QED
    BY <1>12, <1>13

\* A size in whole bytes holds the bits.
LEMMA WholeBytes == ASSUME NEW n \in Nat PROVE n <= 8 * ((n + 7) \div 8)
    OBVIOUS

\* Every item keeps that a report has come to more than can be counted.
LEMMA WrappedStays == wrapped /\ Parser!Parse => wrapped'
    BY DEF Parser!Parse, Parser!Push, Parser!Pop, Parser!SizeOrCount, Parser!Usage, Parser!Collection,
           Parser!EndCollection, Parser!EndOfReport, Parser!ReportID, Parser!InputOrOutput, Parser!Return

\* The fields of one report lie apart and within its size, for every report descriptor, whatever the
\* depths and numbers the parser is built with, as long as no report comes to more bits than a
\* uint16_t counts and no PUSH overruns the stack: until then the reports are what ParserInv says.
THEOREM FieldsCorrect == HostSpec => []FieldsApart
<1> DEFINE Inv == ~wrapped => ParserInv
<1>1. HostInit => Inv
    BY ParserBegin DEF HostInit
<1>2. Inv /\ [HostNext]_parts => Inv'
  <2> SUFFICES ASSUME Inv, [HostNext]_parts, ~wrapped' PROVE ParserInv'
      OBVIOUS
  <2>a. ~wrapped
      BY WrappedStays DEF HostNext, InStack, InConfig, InParser, parts, parser
  <2>b. ParserInv
      BY <2>a
  <2>1. CASE UNCHANGED parser
    <3>1. UNCHANGED <<StateTable, ReportIDSizes, info, UsingReportIDs, ReportItems>>
        BY <2>1 DEF parser
    <3>2. StateTable' \in Seq(Globals) /\ StateTable' # <<>>
        BY <2>b, <3>1 DEF ParserInv
    <3> QED
        BY <2>b, <3>1, <3>2, ReportsKept
  <2>2. CASE Parser!Parse
    <3>1. ASSUME NEW type \in Parser!Types, NEW wanted \in BOOLEAN, Parser!InputOrOutput(type, wanted)
          PROVE  ParserInv'
      <4>1. CASE Parser!Return("InsufficientReportItems")
        <5>1. UNCHANGED <<StateTable, ReportIDSizes, info, UsingReportIDs, ReportItems>>
            BY <4>1 DEF Parser!Return
        <5>2. StateTable' \in Seq(Globals) /\ StateTable' # <<>>
            BY <2>b, <5>1 DEF ParserInv
        <5> QED
            BY <2>b, <5>1, <5>2, ReportsKept
      <4>2. CASE ~Parser!Return("InsufficientReportItems")
          BY <2>b, <3>1, <4>2, FieldsLaidOut
      <4> QED
          BY <4>1, <4>2
    <3>2. ASSUME NEW id \in ReportIDs, Parser!ReportID(Parser!Byte(id))
          PROVE  ParserInv'
      <4>1. Parser!Byte(id) \in Nat
          BY ReportAssumption, Widths
      <4> QED
          BY <2>b, <3>2, <4>1, ReportNamed
    <3> QED
        BY <2>2, <2>b, <3>1, <3>2, OtherItems DEF Parser!Parse
  <2> QED
      BY <2>1, <2>2 DEF HostNext, InStack, InConfig, InParser, parts
<1>3. Inv => FieldsApart
  <2> SUFFICES ASSUME ParserInv,
                      \A i \in DOMAIN ReportItems :
                         /\ ReportItems[i].of = ReportItems[i].ReportID
                         /\ ReportItems[i].ReportID = 0 => ~UsingReportIDs,
                      NEW i \in DOMAIN ReportItems
               PROVE  /\ ReportItems[i].BitOffset + ReportItems[i].BitSize
                           <= 8 * Parser!GetHIDReportSize(ReportItems[i].ReportID, ReportItems[i].ItemType)
                      /\ \A j \in DOMAIN ReportItems \ {i} :
                            ReportItems[i].ReportID = ReportItems[j].ReportID
                            /\ ReportItems[i].ItemType = ReportItems[j].ItemType =>
                               \/ ReportItems[i].BitOffset + ReportItems[i].BitSize <= ReportItems[j].BitOffset
                               \/ ReportItems[j].BitOffset + ReportItems[j].BitSize <= ReportItems[i].BitOffset
      BY DEF FieldsApart, Parser!FieldsApart
  <2>1. FieldsOK /\ ReportsOK
      BY DEF ParserInv
  <2>2. DOMAIN ReportItems = 1..Len(ReportItems) /\ Len(ReportItems) \in Nat
      BY <2>1 DEF FieldsOK
  <2>3. \A j \in DOMAIN ReportItems : Counts(ReportItems[j]) /\ ReportItems[j].of = ReportItems[j].ReportID
      BY DEF Counts
  <2>4. PICK field : field = ReportItems[i]
      OBVIOUS
  <2>5. IsField(field) /\ FitsIn(ReportIDSizes, field) /\ field.of = field.ReportID
      BY <2>1, <2>2, <2>3, <2>4 DEF FieldsOK
  <2>6. PICK e \in DOMAIN ReportIDSizes :
           /\ ReportIDSizes[e].ReportID = field.ReportID
           /\ field.BitOffset + field.BitSize <= ReportIDSizes[e].ReportSizeBits[field.ItemType]
      BY <2>5 DEF FitsIn
  <2>7. Parser!Known(field.ReportID) = {e}
      BY <2>1, <2>6 DEF Parser!Known, ReportsOK
  <2> DEFINE bits == ReportIDSizes[e].ReportSizeBits[field.ItemType]
  <2>8. bits \in Nat
      BY <2>5, ReportIs DEF IsField
  <2>9. Parser!GetHIDReportSize(field.ReportID, field.ItemType) = (bits + 7) \div 8
    <3>1. (CHOOSE k \in {e} : \A j \in {e} : k <= j) = e
      <4>1. e <= e
          BY ReportIs
      <4> QED
          BY <4>1
    <3> QED
        BY <2>7, <3>1 DEF Parser!GetHIDReportSize
  <2> HIDE DEF bits
  <2>10. field.BitOffset + field.BitSize <= 8 * ((bits + 7) \div 8)
    <3>1. bits <= 8 * ((bits + 7) \div 8) /\ 8 * ((bits + 7) \div 8) \in Nat
        BY <2>8, WholeBytes
    <3>2. field.BitOffset + field.BitSize <= bits /\ field.BitOffset + field.BitSize \in Nat
        BY <2>5, <2>6 DEF bits, IsField
    <3> QED
        BY <2>8, <3>1, <3>2
  <2>11. ASSUME NEW j \in DOMAIN ReportItems \ {i},
                ReportItems[i].ReportID = ReportItems[j].ReportID, ReportItems[i].ItemType = ReportItems[j].ItemType
         PROVE  \/ ReportItems[i].BitOffset + ReportItems[i].BitSize <= ReportItems[j].BitOffset
                \/ ReportItems[j].BitOffset + ReportItems[j].BitSize <= ReportItems[i].BitOffset
    <3>1. i < j \/ j < i
        BY <2>2, <2>11
    <3>2. ReportItems[i].of = ReportItems[j].of
        BY <2>3, <2>11
    <3>3. i < j => Behind(ReportItems[i], ReportItems[j])
        BY <2>1, <2>2, <2>3 DEF FieldsOK
    <3>4. j < i => Behind(ReportItems[j], ReportItems[i])
        BY <2>1, <2>2, <2>3 DEF FieldsOK
    <3> QED
        BY <2>11, <3>1, <3>2, <3>3, <3>4 DEF Behind
  <2> QED
      BY <2>4, <2>9, <2>10, <2>11
<1> QED
    BY <1>1, <1>2, <1>3, PTL DEF HostSpec
=============================================================================
