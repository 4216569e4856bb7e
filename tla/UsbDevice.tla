------------------------------ MODULE UsbDevice ------------------------------
(***************************************************************************)
(* The USB device stack as built for the board: the interrupt of the       *)
(* controller (USB_GEN_vect, here GEN), the interrupt of the control       *)
(* endpoint (USB_COM_vect, here COM) with everything it calls, and the     *)
(* main loop, which shares the endpoint selection register with both.      *)
(*                                                                         *)
(* GEN is a chain of four tests (vbus, suspend, wakeup, reset), each       *)
(* before a body of several stores.  The event handlers for a              *)
(* disconnection and a suspension execute sei(): from there on this GEN    *)
(* can be interrupted at every place, by COM and by itself, so each store  *)
(* is a step of its own and gen is the stack of the GENs in progress.  A   *)
(* frame keeps, between the load and the store of a read-modify-write of   *)
(* UDINT or UDIEN, what was loaded: a change in between is lost.           *)
(*                                                                         *)
(* COM never enables interrupts, so there is at most one and it is on top. *)
(* The host and the controller are external.                               *)
(***************************************************************************)
EXTENDS Integers, Sequences, SequencesExt

CONSTANTS Requests,     \* what the host asks
          MainEndpoints,\* the endpoints main() selects: CDC_TX, CDC_RX
          MaxNest       \* bound: interrupts in progress, one inside another

\* The kinds of request COM tells apart; GetDescriptor's value is its length in packets.
Kinds == {"SetAddress", "SetConfiguration", "GetDescriptor", "Get", "Set", "SetLineEncoding",
          "Unknown"}

CDC_TX == 3
CDC_RX == 4
LastEndpoint == 6
Bulk == {CDC_TX, CDC_RX}

ASSUME UsbAssumption ==
    Requests \subseteq [kind : Kinds, value : Nat] /\ MainEndpoints \subseteq Bulk
    /\ MaxNest \in Nat \ {0}

VARIABLES
    vbus,                           \* the cable is in
    flags, enabled,                 \* raised, and enabled, causes of GEN
    frozen,                         \* the controller's clock
    USB_DeviceState, USB_ConfigurationNumber, USB_ControlRequest,
    UDADDR, UENUM,                  \* device address, selected endpoint
    endpoints,                      \* the endpoints that are configured
    setup, out, in,                 \* endpoint 0: RXSTPI, RXOUTI, TXINI
    I,                              \* the processor's interrupt flag
    gen, com,                       \* where the interrupts are
    prevISR, prevTask, left,        \* locals of COM
    selected,                       \* what main() selected last, or a reset of the endpoints since
    crossed,                        \* a body of GEN was disturbed (see Disturbed, ClearCause)
    status                          \* what became of the last status stage

irq == <<flags, enabled, frozen>>
device == <<USB_DeviceState, USB_ConfigurationNumber>>
ep0 == <<setup, out, in>>
comLocals == <<USB_ControlRequest, prevISR, prevTask, left>>
main == <<selected, crossed>>
vars == <<vbus, irq, device, UDADDR, UENUM, endpoints, ep0, I, gen, com,
          comLocals, main, status>>

None == [kind |-> "None", value |-> 0]

Init ==
    /\ vbus = FALSE
    /\ flags = {} /\ enabled = {"VBUS", "SUSPEND", "EORST"} /\ frozen = FALSE
    /\ USB_DeviceState = "Unattached" /\ USB_ConfigurationNumber = 0
    /\ USB_ControlRequest = None
    /\ UDADDR = 0 /\ UENUM = 0 /\ endpoints = {}
    /\ setup = FALSE /\ out = FALSE /\ in = FALSE
    /\ I = TRUE /\ gen = <<>> /\ com = "none"
    /\ prevISR = 0 /\ prevTask = 0 /\ left = 0
    /\ selected = 0 /\ crossed = FALSE /\ status = "none"

-----------------------------------------------------------------------------
(* USB_GEN_vect                                                            *)

GenPending == flags \cap enabled # {}
Top == gen[Len(gen)]

\* The causes with their flag in UDINT and their enable in UDIEN.
Causes == {"SUSPEND", "WAKEUP", "EORST"}

Tests == {"vbus", "suspend", "wakeup", "reset"}

\* The cause, in UDINT or UDIEN, that each of these places clears, disables or enables.
Cleared == [suspendClear |-> "SUSPEND", wakeupClear |-> "WAKEUP",
            resetClear |-> "EORST", resetForget |-> "SUSPEND"]
Disabled == [suspendDisable |-> "SUSPEND", wakeupDisable |-> "WAKEUP", resetDisable |-> "SUSPEND"]

\* Slip: a suspension enables itself and not the wake-up.
EnabledDeaf == [suspendEnable |-> "SUSPEND", wakeupEnable |-> "SUSPEND", resetEnable |-> "WAKEUP"]
Enabled == [suspendEnable |-> "WAKEUP", wakeupEnable |-> "SUSPEND", resetEnable |-> "WAKEUP"]

\* What each of these places stores in USB_DeviceState, and in FRZCLK.
Stored == [suspended |-> "Suspended", configured |-> "Configured", addressed |-> "Addressed",
           default |-> "Default"]
Frozen == [freeze |-> TRUE, unfreeze |-> FALSE]

\* The place after each place without a branch.
After == [suspendClear |-> "suspendDisable", suspendDisable |-> "suspendEnable",
          suspendEnable |-> "freeze", freeze |-> "suspended", suspended |-> "wakeup",
          unfreeze |-> "wakeupClear", wakeupClear |-> "wakeupDisable",
          wakeupDisable |-> "wakeupEnable", wakeupEnable |-> "rebuild",
          configured |-> "reset", addressed |-> "reset",
          resetClear |-> "default", default |-> "number", number |-> "resetForget",
          resetForget |-> "resetDisable", resetDisable |-> "resetEnable",
          resetEnable |-> "clearEndpoints", clearEndpoints |-> "configureControl"]

Places == Tests \cup DOMAIN After \cup {"rebuild", "configureControl"}

At(where) == com = "none" /\ gen # <<>> /\ Top.at = where

\* The register is loaded before the place that stores it changed: UDINT, or UDIEN.
Loaded(next, UDINT, UDIEN) ==
    IF next \in DOMAIN Cleared THEN UDINT \cap Causes
    ELSE IF next \in DOMAIN Disabled \cup DOMAIN Enabled THEN UDIEN \cap Causes ELSE {}

\* On to next.
Go(next) == gen' = [gen EXCEPT ![Len(gen)] = [at |-> next, loaded |-> Loaded(next, flags', enabled')]]

In(places) == com = "none" /\ gen # <<>> /\ Top.at \in places
Step == Go(After[Top.at])

Occurred(cause) == cause \in flags \cap enabled

\* An interrupt that begins now comes between two stores of a body.
Disturbed == gen # <<>> /\ Top.at \notin Tests

genFrame == <<vbus, UDADDR, com, comLocals, status>>

EnterGEN ==
    /\ I /\ GenPending /\ com = "none" /\ Len(gen) < MaxNest
    /\ I' = FALSE /\ gen' = Append(gen, [at |-> "vbus", loaded |-> {}])
    /\ crossed' = (crossed \/ Disturbed)
    /\ UNCHANGED <<genFrame, irq, device, UENUM, selected, endpoints, ep0>>

\* Nothing interrupts this test: it is the first.  A disconnection enables interrupts.
VbusTest ==
    /\ At("vbus")
    /\ IF Occurred("VBUS")
         THEN /\ flags' = flags \ {"VBUS"}
              /\ USB_DeviceState' = IF vbus THEN "Powered" ELSE "Unattached"
              /\ I' = (I \/ ~vbus)
         ELSE UNCHANGED <<flags, USB_DeviceState, I>>
    /\ UNCHANGED <<genFrame, enabled, frozen, USB_ConfigurationNumber, UENUM, selected, endpoints, ep0,
                   crossed>>
    /\ Go("suspend")

testFrame == <<genFrame, irq, device, UENUM, selected, endpoints, ep0>>

\* A test reads flag and enable, here at once.
SuspendTest ==
    /\ At("suspend")
    /\ UNCHANGED <<testFrame, I, crossed>>
    /\ Go(IF Occurred("SUSPEND") THEN "suspendClear" ELSE "wakeup")

WakeupTest ==
    /\ At("wakeup")
    /\ UNCHANGED <<testFrame, I, crossed>>
    /\ Go(IF Occurred("WAKEUP") THEN "unfreeze" ELSE "reset")

Return == gen' = Front(gen) /\ I' = TRUE

\* The last test of this build.  A reset that interrupts no other GEN sets everything anew.
ResetTest ==
    /\ At("reset")
    /\ UNCHANGED testFrame
    /\ IF Occurred("EORST")
         THEN Go("resetClear") /\ crossed' = (crossed /\ Len(gen) > 1) /\ UNCHANGED I
         ELSE Return /\ UNCHANGED crossed

\* UDINT &= ~(1 << cause): writing a one leaves a cause as it is, and a zero clears it, also if
\* it has been raised since the load.  A bus reset lost so is never handled.
ClearCause ==
    /\ In(DOMAIN Cleared)
    /\ flags' = flags \ ((Causes \ Top.loaded) \cup {Cleared[Top.at]})
    /\ crossed' = (crossed \/ "EORST" \in flags \ Top.loaded)
    /\ UNCHANGED <<genFrame, enabled, frozen, device, UENUM, selected, endpoints, ep0, I>>
    /\ Step

DisableCause ==
    /\ In(DOMAIN Disabled)
    /\ enabled' = (enabled \ Causes) \cup (Top.loaded \ {Disabled[Top.at]})
    /\ UNCHANGED <<genFrame, flags, frozen, device, UENUM, selected, endpoints, ep0, I, crossed>>
    /\ Step

EnableCause ==
    /\ In(DOMAIN Enabled)
    /\ enabled' = (enabled \ Causes) \cup Top.loaded \cup {Enabled[Top.at]}
    /\ UNCHANGED <<genFrame, flags, frozen, device, UENUM, selected, endpoints, ep0, I, crossed>>
    /\ Step

SetClock ==
    /\ In(DOMAIN Frozen)
    /\ frozen' = Frozen[Top.at]
    /\ UNCHANGED <<genFrame, flags, enabled, device, UENUM, selected, endpoints, ep0, I, crossed>>
    /\ Step

\* The event handler of a suspension enables interrupts.
StoreState ==
    /\ In(DOMAIN Stored)
    /\ USB_DeviceState' = Stored[Top.at]
    /\ I' = (I \/ Top.at = "suspended")
    /\ UNCHANGED <<genFrame, irq, USB_ConfigurationNumber, UENUM, selected, endpoints, ep0, crossed>>
    /\ Step

\* The wake-up reads the number and chooses the state it then stores.
ReadNumber ==
    /\ At("rebuild")
    /\ UNCHANGED <<testFrame, I, crossed>>
    /\ Go(IF USB_ConfigurationNumber # 0 THEN "configured" ELSE "addressed")

\* What is left of the configuration after a bus reset.  Slip: all of it.
UnconfiguredNot == USB_ConfigurationNumber
Unconfigured == 0

StoreNumber ==
    /\ In({"number"})
    /\ USB_ConfigurationNumber' = Unconfigured
    /\ UNCHANGED <<genFrame, irq, USB_DeviceState, UENUM, selected, endpoints, ep0, I, crossed>>
    /\ Step

\* Endpoint_ClearEndpoints selects, clears and disables all endpoints one by one.
ClearEndpoints ==
    /\ In({"clearEndpoints"})
    /\ endpoints' = {} /\ UENUM' = LastEndpoint /\ selected' = LastEndpoint
    /\ setup' = FALSE /\ out' = FALSE /\ in' = FALSE
    /\ UNCHANGED <<genFrame, irq, device, I, crossed>>
    /\ Step

\* Endpoint 0 is configured, stays selected, and may interrupt: GEN returns.
ConfigureControl ==
    /\ At("configureControl") /\ Return
    /\ endpoints' = endpoints \cup {0} /\ UENUM' = 0 /\ selected' = 0 /\ in' = TRUE
    /\ UNCHANGED <<genFrame, irq, device, setup, out, crossed>>

GenStep == \/ VbusTest \/ SuspendTest \/ WakeupTest \/ ResetTest
           \/ ClearCause \/ DisableCause \/ EnableCause \/ SetClock \/ StoreState
           \/ ReadNumber \/ StoreNumber \/ ClearEndpoints \/ ConfigureControl

GEN == EnterGEN \/ GenStep

-----------------------------------------------------------------------------
(* USB_COM_vect                                                            *)

\* Endpoint_GetCurrentEndpoint.  Slip: the form for a device without other endpoints.
CurrentEndpointControl == 0
CurrentEndpoint == UENUM

EnterCOM ==
    /\ I /\ ~GenPending /\ com = "none" /\ Len(gen) < MaxNest
    /\ setup /\ 0 \in endpoints
    /\ I' = FALSE /\ com' = "task" /\ prevISR' = CurrentEndpoint
    /\ crossed' = (crossed \/ Disturbed)
    /\ UNCHANGED <<vbus, irq, device, USB_ControlRequest, UDADDR, UENUM, endpoints, ep0,
                   gen, prevTask, left, selected, status>>

comFrame == <<vbus, irq, gen, main>>
prevs == <<prevISR, prevTask>>

DeviceTask ==
    /\ com = "task"
    /\ IF USB_DeviceState = "Unattached"
         THEN com' = "exit" /\ UNCHANGED <<prevTask, UENUM>>
         ELSE /\ prevTask' = CurrentEndpoint
              /\ IF setup THEN UENUM' = 0 /\ com' = "request"
                                 ELSE com' = "exit" /\ UNCHANGED UENUM
    /\ UNCHANGED <<comFrame, device, UDADDR, endpoints, ep0, I, USB_ControlRequest, prevISR, left,
                   status>>

\* Nobody answers the others: a configuration there is not, an unknown request.
Handled(r) == r.kind # "Unknown" /\ ~(r.kind = "SetConfiguration" /\ r.value > 1)

FirstWait(r) ==
    CASE r.kind = "GetDescriptor" -> IF r.value = 0 THEN "statusOUT" ELSE "stream"
      [] r.kind = "Get" -> "statusOUT"
      [] r.kind = "SetLineEncoding" -> "dataOUT"
      [] OTHER -> "statusIN"

\* On to the end of the request, or to another wait of it.  USB_ControlRequest is not read any
\* more before it is written again.
Finish == com' = "leave" /\ USB_ControlRequest' = None /\ left' = 0
GoOn(wait) == com' = wait /\ UNCHANGED USB_ControlRequest

\* The header is read, the handler clears RXSTPI and goes on to its first wait.  Which request
\* had arrived is chosen here, where it is read first.
ProcessControlRequest(r) ==
    /\ com = "request"
    /\ IF Handled(r)
         THEN /\ setup' = FALSE
              /\ com' = FirstWait(r) /\ USB_ControlRequest' = r
              /\ in' = (in /\ r.kind # "Get")
              /\ left' = IF r.kind = "GetDescriptor" THEN r.value ELSE 0
              /\ USB_ConfigurationNumber' = IF r.kind = "SetConfiguration"
                                            THEN r.value ELSE USB_ConfigurationNumber
         ELSE Finish /\ UNCHANGED <<setup, in, USB_ConfigurationNumber>>
    /\ UNCHANGED <<comFrame, USB_DeviceState, UDADDR, UENUM, endpoints, out, I, prevs, status>>

GivesUp == USB_DeviceState = "Unattached"

\* One turn of the loop of Endpoint_Write_Control_PStream_LE.
StreamTurn ==
    /\ com = "stream"
    /\ IF setup \/ (GivesUp /\ ~out)
         THEN Finish /\ out' = FALSE /\ UNCHANGED in
       ELSE IF out
         THEN GoOn("statusOUT") /\ UNCHANGED <<out, in, left>>
         ELSE /\ in /\ in' = FALSE /\ left' = left - 1
              /\ GoOn(IF left = 1 THEN "statusOUT" ELSE "stream")
              /\ UNCHANGED out
    /\ UNCHANGED <<comFrame, device, UDADDR, UENUM, endpoints, setup, I, prevs, status>>

\* Endpoint_ClearStatusStage, and Endpoint_ClearOUT, after a transfer to the host.
StatusOUT ==
    /\ com = "statusOUT" /\ (out \/ GivesUp)
    /\ out' = FALSE /\ Finish
    /\ UNCHANGED <<comFrame, device, UDADDR, UENUM, endpoints, setup, in, I, prevs, status>>

\* The wait for the line coding.
DataOUT ==
    /\ com = "dataOUT" /\ (out \/ GivesUp)
    /\ out' = FALSE
    /\ IF out THEN GoOn("statusIN") /\ UNCHANGED left ELSE Finish
    /\ UNCHANGED <<comFrame, device, UDADDR, UENUM, endpoints, setup, in, I, prevs, status>>

\* USB_Device_SetConfiguration after its status stage, and the application's event.
Configure ==
    /\ USB_DeviceState' = IF USB_ConfigurationNumber # 0 THEN "Configured" ELSE "Addressed"
    /\ endpoints' = endpoints \cup {2} \cup Bulk
    /\ UENUM' = CDC_RX

\* Endpoint_ClearStatusStage of a transfer from the host, and what follows it.
StatusIN ==
    /\ com = "statusIN" /\ (in \/ GivesUp)
    /\ in' = FALSE
    /\ status' = "sent"
    /\ IF USB_ControlRequest.kind = "SetAddress" THEN GoOn("acked") /\ UNCHANGED left ELSE Finish
    /\ IF USB_ControlRequest.kind = "SetConfiguration"
         THEN Configure
         ELSE UNCHANGED <<USB_DeviceState, endpoints, UENUM>>
    /\ UNCHANGED <<comFrame, USB_ConfigurationNumber, UDADDR, setup, out, I, prevs>>

\* The second wait of USB_Device_SetAddress.  Slip: there is none.
AckedAtOnce == TRUE
Acked == in \/ GivesUp

SetAddress ==
    /\ com = "acked" /\ Acked
    /\ Finish
    /\ IF in \/ ~GivesUp
         THEN /\ UDADDR' = USB_ControlRequest.value
              /\ USB_DeviceState' = IF USB_ControlRequest.value # 0 THEN "Addressed"
                                    ELSE USB_DeviceState
         ELSE UNCHANGED <<UDADDR, USB_DeviceState>>
    /\ UNCHANGED <<comFrame, USB_ConfigurationNumber, UENUM, endpoints, ep0, I, prevs, status>>

\* RXSTPI as the selected endpoint shows it: a request nobody cleared is stalled.  Then
\* USB_DeviceTask selects the endpoint it found selected.
LeaveTask ==
    /\ com = "leave"
    /\ setup' = (setup /\ UENUM # 0)
    /\ UENUM' = prevTask /\ com' = "exit"
    /\ UNCHANGED <<comFrame, device, UDADDR, endpoints, out, in, I, comLocals, status>>

\* The endpoint whose RXSTPI USB_INT_Clear clears.  Slip: always the control endpoint's.
ClearsSETUPAlways == TRUE
ClearsSETUP == UENUM = 0

\* The locals end.
LeaveCOM ==
    /\ com = "exit"
    /\ setup' = (setup /\ ~ClearsSETUP)
    /\ UENUM' = prevISR /\ com' = "none" /\ I' = TRUE
    /\ prevISR' = 0 /\ prevTask' = 0 /\ status' = "none"
    /\ UNCHANGED <<comFrame, device, UDADDR, endpoints, out, in, USB_ControlRequest, left>>

COM == \/ EnterCOM \/ DeviceTask \/ (\E r \in Requests : ProcessControlRequest(r))
       \/ StreamTurn \/ StatusOUT \/ DataOUT \/ StatusIN \/ SetAddress
       \/ LeaveTask \/ LeaveCOM

-----------------------------------------------------------------------------
(* The main loop selects an endpoint in getUSBByte and in sendUSBByte.     *)

Select(e) ==
    /\ gen = <<>> /\ com = "none"
    /\ UENUM' = e /\ selected' = e
    /\ UNCHANGED <<crossed, vbus, irq, device, UDADDR, endpoints, ep0, I, gen, com, comLocals, status>>

-----------------------------------------------------------------------------
(* The host and the controller.                                            *)

hostFrame == <<device, UENUM, I, gen, com, comLocals, main, enabled, frozen>>

Aborted == IF status = "sent" THEN "aborted" ELSE status

VbusChanges ==
    /\ vbus' = ~vbus
    /\ flags' = flags \cup {"VBUS"}
    /\ UNCHANGED <<hostFrame, UDADDR, endpoints, ep0, status>>

\* Three milliseconds without traffic.
BusSuspend ==
    /\ vbus /\ ~frozen
    /\ flags' = flags \cup {"SUSPEND"}
    /\ UNCHANGED <<hostFrame, vbus, UDADDR, endpoints, ep0, status>>

\* Any traffic, a resumption or the beginning of a reset.
BusActivity ==
    /\ vbus
    /\ flags' = flags \cup {"WAKEUP"}
    /\ UNCHANGED <<hostFrame, vbus, UDADDR, endpoints, ep0, status>>

\* The controller forgets its address and all endpoints but 0 by itself.
BusReset ==
    /\ vbus /\ ~frozen
    /\ flags' = flags \cup {"EORST"}
    /\ UDADDR' = 0 /\ endpoints' = endpoints \cap {0}
    /\ setup' = FALSE /\ out' = FALSE /\ in' = (0 \in endpoints)
    /\ status' = Aborted
    /\ UNCHANGED <<hostFrame, vbus>>

Listening == vbus /\ ~frozen /\ 0 \in endpoints

\* A SETUP is always accepted and ends the transfer there was.
HostSetup ==
    /\ Listening
    /\ setup' = TRUE /\ out' = FALSE /\ in' = TRUE
    /\ status' = Aborted
    /\ UNCHANGED <<hostFrame, vbus, flags, UDADDR, endpoints>>

HostOut ==
    /\ Listening /\ com # "none" /\ ~setup /\ ~out
    /\ out' = TRUE
    /\ UNCHANGED <<hostFrame, vbus, flags, UDADDR, endpoints, setup, in, status>>

HostIn ==
    /\ Listening /\ ~in
    /\ in' = TRUE
    /\ status' = IF status = "sent" THEN "taken" ELSE status
    /\ UNCHANGED <<hostFrame, vbus, flags, UDADDR, endpoints, setup, out>>

Host == \/ VbusChanges \/ BusSuspend \/ BusActivity \/ BusReset
        \/ HostSetup
        \/ HostOut \/ HostIn

Firmware == GEN \/ COM

Next == Firmware \/ (\E e \in MainEndpoints : Select(e)) \/ Host

Spec == Init /\ [][Next]_vars

\* The processor runs; nothing is asked of the host.
FairSpec == Spec /\ WF_vars(Firmware)

-----------------------------------------------------------------------------
(* Properties.                                                             *)

Selections == {0, LastEndpoint} \cup Bulk

\* Every variable has its type.
TypeOK ==
    /\ vbus \in BOOLEAN /\ frozen \in BOOLEAN /\ I \in BOOLEAN
    /\ flags \subseteq {"VBUS", "SUSPEND", "WAKEUP", "EORST"}
    /\ enabled \subseteq {"VBUS", "SUSPEND", "WAKEUP", "EORST"}
    /\ USB_DeviceState \in {"Unattached", "Powered", "Default", "Addressed", "Configured", "Suspended"}
    /\ USB_ConfigurationNumber \in 0..1
    /\ USB_ControlRequest \in Requests \cup {None} /\ setup \in BOOLEAN
    /\ UENUM \in Selections /\ prevISR \in Selections /\ prevTask \in Selections
    /\ UDADDR \in Nat /\ left \in Nat
    /\ endpoints \subseteq {0, 2} \cup Bulk
    /\ out \in BOOLEAN /\ in \in BOOLEAN
    /\ gen \in Seq([at : Places, loaded : SUBSET Causes])
    /\ com \in {"none", "task", "request", "stream", "statusOUT", "dataOUT", "statusIN", "acked", "leave", "exit"}
    /\ selected \in Selections /\ crossed \in BOOLEAN
    /\ status \in {"none", "sent", "taken", "aborted"}

\* Whenever the main loop runs, the endpoint it selected is still selected, however many
\* interrupts came and whatever they selected, unless one of them handled a bus reset since,
\* which leaves endpoint 0 selected until main() selects again.
MainOnItsEndpoint == gen = <<>> /\ com = "none" => UENUM = selected

\* No body of GEN is being carried out, and none was disturbed since the last reset that
\* interrupted no other GEN: no interrupt came between its stores, and no bus reset between the
\* load and the store of UDINT.
Undisturbed == ~crossed /\ ~Disturbed

\* Between requests a device that calls itself configured has a configuration and its bulk
\* endpoints, unless a bus reset waits to be handled: no wake-up brings back a configuration
\* that was reset.  GENs may interrupt one another, but only between two bodies: in a body
\* that is disturbed the state can be stored again after the reset (USBInterrupt.c:129, :138).
ConfiguredHasEndpoints ==
    USB_DeviceState = "Configured" /\ "EORST" \notin flags /\ com = "none" /\ Undisturbed
    => USB_ConfigurationNumber # 0 /\ Bulk \subseteq endpoints

\* Of suspension and wake-up one is enabled, the wake-up while the clock is frozen: no order of
\* suspensions, wake-ups and resets, one GEN inside another, leaves the device deaf, as long as
\* no body is disturbed: a wake-up between a suspension's stores would be disabled again before
\* the clock is frozen (USBInterrupt.c:93-96).
FrozenCanWake ==
    Undisturbed =>
        /\ "SUSPEND" \in enabled <=> "WAKEUP" \notin enabled
        /\ frozen => "WAKEUP" \in enabled

\* The device answers to a new address only after the host has taken the status stage of
\* SET_ADDRESS sent to the old one, or has given the transfer up.
AddressAfterStatus ==
    [][UDADDR' \notin {0, UDADDR} => status \in {"taken", "aborted"}]_vars

\* An accepted request disappears only if it is processed or stalled, if the bus is reset (by
\* the controller, or by GEN, which then clears the endpoints), or if COM returns to a main loop that has no bulk endpoint selected.
UnreadSetupKept ==
    [][setup /\ ~setup'
       => com \in {"request", "leave"} \/ At("clearEndpoints") \/ "EORST" \in flags'
          \/ (com = "exit" /\ prevISR = 0)]_vars

\* A transfer that is in progress when the cable is pulled ends, for "Device was disconnected
\* from the host during the transfer" is an outcome the stream functions and waits provide for.
DisconnectEndsTransfer == com # "none" /\ ~vbus ~> com = "none" \/ vbus

=============================================================================
