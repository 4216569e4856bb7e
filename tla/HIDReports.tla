----------------------------- MODULE HIDReports -----------------------------
(***************************************************************************)
(* Input reports on their way from a device with the HID class driver      *)
(* (Class/Device/HID.c) to a host with the other one (Class/Host/HID.c):   *)
(* the device sends a report that differs from the one before it, and      *)
(* repeats an old one after each idle period.                              *)
(*                                                                         *)
(* The device answers control requests in its main loop, between two calls *)
(* of its task; a host asks IsReportReceived before it receives.           *)
(***************************************************************************)
EXTENDS Integers, Sequences

CONSTANTS Inputs, Zero,    \* what a report may say; what cleared memory says
          Banks,           \* of the device's endpoint
          IdlePeriods      \* what SET_IDLE may ask for; 0 for no repetition

VARIABLES
    input,             \* what CALLBACK_HID_Device_CreateHIDReport would report
    PrevReportIN,      \* the device's PrevReportINBuffer
    IdleCount, IdleMSRemaining,
    endpoint,          \* reports in the banks of the device's endpoint
    pipe,              \* the report in the host's pipe, if any
    sent, seen,        \* the last report the device sent, and the host received
    fetched            \* history: a GET_REPORT left its report in PrevReportIN, nothing was sent since

reportvars == <<input, PrevReportIN, IdleCount, IdleMSRemaining, endpoint, pipe, sent, seen, fetched>>

DefaultIdle == CHOOSE n \in IdlePeriods : \A m \in IdlePeriods : m <= n

Init ==
    /\ input = Zero /\ PrevReportIN = Zero /\ sent = Zero /\ seen = Zero
    /\ IdleCount = DefaultIdle /\ IdleMSRemaining = 0
    /\ endpoint = <<>> /\ pipe = <<>> /\ fetched = FALSE

-----------------------------------------------------------------------------
(* The device.                                                             *)

Change ==
    /\ input' \in Inputs \ {input}
    /\ UNCHANGED <<PrevReportIN, IdleCount, IdleMSRemaining, endpoint, pipe, sent, seen, fetched>>

Room == Len(endpoint) < Banks               \* Endpoint_IsReadWriteAllowed
StatesChanged == input # PrevReportIN
IdlePeriodElapsed == IdleCount # 0 /\ IdleMSRemaining = 0

\* When a report is kept for comparison.  Slip: also when it cannot be sent.
KeepsAlways == TRUE
Keeps == Room

HID_Device_USBTask(ForceSend) ==
    /\ PrevReportIN' = IF Keeps THEN input ELSE PrevReportIN
    /\ IF Room /\ (ForceSend \/ StatesChanged \/ IdlePeriodElapsed)
         THEN /\ endpoint' = Append(endpoint, input) /\ sent' = input
              /\ IdleMSRemaining' = IdleCount /\ fetched' = FALSE
         ELSE UNCHANGED <<endpoint, sent, IdleMSRemaining, fetched>>
    /\ UNCHANGED <<input, IdleCount, pipe, seen>>

HID_Device_MillisecondElapsed ==
    /\ IdleMSRemaining > 0 /\ IdleMSRemaining' = IdleMSRemaining - 1
    /\ UNCHANGED <<input, PrevReportIN, IdleCount, endpoint, pipe, sent, seen, fetched>>

\* GET_REPORT builds its report, of input or of another type, where the last one sent was kept.
GetReport ==
    /\ PrevReportIN' \in Inputs /\ fetched' = TRUE
    /\ UNCHANGED <<input, IdleCount, IdleMSRemaining, endpoint, pipe, sent, seen>>

\* What remains of the old period runs on.
SetIdle ==
    /\ IdleCount' \in IdlePeriods
    /\ UNCHANGED <<input, PrevReportIN, IdleMSRemaining, endpoint, pipe, sent, seen, fetched>>

-----------------------------------------------------------------------------
(* The host: its pipe receives only while a call has unfrozen it.          *)

Arrives ==
    /\ endpoint # <<>>
    /\ pipe' = <<Head(endpoint)>> /\ endpoint' = Tail(endpoint)

\* Whether the call saw the report that arrived makes no difference to the next one.
HID_Host_IsReportReceived ==
    /\ pipe = <<>> /\ Arrives
    /\ UNCHANGED <<input, PrevReportIN, IdleCount, IdleMSRemaining, sent, seen, fetched>>

HID_Host_ReceiveReport ==
    /\ pipe # <<>> /\ seen' = Head(pipe)
    /\ (Arrives \/ (pipe' = <<>> /\ UNCHANGED endpoint))
    /\ UNCHANGED <<input, PrevReportIN, IdleCount, IdleMSRemaining, sent, fetched>>

Task == \E ForceSend \in BOOLEAN : HID_Device_USBTask(ForceSend)
Host == HID_Host_IsReportReceived \/ HID_Host_ReceiveReport

Next == Change \/ Task \/ HID_Device_MillisecondElapsed \/ GetReport \/ SetIdle \/ Host

\* A task that would send sends, whether or not the application asks for it.
Fairness ==
    /\ WF_reportvars(HID_Device_USBTask(FALSE))
    /\ WF_reportvars(HID_Device_MillisecondElapsed)
    /\ WF_reportvars(Host)

FairSpec == Init /\ [][Next]_reportvars /\ Fairness

-----------------------------------------------------------------------------
\* A change that a GET_REPORT has taken for one that was sent.
Mistaken == fetched /\ PrevReportIN = input /\ sent # input

\* "report changes that must be sent immediately to the host" (Class/Device/HID.h:84): an input
\* that stays as it is becomes, and remains, what the host last received, however full the banks
\* were when it changed.  Excepted are changes that a GET_REPORT takes, while the host has
\* switched repetition off: nothing sends those.
ReportsSeen ==
    \A value \in Inputs :
        <>[](input = value /\ (Mistaken => IdleCount # 0)) => <>[](seen = value)
=============================================================================
