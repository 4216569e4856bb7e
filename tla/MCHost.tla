------------------------------- MODULE MCHost -------------------------------
(* The host side of the library, one part of it in each behaviour: the one *)
(* that "part" names runs, and the others stay as they begin.  The stack   *)
(* enumerates a device; the application then has its pipes configured from *)
(* its descriptors, and the report descriptor of a HID device parsed.      *)
EXTENDS UsbHost

CONSTANTS
    Drivers, Descriptors, Addresses, LongestConfiguration,
    StackDepth, UsageDepth, MaxCollections, MaxItems, MaxIDs, ReportIDs, BitSizes, ReportCounts,
    LongestReport

VARIABLES
    part,
    driver, search, count, interface, pending, BytesRem, pipes, others, number, own, partial,
    parsed, result, StateTable, ReportIDSizes, info, UsingReportIDs, ReportItems, UsageListSize,
    path, parents, wrapped

Config == INSTANCE PipeConfig WITH Longest <- LongestConfiguration
Parser == INSTANCE HIDParser WITH Longest <- LongestReport

\* A class driver knows what it has enough with; an endpoint is of one direction.
ASSUME DriversAssumption ==
    /\ \A d \in Drivers : d.enough # {} /\ d.enough \subseteq d.wanted /\ d.wanted \subseteq Config!Pipes
    /\ \A d \in Descriptors : d.type = "endpoint" => d.direction \in {"IN", "OUT"}

\* The data of a report descriptor's items are unsigned.
ASSUME ReportAssumption ==
    BitSizes \subseteq Nat /\ ReportCounts \subseteq Nat /\ ReportIDs \subseteq Nat

config == <<driver, search, count, interface, pending, BytesRem, pipes, others, number, own, partial>>
parser == <<parsed, result, StateTable, ReportIDSizes, info, UsingReportIDs, ReportItems, UsageListSize,
            path, parents, wrapped>>
parts == <<part, vars, config, parser>>

HostInit ==
    /\ part \in {"stack", "config", "parser"}
    /\ Init /\ Config!Init /\ Parser!Begin
    /\ part # "config" => driver = (CHOOSE d \in Drivers : TRUE) /\ others = {}

InStack  == part = "stack" /\ UNCHANGED <<part, config, parser>>
InConfig == part = "config" /\ UNCHANGED <<part, vars, parser>>
InParser == part = "parser" /\ UNCHANGED <<part, vars, config>>

HostNext == (InStack /\ Next) \/ (InConfig /\ Config!Next) \/ (InParser /\ Parser!Parse)

\* The fairness of the stack, as in UsbHost: the other parts come to an end.
HostSpec ==
    /\ HostInit /\ [][HostNext]_parts
    /\ WF_parts(InStack /\ Main) /\ WF_parts(InStack /\ GenStep) /\ WF_parts(InStack /\ Frame)
    /\ WF_parts(InStack /\ DetectConnect) /\ WF_parts(InStack /\ DetectDisconnect)

-----------------------------------------------------------------------------
\* The pipes of a class driver are bound in its own interface, or the data pipes together in one
\* that follows it, unless the driver left an interface that had only one of them.
PipesBelongTogether == Config!PipesBelongTogether
\* The fields of a HID report do not overlap, as long as its bits can be counted.
FieldsApart == Parser!FieldsApart

-----------------------------------------------------------------------------
ClassDriver(first, second, carries, needs, least, looks) ==
    [interface |-> first, data |-> second, transfers |-> carries, wanted |-> needs,
     enough |-> least, checked |-> looks]
Three == {"IN", "OUT", "NOTIFICATION"}
TheDrivers ==
    { ClassDriver("own", "none", {"bulk"}, {"IN", "OUT"}, {"IN", "OUT"}, TRUE),
      ClassDriver("own", "none", {"bulk"}, {"IN", "OUT"}, {"IN", "OUT"}, FALSE),
      ClassDriver("own", "none", {"bulk", "interrupt"}, Three, Three, TRUE),
      ClassDriver("hid", "none", {"bulk", "interrupt"}, {"IN", "OUT"}, {"IN"}, TRUE),
      ClassDriver("own", "data", {"bulk", "interrupt"}, Three, Three, TRUE) }
TheDescriptors ==
    [type : {"interface"}, class : {"own", "hid", "data", "other"}] \cup [type : {"hid"}]
    \cup [type : {"endpoint"}, transfer : {"bulk", "interrupt"}, direction : {"IN", "OUT"}, address : Addresses]
=============================================================================
