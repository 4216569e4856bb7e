------------------------------ MODULE HIDParser ------------------------------
(***************************************************************************)
(* The parser of HID report descriptors (Class/Host/HIDParser.c) and the   *)
(* two functions that read and write a field of a report through what it   *)
(* found.                                                                  *)
(*                                                                         *)
(* A field keeps what decides where it lies in which report; its usage,    *)
(* its units and its limits are left out, and of the usage list only its   *)
(* length is kept.  The numbers are as wide as they are in the code.  Left *)
(* out are LargestReportSizeBits, what a failed parse leaves behind, and   *)
(* items whose data the descriptor does not hold.                          *)
(***************************************************************************)
EXTENDS Integers, Sequences, FiniteSets

CONSTANTS StackDepth,      \* HID_STATETABLE_STACK_DEPTH
          UsageDepth,      \* HID_USAGE_STACK_DEPTH
          MaxCollections,  \* HID_MAX_COLLECTIONS
          MaxItems,        \* HID_MAX_REPORTITEMS
          MaxIDs,          \* HID_MAX_REPORT_IDS
          ReportIDs, BitSizes, ReportCounts,    \* the data of items
          Longest          \* bound: items in a descriptor

VARIABLES
    parsed,        \* items read
    result,        \* "parsing", or what USB_ProcessHIDReport returned
    StateTable,    \* its entries up to the current one
    ReportIDSizes, \* its entries up to TotalDeviceReports
    info,          \* the index of CurrReportIDInfo
    UsingReportIDs,
    ReportItems,   \* the fields found
    UsageListSize,
    path,          \* the index of CurrCollectionPath, or 0 for NULL
    parents,       \* of the collections that have one
    wrapped        \* history: a report has come to more bits than ReportSizeBits counts

hidvars == <<parsed, result, StateTable, ReportIDSizes, info, UsingReportIDs, ReportItems,
             UsageListSize, path, parents, wrapped>>

Byte(n) == n % 256           \* what a uint8_t keeps of it
Word(n) == n % 65536         \* what a uint16_t keeps of it

Types == {"In", "Out"}      \* a Feature is to a Feature report what these are to theirs
NoBits == [t \in Types |-> 0]

Begin ==
    /\ parsed = 0 /\ result = "parsing"
    /\ StateTable = <<[BitSize |-> 0, ReportCount |-> 0, ReportID |-> 0]>>
    /\ ReportIDSizes = <<[ReportID |-> 0, ReportSizeBits |-> NoBits]>> /\ info = 1
    /\ UsingReportIDs = FALSE /\ ReportItems = <<>>
    /\ UsageListSize = 0 /\ path = 0 /\ parents = <<>> /\ wrapped = FALSE

Depth == Len(StateTable)
State == StateTable[Depth]                  \* CurrStateTable

Item == result = "parsing" /\ parsed < Longest /\ parsed' = parsed + 1

Return(code) ==
    /\ result' = code
    /\ UNCHANGED <<StateTable, ReportIDSizes, info, UsingReportIDs, ReportItems, UsageListSize,
                   path, parents, wrapped>>

-----------------------------------------------------------------------------
(* Global items.                                                           *)

\* The memcpy takes the size of a HID_ReportItem_t, the longer one: it goes on into the entry after
\* the new one, which is not in use, or, when there is none, past the array: whatever that
\* overwrites may matter to nobody, or be the end of all that is known of the parse.
Push ==
    /\ Item
    /\ \/ Depth = StackDepth /\ Return("HIDStackOverflow")
       \/ Depth = StackDepth - 1 /\ Return("Undefined")
       \/ /\ Depth < StackDepth
          /\ StateTable' = Append(StateTable, State)
          /\ UNCHANGED <<result, ReportIDSizes, info, UsingReportIDs, ReportItems, UsageListSize,
                         path, parents, wrapped>>

\* CurrReportIDInfo stays where it is, whatever report the entry below is of.
Pop ==
    /\ Item
    /\ \/ Depth = 1 /\ Return("HIDStackUnderflow")
       \/ /\ Depth > 1
          /\ StateTable' = SubSeq(StateTable, 1, Depth - 1)
          /\ UNCHANGED <<result, ReportIDSizes, info, UsingReportIDs, ReportItems, UsageListSize,
                         path, parents, wrapped>>

SizeOrCount ==
    /\ Item
    /\ \/ \E n \in BitSizes : StateTable' = [StateTable EXCEPT ![Depth].BitSize = Byte(n)]
       \/ \E n \in ReportCounts : StateTable' = [StateTable EXCEPT ![Depth].ReportCount = Byte(n)]
    /\ UNCHANGED <<result, ReportIDSizes, info, UsingReportIDs, ReportItems, UsageListSize,
                   path, parents, wrapped>>

\* The entries of a report ID.  Slip: none is found, each REPORT ID starts a new one.
KnownNever(id) == {}
Known(id) == {i \in DOMAIN ReportIDSizes : ReportIDSizes[i].ReportID = id}

ReportID(id) ==
    /\ Item
    /\ \/ /\ UsingReportIDs /\ Known(id) = {} /\ Len(ReportIDSizes) = MaxIDs
          /\ Return("InsufficientReportIDItems")
       \/ /\ \/ ~UsingReportIDs
                /\ ReportIDSizes' = [ReportIDSizes EXCEPT ![info].ReportID = id]
                /\ UNCHANGED info
             \/ UsingReportIDs /\ Known(id) # {}
                /\ info' \in Known(id) /\ \A i \in Known(id) : info' <= i
                /\ UNCHANGED ReportIDSizes
             \/ UsingReportIDs /\ Known(id) = {} /\ Len(ReportIDSizes) < MaxIDs
                /\ ReportIDSizes' = Append(ReportIDSizes, [ReportID |-> id, ReportSizeBits |-> NoBits])
                /\ info' = Len(ReportIDSizes) + 1
          /\ StateTable' = [StateTable EXCEPT ![Depth].ReportID = id]
          /\ UsingReportIDs' = TRUE
          /\ UNCHANGED <<result, ReportItems, UsageListSize, path, parents, wrapped>>

-----------------------------------------------------------------------------
(* Local and main items.                                                   *)

Usage ==
    /\ Item
    /\ \/ UsageListSize = UsageDepth /\ Return("UsageListOverflow")
       \/ /\ UsageListSize < UsageDepth
          /\ UsageListSize' = UsageListSize + 1
          /\ UNCHANGED <<result, StateTable, ReportIDSizes, info, UsingReportIDs, ReportItems,
                         path, parents, wrapped>>

\* The first collection of a descriptor, and each one outside all others, takes the first place;
\* one within another takes the first place after it that never had a parent.
Collection ==
    /\ Item
    /\ \/ path # 0 /\ Len(parents) = MaxCollections - 1 /\ Return("InsufficientCollectionPaths")
       \/ /\ \/ path = 0 /\ path' = 1 /\ UNCHANGED parents
             \/ /\ path # 0 /\ Len(parents) < MaxCollections - 1
                /\ parents' = Append(parents, path) /\ path' = Len(parents) + 2
          /\ UsageListSize' = 0
          /\ UNCHANGED <<result, StateTable, ReportIDSizes, info, UsingReportIDs, ReportItems, wrapped>>

EndCollection ==
    /\ Item
    /\ \/ path = 0 /\ Return("UnexpectedEndCollection")
       \/ /\ path # 0
          /\ path' = (IF path = 1 THEN 0 ELSE parents[path - 1])
          /\ UsageListSize' = 0
          /\ UNCHANGED <<result, StateTable, ReportIDSizes, info, UsingReportIDs, ReportItems, parents,
                         wrapped>>

\* The fields of an INPUT or OUTPUT item, one after the other; of is the report they are laid out in.
Fields(type) ==
    [n \in 1..State.ReportCount |->
        [ReportID |-> State.ReportID, ItemType |-> type, BitSize |-> State.BitSize, CollectionPath |-> path,
         BitOffset |-> Word(ReportIDSizes[info].ReportSizeBits[type] + (n - 1) * State.BitSize),
         of |-> ReportIDSizes[info].ReportID]]

\* What a report comes to with the fields of one more item.
Grown(type) == ReportIDSizes[info].ReportSizeBits[type] + State.ReportCount * State.BitSize

\* Constant fields, and those the application does not want, only take their place; it decides
\* here for all of an item's fields alike.
InputOrOutput(type, wanted) ==
    /\ Item
    /\ \/ wanted /\ Len(ReportItems) + State.ReportCount > MaxItems /\ Return("InsufficientReportItems")
       \/ /\ wanted => Len(ReportItems) + State.ReportCount <= MaxItems
          /\ ReportItems' = IF wanted THEN ReportItems \o Fields(type) ELSE ReportItems
          /\ ReportIDSizes' = [ReportIDSizes EXCEPT ![info].ReportSizeBits[type] = Word(Grown(type))]
          /\ wrapped' = (wrapped \/ Grown(type) # Word(Grown(type)))
          /\ UsageListSize' = 0
          /\ UNCHANGED <<result, StateTable, info, UsingReportIDs, path, parents>>

EndOfReport ==
    /\ result = "parsing"
    /\ result' = IF ReportItems = <<>> THEN "NoUnfilteredReportItems" ELSE "Successful"
    /\ UNCHANGED <<parsed, StateTable, ReportIDSizes, info, UsingReportIDs, ReportItems,
                   UsageListSize, path, parents, wrapped>>

Parse ==
    \/ Push \/ Pop \/ SizeOrCount \/ Usage \/ Collection \/ EndCollection \/ EndOfReport
    \/ \E id \in ReportIDs : ReportID(Byte(id))
    \/ \E type \in Types, wanted \in BOOLEAN : InputOrOutput(type, wanted)

Spec == Begin /\ [][Parse]_hidvars

-----------------------------------------------------------------------------
(* Reading and writing a field.  A report is the set of its bits that are  *)
(* 1, and so is a value; bit 8 * n + k is bit k of byte n.                 *)

GetHIDReportItemInfo(report, item) ==
    {k \in 0..item.BitSize - 1 : item.BitOffset + k \in report}

\* The bit that is tested and the mask that is stored have changed places; a mask beyond a byte is 0.
SetHIDReportItemInfo(report, item, value) ==
    report \cup {8 * ((item.BitOffset + k) \div 8) + k :
                   k \in {j \in 0..item.BitSize - 1 : j < 8 /\ (item.BitOffset + j) % 8 \in value}}

GetHIDReportSize(id, type) ==
    LET first == CHOOSE i \in Known(id) : \A j \in Known(id) : i <= j
    IN  IF Known(id) = {} THEN 0 ELSE (ReportIDSizes[first].ReportSizeBits[type] + 7) \div 8

-----------------------------------------------------------------------------
\* The fields of one report lie apart from each other and within the size that is asked for it,
\* in whatever order the reports are described.  Excepted are a report that comes to more bits
\* than ReportSizeBits counts, as its fields begin again at its front (HIDParser.c:254); a POP
\* that brings back another report's ID, as the fields after it are laid out in the report before
\* the POP; and fields of the ID 0 next to REPORT IDs, such as those before the first one, which
\* a descriptor may not have.
FieldsApart ==
    LET F == DOMAIN ReportItems
    IN  ~wrapped /\ (\A i \in F : /\ ReportItems[i].of = ReportItems[i].ReportID
                                  /\ ReportItems[i].ReportID = 0 => ~UsingReportIDs) =>
        \A i \in F :
            LET f == ReportItems[i]
            IN  /\ f.BitOffset + f.BitSize <= 8 * GetHIDReportSize(f.ReportID, f.ItemType)
                /\ \A j \in F \ {i} :
                      LET g == ReportItems[j]
                      IN  f.ReportID = g.ReportID /\ f.ItemType = g.ItemType =>
                          f.BitOffset + f.BitSize <= g.BitOffset \/ g.BitOffset + g.BitSize <= f.BitOffset

\* A value written into its field of a report, "the correct position in the HID report buffer"
\* (HIDParser.h:275), is the value read from that field.
SetIsGot ==
    \A i \in DOMAIN ReportItems : \A value \in SUBSET (0..ReportItems[i].BitSize - 1) :
        GetHIDReportItemInfo(SetHIDReportItemInfo({}, ReportItems[i], value), ReportItems[i]) = value
=============================================================================
