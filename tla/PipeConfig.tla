------------------------------ MODULE PipeConfig ------------------------------
(***************************************************************************)
(* How the host's class drivers find their interface and bind their pipes: *)
(* the _Host_ConfigurePipes functions of Class/Host, which search the      *)
(* configuration of a device with USB_GetNextDescriptorComp                *)
(* (ConfigDescriptor.c), one descriptor at a time.                         *)
(*                                                                         *)
(* A search looks at what follows the descriptor it stands on as long as   *)
(* bytes remain, and those of the descriptor it stands on are among them:  *)
(* it also looks at what lies beyond the last one.                         *)
(***************************************************************************)
EXTENDS Integers, Sequences, FiniteSets

CONSTANTS Drivers,       \* records of interface, data, transfers, wanted, enough, checked
          Descriptors,   \* what a configuration is made of
          Addresses,     \* the numbers of endpoints
          Longest        \* bound: descriptors in a configuration

VARIABLES
    driver,
    search,        \* what is being looked for, or how the driver returned
    count,         \* descriptors passed
    interface,     \* the interface that is being read: its class and its place
    pending,       \* the descriptor the search went back from, if any
    BytesRem,      \* whether any remain
    pipes,         \* what the driver's pipes are bound to
    others,        \* endpoints bound by other drivers
    number,        \* ControlInterfaceNumber, InterfaceNumber
    own,           \* history: the interface of the driver's class that is in use
    partial        \* history: an interface that had only one of IN and OUT was left for another

vars == <<driver, search, count, interface, pending, BytesRem, pipes, others, number, own, partial>>

Pipes == {"IN", "OUT", "NOTIFICATION"}
Nothing == [bound |-> FALSE]
Bound == {p \in Pipes : pipes[p].bound}     \* FoundEndpoints

Init ==
    /\ driver \in Drivers /\ search = "interface"
    /\ count = 0 /\ interface = [class |-> "none", place |-> 0]
    /\ pending = <<>> /\ BytesRem = TRUE
    /\ pipes = [p \in Pipes |-> Nothing] /\ others \in SUBSET [address : Addresses, direction : {"IN"}]
    /\ number = 0 /\ own = 0 /\ partial = FALSE

-----------------------------------------------------------------------------
(* The comparators.                                                        *)

IsInterface(d) == d.type = "interface"

\* Pipe_IsEndpointBound: a configured pipe has this endpoint's number and direction.
IsEndpointBound(d) ==
    \/ [address |-> d.address, direction |-> d.direction] \in others
    \/ \E p \in Bound : pipes[p].address = d.address /\ pipes[p].direction = d.direction

OfClass(d, class) == IF IsInterface(d) /\ d.class = class THEN "Found" ELSE "NotFound"

NextHID(d) ==
    CASE d.type = "hid" -> "Found" [] IsInterface(d) -> "Fail" [] OTHER -> "NotFound"

Wanted(d) ==
    /\ d.type = "endpoint" /\ d.transfer \in driver.transfers
    /\ driver.checked => ~IsEndpointBound(d)

\* Slip: an interface does not end the search.
EndpointAnywhere(d) == IF Wanted(d) THEN "Found" ELSE "NotFound"
NextEndpoint(d) ==
    CASE Wanted(d) -> "Found" [] IsInterface(d) -> "Fail" [] OTHER -> "NotFound"

Compare(d) ==
    CASE search \in {"interface", "again"} -> OfClass(d, driver.interface)
      [] search = "data" -> OfClass(d, driver.data)
      [] search = "hid" -> NextHID(d)
      [] search \in {"endpoint", "required"} -> NextEndpoint(d)

-----------------------------------------------------------------------------
(* What each search is followed by.                                        *)

\* The pipe for an endpoint: the interrupt endpoints of a driver that has bulk ones too are its
\* notifications, and those of them that are not IN are passed over.
PipeFor(d) ==
    IF d.transfer = "interrupt" /\ "NOTIFICATION" \in driver.wanted THEN "NOTIFICATION" ELSE d.direction

Passed(d) == PipeFor(d) = "NOTIFICATION" /\ d.direction # "IN"

Bind(d) ==
    LET now == IF Passed(d) THEN pipes
               ELSE [pipes EXCEPT ![PipeFor(d)] =
                       [bound |-> TRUE, address |-> d.address, direction |-> d.direction,
                        transfer |-> d.transfer, interface |-> interface', beyond |-> ~BytesRem']]
    IN  /\ pipes' = now
        /\ search' = IF \A p \in driver.wanted : now[p].bound THEN "active" ELSE "endpoint"

Found(d) ==
    CASE search = "interface" ->
           /\ search' = (IF driver.interface = "hid" THEN "hid" ELSE "endpoint")
           /\ number' = interface'.place /\ own' = interface'.place /\ UNCHANGED <<pipes, partial>>
      [] search = "hid" -> search' = "endpoint" /\ UNCHANGED <<pipes, number, own, partial>>
      [] search = "data" -> search' = "required" /\ UNCHANGED <<pipes, number, own, partial>>
      [] search = "again" ->       \* ControlInterfaceNumber stays what it was
           search' = "required" /\ own' = interface'.place /\ UNCHANGED <<pipes, number, partial>>
      [] search \in {"endpoint", "required"} -> Bind(d) /\ UNCHANGED <<number, own, partial>>

\* FoundEndpoints = 0 and Pipe_DisablePipe.  Slip: the pipes stay configured.
StillBound == pipes
Disabled == [p \in Pipes |-> Nothing]

\* The search failed, or reached the end.
NotFound ==
    CASE search \in {"interface", "again", "data"} ->
           search' = "NoInterfaceFound" /\ UNCHANGED <<pipes, number, own, partial>>
      [] search = "hid" ->
           search' = "NoHIDDescriptorFound" /\ UNCHANGED <<pipes, number, own, partial>>
      [] search = "required" ->
           search' = "EndpointsNotFound" /\ UNCHANGED <<pipes, number, own, partial>>
      [] search = "endpoint" /\ driver.data = "none" ->
           /\ search' = (IF driver.enough \subseteq Bound THEN "active" ELSE "EndpointsNotFound")
           /\ UNCHANGED <<pipes, number, own, partial>>
      [] search = "endpoint" /\ driver.data # "none" /\ "NOTIFICATION" \in Bound ->
           /\ search' = "data" /\ partial' = (partial \/ Bound \cap {"IN", "OUT"} # {})
           /\ UNCHANGED <<pipes, number, own>>
      [] OTHER -> search' = "again" /\ pipes' = Disabled /\ UNCHANGED <<number, own, partial>>

-----------------------------------------------------------------------------
Searching == search \in {"interface", "again", "data", "hid", "endpoint", "required"}

Enter(d) ==
    interface' = IF pending = <<>> /\ IsInterface(d)
                 THEN [class |-> d.class, place |-> interface.place + 1] ELSE interface

\* One turn of USB_GetNextDescriptorComp: the next descriptor, or what lies beyond the last one.
Look(d, last) ==
    /\ Searching /\ BytesRem
    /\ pending # <<>> => d = Head(pending).descriptor /\ last = Head(pending).last
    /\ pending = <<>> => last \/ count < Longest
    /\ Enter(d)
    /\ count' = IF pending = <<>> THEN count + 1 ELSE count
    /\ CASE Compare(d) = "Found" ->
              BytesRem' = ~last /\ pending' = <<>> /\ Found(d)
         [] Compare(d) = "Fail" ->
              NotFound /\ BytesRem' = TRUE /\ pending' = <<[descriptor |-> d, last |-> last]>>
         [] OTHER ->
              /\ BytesRem' = ~last /\ pending' = <<>>
              /\ UNCHANGED <<search, pipes, number, own, partial>>
    /\ UNCHANGED <<driver, others>>

EndOfDescriptor ==
    /\ Searching /\ ~BytesRem
    /\ NotFound
    /\ UNCHANGED <<driver, count, interface, pending, BytesRem, others>>

Next == (\E d \in Descriptors, last \in BOOLEAN : Look(d, last)) \/ EndOfDescriptor

Spec == Init /\ [][Next]_vars

-----------------------------------------------------------------------------
Bindings == {pipes[p] : p \in Bound}
Places(of) == {pipes[p].interface.place : p \in Bound \cap of}

\* A driver that reports its pipes configured has bound all it needs, each to an endpoint of its
\* direction and of a transfer type the driver serves, that no other driver had bound when it
\* looks at that.  A driver of one interface has them all in that one, the one it sends its
\* requests to.  A driver of two has each in the control interface in use, the last one it came
\* to, or in an interface of data that follows it, and IN and OUT in the same interface, unless it
\* left one that had only one of the two: what it found there is kept for the next one
\* (CDC.c:62).  So it is as long as it bound nothing that lies beyond the configuration.  Nothing
\* is said of a number that names the first control interface after a restart (CDC.c:55), and the
\* driver does not look at which control interface a data interface belongs to.
PipesBelongTogether ==
    search = "active" /\ (\A b \in Bindings : ~b.beyond) =>
        /\ driver.enough \subseteq Bound
        /\ \A p \in Bound \cap {"IN", "OUT"} : pipes[p].direction = p
        /\ \A b \in Bindings :
              /\ b.transfer \in driver.transfers
              /\ driver.checked => [address |-> b.address, direction |-> b.direction] \notin others
        /\ driver.data = "none" => Places(Pipes) = {number}
        /\ driver.data # "none" =>
              /\ \A b \in Bindings :
                    \/ b.interface.place = own /\ b.interface.class = driver.interface
                    \/ b.interface.place > own /\ b.interface.class = driver.data
              /\ ~partial => \A one, other \in Places({"IN", "OUT"}) : one = other
=============================================================================
