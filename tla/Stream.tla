------------------------------- MODULE Stream -------------------------------
(***************************************************************************)
(* The byte stream over the two bulk endpoints: getUSBByte, sendUSBByte    *)
(* and flushSendStream (Util.c) on top of Endpoint_WaitUntilReady          *)
(* (Endpoint.c), against a host that reads and writes when it likes, and   *)
(* halts and resets the endpoints (USB_Device_ClearSetFeature).            *)
(*                                                                         *)
(* Each endpoint has Banks banks of EPSize bytes.  rx holds the packets in *)
(* the banks of the OUT endpoint, less the bytes already read; tx holds    *)
(* the packets in the banks of the IN endpoint that wait for the host, and *)
(* cur the bytes of the bank being filled.  A byte is its position in the  *)
(* stream it belongs to.                                                   *)
(***************************************************************************)
EXTENDS Integers, Sequences, SequencesExt

CONSTANTS Banks, EPSize,
          USB_STREAM_TIMEOUT_MS,
          Sessions      \* bounds: the bytes the host sends, the bytes offered to
                        \* sendUSBByte, the values of blocking, the host's requests
                        \* to halt an endpoint and to clear one, taken together

ASSUME StreamAssumption ==
    /\ Banks \in Nat \ {0} /\ EPSize \in Nat \ {0}
    /\ USB_STREAM_TIMEOUT_MS \in Nat /\ USB_STREAM_TIMEOUT_MS < 255
    /\ Sessions # {} /\ Sessions \subseteq [out : Nat, in : Nat, blocking : SUBSET BOOLEAN, halts : Nat]

VARIABLES
    pc,         \* where the main loop is in the three functions
    back,       \* where WaitUntilReady returns to
    blocking,   \* getUSBByte's parameter
    byte,       \* sendUSBByte's parameter; 0 when flushSendStream was called
    IsFull, ret, TimeoutMSRem,          \* locals of the code
    rx, tx, cur,
    SOFI, attached, suspended,          \* start of frame flag, and the bus
    stalled,    \* the endpoints the host has halted
    halts,      \* how often it halted or cleared one
    result,     \* what the last call returned
    hostSent,   \* bytes the host has sent
    breaks,     \* those before which the stream may break: they began a packet, or
                \* were in the banks when the host had the endpoint cleared
    got,        \* bytes getUSBByte has returned
    dropped,    \* bytes released, or cleared, unread
    offered,    \* bytes sendUSBByte was called with
    accepted,   \* those for which it returned true, less those the host had cleared
    hostGot,    \* bytes the host has received
    lastLen,    \* length of the last packet given to the host's controller
    ms          \* frames started during the current wait

locals == <<back, blocking, byte, IsFull, ret, TimeoutMSRem>>
bus == <<SOFI, attached, suspended, stalled, halts>>
history == <<hostSent, breaks, got, dropped, offered, accepted, hostGot>>
vars == <<pc, locals, rx, tx, cur, bus, result, history, lastLen, ms>>

Init ==
    /\ pc = "idle" /\ back = "idle" /\ blocking = FALSE /\ byte = 0
    /\ IsFull = FALSE /\ ret = FALSE /\ TimeoutMSRem = 0
    /\ rx = <<>> /\ tx = <<>> /\ cur = <<>>
    /\ SOFI = FALSE /\ attached = TRUE /\ suspended = FALSE /\ stalled = {} /\ halts = 0
    /\ result = TRUE
    /\ hostSent = 0 /\ breaks = {} /\ got = <<>> /\ dropped = {}
    /\ offered = 0 /\ accepted = <<>> /\ hostGot = <<>>
    /\ lastLen = 0 /\ ms = 0

\* The bounds that so many bytes sent by the host, bytes offered to it, and halts
\* and clears stay within.
Within(out, in, feature) == {s \in Sessions : out <= s.out /\ in <= s.in /\ feature <= s.halts}

\* The bytes in a set of banks.
Waiting(banks) == UNION {ToSet(banks[k]) : k \in DOMAIN banks}

-----------------------------------------------------------------------------
(* The endpoint registers.                                                 *)

OUTReceived == rx # <<>>
INReady == Len(tx) < Banks
OUTReadAllowed == OUTReceived /\ Head(rx) # <<>>
INWriteAllowed == INReady /\ Len(cur) < EPSize
BytesInIN == Len(IF INReady THEN cur ELSE Head(tx))

\* Frees the current OUT bank, if a packet is in it, read or not.
ClearOUT ==
    IF OUTReceived
      THEN rx' = Tail(rx) /\ dropped' = dropped \cup ToSet(Head(rx))
      ELSE UNCHANGED <<rx, dropped>>

\* Gives the current IN bank to the host; without a free bank nothing happens.
ClearIN ==
    IF INReady
      THEN tx' = Append(tx, cur) /\ cur' = <<>> /\ lastLen' = Len(cur)
      ELSE UNCHANGED <<tx, cur, lastLen>>

-----------------------------------------------------------------------------
(* Endpoint_WaitUntilReady: one step per turn of its loop.                 *)

StartWait(label) ==
    /\ pc' = "wait" /\ back' = label
    /\ TimeoutMSRem' = USB_STREAM_TIMEOUT_MS /\ ms' = 0

Ready == IF back = "received" THEN OUTReceived ELSE INReady

\* The endpoint that is waited for is halted.
IsStalled == (IF back = "received" THEN "OUT" ELSE "IN") \in stalled

WaitReady ==
    /\ pc = "wait" /\ Ready
    /\ pc' = back
    /\ UNCHANGED <<locals, rx, tx, cur, bus, result, history, lastLen, ms>>

\* Where an error code takes the caller: getUSBByte returns false at once.
WaitError ==
    /\ pc' = IF back = "received" THEN "idle" ELSE back
    /\ result' = IF back = "received" THEN FALSE ELSE result
    /\ ret' = TRUE

WaitDisconnected ==
    /\ pc = "wait" /\ ~Ready /\ ~attached
    /\ WaitError
    /\ UNCHANGED <<back, blocking, byte, IsFull, TimeoutMSRem, rx, tx, cur, bus, history,
                   lastLen, ms>>

WaitStalled ==
    /\ pc = "wait" /\ ~Ready /\ attached /\ IsStalled
    /\ WaitError
    /\ UNCHANGED <<back, blocking, byte, IsFull, TimeoutMSRem, rx, tx, cur, bus, history,
                   lastLen, ms>>

\* The test of TimeoutMSRem-- .  Slip: the value after the decrement.
ExpiredEarly == TimeoutMSRem <= 1
Expired == TimeoutMSRem = 0

\* ... and its decrement, of a uint8_t.  Slip: the frame is not counted.
DecrementedNot == TimeoutMSRem
Decremented == (TimeoutMSRem - 1) % 256

WaitFrame ==
    /\ pc = "wait" /\ ~Ready /\ attached /\ ~IsStalled /\ SOFI
    /\ SOFI' = FALSE
    /\ IF Expired
         THEN WaitError /\ UNCHANGED TimeoutMSRem
         ELSE TimeoutMSRem' = Decremented /\ UNCHANGED <<pc, result, ret>>
    /\ UNCHANGED <<back, blocking, byte, IsFull, rx, tx, cur, attached, suspended, stalled,
                   halts, history, lastLen, ms>>

-----------------------------------------------------------------------------
(* getUSBByte                                                              *)

CallGet(b) ==
    /\ pc = "idle" /\ pc' = "test" /\ blocking' = b
    /\ ms' = 0
    /\ UNCHANGED <<back, byte, IsFull, ret, TimeoutMSRem, rx, tx, cur, bus, result, history,
                   lastLen>>

\* Slip: the last byte of a packet is taken for the end of it.
ReadableTwo == OUTReadAllowed /\ Len(Head(rx)) > 1
Readable == OUTReadAllowed

TestOUT ==
    /\ pc = "test"
    /\ pc' = IF Readable THEN "read" ELSE "clear"
    /\ UNCHANGED <<locals, rx, tx, cur, bus, result, history, lastLen, ms>>

\* Between the test and this step the host may have delivered a packet.
ClearEmptyOUT ==
    /\ pc = "clear" /\ ClearOUT
    /\ IF OUTReceived /\ Len(rx) > 1
         THEN pc' = "received" /\ UNCHANGED <<back, TimeoutMSRem, ms>>
         ELSE StartWait("received")
    /\ UNCHANGED <<blocking, byte, IsFull, ret, tx, cur, bus, result, hostSent, breaks, got,
                   offered, accepted, hostGot, lastLen>>

\* The outer loop tests again only when blocking.
AfterReceived ==
    /\ pc = "received"
    /\ pc' = IF blocking THEN "test" ELSE "read"
    /\ UNCHANGED <<locals, rx, tx, cur, bus, result, history, lastLen, ms>>

TestByte ==
    /\ pc = "read"
    /\ pc' = IF OUTReadAllowed THEN "fetch" ELSE "idle"
    /\ result' = OUTReadAllowed
    /\ UNCHANGED <<locals, rx, tx, cur, bus, history, lastLen, ms>>

\* When the host had the endpoint cleared since the test, the byte that is
\* returned is none of those it sent, and is not in got.
FetchByte ==
    /\ pc = "fetch" /\ pc' = "idle"
    /\ IF OUTReadAllowed
         THEN /\ got' = Append(got, Head(Head(rx)))
              /\ rx' = [rx EXCEPT ![1] = Tail(@)]
         ELSE UNCHANGED <<got, rx>>
    /\ UNCHANGED <<locals, tx, cur, bus, result, hostSent, breaks, dropped, offered, accepted,
                   hostGot, lastLen, ms>>

-----------------------------------------------------------------------------
(* sendUSBByte and flushSendStream                                         *)

CallSend ==
    /\ pc = "idle" /\ Within(hostSent, offered + 1, halts) # {}
    /\ offered' = offered + 1 /\ byte' = offered + 1
    /\ pc' = IF INWriteAllowed THEN "write" ELSE "flush"
    /\ UNCHANGED <<back, blocking, IsFull, ret, TimeoutMSRem, rx, tx, cur, bus, result,
                   hostSent, breaks, got, dropped, accepted, hostGot, lastLen, ms>>

\* Every flush in the firmware follows at least one sendUSBByte.
CallFlush ==
    /\ pc = "idle" /\ byte # 0
    /\ pc' = "flush" /\ byte' = 0
    /\ UNCHANGED <<back, blocking, IsFull, ret, TimeoutMSRem, rx, tx, cur, bus, result,
                   history, lastLen, ms>>

TestFull ==
    /\ pc = "flush" /\ pc' = "give"
    /\ IsFull' = (BytesInIN = EPSize)
    /\ ret' = FALSE
    /\ UNCHANGED <<back, blocking, byte, TimeoutMSRem, rx, tx, cur, bus, result, history,
                   lastLen, ms>>

FlushBank ==
    /\ pc = "give" /\ ClearIN
    /\ StartWait(IF IsFull THEN "empty" ELSE "flushed")
    /\ UNCHANGED <<blocking, byte, IsFull, ret, rx, bus, result, history>>

\* A full packet is followed by an empty one.
SendEmptyPacket ==
    /\ pc = "empty" /\ ClearIN
    /\ StartWait("flushed")
    /\ UNCHANGED <<blocking, byte, IsFull, ret, rx, bus, result, history>>

\* What sendUSBByte does when the flush failed.  Slip: writes all the same.
AfterFailedFlushWrites == "write"
AfterFailedFlush == "idle"

EndFlush ==
    /\ pc = "flushed"
    /\ result' = ~ret
    /\ pc' = IF byte = 0 THEN "idle" ELSE IF ret THEN AfterFailedFlush ELSE "write"
    /\ UNCHANGED <<locals, rx, tx, cur, bus, history, lastLen, ms>>

\* A write without a free bank is lost.
WriteByte ==
    /\ pc = "write" /\ pc' = "idle"
    /\ result' = TRUE
    /\ accepted' = Append(accepted, byte)
    /\ cur' = IF INWriteAllowed THEN Append(cur, byte) ELSE cur
    /\ UNCHANGED <<locals, rx, tx, bus, hostSent, breaks, got, dropped, offered, hostGot,
                   lastLen, ms>>

-----------------------------------------------------------------------------
(* The host and the bus.                                                   *)

HostSends(n) ==
    /\ attached /\ ~suspended /\ "OUT" \notin stalled
    /\ Len(rx) < Banks /\ Within(hostSent + n, offered, halts) # {}
    /\ rx' = Append(rx, [i \in 1..n |-> hostSent + i])
    /\ hostSent' = hostSent + n
    /\ breaks' = IF n = 0 THEN breaks ELSE breaks \cup {hostSent + 1}
    /\ UNCHANGED <<pc, locals, tx, cur, bus, result, got, dropped, offered, accepted, hostGot,
                   lastLen, ms>>

HostReceives ==
    /\ attached /\ ~suspended /\ "IN" \notin stalled /\ tx # <<>>
    /\ hostGot' = hostGot \o Head(tx) /\ tx' = Tail(tx)
    /\ UNCHANGED <<pc, locals, rx, cur, bus, result, hostSent, breaks, got, dropped,
                   offered, accepted, lastLen, ms>>

\* USB_Device_ClearSetFeature, in an interrupt between two steps of the main loop:
\* the host halts an endpoint, ...
Feature ==
    /\ attached /\ ~suspended /\ Within(hostSent, offered, halts + 1) # {}
    /\ halts' = halts + 1

SetHalt(e) ==
    /\ Feature
    /\ stalled' = stalled \cup {e}
    /\ UNCHANGED <<pc, locals, rx, tx, cur, SOFI, attached, suspended, result, history,
                   lastLen, ms>>

\* ... or clears it, halted or not, and with it whatever is in its banks.
ClearHaltOUT ==
    /\ Feature
    /\ stalled' = stalled \ {"OUT"}
    /\ rx' = <<>> /\ dropped' = dropped \cup Waiting(rx) /\ breaks' = breaks \cup Waiting(rx)
    /\ UNCHANGED <<pc, locals, tx, cur, SOFI, attached, suspended, result, hostSent, got,
                   offered, accepted, hostGot, lastLen, ms>>

ClearHaltIN ==
    /\ Feature
    /\ stalled' = stalled \ {"IN"}
    /\ tx' = <<>> /\ cur' = <<>> /\ accepted' = hostGot
    /\ UNCHANGED <<pc, locals, rx, SOFI, attached, suspended, result, hostSent, breaks, got,
                   dropped, offered, hostGot, lastLen, ms>>

StartOfFrame ==
    /\ attached /\ ~suspended
    /\ SOFI' = TRUE
    /\ ms' = IF pc = "wait" /\ ms <= USB_STREAM_TIMEOUT_MS THEN ms + 1 ELSE ms
    /\ UNCHANGED <<pc, locals, rx, tx, cur, attached, suspended, stalled, halts, result, history,
                   lastLen>>

SuspendResume ==
    /\ attached
    /\ suspended' = ~suspended
    /\ UNCHANGED <<pc, locals, rx, tx, cur, SOFI, attached, stalled, halts, result, history,
                   lastLen, ms>>

Disconnect ==
    /\ attached /\ attached' = FALSE
    /\ UNCHANGED <<pc, locals, rx, tx, cur, SOFI, suspended, stalled, halts, result, history,
                   lastLen, ms>>

Caller ==
    \/ CallSend
    \/ CallFlush
    \/ \E s \in Within(hostSent, offered, halts) : \E b \in s.blocking : CallGet(b)

Step ==
    \/ WaitReady \/ WaitDisconnected \/ WaitStalled \/ WaitFrame
    \/ TestOUT \/ ClearEmptyOUT \/ AfterReceived \/ TestByte \/ FetchByte
    \/ TestFull \/ FlushBank \/ SendEmptyPacket \/ EndFlush \/ WriteByte

Next ==
    \/ Caller
    \/ Step
    \/ \E n \in 0..EPSize : HostSends(n)
    \/ HostReceives
    \/ \E e \in {"IN", "OUT"} : SetHalt(e)
    \/ ClearHaltOUT
    \/ ClearHaltIN
    \/ StartOfFrame
    \/ SuspendResume
    \/ Disconnect

Spec == Init /\ [][Next]_vars

\* The code keeps running, and frames keep starting on a bus that is neither
\* suspended nor disconnected.
FairSpec == Spec /\ WF_vars(Step) /\ WF_vars(StartOfFrame)

-----------------------------------------------------------------------------
TypeOK ==
    /\ pc \in {"idle", "wait", "test", "clear", "received", "read", "fetch", "flush", "give",
               "empty", "flushed", "write"}
    /\ back \in {"idle", "received", "empty", "flushed"}
    /\ byte \in 0..offered /\ Within(hostSent, offered, halts) # {}
    /\ {blocking, IsFull, ret, SOFI, attached, suspended, result} \subseteq BOOLEAN
    /\ TimeoutMSRem \in 0..USB_STREAM_TIMEOUT_MS
    /\ Len(rx) <= Banks /\ Len(tx) <= Banks /\ Len(cur) <= EPSize
    /\ lastLen \in 0..EPSize /\ stalled \subseteq {"IN", "OUT"}

\* sendUSBByte returns true for a byte exactly when it is on its way: the host
\* receives the bytes accepted, each once and in order, and those it has not
\* received yet wait in the banks, whatever timed out in between and unless it
\* had them cleared itself.
NothingLost ==
    /\ IsPrefix(hostGot, accepted)
    /\ \A k \in 1..Len(accepted) :
         k > Len(hostGot) => accepted[k] \in Waiting(tx) \cup ToSet(cur)

\* Every byte the host sent is read once, in order, or waits, or was dropped with
\* the whole of its packet: a command line is never read with a hole in it
\* unless a packet began there or the host had the banks cleared.
ReadOrDroppedWhole ==
    /\ \A i \in 1..Len(got) - 1 : got[i] < got[i + 1]
    /\ ToSet(got) \cup Waiting(rx) \cup dropped = 1..hostSent
    /\ (ToSet(got) \cup Waiting(rx)) \cap dropped = {}
    /\ \A b \in 1..hostSent - 1 :
         b + 1 \in breaks \/ (b \in dropped <=> b + 1 \in dropped)

\* WaitUntilReady gives up on an attached host that has not halted the endpoint
\* only after the whole timeout, although the start of frame flag it tests first
\* may be an old one.
TimeoutNotEarly ==
    [][pc = "wait" /\ ~Ready /\ attached /\ ~IsStalled /\ pc' # "wait"
       => ms >= USB_STREAM_TIMEOUT_MS]_vars

\* Every call returns, also when the host neither reads nor writes and whatever
\* it halts, as long as the bus is not left suspended: frames are the only clock of the timeout.  (A
\* blocking read may spin for ever on empty packets; the main loop makes none.)
CallsReturn == <>[](~suspended \/ ~attached) => (pc # "idle" /\ ~blocking ~> pc = "idle")

\* "Send an empty packet to ensure that the host does not buffer data sent to
\* it" (flushSendStream): after a flush that succeeded the last packet is short.
FlushTerminates ==
    [][pc = "flushed" /\ byte = 0 /\ ~ret /\ pc' = "idle" => lastLen < EPSize]_vars

\* "If OUT endpoint empty, clear it" (getUSBByte): a packet is released only
\* when all its bytes were read.
ClearsOnlyEmpty == [][pc = "clear" /\ pc' # "clear" => ~OUTReadAllowed]_vars
=============================================================================
