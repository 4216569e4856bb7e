----------------------------- MODULE Stream_proofs -----------------------------
(***************************************************************************)
(* What the byte stream keeps, for any number and size of banks, every     *)
(* timeout that a uint8_t counts, and any traffic.                         *)
(***************************************************************************)
EXTENDS Stream, TLAPS

-----------------------------------------------------------------------------
(* The timeout.                                                            *)

\* The start of frame flag may have been raised before the wait that finds it.
Seen == IF SOFI THEN 1 ELSE 0

\* The frames of a wait, and those the counter still waits for, make up the timeout, less the
\* one frame that may be an old one.
WaitInv ==
    /\ ms \in Nat /\ TimeoutMSRem \in Nat /\ TimeoutMSRem < 256
    /\ pc = "wait" => \/ ms > USB_STREAM_TIMEOUT_MS
                      \/ ms + TimeoutMSRem + 1 >= USB_STREAM_TIMEOUT_MS + Seen

\* A wait begins with the whole timeout.
LEMMA WaitBegins == ASSUME WaitInv, NEW label, StartWait(label) PROVE WaitInv'
    BY StreamAssumption DEF StreamAssumption, WaitInv, StartWait, Seen

\* A step outside a wait, or one that neither raises the flag nor counts.
LEMMA WaitFrameRule ==
    ASSUME WaitInv, UNCHANGED TimeoutMSRem, ms' \in {ms, 0},
           pc' # "wait" \/ (pc = "wait" /\ ms' = ms /\ UNCHANGED SOFI)
    PROVE  WaitInv'
<1>1. ms' \in Nat /\ TimeoutMSRem' \in Nat /\ TimeoutMSRem' < 256
    BY DEF WaitInv
<1>2. CASE pc' # "wait"
    BY <1>1, <1>2 DEF WaitInv
<1>3. CASE pc = "wait" /\ ms' = ms /\ UNCHANGED SOFI
  <2>1. Seen' = Seen
      BY <1>3 DEF Seen
  <2> QED
      BY <1>1, <1>3, <2>1 DEF WaitInv
<1> QED
    BY <1>2, <1>3

\* Every step keeps the sum.
LEMMA WaitStep == WaitInv /\ [Next]_vars => WaitInv'
<1> SUFFICES ASSUME WaitInv, [Next]_vars PROVE WaitInv'
    OBVIOUS
<1> USE DEF locals, bus, history
<1>1. CASE WaitReady
  <2>1. pc' = "wait" \/ pc' # "wait"
      OBVIOUS
  <2> QED
      BY <1>1, <2>1, WaitFrameRule DEF WaitReady
<1>2. CASE WaitDisconnected \/ WaitStalled
  <2>1. UNCHANGED <<TimeoutMSRem, ms, SOFI>> /\ (pc' # "wait" \/ pc = "wait")
      BY <1>2 DEF WaitDisconnected, WaitStalled
  <2> QED
      BY <2>1, WaitFrameRule DEF WaitDisconnected
<1>3. CASE WaitFrame
  <2>1. pc = "wait" /\ SOFI /\ SOFI' = FALSE /\ ms' = ms
      BY <1>3 DEF WaitFrame
  <2>2. CASE Expired
      BY <1>3, <2>1, <2>2, StreamAssumption
      DEF StreamAssumption, WaitFrame, WaitError, WaitInv, Seen, Expired
  <2>3. CASE ~Expired
    <3>1. TimeoutMSRem' = (TimeoutMSRem - 1) % 256 /\ pc' = pc /\ TimeoutMSRem # 0
        BY <1>3, <2>3 DEF WaitFrame, Decremented, Expired
    <3>2. TimeoutMSRem' = TimeoutMSRem - 1
        BY <3>1 DEF WaitInv
    <3> QED
        BY <2>1, <3>1, <3>2, StreamAssumption DEF StreamAssumption, WaitInv, Seen
  <2> QED
      BY <2>2, <2>3
<1>4. CASE ClearEmptyOUT
  <2>1. CASE pc' = "received" /\ UNCHANGED <<TimeoutMSRem, ms>>
      BY <2>1, WaitFrameRule
  <2>2. CASE StartWait("received")
      BY <2>2, WaitBegins
  <2> QED
      BY <1>4, <2>1, <2>2 DEF ClearEmptyOUT
<1>5. CASE FlushBank \/ SendEmptyPacket
    BY <1>5, WaitBegins DEF FlushBank, SendEmptyPacket
<1>6. CASE TestOUT \/ AfterReceived \/ TestByte \/ FetchByte \/ TestFull \/ EndFlush \/ WriteByte
    BY <1>6, WaitFrameRule
    DEF TestOUT, AfterReceived, TestByte, TestFull, FetchByte, EndFlush, AfterFailedFlush, WriteByte
<1>7. CASE Caller
    BY <1>7, WaitFrameRule DEF Caller, CallSend, CallFlush, CallGet
<1>8. CASE StartOfFrame
    BY <1>8, StreamAssumption DEF StreamAssumption, StartOfFrame, WaitInv, Seen
<1>9. CASE HostReceives \/ SuspendResume \/ Disconnect \/ UNCHANGED vars
    BY <1>9, WaitFrameRule DEF HostReceives, SuspendResume, Disconnect, vars
<1>10. ASSUME NEW n \in 0..EPSize, HostSends(n) PROVE WaitInv'
    BY <1>10, WaitFrameRule DEF HostSends
<1>11. ASSUME NEW e \in {"IN", "OUT"}, SetHalt(e) \/ ClearHaltOUT \/ ClearHaltIN PROVE WaitInv'
    BY <1>11, WaitFrameRule DEF SetHalt, ClearHaltOUT, ClearHaltIN
<1> QED
    BY <1>1, <1>2, <1>3, <1>4, <1>5, <1>6, <1>7, <1>8, <1>9, <1>10, <1>11 DEF Next, Step

\* An attached host that has not halted the endpoint is given up only when the counter has counted the whole timeout.
LEMMA WaitEnds ==
    ASSUME WaitInv, [Next]_vars, pc = "wait", ~Ready, attached, ~IsStalled, pc' # "wait"
    PROVE  ms >= USB_STREAM_TIMEOUT_MS
<1>1. CASE WaitFrame
  <2>1. TimeoutMSRem = 0 /\ SOFI
      BY <1>1 DEF WaitFrame, Expired
  <2> QED
      BY <2>1, StreamAssumption DEF StreamAssumption, WaitInv, Seen
<1>2. CASE ~WaitFrame
    BY <1>2 DEF Next, Step, Caller, CallSend, CallFlush, CallGet, WaitReady, WaitDisconnected,
       WaitStalled, TestOUT, ClearEmptyOUT, AfterReceived, TestByte, TestFull, FetchByte,
       FlushBank, SendEmptyPacket, EndFlush, WriteByte, HostSends, HostReceives, Feature,
       SetHalt, ClearHaltOUT, ClearHaltIN, StartOfFrame, SuspendResume, Disconnect, vars
<1> QED
    BY <1>1, <1>2

\* Although the first start of frame it finds may be an old one, a wait gives the host the whole
\* timeout.
THEOREM TimeoutCorrect == Spec => TimeoutNotEarly
<1>1. Init => WaitInv
    BY DEF Init, WaitInv
<1>2. WaitInv /\ [Next]_vars
      => (pc = "wait" /\ ~Ready /\ attached /\ ~IsStalled /\ pc' # "wait" => ms >= USB_STREAM_TIMEOUT_MS)
    BY WaitEnds
<1> QED
    BY <1>1, <1>2, WaitStep, PTL DEF Spec, TimeoutNotEarly

-----------------------------------------------------------------------------
(* Banks of bytes.                                                         *)

\* What is in the banks after one was filled.
LEMMA BankAdded ==
    ASSUME NEW banks \in Seq(Seq(Nat)), NEW p \in Seq(Nat)
    PROVE  /\ Append(banks, p) \in Seq(Seq(Nat))
           /\ Waiting(Append(banks, p)) = Waiting(banks) \cup ToSet(p)
<1>1. /\ Append(banks, p) \in Seq(Seq(Nat)) /\ Len(Append(banks, p)) = Len(banks) + 1
      /\ Append(banks, p)[Len(banks) + 1] = p
      /\ \A k \in 1..Len(banks) : Append(banks, p)[k] = banks[k]
    OBVIOUS
<1>2. DOMAIN Append(banks, p) = DOMAIN banks \cup {Len(banks) + 1}
    BY <1>1
<1>3. DOMAIN banks = 1..Len(banks)
    OBVIOUS
<1> QED
    BY <1>1, <1>2, <1>3 DEF Waiting

\* ... and after the first was freed.
LEMMA BankFreed ==
    ASSUME NEW banks \in Seq(Seq(Nat)), banks # <<>>
    PROVE  /\ Tail(banks) \in Seq(Seq(Nat)) /\ Head(banks) \in Seq(Nat)
           /\ \A k \in DOMAIN Tail(banks) : k + 1 \in DOMAIN banks /\ Tail(banks)[k] = banks[k + 1]
           /\ Waiting(banks) = ToSet(Head(banks)) \cup Waiting(Tail(banks))
<1>1. /\ Tail(banks) \in Seq(Seq(Nat)) /\ Len(Tail(banks)) = Len(banks) - 1
      /\ Head(banks) = banks[1] /\ Len(banks) \in Nat \ {0} /\ Head(banks) \in Seq(Nat)
      /\ \A k \in 1..Len(banks) - 1 : Tail(banks)[k] = banks[k + 1]
    OBVIOUS
<1>2. DOMAIN banks = 1..Len(banks) /\ DOMAIN Tail(banks) = 1..Len(banks) - 1
    BY <1>1
<1>3. ASSUME NEW x \in Waiting(banks) PROVE x \in ToSet(Head(banks)) \cup Waiting(Tail(banks))
  <2>1. PICK k \in DOMAIN banks : x \in ToSet(banks[k])
      BY <1>3 DEF Waiting
  <2>2. CASE k = 1
      BY <2>1, <2>2, <1>1
  <2>3. CASE k # 1
    <3>1. k - 1 \in DOMAIN Tail(banks) /\ Tail(banks)[k - 1] = banks[k]
        BY <2>1, <2>3, <1>1, <1>2
    <3> QED
        BY <2>1, <3>1 DEF Waiting
  <2> QED
      BY <2>2, <2>3
<1>4. ASSUME NEW x \in Waiting(Tail(banks)) PROVE x \in Waiting(banks)
  <2>1. PICK k \in DOMAIN Tail(banks) : x \in ToSet(Tail(banks)[k])
      BY <1>4 DEF Waiting
  <2> QED
      BY <2>1, <1>1, <1>2 DEF Waiting
<1>5. ToSet(Head(banks)) \subseteq Waiting(banks)
  <2>1. 1 \in DOMAIN banks /\ ToSet(Head(banks)) = ToSet(banks[1])
      BY <1>1, <1>2
  <2> QED
      BY <2>1 DEF Waiting
<1>6. Waiting(banks) = ToSet(Head(banks)) \cup Waiting(Tail(banks))
    BY <1>3, <1>4, <1>5
<1>7. \A k \in DOMAIN Tail(banks) : k + 1 \in DOMAIN banks /\ Tail(banks)[k] = banks[k + 1]
    BY <1>1, <1>2
<1> QED
    BY <1>1, <1>6, <1>7

\* A packet loses its first byte.
LEMMA ByteTaken ==
    ASSUME NEW p \in Seq(Nat), p # <<>>
    PROVE  /\ Tail(p) \in Seq(Nat) /\ Head(p) \in Nat /\ Head(p) = p[1] /\ 1 \in DOMAIN p
           /\ \A i \in DOMAIN Tail(p) : i + 1 \in DOMAIN p /\ i + 1 > 1 /\ Tail(p)[i] = p[i + 1]
           /\ ToSet(p) = {Head(p)} \cup ToSet(Tail(p))
<1>1. /\ Tail(p) \in Seq(Nat) /\ Len(Tail(p)) = Len(p) - 1 /\ Head(p) = p[1]
      /\ Len(p) \in Nat \ {0} /\ \A k \in 1..Len(p) - 1 : Tail(p)[k] = p[k + 1]
    OBVIOUS
<1>2. DOMAIN p = 1..Len(p) /\ DOMAIN Tail(p) = 1..Len(p) - 1
    BY <1>1
<1>3. ASSUME NEW x \in ToSet(p) PROVE x \in {Head(p)} \cup ToSet(Tail(p))
  <2>1. PICK k \in DOMAIN p : x = p[k]
      BY <1>3 DEF ToSet
  <2>2. CASE k = 1
      BY <2>1, <2>2, <1>1
  <2>3. CASE k # 1
    <3>1. k - 1 \in DOMAIN Tail(p) /\ Tail(p)[k - 1] = p[k]
        BY <2>1, <2>3, <1>1, <1>2
    <3> QED
        BY <2>1, <3>1 DEF ToSet
  <2> QED
      BY <2>2, <2>3
<1>4. ASSUME NEW x \in ToSet(Tail(p)) PROVE x \in ToSet(p)
    BY <1>4, <1>1, <1>2 DEF ToSet
<1>5. Head(p) \in ToSet(p) /\ 1 \in DOMAIN p
    BY <1>1, <1>2 DEF ToSet
<1>6. ToSet(p) = {Head(p)} \cup ToSet(Tail(p))
    BY <1>3, <1>4, <1>5
<1>7. \A i \in DOMAIN Tail(p) : i + 1 \in DOMAIN p /\ i + 1 > 1 /\ Tail(p)[i] = p[i + 1]
    BY <1>1, <1>2
<1>8. Head(p) \in Nat
    BY <1>1
<1> QED
    BY <1>1, <1>5, <1>6, <1>7, <1>8

\* A byte is added to a packet.
LEMMA ByteAdded ==
    ASSUME NEW p \in Seq(Nat), NEW x \in Nat
    PROVE  /\ Append(p, x) \in Seq(Nat) /\ Len(Append(p, x)) = Len(p) + 1
           /\ Append(p, x)[Len(p) + 1] = x /\ \A i \in DOMAIN p : Append(p, x)[i] = p[i]
           /\ ToSet(Append(p, x)) = ToSet(p) \cup {x}
<1>1. /\ Append(p, x) \in Seq(Nat) /\ Len(Append(p, x)) = Len(p) + 1
      /\ Append(p, x)[Len(p) + 1] = x /\ \A i \in 1..Len(p) : Append(p, x)[i] = p[i]
    OBVIOUS
<1>2. DOMAIN p = 1..Len(p) /\ DOMAIN Append(p, x) = 1..Len(p) \cup {Len(p) + 1}
    BY <1>1
<1> QED
    BY <1>1, <1>2 DEF ToSet

-----------------------------------------------------------------------------
(* The bytes from the host.                                                *)

\* What a read may count on about the banks: packets hold bytes in the order the host sent them,
\* and so do the packets among themselves.
Ordered ==
    /\ \A k \in DOMAIN rx : \A i, j \in DOMAIN rx[k] : i < j => rx[k][i] < rx[k][j]
    /\ \A k, l \in DOMAIN rx : k < l => \A x \in ToSet(rx[k]), y \in ToSet(rx[l]) : x < y
    /\ \A x \in ToSet(got) \cup dropped, y \in Waiting(rx) : x < y

\* Where a packet ends another begins.
PacketsEnd ==
    \A k \in DOMAIN rx : \A x \in ToSet(rx[k]) :
        x < hostSent => x + 1 \in ToSet(rx[k]) \/ x + 1 \in breaks

\* A packet about to be cleared has not been read from.
ClearedWhole ==
    pc = "clear" /\ rx # <<>> => \A x \in ToSet(Head(rx)) : x \in breaks \/ x - 1 \in ToSet(Head(rx))

ReceivedTypes ==
    /\ rx \in Seq(Seq(Nat)) /\ got \in Seq(Nat) /\ hostSent \in Nat

ReceivedInv == ReceivedTypes /\ Ordered /\ PacketsEnd /\ ClearedWhole /\ ReadOrDroppedWhole

\* Steps that leave the bytes from the host alone.
LEMMA ReceivedFrame ==
    ASSUME ReceivedInv, UNCHANGED <<rx, got, hostSent, breaks, dropped>>, pc' # "clear" \/ pc' = pc
    PROVE  ReceivedInv'
<1>1. ReceivedTypes' /\ PacketsEnd'
    BY DEF ReceivedInv, ReceivedTypes, PacketsEnd
<1>2. Waiting(rx)' = Waiting(rx)
    BY DEF Waiting
<1>3. Ordered' /\ ReadOrDroppedWhole'
    BY <1>2 DEF ReceivedInv, Ordered, ReadOrDroppedWhole
<1>4. ClearedWhole'
    BY DEF ReceivedInv, ClearedWhole
<1> QED
    BY <1>1, <1>3, <1>4 DEF ReceivedInv

\* The test that leads to a clear found nothing, or nothing left, in the bank.
LEMMA ReceivedTest == ASSUME ReceivedInv, TestOUT PROVE ReceivedInv'
<1> USE DEF locals, bus, history
<1>1. UNCHANGED <<rx, got, hostSent, breaks, dropped>>
    BY DEF TestOUT
<1>2. CASE pc' = "clear"
  <2>1. rx = <<>> \/ Head(rx) = <<>>
      BY <1>2 DEF TestOUT, Readable, OUTReadAllowed, OUTReceived
  <2>2. rx # <<>> => ToSet(Head(rx)) = {}
      BY <2>1 DEF ToSet
  <2>3. ReceivedTypes' /\ PacketsEnd'
      BY <1>1 DEF ReceivedInv, ReceivedTypes, PacketsEnd
  <2>4. Waiting(rx)' = Waiting(rx)
      BY <1>1 DEF Waiting
  <2>5. Ordered' /\ ReadOrDroppedWhole'
      BY <1>1, <2>4 DEF ReceivedInv, Ordered, ReadOrDroppedWhole
  <2>6. ClearedWhole'
      BY <1>1, <2>2 DEF ClearedWhole
  <2> QED
      BY <2>3, <2>5, <2>6 DEF ReceivedInv
<1>3. CASE pc' # "clear"
    BY <1>1, <1>3, ReceivedFrame
<1> QED
    BY <1>2, <1>3

\* A clear drops what is left of a packet, which is the whole of it.
LEMMA ReceivedClear == ASSUME ReceivedInv, pc = "clear", ClearEmptyOUT PROVE ReceivedInv'
<1>1. UNCHANGED <<got, hostSent, breaks>> /\ pc' # "clear"
    BY DEF ClearEmptyOUT, StartWait
<1>2. CASE rx = <<>>
  <2>1. UNCHANGED <<rx, dropped>>
      BY <1>2 DEF ClearEmptyOUT, ClearOUT, OUTReceived
  <2> QED
      BY <1>1, <2>1, ReceivedFrame
<1>3. CASE rx # <<>>
  <2>1. rx' = Tail(rx) /\ dropped' = dropped \cup ToSet(Head(rx))
      BY <1>3 DEF ClearEmptyOUT, ClearOUT, OUTReceived
  <2>2. /\ rx \in Seq(Seq(Nat)) /\ rx' \in Seq(Seq(Nat)) /\ Head(rx) \in Seq(Nat) /\ Head(rx) = rx[1]
        /\ 1 \in DOMAIN rx /\ \A k \in DOMAIN rx' : k \in Nat \ {0}
      BY <1>3, <2>1 DEF ReceivedInv, ReceivedTypes
  <2>3. /\ \A k \in DOMAIN rx' : k + 1 \in DOMAIN rx /\ rx'[k] = rx[k + 1]
        /\ Waiting(rx) = ToSet(Head(rx)) \cup Waiting(rx')
      BY <1>3, <2>1, <2>2, BankFreed
  <2>4. \A x \in ToSet(Head(rx)), y \in Waiting(rx') : x < y
    <3> TAKE x \in ToSet(Head(rx)), y \in Waiting(rx')
    <3>1. PICK l \in DOMAIN rx' : y \in ToSet(rx'[l])
        BY DEF Waiting
    <3>2. l + 1 \in DOMAIN rx /\ 1 < l + 1 /\ y \in ToSet(rx[l + 1])
        BY <2>2, <2>3, <3>1
    <3> QED
        BY <2>2, <3>2 DEF ReceivedInv, Ordered
  <2>5. Ordered'
    <3>1. \A k \in DOMAIN rx' : \A i, j \in DOMAIN rx'[k] : i < j => rx'[k][i] < rx'[k][j]
        BY <2>3 DEF ReceivedInv, Ordered
    <3>2. ASSUME NEW k \in DOMAIN rx', NEW l \in DOMAIN rx', k < l,
                 NEW x \in ToSet(rx'[k]), NEW y \in ToSet(rx'[l])
          PROVE  x < y
      <4>1. k + 1 \in DOMAIN rx /\ l + 1 \in DOMAIN rx /\ k + 1 < l + 1
          BY <2>2, <2>3, <3>2
      <4>2. x \in ToSet(rx[k + 1]) /\ y \in ToSet(rx[l + 1])
          BY <2>3, <3>2
      <4> QED
          BY <4>1, <4>2 DEF ReceivedInv, Ordered
    <3>3. \A x \in ToSet(got)' \cup dropped', y \in Waiting(rx') : x < y
        BY <1>1, <2>1, <2>3, <2>4 DEF ReceivedInv, Ordered
    <3> QED
        BY <3>1, <3>2, <3>3 DEF Ordered
  <2>6. PacketsEnd'
      BY <1>1, <2>3 DEF ReceivedInv, PacketsEnd
  <2>7. ReadOrDroppedWhole'
    <3>1. \A x \in ToSet(got), y \in Waiting(rx) : x < y
        BY DEF ReceivedInv, Ordered
    <3>2. \A x \in Waiting(rx) : x \in Nat
        BY DEF ReceivedInv, ReceivedTypes, ReadOrDroppedWhole
    <3>3. ToSet(got) \cap ToSet(Head(rx)) = {} /\ Waiting(rx') \cap ToSet(Head(rx)) = {}
        BY <2>3, <2>4, <3>1, <3>2
    <3>4. /\ ToSet(got)' \cup Waiting(rx') \cup dropped' = 1..hostSent'
          /\ (ToSet(got)' \cup Waiting(rx')) \cap dropped' = {}
        BY <1>1, <2>1, <2>3, <3>3 DEF ReceivedInv, ReadOrDroppedWhole
    <3>5. ASSUME NEW b \in 1..hostSent - 1, b + 1 \notin breaks
          PROVE  b \in dropped' <=> b + 1 \in dropped'
      <4>1. b \in dropped <=> b + 1 \in dropped
          BY <3>5 DEF ReceivedInv, ReadOrDroppedWhole
      <4>2. b \in ToSet(Head(rx)) => b + 1 \in ToSet(Head(rx))
          BY <2>2, <3>5 DEF ReceivedInv, ReceivedTypes, PacketsEnd
      <4>3. (b + 1) - 1 = b
          OBVIOUS
      <4>4. b + 1 \in ToSet(Head(rx)) => b \in ToSet(Head(rx))
          BY <1>3, <3>5, <4>3 DEF ReceivedInv, ClearedWhole
      <4> QED
          BY <2>1, <4>1, <4>2, <4>4
    <3>6. \A i \in 1..Len(got') - 1 : got'[i] < got'[i + 1]
        BY <1>1 DEF ReceivedInv, ReadOrDroppedWhole
    <3> QED
        BY <1>1, <3>4, <3>5, <3>6 DEF ReadOrDroppedWhole
  <2>8. ReceivedTypes' /\ ClearedWhole'
      BY <1>1, <2>2 DEF ReceivedInv, ReceivedTypes, ClearedWhole
  <2> QED
      BY <2>5, <2>6, <2>7, <2>8 DEF ReceivedInv
<1> QED
    BY <1>2, <1>3

\* The host's packet begins where the last one ended, and is the last one.
LEMMA ReceivedSent == ASSUME ReceivedInv, NEW n \in 0..EPSize, HostSends(n) PROVE ReceivedInv'
<1> DEFINE p == [i \in 1..n |-> hostSent + i]
<1>1. /\ rx' = Append(rx, p) /\ hostSent' = hostSent + n /\ UNCHANGED <<got, dropped, pc>>
      /\ breaks' = IF n = 0 THEN breaks ELSE breaks \cup {hostSent + 1}
    BY DEF HostSends, locals, bus
<1>2. n \in Nat /\ hostSent \in Nat /\ rx \in Seq(Seq(Nat)) /\ got \in Seq(Nat)
    BY StreamAssumption DEF StreamAssumption, ReceivedInv, ReceivedTypes
<1>3. p \in Seq(Nat) /\ DOMAIN p = 1..n /\ \A i \in 1..n : p[i] = hostSent + i
    BY <1>2
<1>4. ToSet(p) = hostSent + 1 .. hostSent + n
  <2>1. ASSUME NEW x \in hostSent + 1 .. hostSent + n PROVE x \in ToSet(p)
    <3>1. x - hostSent \in 1..n /\ p[x - hostSent] = x
        BY <1>2, <1>3
    <3> QED
        BY <1>3, <3>1 DEF ToSet
  <2>2. ASSUME NEW x \in ToSet(p) PROVE x \in hostSent + 1 .. hostSent + n
      BY <1>2, <1>3 DEF ToSet
  <2> QED
      BY <2>1, <2>2
<1> HIDE DEF p
<1>5. /\ rx' \in Seq(Seq(Nat)) /\ Waiting(rx') = Waiting(rx) \cup ToSet(p)
    BY <1>1, <1>2, <1>3, BankAdded
<1>6. /\ DOMAIN rx' = DOMAIN rx \cup {Len(rx) + 1} /\ rx'[Len(rx) + 1] = p
      /\ \A k \in DOMAIN rx : rx'[k] = rx[k] /\ k \in Nat /\ k < Len(rx) + 1
  <2>1. /\ Len(rx') = Len(rx) + 1 /\ rx'[Len(rx) + 1] = p /\ \A k \in 1..Len(rx) : rx'[k] = rx[k]
      BY <1>1, <1>2, <1>3
  <2>2. DOMAIN rx = 1..Len(rx) /\ DOMAIN rx' = 1..Len(rx') /\ Len(rx) \in Nat
      BY <1>2, <1>5
  <2> QED
      BY <2>1, <2>2
<1>7. \A x \in ToSet(got) \cup Waiting(rx) \cup dropped : x \in 1..hostSent
    BY DEF ReceivedInv, ReadOrDroppedWhole
<1>8. \A k \in DOMAIN rx : ToSet(rx[k]) \subseteq 1..hostSent
    BY <1>7 DEF Waiting
<1>9. Ordered'
  <2>1. ASSUME NEW k \in DOMAIN rx', NEW i \in DOMAIN rx'[k], NEW j \in DOMAIN rx'[k], i < j
        PROVE  rx'[k][i] < rx'[k][j]
    <3>1. CASE k \in DOMAIN rx
        BY <1>6, <2>1, <3>1 DEF ReceivedInv, Ordered
    <3>2. CASE k = Len(rx) + 1
        BY <1>2, <1>3, <1>6, <2>1, <3>2
    <3> QED
        BY <1>6, <3>1, <3>2
  <2>2. ASSUME NEW k \in DOMAIN rx', NEW l \in DOMAIN rx', k < l,
               NEW x \in ToSet(rx'[k]), NEW y \in ToSet(rx'[l])
        PROVE  x < y
    <3>1. k \in DOMAIN rx /\ x \in ToSet(rx[k])
      <4>1. Len(rx) \in Nat
          BY <1>2
      <4> QED
          BY <1>6, <2>2, <4>1
    <3>2. CASE l \in DOMAIN rx
        BY <1>6, <2>2, <3>1, <3>2 DEF ReceivedInv, Ordered
    <3>3. CASE l = Len(rx) + 1
      <4>1. x \in 1..hostSent /\ y \in hostSent + 1 .. hostSent + n
          BY <1>4, <1>6, <1>8, <2>2, <3>1, <3>3
      <4> QED
          BY <1>2, <4>1
    <3> QED
        BY <1>6, <3>2, <3>3
  <2>3. ASSUME NEW x \in ToSet(got) \cup dropped, NEW y \in Waiting(rx) \cup ToSet(p)
        PROVE  x < y
    <3>1. CASE y \in Waiting(rx)
        BY <2>3, <3>1 DEF ReceivedInv, Ordered
    <3>2. CASE y \in ToSet(p)
        BY <1>2, <1>4, <1>7, <2>3, <3>2
    <3> QED
        BY <2>3, <3>1, <3>2
  <2> QED
      BY <1>1, <1>5, <2>1, <2>2, <2>3 DEF Ordered
<1>10. PacketsEnd'
  <2> SUFFICES ASSUME NEW k \in DOMAIN rx', NEW x \in ToSet(rx'[k]), x < hostSent + n
               PROVE  x + 1 \in ToSet(rx'[k]) \/ x + 1 \in breaks'
      BY <1>1 DEF PacketsEnd
  <2>1. CASE k \in DOMAIN rx /\ x < hostSent
      BY <1>1, <1>6, <2>1 DEF ReceivedInv, PacketsEnd
  <2>2. CASE k \in DOMAIN rx /\ ~(x < hostSent)
    <3>1. x \in 1..hostSent
        BY <1>6, <1>8, <2>2
    <3>2. x = hostSent /\ n # 0
        BY <1>2, <2>2, <3>1
    <3> QED
        BY <1>1, <3>2
  <2>3. CASE k = Len(rx) + 1
    <3>1. x \in hostSent + 1 .. hostSent + n
        BY <1>4, <1>6, <2>3
    <3>2. x + 1 \in hostSent + 1 .. hostSent + n
        BY <1>2, <3>1
    <3> QED
        BY <1>4, <1>6, <2>3, <3>2
  <2> QED
      BY <1>6, <2>1, <2>2, <2>3
<1>11. ClearedWhole'
  <2> SUFFICES ASSUME pc = "clear", NEW x \in ToSet(Head(rx'))
               PROVE  x \in breaks' \/ x - 1 \in ToSet(Head(rx'))
      BY <1>1 DEF ClearedWhole
  <2>1. CASE rx # <<>>
    <3>1. Head(rx') = Head(rx)
        BY <1>1, <1>2, <1>3, <2>1
    <3> QED
        BY <1>1, <2>1, <3>1 DEF ReceivedInv, ClearedWhole
  <2>2. CASE rx = <<>>
    <3>1. Head(rx') = p
        BY <1>1, <1>2, <1>3, <2>2
    <3>2. x \in hostSent + 1 .. hostSent + n
        BY <1>4, <3>1
    <3>3. CASE x = hostSent + 1
        BY <1>1, <1>2, <3>2, <3>3
    <3>4. CASE x # hostSent + 1
      <4>1. x - 1 \in hostSent + 1 .. hostSent + n
          BY <1>2, <3>2, <3>4
      <4> QED
          BY <1>4, <3>1, <4>1
    <3> QED
        BY <3>3, <3>4
  <2> QED
      BY <2>1, <2>2
<1>12. ReadOrDroppedWhole'
  <2>1. 1..hostSent' = 1..hostSent \cup ToSet(p)
      BY <1>1, <1>2, <1>4
  <2>2. ToSet(p) \cap dropped = {}
      BY <1>2, <1>4, <1>7
  <2>3. /\ ToSet(got) \cup Waiting(rx') \cup dropped = 1..hostSent'
        /\ (ToSet(got) \cup Waiting(rx')) \cap dropped = {}
      BY <1>5, <2>1, <2>2 DEF ReceivedInv, ReadOrDroppedWhole
  <2>4. ASSUME NEW b \in 1..hostSent' - 1 PROVE b + 1 \in breaks' \/ (b \in dropped <=> b + 1 \in dropped)
    <3>1. CASE b < hostSent
      <4>1. b \in 1..hostSent - 1
          BY <1>1, <1>2, <2>4, <3>1
      <4>2. b + 1 \in breaks \/ (b \in dropped <=> b + 1 \in dropped)
          BY <4>1 DEF ReceivedInv, ReadOrDroppedWhole
      <4> QED
          BY <1>1, <4>2
    <3>2. CASE b = hostSent
        BY <1>1, <1>2, <2>4, <3>2
    <3>3. CASE b > hostSent
      <4>1. b \notin 1..hostSent /\ b + 1 \notin 1..hostSent
          BY <1>1, <1>2, <2>4, <3>3
      <4> QED
          BY <1>7, <4>1
    <3> QED
        BY <1>1, <1>2, <2>4, <3>1, <3>2, <3>3
  <2>5. \A i \in 1..Len(got) - 1 : got[i] < got[i + 1]
      BY DEF ReceivedInv, ReadOrDroppedWhole
  <2> QED
      BY <1>1, <2>3, <2>4, <2>5 DEF ReadOrDroppedWhole
<1>13. ReceivedTypes'
    BY <1>1, <1>2, <1>5 DEF ReceivedTypes
<1> QED
    BY <1>9, <1>10, <1>11, <1>12, <1>13 DEF ReceivedInv

\* A read takes the smallest of the bytes that wait.
LEMMA ReceivedRead == ASSUME ReceivedInv, FetchByte PROVE ReceivedInv'
<1>1. UNCHANGED <<hostSent, breaks, dropped>> /\ pc' = "idle"
    BY DEF FetchByte
<1>2. CASE ~OUTReadAllowed
  <2>1. UNCHANGED <<got, rx>>
      BY <1>2 DEF FetchByte
  <2> QED
      BY <1>1, <2>1, ReceivedFrame
<1>3. CASE OUTReadAllowed
  <2> DEFINE h == Head(Head(rx))
  <2>1. got' = Append(got, h) /\ rx' = [rx EXCEPT ![1] = Tail(@)]
      BY <1>3 DEF FetchByte
  <2>2. /\ rx \in Seq(Seq(Nat)) /\ got \in Seq(Nat) /\ hostSent \in Nat
        /\ rx # <<>> /\ Head(rx) = rx[1] /\ rx[1] # <<>> /\ 1 \in DOMAIN rx /\ rx[1] \in Seq(Nat)
      BY <1>3 DEF OUTReadAllowed, OUTReceived, ReceivedInv, ReceivedTypes
  <2>3. /\ Tail(rx[1]) \in Seq(Nat) /\ h \in Nat /\ h = rx[1][1] /\ 1 \in DOMAIN rx[1]
        /\ \A i \in DOMAIN Tail(rx[1]) : i + 1 \in DOMAIN rx[1] /\ i + 1 > 1 /\ Tail(rx[1])[i] = rx[1][i + 1]
        /\ ToSet(rx[1]) = {h} \cup ToSet(Tail(rx[1]))
        /\ \A i \in DOMAIN Tail(rx[1]) : i \in Nat
      BY <2>2, ByteTaken
  <2>4. /\ rx' \in Seq(Seq(Nat)) /\ DOMAIN rx' = DOMAIN rx /\ rx'[1] = Tail(rx[1])
        /\ \A k \in DOMAIN rx : k # 1 => rx'[k] = rx[k]
        /\ \A k \in DOMAIN rx : k \in Nat \ {0}
      BY <2>1, <2>2, <2>3
  <2> HIDE DEF h
  <2>5. \A k \in DOMAIN rx : ToSet(rx'[k]) \subseteq ToSet(rx[k])
      BY <2>3, <2>4
  <2>6. Waiting(rx) = {h} \cup Waiting(rx')
    <3>1. ASSUME NEW x \in Waiting(rx) PROVE x = h \/ x \in Waiting(rx')
      <4>1. PICK k \in DOMAIN rx : x \in ToSet(rx[k])
          BY <3>1 DEF Waiting
      <4>2. x = h \/ x \in ToSet(rx'[k])
          BY <2>3, <2>4, <4>1
      <4> QED
          BY <2>4, <4>1, <4>2 DEF Waiting
    <3>2. ASSUME NEW x \in Waiting(rx') PROVE x \in Waiting(rx)
      <4>1. PICK k \in DOMAIN rx' : x \in ToSet(rx'[k])
          BY <3>2 DEF Waiting
      <4> QED
          BY <2>4, <2>5, <4>1 DEF Waiting
    <3>3. h \in Waiting(rx)
        BY <2>2, <2>3 DEF Waiting
    <3> QED
        BY <3>1, <3>2, <3>3
  <2>7. \A y \in Waiting(rx') : h < y
    <3> TAKE y \in Waiting(rx')
    <3>1. PICK k \in DOMAIN rx' : y \in ToSet(rx'[k])
        BY DEF Waiting
    <3>2. CASE k = 1
      <4>1. PICK i \in DOMAIN Tail(rx[1]) : y = Tail(rx[1])[i]
          BY <2>4, <3>1, <3>2 DEF ToSet
      <4> QED
          BY <2>2, <2>3, <4>1 DEF ReceivedInv, Ordered
    <3>3. CASE k # 1
      <4>1. k \in DOMAIN rx /\ 1 < k /\ y \in ToSet(rx[k]) /\ h \in ToSet(rx[1])
          BY <2>3, <2>4, <3>1, <3>3
      <4> QED
          BY <2>2, <4>1 DEF ReceivedInv, Ordered
    <3> QED
        BY <3>2, <3>3
  <2>8. /\ Len(got') = Len(got) + 1 /\ got'[Len(got) + 1] = h /\ got' \in Seq(Nat)
        /\ \A i \in DOMAIN got : got'[i] = got[i]
        /\ ToSet(got') = ToSet(got) \cup {h} /\ DOMAIN got = 1..Len(got) /\ Len(got) \in Nat
      BY <2>1, <2>2, <2>3, ByteAdded
  <2>9. Ordered'
    <3>1. ASSUME NEW k \in DOMAIN rx', NEW i \in DOMAIN rx'[k], NEW j \in DOMAIN rx'[k], i < j
          PROVE  rx'[k][i] < rx'[k][j]
      <4>1. CASE k = 1
        <5>1. i \in DOMAIN Tail(rx[1]) /\ j \in DOMAIN Tail(rx[1])
            BY <2>4, <3>1, <4>1
        <5>2. i + 1 \in DOMAIN rx[1] /\ j + 1 \in DOMAIN rx[1] /\ i + 1 < j + 1
            BY <2>3, <3>1, <5>1
        <5>3. rx[1][i + 1] < rx[1][j + 1]
            BY <2>2, <5>2 DEF ReceivedInv, Ordered
        <5> QED
            BY <2>3, <2>4, <4>1, <5>1, <5>3
      <4>2. CASE k # 1
          BY <2>4, <3>1, <4>2 DEF ReceivedInv, Ordered
      <4> QED
          BY <4>1, <4>2
    <3>2. ASSUME NEW k \in DOMAIN rx', NEW l \in DOMAIN rx', k < l,
                 NEW x \in ToSet(rx'[k]), NEW y \in ToSet(rx'[l])
          PROVE  x < y
        BY <2>4, <2>5, <3>2 DEF ReceivedInv, Ordered
    <3>3. ASSUME NEW x \in ToSet(got') \cup dropped', NEW y \in Waiting(rx') PROVE x < y
      <4>1. CASE x = h
          BY <2>7, <3>3, <4>1
      <4>2. CASE x # h
          BY <1>1, <2>6, <2>8, <3>3, <4>2 DEF ReceivedInv, Ordered
      <4> QED
          BY <4>1, <4>2
    <3> QED
        BY <3>1, <3>2, <3>3 DEF Ordered
  <2>10. PacketsEnd'
    <3> SUFFICES ASSUME NEW k \in DOMAIN rx', NEW x \in ToSet(rx'[k]), x < hostSent
                 PROVE  x + 1 \in ToSet(rx'[k]) \/ x + 1 \in breaks
        BY <1>1 DEF PacketsEnd
    <3>1. x + 1 \in ToSet(rx[k]) \/ x + 1 \in breaks
        BY <2>4, <2>5 DEF ReceivedInv, PacketsEnd
    <3>2. CASE k # 1
        BY <2>4, <3>1, <3>2
    <3>3. CASE k = 1
      <4>1. h < x
          BY <2>4, <2>7 DEF Waiting
      <4>2. x \in 1..hostSent
        <5>1. x \in Waiting(rx)
            BY <2>4, <2>5 DEF Waiting
        <5> QED
            BY <5>1 DEF ReceivedInv, ReadOrDroppedWhole
      <4>3. x + 1 # h
          BY <2>2, <2>3, <4>1, <4>2
      <4> QED
          BY <2>3, <2>4, <3>1, <3>3, <4>3
    <3> QED
        BY <3>2, <3>3
  <2>11. ReadOrDroppedWhole'
    <3>1. \A i \in 1..Len(got') - 1 : got'[i] < got'[i + 1]
      <4> TAKE i \in 1..Len(got') - 1
      <4>1. CASE i = Len(got)
        <5>1. i \in DOMAIN got /\ h \in Waiting(rx)
          <6>1. i \in 1..Len(got)
              BY <2>8, <4>1
          <6> QED
              BY <2>6, <2>8, <6>1
        <5>2. got[i] \in ToSet(got)
            BY <5>1 DEF ToSet
        <5>3. got[i] < h
            BY <5>1, <5>2 DEF ReceivedInv, Ordered
        <5> QED
            BY <2>8, <4>1, <5>1, <5>3
      <4>2. CASE i # Len(got)
        <5>1. Len(got) \in Nat /\ i \in 1..Len(got)
            BY <2>8
        <5>2. i \in 1..Len(got) - 1 /\ i + 1 \in 1..Len(got)
            BY <4>2, <5>1
        <5>3. got'[i] = got[i] /\ got'[i + 1] = got[i + 1]
            BY <2>8, <5>1, <5>2
        <5> QED
            BY <5>2, <5>3 DEF ReceivedInv, ReadOrDroppedWhole
      <4> QED
          BY <4>1, <4>2
    <3>2. /\ ToSet(got') \cup Waiting(rx') \cup dropped' = 1..hostSent'
          /\ (ToSet(got') \cup Waiting(rx')) \cap dropped' = {}
        BY <1>1, <2>6, <2>8 DEF ReceivedInv, ReadOrDroppedWhole
    <3>3. \A b \in 1..hostSent' - 1 : b + 1 \in breaks' \/ (b \in dropped' <=> b + 1 \in dropped')
        BY <1>1 DEF ReceivedInv, ReadOrDroppedWhole
    <3> QED
        BY <3>1, <3>2, <3>3 DEF ReadOrDroppedWhole
  <2>12. ReceivedTypes' /\ ClearedWhole'
      BY <1>1, <2>2, <2>4, <2>8 DEF ReceivedTypes, ClearedWhole
  <2> QED
      BY <2>9, <2>10, <2>11, <2>12 DEF ReceivedInv
<1> QED
    BY <1>2, <1>3

\* The host has the endpoint cleared: what is lost is the rest of the packets in its banks.
LEMMA ReceivedCleared == ASSUME ReceivedInv, ClearHaltOUT PROVE ReceivedInv'
<1>1. /\ rx' = <<>> /\ dropped' = dropped \cup Waiting(rx) /\ breaks' = breaks \cup Waiting(rx)
      /\ UNCHANGED <<got, hostSent, pc>>
    BY DEF ClearHaltOUT
<1>2. Waiting(rx') = {} /\ DOMAIN rx' = {} /\ rx' \in Seq(Seq(Nat))
    BY <1>1 DEF Waiting
<1>3. ReceivedTypes' /\ Ordered' /\ PacketsEnd' /\ ClearedWhole'
    BY <1>1, <1>2 DEF ReceivedInv, ReceivedTypes, Ordered, PacketsEnd, ClearedWhole
<1>4. \A x \in ToSet(got), y \in Waiting(rx) : x < y
    BY DEF ReceivedInv, Ordered
<1>5. ToSet(got) \cup Waiting(rx) \cup dropped = 1..hostSent /\ hostSent \in Nat
    BY DEF ReceivedInv, ReceivedTypes, ReadOrDroppedWhole
<1>6. ToSet(got) \cap Waiting(rx) = {}
  <2>1. \A x \in Waiting(rx) : x \in Nat
      BY <1>5
  <2> QED
      BY <1>4, <2>1
<1>7. /\ ToSet(got)' \cup Waiting(rx') \cup dropped' = 1..hostSent'
      /\ (ToSet(got)' \cup Waiting(rx')) \cap dropped' = {}
    BY <1>1, <1>2, <1>5, <1>6 DEF ReceivedInv, ReadOrDroppedWhole
<1>8. ASSUME NEW b \in 1..hostSent - 1, b + 1 \notin breaks, b + 1 \notin Waiting(rx)
      PROVE  b \in dropped' <=> b + 1 \in dropped'
  <2>1. b \in dropped <=> b + 1 \in dropped
      BY <1>8 DEF ReceivedInv, ReadOrDroppedWhole
  <2>2. b \notin Waiting(rx)
    <3> SUFFICES ASSUME b \in Waiting(rx) PROVE FALSE
        OBVIOUS
    <3>1. PICK k \in DOMAIN rx : b \in ToSet(rx[k])
        BY DEF Waiting
    <3>2. b + 1 \in ToSet(rx[k])
        BY <1>5, <1>8, <3>1 DEF ReceivedInv, PacketsEnd
    <3> QED
        BY <1>8, <3>1, <3>2 DEF Waiting
  <2> QED
      BY <1>1, <1>8, <2>1, <2>2
<1>9. \A i \in 1..Len(got') - 1 : got'[i] < got'[i + 1]
    BY <1>1 DEF ReceivedInv, ReadOrDroppedWhole
<1>10. ReadOrDroppedWhole'
    BY <1>1, <1>7, <1>8, <1>9 DEF ReadOrDroppedWhole
<1> QED
    BY <1>3, <1>10 DEF ReceivedInv

\* Where a wait may return to.
Labels == back \in {"idle", "received", "empty", "flushed"}

\* Every step keeps the labels.
LEMMA LabelsStep == Labels /\ [Next]_vars => Labels'
    BY DEF Labels, Next, Step, Caller, CallSend, CallFlush, CallGet, WaitReady,
       WaitDisconnected, WaitStalled, WaitFrame, TestOUT, ClearEmptyOUT, AfterReceived,
       TestByte, TestFull, FetchByte, FlushBank, SendEmptyPacket, EndFlush, WriteByte,
       HostSends, HostReceives, Feature, SetHalt, ClearHaltOUT, ClearHaltIN, StartOfFrame,
       SuspendResume, Disconnect, StartWait, vars, locals

\* Every step keeps the bytes from the host in order.
LEMMA ReceivedStep == ReceivedInv /\ Labels /\ [Next]_vars => ReceivedInv'
<1> SUFFICES ASSUME ReceivedInv, Labels, [Next]_vars PROVE ReceivedInv'
    OBVIOUS
<1> USE DEF locals, bus, history
<1>1. CASE TestOUT
    BY <1>1, ReceivedTest
<1>2. CASE ClearEmptyOUT
    BY <1>2, ReceivedClear DEF ClearEmptyOUT
<1>3. CASE FetchByte
    BY <1>3, ReceivedRead
<1>4. ASSUME NEW n \in 0..EPSize, HostSends(n) PROVE ReceivedInv'
    BY <1>4, ReceivedSent
<1>5. CASE WaitReady \/ WaitDisconnected \/ WaitStalled \/ WaitFrame
  <2>1. UNCHANGED <<rx, got, hostSent, breaks, dropped>>
      BY <1>5 DEF WaitReady, WaitDisconnected, WaitStalled, WaitFrame
  <2>2. pc' = pc \/ pc' # "clear"
      BY <1>5 DEF Labels, WaitReady, WaitDisconnected, WaitStalled, WaitFrame, WaitError
  <2> QED
      BY <2>1, <2>2, ReceivedFrame
<1>6. CASE AfterReceived \/ TestByte \/ TestFull \/ FlushBank \/ SendEmptyPacket \/ EndFlush \/ WriteByte
    BY <1>6, ReceivedFrame
    DEF AfterReceived, TestByte, TestFull, FlushBank, SendEmptyPacket, StartWait, EndFlush,
       AfterFailedFlush, WriteByte
<1>7. CASE Caller
    BY <1>7, ReceivedFrame DEF Caller, CallSend, CallFlush, CallGet
<1>8. CASE HostReceives \/ StartOfFrame \/ SuspendResume \/ Disconnect \/ UNCHANGED vars
    BY <1>8, ReceivedFrame DEF HostReceives, StartOfFrame, SuspendResume, Disconnect, vars
<1>9. ASSUME NEW e \in {"IN", "OUT"}, SetHalt(e) \/ ClearHaltIN PROVE ReceivedInv'
    BY <1>9, ReceivedFrame DEF SetHalt, ClearHaltIN
<1>10. CASE ClearHaltOUT
    BY <1>10, ReceivedCleared
<1> QED
    BY <1>1, <1>2, <1>3, <1>4, <1>5, <1>6, <1>7, <1>8, <1>9, <1>10 DEF Next, Step

\* Nothing was received at first.
LEMMA ReceivedInit == Init => ReceivedInv /\ Labels
<1> SUFFICES ASSUME Init PROVE ReceivedInv /\ Labels
    OBVIOUS
<1>1. back = "idle" /\ rx = <<>> /\ got = <<>> /\ hostSent = 0 /\ breaks = {} /\ dropped = {} /\ pc = "idle"
    BY DEF Init
<1>2. ToSet(got) = {} /\ Waiting(rx) = {} /\ DOMAIN rx = {}
    BY <1>1 DEF ToSet, Waiting
<1> QED
    BY <1>1, <1>2 DEF Labels, ReceivedInv, ReceivedTypes, Ordered, PacketsEnd, ClearedWhole,
       ReadOrDroppedWhole

\* Bytes from the host are read once and in order, and a packet that the clear takes unread is
\* lost whole, for any traffic and any number and size of banks.
THEOREM ReceiveCorrect == Spec => []ReadOrDroppedWhole
<1>1. Init => ReceivedInv /\ Labels
    BY ReceivedInit
<1>2. ReceivedInv => ReadOrDroppedWhole
    BY DEF ReceivedInv
<1> QED
    BY <1>1, <1>2, LabelsStep, ReceivedStep, PTL DEF Spec

-----------------------------------------------------------------------------
(* The bytes to the host.                                                  *)

\* Where the banks of the IN endpoint stand in the stream: bank k begins after byte base[k] of the
\* accepted ones, and the bank being filled after the last.
Places(base) ==
    /\ base \in [1..Len(tx) + 1 -> Nat]
    /\ base[1] = Len(hostGot)
    /\ \A k \in 1..Len(tx) : base[k + 1] = base[k] + Len(tx[k])
    /\ \A k \in 1..Len(tx) : \A i \in 1..Len(tx[k]) :
         base[k] + i <= Len(accepted) /\ tx[k][i] = accepted[base[k] + i]
    /\ Len(accepted) = base[Len(tx) + 1] + Len(cur)
    /\ \A i \in 1..Len(cur) : cur[i] = accepted[base[Len(tx) + 1] + i]

SentTypes ==
    /\ tx \in Seq(Seq(Nat)) /\ cur \in Seq(Nat) /\ hostGot \in Seq(Nat) /\ accepted \in Seq(Nat)

\* The host has the first of the accepted bytes, and those it has not are in the banks.
Delivered ==
    /\ Len(hostGot) <= Len(accepted)
    /\ \A i \in 1..Len(hostGot) : hostGot[i] = accepted[i]
    /\ \A k \in 1..Len(accepted) : k > Len(hostGot) => accepted[k] \in Waiting(tx) \cup ToSet(cur)

\* No byte is accepted twice.
Once == \A i, j \in 1..Len(accepted) : accepted[i] = accepted[j] => i = j

SentInv == SentTypes /\ Delivered /\ Once /\ \E base : Places(base)

\* A bank is given to the host.
LEMMA SentClear == ASSUME SentInv, ClearIN, UNCHANGED <<hostGot, accepted>> PROVE SentInv'
<1>1. CASE ~INReady
  <2>1. UNCHANGED <<tx, cur>>
      BY <1>1 DEF ClearIN
  <2>2. Waiting(tx)' = Waiting(tx)
      BY <2>1 DEF Waiting
  <2>3. SentTypes' /\ Delivered' /\ Once'
      BY <2>1, <2>2 DEF SentInv, SentTypes, Delivered, Once
  <2>4. \A base : Places(base) => Places(base)'
      BY <2>1 DEF Places
  <2> QED
      BY <2>3, <2>4 DEF SentInv
<1>2. CASE INReady
  <2>1. tx' = Append(tx, cur) /\ cur' = <<>>
      BY <1>2 DEF ClearIN
  <2>2. tx \in Seq(Seq(Nat)) /\ cur \in Seq(Nat) /\ hostGot \in Seq(Nat) /\ accepted \in Seq(Nat)
      BY DEF SentInv, SentTypes
  <2>3. /\ tx' \in Seq(Seq(Nat)) /\ Waiting(tx') = Waiting(tx) \cup ToSet(cur)
      BY <2>1, <2>2, BankAdded
  <2>4. /\ Len(tx) \in Nat /\ Len(tx') = Len(tx) + 1 /\ tx'[Len(tx) + 1] = cur
        /\ \A k \in 1..Len(tx) : tx'[k] = tx[k]
      BY <2>1, <2>2
  <2>5. cur' \in Seq(Nat) /\ Len(cur') = 0 /\ ToSet(cur') = {}
      BY <2>1 DEF ToSet
  <2>6. SentTypes' /\ Once'
      BY <2>2, <2>3, <2>5 DEF SentInv, SentTypes, Once
  <2>7. Delivered'
      BY <2>3, <2>5 DEF SentInv, Delivered
  <2>8. PICK base : Places(base)
      BY DEF SentInv
  <2>8a. PICK next : next = [k \in 1..Len(tx) + 2 |->
                              IF k <= Len(tx) + 1 THEN base[k] ELSE Len(accepted)]
      OBVIOUS
  <2>9. /\ base \in [1..Len(tx) + 1 -> Nat] /\ Len(accepted) = base[Len(tx) + 1] + Len(cur)
        /\ Len(accepted) \in Nat /\ Len(cur) \in Nat
      BY <2>2, <2>8 DEF Places
  <2>10. /\ next \in [1..Len(tx') + 1 -> Nat] /\ next[Len(tx) + 2] = Len(accepted)
         /\ \A k \in 1..Len(tx) + 1 : next[k] = base[k]
      BY <2>4, <2>9, <2>8a
  <2>11. next[1] = Len(hostGot)
      BY <2>4, <2>8, <2>10 DEF Places
  <2>12. ASSUME NEW k \in 1..Len(tx')
         PROVE  /\ next[k + 1] = next[k] + Len(tx'[k])
                /\ \A i \in 1..Len(tx'[k]) :
                     next[k] + i <= Len(accepted) /\ tx'[k][i] = accepted[next[k] + i]
    <3>1. CASE k = Len(tx) + 1
      <4>1. next[k] = base[Len(tx) + 1] /\ next[k + 1] = Len(accepted) /\ tx'[k] = cur
          BY <2>4, <2>10, <3>1
      <4>2. base[Len(tx) + 1] \in Nat
          BY <2>4, <2>9
      <4> QED
          BY <2>8, <2>9, <4>1, <4>2 DEF Places
    <3>2. CASE k # Len(tx) + 1
      <4>1. k \in 1..Len(tx) /\ k \in 1..Len(tx) + 1 /\ k + 1 \in 1..Len(tx) + 1
          BY <2>4, <3>2
      <4>2. next[k] = base[k] /\ next[k + 1] = base[k + 1] /\ tx'[k] = tx[k]
          BY <2>4, <2>10, <4>1
      <4> QED
          BY <2>8, <4>1, <4>2 DEF Places
    <3> QED
        BY <3>1, <3>2
  <2>13. Places(next)'
      BY <2>4, <2>5, <2>9, <2>10, <2>11, <2>12 DEF Places
  <2> QED
      BY <2>6, <2>7, <2>13 DEF SentInv
<1> QED
    BY <1>1, <1>2

\* The host takes the oldest bank.
LEMMA SentReceived == ASSUME SentInv, HostReceives PROVE SentInv'
<1>1. /\ tx # <<>> /\ hostGot' = hostGot \o Head(tx) /\ tx' = Tail(tx)
      /\ UNCHANGED <<cur, accepted>>
    BY DEF HostReceives
<1>2. tx \in Seq(Seq(Nat)) /\ cur \in Seq(Nat) /\ hostGot \in Seq(Nat) /\ accepted \in Seq(Nat)
    BY DEF SentInv, SentTypes
<1>3. /\ tx' \in Seq(Seq(Nat)) /\ Head(tx) \in Seq(Nat)
      /\ Waiting(tx) = ToSet(Head(tx)) \cup Waiting(tx')
    BY <1>1, <1>2, BankFreed
<1>4. /\ Len(tx) \in Nat \ {0} /\ Len(tx') = Len(tx) - 1 /\ Head(tx) = tx[1]
      /\ \A k \in 1..Len(tx') : tx'[k] = tx[k + 1]
    BY <1>1, <1>2
<1>5. /\ hostGot' \in Seq(Nat) /\ Len(hostGot') = Len(hostGot) + Len(tx[1])
      /\ Len(hostGot) \in Nat /\ Len(tx[1]) \in Nat /\ Len(accepted) \in Nat
      /\ \A i \in 1..Len(hostGot) : hostGot'[i] = hostGot[i]
      /\ \A i \in 1..Len(tx[1]) : hostGot'[Len(hostGot) + i] = tx[1][i]
    BY <1>1, <1>2, <1>3, <1>4
<1>6. PICK base : Places(base)
    BY DEF SentInv
<1>7. /\ base \in [1..Len(tx) + 1 -> Nat] /\ base[1] = Len(hostGot) /\ base[2] = Len(hostGot')
      /\ \A i \in 1..Len(tx[1]) :
           Len(hostGot) + i <= Len(accepted) /\ tx[1][i] = accepted[Len(hostGot) + i]
  <2>1. 1 \in 1..Len(tx) /\ 1 + 1 = 2
      BY <1>4
  <2>2. base[1 + 1] = base[1] + Len(tx[1])
      BY <1>6, <2>1 DEF Places
  <2>3. base[1] = Len(hostGot) /\ base \in [1..Len(tx) + 1 -> Nat]
      BY <1>6 DEF Places
  <2>4. \A i \in 1..Len(tx[1]) :
           base[1] + i <= Len(accepted) /\ tx[1][i] = accepted[base[1] + i]
      BY <1>6, <2>1 DEF Places
  <2> QED
      BY <1>5, <2>1, <2>2, <2>3, <2>4
<1>8. Len(hostGot') <= Len(accepted)
  <2>1. CASE Len(tx[1]) = 0
      BY <1>5, <2>1 DEF SentInv, Delivered
  <2>2. CASE Len(tx[1]) # 0
      BY <1>5, <1>7, <2>2
  <2> QED
      BY <2>1, <2>2
<1>9. ASSUME NEW i \in 1..Len(hostGot') PROVE hostGot'[i] = accepted[i]
  <2>1. CASE i <= Len(hostGot)
      BY <1>5, <1>9, <2>1 DEF SentInv, Delivered
  <2>2. CASE i > Len(hostGot)
    <3>1. i - Len(hostGot) \in 1..Len(tx[1]) /\ Len(hostGot) + (i - Len(hostGot)) = i
        BY <1>5, <1>9, <2>2
    <3> QED
        BY <1>5, <1>7, <3>1
  <2> QED
      BY <1>5, <1>9, <2>1, <2>2
<1>10. ASSUME NEW k \in 1..Len(accepted), k > Len(hostGot')
       PROVE  accepted[k] \in Waiting(tx') \cup ToSet(cur)
  <2>1. accepted[k] \in Waiting(tx) \cup ToSet(cur)
      BY <1>5, <1>10 DEF SentInv, Delivered
  <2>2. ASSUME accepted[k] \in ToSet(tx[1]) PROVE FALSE
    <3>1. PICK i \in DOMAIN tx[1] : accepted[k] = tx[1][i]
        BY <2>2 DEF ToSet
    <3>2. i \in 1..Len(tx[1])
        BY <1>3, <1>4
    <3>3. Len(hostGot) + i \in 1..Len(accepted) /\ accepted[k] = accepted[Len(hostGot) + i]
      <4>1. Len(hostGot) + i <= Len(accepted) /\ tx[1][i] = accepted[Len(hostGot) + i]
          BY <1>7, <3>2
      <4> QED
          BY <1>5, <3>1, <3>2, <4>1
    <3>4. k = Len(hostGot) + i
        BY <1>10, <3>3 DEF SentInv, Once
    <3> QED
        BY <1>5, <1>10, <3>2, <3>4
  <2> QED
      BY <1>3, <1>4, <2>1, <2>2
<1>11. Delivered'
    BY <1>1, <1>8, <1>9, <1>10 DEF Delivered
<1>11a. PICK next : next = [k \in 1..Len(tx) |-> base[k + 1]]
    OBVIOUS
<1>12. /\ next \in [1..Len(tx') + 1 -> Nat]
       /\ \A k \in 1..Len(tx) : next[k] = base[k + 1]
    BY <1>4, <1>7, <1>11a
<1>13. next[1] = Len(hostGot')
    BY <1>4, <1>7, <1>12
<1>14. ASSUME NEW k \in 1..Len(tx')
       PROVE  /\ next[k + 1] = next[k] + Len(tx'[k])
              /\ \A i \in 1..Len(tx'[k]) :
                   next[k] + i <= Len(accepted) /\ tx'[k][i] = accepted[next[k] + i]
  <2>1. /\ k + 1 \in 1..Len(tx) /\ k \in 1..Len(tx) /\ tx'[k] = tx[k + 1]
        /\ next[k] = base[k + 1] /\ next[k + 1] = base[(k + 1) + 1]
      BY <1>4, <1>12
  <2> QED
      BY <1>6, <2>1 DEF Places
<1>15. next[Len(tx') + 1] = base[Len(tx) + 1]
    BY <1>4, <1>12
<1>16. Places(next)'
    BY <1>1, <1>6, <1>12, <1>13, <1>14, <1>15 DEF Places
<1> QED
    BY <1>1, <1>2, <1>3, <1>5, <1>11, <1>16 DEF SentInv, SentTypes, Once

\* A byte not yet accepted is put in the bank being filled.
LEMMA SentWrite ==
    ASSUME SentInv, byte \in Nat, byte \notin ToSet(accepted),
           cur' = Append(cur, byte), accepted' = Append(accepted, byte), UNCHANGED <<tx, hostGot>>
    PROVE  SentInv'
<1>1. tx \in Seq(Seq(Nat)) /\ cur \in Seq(Nat) /\ hostGot \in Seq(Nat) /\ accepted \in Seq(Nat)
    BY DEF SentInv, SentTypes
<1>2. /\ cur' \in Seq(Nat) /\ Len(cur') = Len(cur) + 1 /\ cur'[Len(cur) + 1] = byte
      /\ \A i \in 1..Len(cur) : cur'[i] = cur[i]
      /\ ToSet(cur') = ToSet(cur) \cup {byte}
    BY <1>1, ByteAdded
<1>3. /\ accepted' \in Seq(Nat) /\ Len(accepted') = Len(accepted) + 1
      /\ accepted'[Len(accepted) + 1] = byte
      /\ \A i \in 1..Len(accepted) : accepted'[i] = accepted[i]
    BY <1>1, ByteAdded
<1>4. Len(accepted) \in Nat /\ Len(cur) \in Nat /\ Len(tx) \in Nat /\ Len(hostGot) \in Nat
    BY <1>1
<1>5. Delivered'
  <2>1. Len(hostGot) <= Len(accepted')
      BY <1>3, <1>4 DEF SentInv, Delivered
  <2>2. \A i \in 1..Len(hostGot) : hostGot[i] = accepted'[i]
      BY <1>3, <1>4 DEF SentInv, Delivered
  <2>3. ASSUME NEW k \in 1..Len(accepted'), k > Len(hostGot)
        PROVE  accepted'[k] \in Waiting(tx) \cup ToSet(cur')
    <3>1. CASE k = Len(accepted) + 1
        BY <1>2, <1>3, <3>1
    <3>2. CASE k # Len(accepted) + 1
      <4>1. k \in 1..Len(accepted)
          BY <1>3, <1>4, <2>3, <3>2
      <4> QED
          BY <1>2, <1>3, <2>3, <4>1 DEF SentInv, Delivered
    <3> QED
        BY <3>1, <3>2
  <2>4. Waiting(tx)' = Waiting(tx) /\ ToSet(cur)' = ToSet(cur')
      BY DEF Waiting
  <2> QED
      BY <2>1, <2>2, <2>3, <2>4 DEF Delivered
<1>6. Once'
  <2>1. \A i \in 1..Len(accepted) : accepted[i] # byte
    <3>1. DOMAIN accepted = 1..Len(accepted)
        BY <1>1
    <3> QED
        BY <3>1 DEF ToSet
  <2>2. ASSUME NEW i \in 1..Len(accepted'), NEW j \in 1..Len(accepted'), accepted'[i] = accepted'[j]
        PROVE  i = j
    <3>1. i \in 1..Len(accepted) \/ i = Len(accepted) + 1
        BY <1>3, <1>4
    <3>2. j \in 1..Len(accepted) \/ j = Len(accepted) + 1
        BY <1>3, <1>4
    <3> QED
        BY <1>3, <2>1, <2>2, <3>1, <3>2 DEF SentInv, Once
  <2> QED
      BY <2>2 DEF Once
<1>7. PICK base : Places(base)
    BY DEF SentInv
<1>8. Places(base)'
  <2>1. base \in [1..Len(tx) + 1 -> Nat] /\ base[1] = Len(hostGot)
      BY <1>7 DEF Places
  <2>2. \A k \in 1..Len(tx) : base[k + 1] = base[k] + Len(tx[k])
      BY <1>7 DEF Places
  <2>3. ASSUME NEW k \in 1..Len(tx), NEW i \in 1..Len(tx[k])
        PROVE  base[k] + i <= Len(accepted') /\ tx[k][i] = accepted'[base[k] + i]
    <3>1. base[k] + i <= Len(accepted) /\ tx[k][i] = accepted[base[k] + i]
        BY <1>7, <2>3 DEF Places
    <3>2. k \in 1..Len(tx) + 1 /\ tx[k] \in Seq(Nat)
        BY <1>1, <1>4
    <3>3. PICK b \in Nat : b = base[k]
        BY <2>1, <3>2
    <3>4. i \in Nat \ {0}
        BY <3>2
    <3>5. b + i \in 1..Len(accepted)
        BY <1>4, <3>1, <3>3, <3>4
    <3> QED
        BY <1>3, <1>4, <3>1, <3>3, <3>5
  <2>3a. Len(tx) + 1 \in 1..Len(tx) + 1
      BY <1>4
  <2>3b. PICK b \in Nat : b = base[Len(tx) + 1]
      BY <2>1, <2>3a
  <2>4. Len(accepted) = b + Len(cur)
      BY <1>7, <2>3b DEF Places
  <2>5. ASSUME NEW i \in 1..Len(cur') PROVE cur'[i] = accepted'[base[Len(tx) + 1] + i]
    <3>1. CASE i = Len(cur) + 1
      <4>1. b + i = Len(accepted) + 1
          BY <1>4, <2>4, <3>1
      <4> QED
          BY <1>2, <1>3, <2>3b, <3>1, <4>1
    <3>2. CASE i # Len(cur) + 1
      <4>1. i \in 1..Len(cur)
          BY <1>2, <1>4, <2>5, <3>2
      <4>2. b + i \in 1..Len(accepted)
          BY <1>4, <2>4, <4>1
      <4>3. cur[i] = accepted[b + i]
          BY <1>7, <2>3b, <4>1 DEF Places
      <4> QED
          BY <1>2, <1>3, <2>3b, <4>1, <4>2, <4>3
    <3> QED
        BY <3>1, <3>2
  <2>6. Len(accepted') = b + Len(cur')
      BY <1>2, <1>3, <1>4, <2>4
  <2> QED
      BY <2>1, <2>2, <2>3, <2>5, <2>6, <2>3b DEF Places
<1> QED
    BY <1>1, <1>2, <1>3, <1>5, <1>6, <1>8 DEF SentInv, SentTypes

\* The host has the endpoint cleared: it has received all that is left of the stream.
LEMMA SentCleared == ASSUME SentInv, ClearHaltIN PROVE SentInv'
<1>1. tx' = <<>> /\ cur' = <<>> /\ accepted' = hostGot /\ hostGot' = hostGot
    BY DEF ClearHaltIN
<1>2. hostGot \in Seq(Nat) /\ accepted \in Seq(Nat) /\ Len(hostGot) \in Nat /\ Len(accepted) \in Nat
    BY DEF SentInv, SentTypes
<1>3. SentTypes' /\ Len(tx') = 0 /\ Len(cur') = 0
    BY <1>1, <1>2 DEF SentTypes
<1>4. Delivered'
    BY <1>1, <1>2 DEF Delivered
<1>5. Once'
  <2> SUFFICES ASSUME NEW i \in 1..Len(hostGot), NEW j \in 1..Len(hostGot), hostGot[i] = hostGot[j]
               PROVE  i = j
      BY <1>1 DEF Once
  <2>1. i \in 1..Len(accepted) /\ j \in 1..Len(accepted)
      BY <1>2 DEF SentInv, Delivered
  <2>2. accepted[i] = accepted[j]
      BY DEF SentInv, Delivered
  <2> QED
      BY <2>1, <2>2 DEF SentInv, Once
<1>6. PICK base : base = [k \in 1..1 |-> Len(hostGot)]
    OBVIOUS
<1>7. Places(base)'
    BY <1>1, <1>2, <1>3, <1>6 DEF Places
<1> QED
    BY <1>3, <1>4, <1>5, <1>7 DEF SentInv

\* Within sendUSBByte and flushSendStream.
Flushing == pc \in {"empty", "flushed"} \/ (pc = "wait" /\ back # "received")

\* A bank is free when a byte is written, and a flush that succeeded has emptied the bank being
\* filled; each byte is offered after those accepted before it.
SendControl ==
    /\ Labels
    /\ tx \in Seq(Seq(Nat)) /\ cur \in Seq(Nat) /\ Len(tx) <= Banks
    /\ Len(tx) = Banks => cur = <<>>
    /\ Flushing => cur = <<>>
    /\ pc = "flushed" => ret \/ INReady
    /\ pc = "write" => INWriteAllowed /\ byte # 0

Numbered ==
    /\ offered \in Nat /\ byte \in 0..offered
    /\ \A x \in ToSet(accepted) : x \in 1..offered
    /\ (Flushing \/ pc \in {"flush", "give", "write"}) /\ byte # 0
       => byte \notin ToSet(accepted)

\* Giving a bank to the host leaves none half filled.
LEMMA ClearEmpties ==
    ASSUME SendControl, ClearIN
    PROVE  cur' = <<>> /\ tx' \in Seq(Seq(Nat)) /\ Len(tx') <= Banks
<1>1. CASE INReady
  <2>1. tx' = Append(tx, cur) /\ cur' = <<>> /\ tx \in Seq(Seq(Nat)) /\ cur \in Seq(Nat)
      BY <1>1 DEF ClearIN, SendControl
  <2>2. Len(tx') = Len(tx) + 1 /\ tx' \in Seq(Seq(Nat)) /\ Len(tx) \in Nat
      BY <2>1
  <2> QED
      BY <1>1, <2>1, <2>2, StreamAssumption DEF StreamAssumption, INReady
<1>2. CASE ~INReady
  <2>1. tx' = tx /\ cur' = cur
      BY <1>2 DEF ClearIN
  <2>2. Len(tx) = Banks
    <3>1. Len(tx) \in Nat /\ Len(tx) <= Banks
        BY DEF SendControl
    <3> QED
        BY <1>2, <3>1, StreamAssumption DEF StreamAssumption, INReady
  <2> QED
      BY <2>1, <2>2 DEF SendControl
<1> QED
    BY <1>1, <1>2

\* Every step keeps the banks' state in accord with where the loop is.
LEMMA ControlStep == SendControl /\ Numbered /\ [Next]_vars => SendControl'
<1> SUFFICES ASSUME SendControl, Numbered, [Next]_vars PROVE SendControl'
    OBVIOUS
<1> USE DEF locals, bus, history
<1>1. Labels'
    BY LabelsStep DEF SendControl
<1>2. CASE FlushBank \/ SendEmptyPacket
  <2>1. cur' = <<>> /\ tx' \in Seq(Seq(Nat)) /\ Len(tx') <= Banks /\ pc' = "wait"
      BY <1>2, ClearEmpties DEF FlushBank, SendEmptyPacket, StartWait
  <2> QED
      BY <1>1, <2>1 DEF SendControl, Flushing
<1>3. CASE HostReceives
  <2>1. tx' = Tail(tx) /\ tx # <<>> /\ tx \in Seq(Seq(Nat)) /\ UNCHANGED <<pc, back, ret, byte, cur>>
      BY <1>3 DEF HostReceives, SendControl
  <2>2. /\ tx' \in Seq(Seq(Nat)) /\ Len(tx) \in Nat /\ Len(tx') = Len(tx) - 1
      BY <2>1
  <2>3. Len(tx') < Banks
      BY <2>2, StreamAssumption DEF StreamAssumption, SendControl
  <2>4. INReady'
      BY <2>3 DEF INReady
  <2>5. (Flushing' => cur' = <<>>) /\ cur' \in Seq(Nat)
      BY <2>1 DEF SendControl, Flushing
  <2>6. pc' = "write" => INWriteAllowed' /\ byte' # 0
      BY <2>1, <2>4 DEF SendControl, INWriteAllowed
  <2> QED
      BY <1>1, <2>2, <2>3, <2>4, <2>5, <2>6, StreamAssumption DEF StreamAssumption, SendControl
<1>4. CASE WriteByte
  <2>1. cur' = Append(cur, byte) /\ pc' = "idle" /\ tx' = tx
      BY <1>4 DEF WriteByte, SendControl
  <2>2. tx \in Seq(Seq(Nat)) /\ cur \in Seq(Nat) /\ byte \in Nat /\ Len(tx) <= Banks /\ Len(tx) < Banks
      BY <1>4 DEF WriteByte, SendControl, Numbered, INWriteAllowed, INReady
  <2>3. cur' \in Seq(Nat)
      BY <2>1, <2>2
  <2>4. ~Flushing' /\ pc' # "flushed" /\ pc' # "write"
      BY <2>1 DEF Flushing
  <2>5. Len(tx') # Banks /\ Len(tx') <= Banks
    <3>1. Len(tx) \in Nat
        BY <2>2
    <3> QED
        BY <2>1, <2>2, <3>1, StreamAssumption DEF StreamAssumption
  <2> QED
      BY <1>1, <2>1, <2>2, <2>3, <2>4, <2>5 DEF SendControl
<1>6. CASE ClearHaltIN
  <2>1. tx' = <<>> /\ cur' = <<>> /\ UNCHANGED <<pc, back, ret, byte>>
      BY <1>6 DEF ClearHaltIN
  <2>2. /\ tx' \in Seq(Seq(Nat)) /\ cur' \in Seq(Nat) /\ Len(tx') = 0 /\ Len(cur') = 0
        /\ 0 < Banks /\ 0 < EPSize
      BY <2>1, StreamAssumption DEF StreamAssumption
  <2>3. INWriteAllowed' /\ INReady'
      BY <2>2 DEF INWriteAllowed, INReady
  <2>4. Len(tx') <= Banks
      BY <2>2, StreamAssumption DEF StreamAssumption
  <2> QED
      BY <1>1, <2>1, <2>2, <2>3, <2>4 DEF SendControl
<1>5. ASSUME ~(FlushBank \/ SendEmptyPacket \/ HostReceives \/ WriteByte \/ ClearHaltIN)
      PROVE  SendControl'
  <2>1. tx' = tx /\ cur' = cur
      BY <1>5 DEF Next, Step, Caller, CallSend, CallFlush, CallGet, WaitReady, WaitDisconnected,
         WaitStalled, WaitFrame, TestOUT, ClearEmptyOUT, AfterReceived, TestByte, TestFull,
         FetchByte, EndFlush, HostSends, Feature, SetHalt, ClearHaltOUT, ClearHaltIN,
         StartOfFrame, SuspendResume, Disconnect, StartWait, vars
  <2>2. INReady' = INReady /\ INWriteAllowed' = INWriteAllowed
      BY <2>1 DEF INReady, INWriteAllowed
  <2>3. Flushing' => Flushing
      BY <1>5 DEF SendControl, Labels, Flushing, Next, Step, Caller, CallSend, CallFlush,
         CallGet, WaitReady, WaitDisconnected, WaitStalled, WaitError, WaitFrame, TestOUT,
         ClearEmptyOUT, AfterReceived, TestByte, TestFull, FetchByte, EndFlush,
         AfterFailedFlush, HostSends, Feature, SetHalt, ClearHaltOUT, ClearHaltIN, StartOfFrame,
         SuspendResume, Disconnect, StartWait, vars
  <2>4. pc' = "flushed" => ret' \/ INReady
    <3>1. CASE WaitReady
        BY <3>1 DEF SendControl, WaitReady, Ready
    <3>2. CASE WaitDisconnected \/ WaitStalled \/ WaitFrame
        BY <3>2 DEF WaitDisconnected, WaitStalled, WaitFrame, WaitError
    <3>3. CASE ~(WaitReady \/ WaitDisconnected \/ WaitStalled \/ WaitFrame)
        BY <1>5, <3>3 DEF SendControl, Next, Step, Caller, CallSend, CallFlush, CallGet,
           TestOUT, ClearEmptyOUT, AfterReceived, TestByte, TestFull, FetchByte, EndFlush,
           AfterFailedFlush, HostSends, Feature, SetHalt, ClearHaltOUT, ClearHaltIN,
           StartOfFrame, SuspendResume, Disconnect, StartWait, vars
    <3> QED
        BY <3>1, <3>2, <3>3
  <2>5. pc' = "write" => INWriteAllowed /\ byte' # 0
    <3>1. CASE CallSend
        BY <3>1 DEF CallSend, Numbered
    <3>2. CASE EndFlush
      <4>1. pc' = "write" => cur = <<>> /\ INReady /\ byte # 0
          BY <3>2 DEF EndFlush, AfterFailedFlush, SendControl, Flushing
      <4>2. cur = <<>> => Len(cur) < EPSize
          BY StreamAssumption DEF StreamAssumption
      <4> QED
          BY <3>2, <4>1, <4>2 DEF EndFlush, INWriteAllowed
    <3>3. CASE ~(CallSend \/ EndFlush)
        BY <1>5, <3>3 DEF SendControl, Labels, Next, Step, Caller, CallFlush, CallGet,
           WaitReady, WaitDisconnected, WaitStalled, WaitError, WaitFrame, TestOUT,
           ClearEmptyOUT, AfterReceived, TestByte, TestFull, FetchByte, HostSends, Feature,
           SetHalt, ClearHaltOUT, ClearHaltIN, StartOfFrame, SuspendResume, Disconnect,
           StartWait, vars
    <3> QED
        BY <3>1, <3>2, <3>3
  <2> QED
      BY <1>1, <2>1, <2>2, <2>3, <2>4, <2>5 DEF SendControl
<1> QED
    BY <1>2, <1>3, <1>4, <1>5, <1>6

\* Every step keeps the bytes numbered in the order they are offered.
LEMMA NumberedStep == SendControl /\ SentTypes /\ Delivered /\ Numbered /\ [Next]_vars => Numbered'
<1> SUFFICES ASSUME SendControl, SentTypes, Delivered, Numbered, [Next]_vars PROVE Numbered'
    OBVIOUS
<1> USE DEF locals, bus, history
<1>1. CASE WriteByte
  <2>1. accepted' = Append(accepted, byte) /\ pc' = "idle" /\ UNCHANGED <<byte, offered>>
      BY <1>1 DEF WriteByte
  <2>2. accepted \in Seq(Nat) /\ byte \in 1..offered
      BY <1>1 DEF WriteByte, SendControl, SentTypes, Numbered
  <2>3. ToSet(accepted') = ToSet(accepted) \cup {byte}
      BY <2>1, <2>2, ByteAdded
  <2> QED
      BY <2>1, <2>2, <2>3 DEF Numbered, Flushing
<1>2. CASE CallSend
  <2>1. offered' = offered + 1 /\ byte' = offered + 1 /\ accepted' = accepted
      BY <1>2 DEF CallSend
  <2>2. ToSet(accepted') = ToSet(accepted)
      BY <2>1
  <2> QED
      BY <2>1, <2>2 DEF Numbered
<1>3. CASE CallFlush
  <2>1. byte' = 0 /\ UNCHANGED <<offered, accepted>>
      BY <1>3 DEF CallFlush
  <2> QED
      BY <2>1 DEF Numbered
<1>5. CASE ClearHaltIN
  <2>1. accepted' = hostGot /\ UNCHANGED <<pc, back, byte, offered>>
      BY <1>5 DEF ClearHaltIN
  <2>2. ToSet(accepted') \subseteq ToSet(accepted)
    <3> SUFFICES ASSUME NEW x \in ToSet(hostGot) PROVE x \in ToSet(accepted)
        BY <2>1
    <3>1. PICK i \in DOMAIN hostGot : x = hostGot[i]
        BY DEF ToSet
    <3>2. i \in 1..Len(hostGot) /\ i \in DOMAIN accepted
        BY DEF SentTypes, Delivered
    <3> QED
        BY <3>1, <3>2 DEF Delivered, ToSet
  <2> QED
      BY <2>1, <2>2 DEF Numbered, Flushing
<1>4. CASE ~(WriteByte \/ CallSend \/ CallFlush \/ ClearHaltIN)
  <2>1. UNCHANGED <<accepted, byte, offered>>
      BY <1>4 DEF Next, Step, Caller, CallGet, WaitReady, WaitDisconnected, WaitStalled,
         WaitFrame, TestOUT, ClearEmptyOUT, AfterReceived, TestByte, TestFull, FetchByte,
         FlushBank, SendEmptyPacket, EndFlush, HostSends, HostReceives, Feature, SetHalt,
         ClearHaltOUT, ClearHaltIN, StartOfFrame, SuspendResume, Disconnect, StartWait, vars
  <2>2. (Flushing \/ pc \in {"flush", "give", "write"})' => Flushing \/ pc \in {"flush", "give", "write"}
      BY <1>4 DEF SendControl, Labels, Flushing, Next, Step, Caller, CallGet, WaitReady,
         WaitDisconnected, WaitStalled, WaitError, WaitFrame, TestOUT, ClearEmptyOUT,
         AfterReceived, TestByte, TestFull, FetchByte, FlushBank, SendEmptyPacket, EndFlush,
         AfterFailedFlush, HostSends, HostReceives, Feature, SetHalt, ClearHaltOUT, ClearHaltIN,
         StartOfFrame, SuspendResume, Disconnect, StartWait, vars
  <2> QED
      BY <2>1, <2>2 DEF Numbered
<1> QED
    BY <1>1, <1>2, <1>3, <1>4, <1>5

\* Every step keeps the accepted bytes in their places.
LEMMA SentStep == SendControl /\ Numbered /\ SentInv /\ [Next]_vars => SentInv'
<1> SUFFICES ASSUME SendControl, Numbered, SentInv, [Next]_vars PROVE SentInv'
    OBVIOUS
<1> USE DEF locals, bus, history
<1>1. CASE FlushBank \/ SendEmptyPacket
    BY <1>1, SentClear DEF FlushBank, SendEmptyPacket
<1>2. CASE HostReceives
    BY <1>2, SentReceived
<1>3. CASE WriteByte
  <2>1. /\ cur' = Append(cur, byte) /\ accepted' = Append(accepted, byte)
        /\ UNCHANGED <<tx, hostGot>>
      BY <1>3 DEF WriteByte, SendControl
  <2>2. byte \in Nat /\ byte \notin ToSet(accepted)
      BY <1>3 DEF WriteByte, SendControl, Numbered
  <2> QED
      BY <2>1, <2>2, SentWrite
<1>5. CASE ClearHaltIN
    BY <1>5, SentCleared
<1>4. CASE ~(FlushBank \/ SendEmptyPacket \/ HostReceives \/ WriteByte \/ ClearHaltIN)
  <2>1. UNCHANGED <<tx, cur, accepted, hostGot>>
      BY <1>4 DEF Next, Step, Caller, CallSend, CallFlush, CallGet, WaitReady, WaitDisconnected,
         WaitStalled, WaitFrame, TestOUT, ClearEmptyOUT, AfterReceived, TestByte, TestFull,
         FetchByte, EndFlush, HostSends, Feature, SetHalt, ClearHaltOUT, ClearHaltIN,
         StartOfFrame, SuspendResume, Disconnect, StartWait, vars
  <2>2. Waiting(tx)' = Waiting(tx)
      BY <2>1 DEF Waiting
  <2>3. SentTypes' /\ Delivered' /\ Once'
      BY <2>1, <2>2 DEF SentInv, SentTypes, Delivered, Once
  <2>4. \A base : Places(base) => Places(base)'
      BY <2>1 DEF Places
  <2> QED
      BY <2>3, <2>4 DEF SentInv
<1> QED
    BY <1>1, <1>2, <1>3, <1>4, <1>5

\* Nothing was sent at first.
LEMMA SentInit == Init => SendControl /\ Numbered /\ SentInv
<1> SUFFICES ASSUME Init PROVE SendControl /\ Numbered /\ SentInv
    OBVIOUS
<1>1. /\ pc = "idle" /\ back = "idle" /\ byte = 0 /\ offered = 0
      /\ tx = <<>> /\ cur = <<>> /\ hostGot = <<>> /\ accepted = <<>>
    BY DEF Init
<1>2. /\ Len(tx) = 0 /\ Len(cur) = 0 /\ Len(hostGot) = 0 /\ Len(accepted) = 0
      /\ ToSet(accepted) = {} /\ SentTypes
    BY <1>1 DEF ToSet, SentTypes
<1>3. SendControl /\ Numbered
    BY <1>1, <1>2, StreamAssumption
    DEF StreamAssumption, SendControl, Labels, Numbered, Flushing, SentTypes
<1>4. PICK base : base = [k \in 1..1 |-> 0]
    OBVIOUS
<1>5. Places(base)
    BY <1>2, <1>4 DEF Places
<1> QED
    BY <1>2, <1>3, <1>5 DEF SentInv, Delivered, Once

\* The host receives what sendUSBByte accepted, each byte once and in order, whatever times out:
\* for any number and size of banks.
THEOREM SendCorrect == Spec => []NothingLost
<1>1. Init => SendControl /\ Numbered /\ SentInv
    BY SentInit
<1>2. SentInv => NothingLost
  <2> SUFFICES ASSUME SentInv PROVE NothingLost
      OBVIOUS
  <2>1. hostGot \in Seq(Nat) /\ accepted \in Seq(Nat) /\ Len(hostGot) <= Len(accepted)
      BY DEF SentInv, SentTypes, Delivered
  <2>2. SubSeq(hostGot, 1, Len(hostGot)) = SubSeq(accepted, 1, Len(hostGot))
      BY <2>1 DEF SentInv, Delivered
  <2> QED
      BY <2>1, <2>2 DEF SentInv, Delivered, NothingLost, IsPrefix
<1>3. SentInv => SentTypes /\ Delivered
    BY DEF SentInv
<1> QED
    BY <1>1, <1>2, <1>3, ControlStep, NumberedStep, SentStep, PTL DEF Spec

-----------------------------------------------------------------------------
(* Types and limits.                                                       *)

\* The limits of the banks, and what they rest on.
LEMMA LimitsStep == TypeOK /\ SendControl /\ Numbered /\ ReceivedTypes /\ [Next]_vars => TypeOK'
<1> SUFFICES ASSUME TypeOK, SendControl, Numbered, ReceivedTypes, [Next]_vars PROVE TypeOK'
    OBVIOUS
<1> USE DEF locals, bus, history
<1>1. /\ pc' \in {"idle", "wait", "test", "clear", "received", "read", "fetch", "flush", "give",
                 "empty", "flushed", "write"}
      /\ back' \in {"idle", "received", "empty", "flushed"}
    BY DEF TypeOK, Next, Step, Caller, CallSend, CallFlush, CallGet, WaitReady,
       WaitDisconnected, WaitStalled, WaitFrame, WaitError, TestOUT, ClearEmptyOUT,
       AfterReceived, TestByte, TestFull, FetchByte, FlushBank, SendEmptyPacket, EndFlush,
       AfterFailedFlush, WriteByte, HostSends, HostReceives, Feature, SetHalt, ClearHaltOUT,
       ClearHaltIN, StartOfFrame, SuspendResume, Disconnect, StartWait, vars
<1>2. byte' \in 0..offered' /\ Within(hostSent, offered, halts)' # {}
  <2>1. CASE CallSend
      BY <2>1 DEF CallSend, Numbered, Within
  <2>2. ASSUME NEW n \in 0..EPSize, HostSends(n) PROVE byte' \in 0..offered' /\ Within(hostSent, offered, halts)' # {}
      BY <2>2 DEF HostSends, TypeOK, Within
  <2>3. CASE CallFlush
      BY <2>3 DEF CallFlush, Numbered, TypeOK, Within
  <2>5. ASSUME NEW e \in {"IN", "OUT"}, SetHalt(e) \/ ClearHaltOUT \/ ClearHaltIN
        PROVE  byte' \in 0..offered' /\ Within(hostSent, offered, halts)' # {}
    <3>1. UNCHANGED <<byte, offered, hostSent>> /\ halts' = halts + 1 /\ Within(hostSent, offered, halts + 1) # {}
        BY <2>5 DEF SetHalt, ClearHaltOUT, ClearHaltIN, Feature
    <3> QED
        BY <3>1 DEF TypeOK, Within
  <2>4. ASSUME ~CallSend, ~CallFlush, ~(\E n \in 0..EPSize : HostSends(n)),
               ~(\E e \in {"IN", "OUT"} : SetHalt(e)), ~ClearHaltOUT, ~ClearHaltIN
        PROVE  byte' \in 0..offered' /\ Within(hostSent, offered, halts)' # {}
    <3>1. UNCHANGED <<byte, offered, hostSent, halts>>
        BY <2>4 DEF Next, Step, Caller, CallGet, WaitReady, WaitDisconnected, WaitStalled,
           WaitFrame, TestOUT, ClearEmptyOUT, AfterReceived, TestByte, TestFull, FetchByte,
           FlushBank, SendEmptyPacket, EndFlush, WriteByte, HostReceives, Feature, SetHalt,
           ClearHaltOUT, ClearHaltIN, StartOfFrame, SuspendResume, Disconnect, StartWait, vars
    <3> QED
        BY <3>1 DEF TypeOK, Within
  <2> QED
      BY <2>1, <2>2, <2>3, <2>4, <2>5
<1>3. {blocking', IsFull', ret', SOFI', attached', suspended', result'} \subseteq BOOLEAN
  <2>1. blocking' \in BOOLEAN
    <3>1. ASSUME NEW s \in Within(hostSent, offered, halts), NEW b \in s.blocking, CallGet(b)
          PROVE  blocking' \in BOOLEAN
      <4>1. s \in [out : Nat, in : Nat, blocking : SUBSET BOOLEAN, halts : Nat]
          BY StreamAssumption DEF StreamAssumption, Within
      <4> QED
          BY <3>1, <4>1 DEF CallGet
    <3>2. ASSUME ~(\E s \in Within(hostSent, offered, halts) : \E b \in s.blocking : CallGet(b))
          PROVE  blocking' \in BOOLEAN
      <4>1. blocking' = blocking
          BY <3>2 DEF Next, Step, Caller, CallSend, CallFlush, WaitReady, WaitDisconnected,
             WaitStalled, WaitFrame, TestOUT, ClearEmptyOUT, AfterReceived, TestByte, TestFull,
             FetchByte, FlushBank, SendEmptyPacket, EndFlush, WriteByte, HostSends,
             HostReceives, Feature, SetHalt, ClearHaltOUT, ClearHaltIN, StartOfFrame,
             SuspendResume, Disconnect, StartWait, vars
      <4> QED
          BY <4>1 DEF TypeOK
    <3> QED
        BY <3>1, <3>2
  <2>2. IsFull' \in BOOLEAN
    <3>1. CASE TestFull
        BY <3>1 DEF TestFull
    <3>2. CASE ~TestFull
      <4>1. IsFull' = IsFull
          BY <3>2 DEF Next, Step, Caller, CallSend, CallFlush, CallGet, WaitReady,
             WaitDisconnected, WaitStalled, WaitFrame, TestOUT, ClearEmptyOUT, AfterReceived,
             TestByte, FetchByte, FlushBank, SendEmptyPacket, EndFlush, WriteByte, HostSends,
             HostReceives, Feature, SetHalt, ClearHaltOUT, ClearHaltIN, StartOfFrame,
             SuspendResume, Disconnect, StartWait, vars
      <4> QED
          BY <4>1 DEF TypeOK
    <3> QED
        BY <3>1, <3>2
  <2>3. ret' \in BOOLEAN
    <3>1. ret' = ret \/ ret' = TRUE \/ ret' = FALSE
        BY DEF Next, Step, Caller, CallSend, CallFlush, CallGet, WaitReady, WaitError,
           WaitDisconnected, WaitStalled, WaitFrame, TestOUT, ClearEmptyOUT, AfterReceived,
           TestByte, TestFull, FetchByte, FlushBank, SendEmptyPacket, EndFlush, WriteByte,
           HostSends, HostReceives, Feature, SetHalt, ClearHaltOUT, ClearHaltIN, StartOfFrame,
           SuspendResume, Disconnect, StartWait, vars
    <3> QED
        BY <3>1 DEF TypeOK
  <2>4. SOFI' \in BOOLEAN /\ attached' \in BOOLEAN
    <3>1. (SOFI' = SOFI \/ SOFI' = TRUE \/ SOFI' = FALSE) /\ (attached' = attached \/ attached' = FALSE)
        BY DEF Next, Step, Caller, CallSend, CallFlush, CallGet, WaitReady, WaitError,
           WaitDisconnected, WaitStalled, WaitFrame, TestOUT, ClearEmptyOUT, AfterReceived,
           TestByte, TestFull, FetchByte, FlushBank, SendEmptyPacket, EndFlush, WriteByte,
           HostSends, HostReceives, Feature, SetHalt, ClearHaltOUT, ClearHaltIN, StartOfFrame,
           SuspendResume, Disconnect, StartWait, vars
    <3> QED
        BY <3>1 DEF TypeOK
  <2>5. suspended' \in BOOLEAN
    <3>1. CASE SuspendResume
        BY <3>1 DEF SuspendResume
    <3>2. CASE ~SuspendResume
      <4>1. suspended' = suspended
          BY <3>2 DEF Next, Step, Caller, CallSend, CallFlush, CallGet, WaitReady,
             WaitDisconnected, WaitStalled, WaitFrame, TestOUT, ClearEmptyOUT, AfterReceived,
             TestByte, TestFull, FetchByte, FlushBank, SendEmptyPacket, EndFlush, WriteByte,
             HostSends, HostReceives, Feature, SetHalt, ClearHaltOUT, ClearHaltIN, StartOfFrame,
             Disconnect, StartWait, vars
      <4> QED
          BY <4>1 DEF TypeOK
    <3> QED
        BY <3>1, <3>2
  <2>6. result' \in BOOLEAN
    <3>1. CASE EndFlush
        BY <3>1 DEF EndFlush
    <3>2. CASE TestByte
        BY <3>2 DEF TestByte, OUTReadAllowed, OUTReceived
    <3>3. CASE ~EndFlush /\ ~TestByte
      <4>1. result' = result \/ result' = TRUE \/ result' = FALSE
          BY <3>3 DEF Next, Step, Caller, CallSend, CallFlush, CallGet, WaitReady, WaitError,
             WaitDisconnected, WaitStalled, WaitFrame, TestOUT, ClearEmptyOUT, AfterReceived,
             TestByte, TestFull, FlushBank, SendEmptyPacket, WriteByte, HostSends, HostReceives,
             Feature, SetHalt, ClearHaltOUT, ClearHaltIN, StartOfFrame, SuspendResume,
             Disconnect, StartWait, vars
      <4> QED
          BY <4>1 DEF TypeOK
    <3> QED
        BY <3>1, <3>2, <3>3
  <2> QED
      BY <2>1, <2>2, <2>3, <2>4, <2>5, <2>6
<1>4. TimeoutMSRem' \in 0..USB_STREAM_TIMEOUT_MS
  <2>1. CASE WaitFrame
    <3>1. CASE Expired
        BY <2>1, <3>1 DEF WaitFrame, TypeOK
    <3>2. CASE ~Expired
      <4>1. TimeoutMSRem' = (TimeoutMSRem - 1) % 256 /\ TimeoutMSRem \in 0..USB_STREAM_TIMEOUT_MS
          BY <2>1, <3>2 DEF WaitFrame, Decremented, TypeOK
      <4>2. TimeoutMSRem # 0
          BY <3>2 DEF Expired
      <4>3. TimeoutMSRem' = TimeoutMSRem - 1
          BY <4>1, <4>2, StreamAssumption DEF StreamAssumption
      <4> QED
          BY <4>1, <4>2, <4>3, StreamAssumption DEF StreamAssumption
    <3> QED
        BY <3>1, <3>2
  <2>2. CASE ~WaitFrame
    <3>1. TimeoutMSRem' = TimeoutMSRem \/ TimeoutMSRem' = USB_STREAM_TIMEOUT_MS
        BY <2>2 DEF Next, Step, Caller, CallSend, CallFlush, CallGet, WaitReady,
           WaitDisconnected, WaitStalled, TestOUT, ClearEmptyOUT, AfterReceived, TestByte,
           TestFull, FetchByte, FlushBank, SendEmptyPacket, EndFlush, WriteByte, HostSends,
           HostReceives, Feature, SetHalt, ClearHaltOUT, ClearHaltIN, StartOfFrame,
           SuspendResume, Disconnect, StartWait, vars
    <3> QED
        BY <3>1, StreamAssumption DEF StreamAssumption, TypeOK
  <2> QED
      BY <2>1, <2>2
<1>5. Len(rx') <= Banks
  <2>1. rx \in Seq(Seq(Nat)) /\ Len(rx) \in Nat /\ Len(rx) <= Banks /\ Banks \in Nat
      BY StreamAssumption DEF StreamAssumption, ReceivedTypes, TypeOK
  <2>2. ASSUME NEW n \in 0..EPSize, HostSends(n) PROVE Len(rx') <= Banks
      BY <2>1, <2>2 DEF HostSends
  <2>3. CASE ClearEmptyOUT
      BY <2>1, <2>3 DEF ClearEmptyOUT, ClearOUT, OUTReceived
  <2>4. CASE FetchByte
      BY <2>1, <2>4 DEF FetchByte
  <2>6. CASE ClearHaltOUT
    <3>1. rx' = <<>>
        BY <2>6 DEF ClearHaltOUT
    <3> QED
        BY <2>1, <3>1
  <2>5. ASSUME ~ClearEmptyOUT, ~FetchByte, ~ClearHaltOUT, ~(\E n \in 0..EPSize : HostSends(n))
        PROVE  Len(rx') <= Banks
    <3>1. rx' = rx
        BY <2>5 DEF Next, Step, Caller, CallSend, CallFlush, CallGet, WaitReady,
           WaitDisconnected, WaitStalled, WaitFrame, TestOUT, AfterReceived, TestByte, TestFull,
           FlushBank, SendEmptyPacket, EndFlush, WriteByte, HostReceives, Feature, SetHalt,
           ClearHaltOUT, ClearHaltIN, StartOfFrame, SuspendResume, Disconnect, StartWait, vars
    <3> QED
        BY <2>1, <3>1
  <2> QED
      BY <2>2, <2>3, <2>4, <2>5, <2>6
<1>6. Len(tx') <= Banks
    BY ControlStep DEF SendControl
<1>7. Len(cur') <= EPSize /\ lastLen' \in 0..EPSize
  <2>1. cur \in Seq(Nat) /\ Len(cur) \in Nat /\ Len(cur) <= EPSize /\ EPSize \in Nat /\ lastLen \in 0..EPSize
      BY StreamAssumption DEF StreamAssumption, SendControl, TypeOK
  <2>2. CASE FlushBank \/ SendEmptyPacket
    <3>1. (cur' = <<>> /\ lastLen' = Len(cur)) \/ (cur' = cur /\ lastLen' = lastLen)
        BY <2>2 DEF FlushBank, SendEmptyPacket, ClearIN
    <3> QED
        BY <2>1, <3>1
  <2>3. CASE WriteByte
    <3>1. lastLen' = lastLen /\ (cur' = cur \/ (Len(cur) < EPSize /\ cur' = Append(cur, byte)))
        BY <2>3 DEF WriteByte, INWriteAllowed
    <3> QED
        BY <2>1, <3>1
  <2>5. CASE ClearHaltIN
    <3>1. cur' = <<>> /\ lastLen' = lastLen
        BY <2>5 DEF ClearHaltIN
    <3> QED
        BY <2>1, <3>1
  <2>4. CASE ~(FlushBank \/ SendEmptyPacket \/ WriteByte \/ ClearHaltIN)
    <3>1. cur' = cur /\ lastLen' = lastLen
        BY <2>4 DEF Next, Step, Caller, CallSend, CallFlush, CallGet, WaitReady,
           WaitDisconnected, WaitStalled, WaitFrame, TestOUT, ClearEmptyOUT, AfterReceived,
           TestByte, TestFull, FetchByte, EndFlush, HostSends, HostReceives, Feature, SetHalt,
           ClearHaltOUT, ClearHaltIN, StartOfFrame, SuspendResume, Disconnect, StartWait, vars
    <3> QED
        BY <2>1, <3>1
  <2> QED
      BY <2>2, <2>3, <2>4, <2>5
<1>8. stalled' \subseteq {"IN", "OUT"}
  <2>1. ASSUME NEW e \in {"IN", "OUT"}, SetHalt(e) PROVE stalled' \subseteq {"IN", "OUT"}
      BY <2>1 DEF SetHalt, TypeOK
  <2>2. CASE ClearHaltOUT \/ ClearHaltIN
      BY <2>2 DEF ClearHaltOUT, ClearHaltIN, TypeOK
  <2>3. ASSUME ~(\E e \in {"IN", "OUT"} : SetHalt(e)), ~ClearHaltOUT, ~ClearHaltIN
        PROVE  stalled' \subseteq {"IN", "OUT"}
    <3>1. stalled' = stalled
        BY <2>3 DEF Next, Step, Caller, CallSend, CallFlush, CallGet, WaitReady,
           WaitDisconnected, WaitStalled, WaitFrame, TestOUT, ClearEmptyOUT, AfterReceived,
           TestByte, FetchByte, TestFull, FlushBank, SendEmptyPacket, EndFlush, WriteByte,
           HostSends, HostReceives, StartOfFrame, SuspendResume, Disconnect, vars
    <3> QED
        BY <3>1 DEF TypeOK
  <2> QED
      BY <2>1, <2>2, <2>3
<1> QED
    BY <1>1, <1>2, <1>3, <1>4, <1>5, <1>6, <1>7, <1>8 DEF TypeOK

\* Banks hold no more than they can, the frame counter no more than the timeout, and every call is
\* of a byte that was offered, for all values of the constants.
THEOREM TypeCorrect == Spec => []TypeOK
<1>1. Init => TypeOK
  <2> SUFFICES ASSUME Init PROVE TypeOK
      OBVIOUS
  <2>1. /\ USB_STREAM_TIMEOUT_MS \in Nat /\ Banks \in Nat /\ EPSize \in Nat
        /\ \A s \in Sessions : s.out \in Nat /\ s.in \in Nat
      BY StreamAssumption DEF StreamAssumption
  <2>2. Within(0, 0, 0) # {}
      BY <2>1, StreamAssumption DEF StreamAssumption, Within
  <2>3. /\ pc = "idle" /\ back = "idle" /\ byte = 0 /\ offered = 0 /\ hostSent = 0
        /\ TimeoutMSRem = 0 /\ lastLen = 0
        /\ Len(rx) = 0 /\ Len(tx) = 0 /\ Len(cur) = 0
      BY DEF Init
  <2>4. {blocking, IsFull, ret, SOFI, attached, suspended, result} \subseteq BOOLEAN
      BY DEF Init
  <2>5. halts = 0 /\ stalled = {}
      BY DEF Init
  <2> QED
      BY <2>1, <2>2, <2>3, <2>4, <2>5 DEF TypeOK
<1>2. Init => ReceivedInv /\ Labels
    BY ReceivedInit
<1>3. Init => SendControl /\ Numbered /\ SentInv
    BY SentInit
<1>4. ReceivedInv => ReceivedTypes
    BY DEF ReceivedInv
<1>5. SentInv => SentTypes /\ Delivered
    BY DEF SentInv
<1> QED
    BY <1>1, <1>2, <1>3, <1>4, <1>5, LimitsStep, LabelsStep, ReceivedStep, ControlStep,
       NumberedStep, SentStep, PTL DEF Spec

-----------------------------------------------------------------------------
(* The turns of a call.                                                    *)

\* The steps that a call which does not block can still take.
TurnsLeft ==
    CASE pc = "idle" -> 0
      [] pc \in {"fetch", "write"} -> 1
      [] pc \in {"read", "flushed"} -> 2
      [] pc = "received" -> 3
      [] pc = "wait" /\ back # "empty" -> TimeoutMSRem + 4
      [] pc \in {"clear", "empty"} -> USB_STREAM_TIMEOUT_MS + 5
      [] pc = "wait" /\ back = "empty" -> TimeoutMSRem + USB_STREAM_TIMEOUT_MS + 6
      [] pc = "test" -> USB_STREAM_TIMEOUT_MS + 6
      [] pc = "give" -> 2 * USB_STREAM_TIMEOUT_MS + 7
      [] pc = "flush" -> 2 * USB_STREAM_TIMEOUT_MS + 8

\* No call has more turns left than a flush of a full bank as it begins, and none has turns left
\* but the one that runs.
TurnsBounded ==
    TurnsLeft \in Nat /\ TurnsLeft <= 2 * USB_STREAM_TIMEOUT_MS + 8 /\ (TurnsLeft = 0 <=> pc = "idle")

\* Where a read that blocks begins anew.
TestsAgain == pc = "received" /\ blocking

\* Every step of a call takes one of its turns at least, and nothing that the host, the bus or a
\* frame does gives it another one: what a call waits for in the end are frames.
TurnsSpent ==
    [][~TestsAgain => /\ Step => TurnsLeft' < TurnsLeft
                      /\ pc # "idle" => TurnsLeft' <= TurnsLeft]_vars

\* The turns left at each place.
TurnsByPlace ==
    /\ pc = "idle" => TurnsLeft = 0
    /\ pc \in {"fetch", "write"} => TurnsLeft = 1
    /\ pc \in {"read", "flushed"} => TurnsLeft = 2
    /\ pc = "received" => TurnsLeft = 3
    /\ pc = "wait" /\ back # "empty" => TurnsLeft = TimeoutMSRem + 4
    /\ pc \in {"clear", "empty"} => TurnsLeft = USB_STREAM_TIMEOUT_MS + 5
    /\ pc = "wait" /\ back = "empty" => TurnsLeft = TimeoutMSRem + USB_STREAM_TIMEOUT_MS + 6
    /\ pc = "test" => TurnsLeft = USB_STREAM_TIMEOUT_MS + 6
    /\ pc = "give" => TurnsLeft = 2 * USB_STREAM_TIMEOUT_MS + 7
    /\ pc = "flush" => TurnsLeft = 2 * USB_STREAM_TIMEOUT_MS + 8

\* The same, a case at a time, before a step and after it.
LEMMA TurnsAt == TurnsByPlace /\ TurnsByPlace'
<1>1. TurnsByPlace
  <2>1. CASE pc = "wait"
      BY <2>1 DEF TurnsLeft, TurnsByPlace
  <2>2. CASE pc # "wait"
      BY <2>2 DEF TurnsLeft, TurnsByPlace
  <2> QED
      BY <2>1, <2>2
<1>2. TurnsByPlace'
  <2>1. CASE pc' = "wait"
      BY <2>1 DEF TurnsLeft, TurnsByPlace
  <2>2. CASE pc' # "wait"
      BY <2>2 DEF TurnsLeft, TurnsByPlace
  <2> QED
      BY <2>1, <2>2
<1> QED
    BY <1>1, <1>2

\* A step of a call.
LEMMA TurnTaken ==
    ASSUME TypeOK, TypeOK', Step, ~TestsAgain
    PROVE  TurnsLeft' \in Nat /\ TurnsLeft' < TurnsLeft
<1> USE DEF locals
<1>1. /\ USB_STREAM_TIMEOUT_MS \in Nat /\ USB_STREAM_TIMEOUT_MS < 255
      /\ TimeoutMSRem \in Nat /\ TimeoutMSRem <= USB_STREAM_TIMEOUT_MS
      /\ back \in {"idle", "received", "empty", "flushed"}
    BY StreamAssumption DEF StreamAssumption, TypeOK
<1>2. CASE WaitReady
  <2>1. pc = "wait" /\ pc' = back
      BY <1>2 DEF WaitReady
  <2> QED
      BY <1>1, <2>1, TurnsAt DEF TurnsByPlace
<1>3. CASE WaitDisconnected \/ WaitStalled \/ (WaitFrame /\ Expired)
  <2>1. pc = "wait" /\ (pc' = "idle" \/ pc' = back)
      BY <1>3 DEF WaitDisconnected, WaitStalled, WaitFrame, WaitError
  <2> QED
      BY <1>1, <2>1, TurnsAt DEF TurnsByPlace
<1>4. CASE WaitFrame /\ ~Expired
  <2>1. /\ pc = "wait" /\ pc' = "wait" /\ back' = back /\ TimeoutMSRem # 0
        /\ TimeoutMSRem' = (TimeoutMSRem - 1) % 256
      BY <1>4 DEF WaitFrame, Expired, Decremented
  <2>2. TimeoutMSRem' = TimeoutMSRem - 1
      BY <1>1, <2>1
  <2> QED
      BY <1>1, <2>1, <2>2, TurnsAt DEF TurnsByPlace
<1>5. CASE TestOUT
  <2>1. pc = "test" /\ pc' \in {"read", "clear"}
      BY <1>5 DEF TestOUT
  <2> QED
      BY <1>1, <2>1, TurnsAt DEF TurnsByPlace
<1>6. CASE ClearEmptyOUT
  <2>1. \/ pc' = "received"
        \/ pc' = "wait" /\ back' = "received" /\ TimeoutMSRem' = USB_STREAM_TIMEOUT_MS
      BY <1>6 DEF ClearEmptyOUT, StartWait
  <2>2. pc = "clear"
      BY <1>6 DEF ClearEmptyOUT
  <2> QED
      BY <1>1, <2>1, <2>2, TurnsAt DEF TurnsByPlace
<1>7. CASE AfterReceived
  <2>1. pc = "received" /\ pc' = "read"
      BY <1>7 DEF AfterReceived, TestByte, TestFull, TestsAgain
  <2> QED
      BY <2>1, TurnsAt DEF TurnsByPlace
<1>8. CASE FlushBank
  <2>1. /\ pc = "give" /\ pc' = "wait" /\ back' \in {"empty", "flushed"}
        /\ TimeoutMSRem' = USB_STREAM_TIMEOUT_MS
      BY <1>8 DEF FlushBank, StartWait
  <2> QED
      BY <1>1, <2>1, TurnsAt DEF TurnsByPlace
<1>9. CASE SendEmptyPacket
  <2>1. /\ pc = "empty" /\ pc' = "wait" /\ back' = "flushed"
        /\ TimeoutMSRem' = USB_STREAM_TIMEOUT_MS
      BY <1>9 DEF SendEmptyPacket, StartWait
  <2> QED
      BY <1>1, <2>1, TurnsAt DEF TurnsByPlace
<1>10. CASE EndFlush
  <2>1. pc = "flushed" /\ pc' \in {"idle", "write"}
      BY <1>10 DEF EndFlush, AfterFailedFlush
  <2> QED
      BY <2>1, TurnsAt DEF TurnsByPlace
<1>12. CASE TestByte
  <2>1. pc = "read" /\ pc' \in {"fetch", "idle"}
      BY <1>12 DEF TestByte
  <2> QED
      BY <2>1, TurnsAt DEF TurnsByPlace
<1>13. CASE TestFull
  <2>1. pc = "flush" /\ pc' = "give"
      BY <1>13 DEF TestFull
  <2> QED
      BY <1>1, <2>1, TurnsAt DEF TurnsByPlace
<1>11. CASE FetchByte \/ WriteByte
  <2>1. pc \in {"fetch", "write"} /\ pc' = "idle"
      BY <1>11 DEF FetchByte, WriteByte
  <2> QED
      BY <2>1, TurnsAt DEF TurnsByPlace
<1> QED
    BY <1>2, <1>3, <1>4, <1>5, <1>6, <1>7, <1>8, <1>9, <1>10, <1>11, <1>12, <1>13
    DEF Step

\* A step of the host, of the bus, or of no one.
LEMMA TurnKept ==
    ASSUME [Next]_vars, ~Step, pc # "idle"
    PROVE  TurnsLeft' = TurnsLeft
<1>1. UNCHANGED <<pc, back, TimeoutMSRem>>
    BY DEF Next, Caller, CallSend, CallFlush, CallGet, HostSends, HostReceives, Feature,
       SetHalt, ClearHaltOUT, ClearHaltIN, StartOfFrame, SuspendResume, Disconnect, locals, vars
<1> QED
    BY <1>1 DEF TurnsLeft

\* A call that does not block ends within 2 * USB_STREAM_TIMEOUT_MS + 8 of its own steps, for
\* every timeout that a uint8_t counts and whatever the host does: it can only stop returning by
\* waiting for a frame that never comes.
THEOREM TurnsCorrect == Spec => []TurnsBounded /\ TurnsSpent
<1>1. TypeOK => TurnsBounded
  <2> SUFFICES ASSUME TypeOK PROVE TurnsBounded
      OBVIOUS
  <2>1. /\ USB_STREAM_TIMEOUT_MS \in Nat /\ TimeoutMSRem \in Nat
        /\ TimeoutMSRem <= USB_STREAM_TIMEOUT_MS
        /\ pc \in {"idle", "wait", "test", "clear", "received", "read", "fetch", "flush", "give", "empty",
              "flushed", "write"}
      BY StreamAssumption DEF StreamAssumption, TypeOK
  <2>2. TurnsLeft \in Nat /\ TurnsLeft <= 2 * USB_STREAM_TIMEOUT_MS + 8
      BY <2>1, TurnsAt DEF TurnsByPlace
  <2>3. TurnsLeft = 0 <=> pc = "idle"
      BY <2>1, TurnsAt DEF TurnsByPlace
  <2> QED
      BY <2>2, <2>3 DEF TurnsBounded
<1>2. TypeOK /\ TypeOK' /\ [Next]_vars =>
        [~TestsAgain => /\ Step => TurnsLeft' < TurnsLeft
                        /\ pc # "idle" => TurnsLeft' <= TurnsLeft]_vars
  <2> SUFFICES ASSUME TypeOK, TypeOK', [Next]_vars, ~TestsAgain
               PROVE  /\ Step => TurnsLeft' < TurnsLeft
                      /\ pc # "idle" => TurnsLeft' <= TurnsLeft
      OBVIOUS
  <2>1. TurnsLeft \in Nat
      BY <1>1 DEF TurnsBounded
  <2>2. CASE Step
    <3>1. TurnsLeft' \in Nat /\ TurnsLeft' < TurnsLeft
        BY <2>2, TurnTaken
    <3> QED
        BY <2>1, <3>1
  <2>3. CASE ~Step
    <3>1. pc # "idle" => TurnsLeft' = TurnsLeft
        BY <2>3, TurnKept
    <3> QED
        BY <2>1, <2>3, <3>1
  <2> QED
      BY <2>2, <2>3
<1> QED
    BY <1>1, <1>2, TypeCorrect, PTL DEF Spec, TurnsSpent

=============================================================================
