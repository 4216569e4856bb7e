---------------------------- MODULE Drivers_proofs ----------------------------
(***************************************************************************)
(* What the RNDIS class drivers keep, for every set of messages and any    *)
(* number of calls and of frames; and what the CDC class drivers keep, for *)
(* any number of banks of any size, and any number of bytes.               *)
(***************************************************************************)
EXTENDS MCDrivers, SequenceTheorems, TLAPS

-----------------------------------------------------------------------------
(* The response to a message.                                              *)

\* While a call waits for its response, the device's buffer holds that response and no other.
ResponseInv ==
    /\ host = "get" => MessageLength /\ buffer = RequestID
    /\ Network!OwnResponse

\* A step that changes nothing of the call but where the host is, which was or is idle.
LEMMA ResponseFrame ==
    ASSUME ResponseInv, UNCHANGED <<RequestID, answer, settled, buffer, MessageLength>>,
           host' = host \/ host' # "get"
    PROVE  ResponseInv'
    BY DEF ResponseInv, Network!OwnResponse

\* Sending, answering and fetching.
LEMMA ResponseCalls ==
    ASSUME ResponseInv, Network!StartCall \/ Network!GetResponse
    PROVE  ResponseInv'
<1> USE DEF ResponseInv, Network!OwnResponse, Network!control
<1>1. CASE Network!StartCall
  <2>1. settled' = FALSE
      BY <1>1 DEF Network!StartCall
  <2>2. PICK message \in Messages : Network!SendCommand(message)
      BY <1>1 DEF Network!StartCall
  <2>3. CASE Network!ProcessMessage(message) /\ host' = "get"
    <3>1. Network!Answered(message)
        BY <2>2, <2>3 DEF Network!SendCommand
    <3> QED
        BY <2>1, <2>3, <3>1 DEF Network!ProcessMessage, Network!Taken, Network!Answered
  <2>4. CASE host' = "idle"
      BY <2>1, <2>4
  <2> QED
      BY <2>2, <2>3, <2>4 DEF Network!SendCommand
<1>2. CASE Network!GetResponse
  <2>1. host = "get" /\ host' = "idle" /\ RequestID' = RequestID
      BY <1>2 DEF Network!GetResponse
  <2>2. MessageLength /\ buffer = RequestID
      BY <2>1
  <2>3. CASE answer' = (IF MessageLength THEN buffer ELSE 0)
    <3>1. answer' = RequestID'
        BY <2>1, <2>2, <2>3
    <3> QED
        BY <2>1, <3>1
  <2>4. CASE UNCHANGED <<answer, settled>>
      BY <2>1, <2>4
  <2> QED
      BY <1>2, <2>3, <2>4 DEF Network!GetResponse
<1> QED
    BY <1>1, <1>2

\* The device's task, the application and the frames have no part in it.
LEMMA ResponseOthers ==
    ASSUME ResponseInv,
           \/ Network!Task \/ Network!TaskFails \/ Network!TakeFrame \/ Network!OfferFrame
           \/ Network!SendPacket \/ Network!IsPacketReceived \/ Network!ReadPacket
           \/ Network!PacketPart \/ Network!PacketFails \/ Network!Bus
           \/ UNCHANGED Network!rndisvars
    PROVE  ResponseInv'
<1> USE DEF Network!calls, Network!control
<1>1. CASE \/ Network!TakeFrame \/ Network!OfferFrame \/ Network!Bus
           \/ UNCHANGED Network!rndisvars
    BY <1>1, ResponseFrame DEF Network!TakeFrame, Network!OfferFrame, Network!Bus, Network!rndisvars
<1>2. CASE Network!Task
    BY <1>2, ResponseFrame
    DEF Network!Task, Network!Notify, Network!Notified, Network!MovesFrames, Network!ReadPart,
      Network!NothingToRead, Network!WritePart, Network!NothingToWrite
<1>3. CASE Network!SendPacket \/ Network!IsPacketReceived \/ Network!ReadPacket
    BY <1>3, ResponseFrame DEF Network!SendPacket, Network!IsPacketReceived, Network!ReadPacket
<1>4. CASE Network!SendPart \/ Network!ReceivePart \/ Network!Freeze
    BY <1>4, ResponseFrame DEF Network!SendPart, Network!ReceivePart, Network!Freeze
<1>5. CASE Network!Readable \/ Network!Unreadable
    BY <1>5, ResponseFrame DEF Network!Readable, Network!Unreadable
<1>6. CASE Network!TaskFails \/ Network!PacketFails
    BY <1>6, ResponseFrame DEF Network!TaskFails, Network!ReadFails, Network!WriteFails,
      Network!PacketFails
<1> QED
    BY <1>1, <1>2, <1>3, <1>4, <1>5, <1>6 DEF Network!PacketPart

\* What a call takes for the response to its message is that, whichever calls before it failed
\* on the way to the device or back.
THEOREM ResponseCorrect == FairSpec => []OwnResponse
<1>1. Init => ResponseInv
    BY DEF Init, Network!Init, ResponseInv, Network!OwnResponse
<1>2. ResponseInv /\ [Next]_vars => ResponseInv'
  <2> SUFFICES ASSUME ResponseInv, [Next]_vars PROVE ResponseInv'
      OBVIOUS
  <2>1. CASE Network!Next
      BY <2>1, ResponseCalls, ResponseOthers DEF Network!Next
  <2>2. CASE UNCHANGED network
    <3>1. UNCHANGED <<host, RequestID, answer, settled, buffer, MessageLength>>
        BY <2>2 DEF network
    <3> QED
        BY <3>1, ResponseFrame
  <2> QED
      BY <2>1, <2>2 DEF Next, InStorage, InReports, InLine, vars
<1>3. ResponseInv => OwnResponse
    BY DEF ResponseInv, OwnResponse
<1> QED
    BY <1>1, <1>2, <1>3, PTL DEF FairSpec

-----------------------------------------------------------------------------
(* Packets on a serial line.                                               *)

Packets == Seq(Seq(Nat))

\* The controller takes a packet, and the next one begins.
LEMMA HoldNext ==
    ASSUME NEW packets \in Packets, NEW first \in Nat, NEW last \in Nat,
           Line!Hold(packets, first, last)
    PROVE  Line!Hold(Append(packets, <<>>), first, last)
<1> DEFINE longer == Append(packets, <<>>)
<1>1. /\ DOMAIN packets = 1..Len(packets) /\ DOMAIN longer = 1..Len(packets) + 1
      /\ \A p \in DOMAIN packets : longer[p] = packets[p]
      /\ longer[Len(packets) + 1] = <<>> /\ DOMAIN longer[Len(packets) + 1] = {}
      /\ Len(packets) \in Nat
    BY DEF Packets
<1>2. \A p \in DOMAIN longer : \A k \in DOMAIN longer[p] : p \in DOMAIN packets
    BY <1>1
<1>3. DOMAIN packets \subseteq DOMAIN longer
    BY <1>1
<1> HIDE DEF longer
<1>4. \A p \in DOMAIN longer : \A k \in DOMAIN longer[p] : longer[p] = packets[p]
    BY <1>1, <1>2
<1>5. \A p \in DOMAIN longer : \A k \in DOMAIN longer[p] : longer[p][k] \in first..last
    BY <1>2, <1>4 DEF Line!Hold
<1>6. \A byte \in first..last : \E p \in DOMAIN longer : \E k \in DOMAIN longer[p] : longer[p][k] = byte
    BY <1>1, <1>3 DEF Line!Hold
<1>7. \A p, q \in DOMAIN longer : \A k \in DOMAIN longer[p], n \in DOMAIN longer[q] :
         p < q \/ (p = q /\ k < n) => longer[p][k] < longer[q][n]
    BY <1>2, <1>4 DEF Line!Hold
<1>8. Line!Hold(longer, first, last)
    BY <1>5, <1>6, <1>7 DEF Line!Hold
<1> QED
    BY <1>8 DEF longer

\* A byte goes into the last packet.
LEMMA HoldPut ==
    ASSUME NEW packets \in Packets, NEW tail \in Seq(Nat), NEW first \in Nat, NEW last \in Nat,
           first <= last + 1, Line!Hold(Append(packets, tail), first, last)
    PROVE  Line!Hold(Append(packets, Append(tail, last + 1)), first, last + 1)
<1> DEFINE old == Append(packets, tail)
           new == Append(packets, Append(tail, last + 1))
           z == Len(packets) + 1
           e == Len(tail) + 1
<1>0. Line!Hold(old, first, last)
    OBVIOUS
<1>a. /\ Len(packets) \in Nat /\ Len(tail) \in Nat
      /\ old[z] = tail /\ new[z] = Append(tail, last + 1)
      /\ \A p \in 1..Len(packets) : old[p] = packets[p] /\ new[p] = packets[p] /\ packets[p] \in Seq(Nat)
    BY DEF Packets
<1>b. /\ z \in Nat \ {0} /\ DOMAIN old = 1..z /\ DOMAIN new = 1..z
    BY DEF Packets
<1>c. /\ e \in Nat \ {0} /\ DOMAIN tail = 1..e - 1 /\ DOMAIN Append(tail, last + 1) = 1..e
      /\ \A k \in 1..e - 1 : Append(tail, last + 1)[k] = tail[k]
      /\ Append(tail, last + 1)[e] = last + 1
    OBVIOUS
<1>d. \A p \in DOMAIN new : DOMAIN new[p] \subseteq Nat
  <2> SUFFICES ASSUME NEW p \in DOMAIN new PROVE DOMAIN new[p] \subseteq Nat
      OBVIOUS
  <2>1. CASE p = z
      BY <2>1, <1>a, <1>c
  <2>2. CASE p # z
      BY <2>2, <1>a, <1>b
  <2> QED
      BY <2>1, <2>2
<1>1. /\ z \in Nat \ {0} /\ DOMAIN old = 1..z /\ DOMAIN new = 1..z
      /\ \A p \in DOMAIN old : p # z => old[p] = new[p]
      /\ e \in Nat \ {0} /\ DOMAIN old[z] = 1..e - 1 /\ DOMAIN new[z] = 1..e /\ z \in DOMAIN old
      /\ \A k \in 1..e - 1 : new[z][k] = old[z][k]
      /\ new[z][e] = last + 1
      /\ \A p \in DOMAIN new : DOMAIN new[p] \subseteq Nat
    BY <1>a, <1>b, <1>c, <1>d
<1> HIDE DEF old, new, z, e
<1>2. \A p \in DOMAIN new : \A k \in DOMAIN new[p] :
        (p = z /\ k = e) \/ (k \in DOMAIN old[p] /\ new[p][k] = old[p][k])
    BY <1>1
<1>3. \A p \in DOMAIN old : \A k \in DOMAIN old[p] : k \in DOMAIN new[p] /\ new[p][k] = old[p][k]
    BY <1>1
<1>4. \A p \in DOMAIN new : \A k \in DOMAIN new[p] : new[p][k] \in first..last + 1
    BY <1>0, <1>1, <1>2 DEF Line!Hold
<1>5. ASSUME NEW byte \in first..last + 1
      PROVE  \E p \in DOMAIN new : \E k \in DOMAIN new[p] : new[p][k] = byte
  <2>1. CASE byte = last + 1
      BY <1>1, <2>1
  <2>2. CASE byte \in first..last
    <3>1. PICK p \in DOMAIN old : \E k \in DOMAIN old[p] : old[p][k] = byte
        BY <2>2, <1>0 DEF Line!Hold
    <3> QED
        BY <3>1, <1>3, <1>1
  <2> QED
      BY <2>1, <2>2
<1>6. ASSUME NEW p \in DOMAIN new, NEW q \in DOMAIN new, NEW k \in DOMAIN new[p],
             NEW n \in DOMAIN new[q], p < q \/ (p = q /\ k < n)
      PROVE  new[p][k] < new[q][n]
  <2>1. CASE q = z /\ n = e
    <3>1. ~(p = z /\ k = e)
        BY <1>6, <2>1, <1>1
    <3>2. new[p][k] \in first..last
        BY <3>1, <1>0, <1>2, <1>1 DEF Line!Hold
    <3> QED
        BY <3>2, <2>1, <1>1
  <2>2. CASE ~(q = z /\ n = e)
    <3>1. n \in DOMAIN old[q] /\ new[q][n] = old[q][n]
        BY <2>2, <1>2
    <3>2. k \in DOMAIN old[p] /\ new[p][k] = old[p][k]
      <4>1. ~(p = z /\ k = e)
          BY <1>6, <2>2, <1>1
      <4> QED
          BY <4>1, <1>2
    <3> QED
        BY <3>1, <3>2, <1>0, <1>6, <1>1 DEF Line!Hold
  <2> QED
      BY <2>1, <2>2
<1> QED
    BY <1>4, <1>5, <1>6 DEF Line!Hold, new

\* A packet without bytes is given back.
LEMMA HoldDrop ==
    ASSUME NEW packets \in Packets, packets # <<>>, Head(packets) = <<>>,
           NEW first \in Nat, NEW last \in Nat, Line!Hold(packets, first, last)
    PROVE  Line!Hold(Tail(packets), first, last)
<1> DEFINE fewer == Tail(packets)
<1>1. /\ Len(packets) \in Nat \ {0} /\ DOMAIN packets = 1..Len(packets)
      /\ DOMAIN fewer = 1..Len(packets) - 1
      /\ \A p \in DOMAIN fewer : fewer[p] = packets[p + 1] /\ p + 1 \in DOMAIN packets
      /\ packets[1] = <<>>
    BY DEF Packets
<1>2. DOMAIN packets[1] = {}
    BY <1>1
<1>3. \A p \in DOMAIN packets : p # 1 => p - 1 \in DOMAIN fewer /\ packets[p] = fewer[p - 1]
    BY <1>1
<1> HIDE DEF fewer
<1>4. \A byte \in first..last :
          \E p \in DOMAIN fewer : \E k \in DOMAIN fewer[p] : fewer[p][k] = byte
  <2> SUFFICES ASSUME NEW byte \in first..last
               PROVE  \E p \in DOMAIN fewer : \E k \in DOMAIN fewer[p] : fewer[p][k] = byte
      OBVIOUS
  <2>1. PICK p \in DOMAIN packets : \E k \in DOMAIN packets[p] : packets[p][k] = byte
      BY DEF Line!Hold
  <2>2. p # 1
      BY <2>1, <1>2
  <2> QED
      BY <2>1, <2>2, <1>3
<1>5. \A p \in DOMAIN fewer : \A k \in DOMAIN fewer[p] : fewer[p][k] \in first..last
    BY <1>1 DEF Line!Hold
<1>6. \A p, q \in DOMAIN fewer : \A k \in DOMAIN fewer[p], n \in DOMAIN fewer[q] :
          p < q \/ (p = q /\ k < n) => fewer[p][k] < fewer[q][n]
  <2> SUFFICES ASSUME NEW p \in DOMAIN fewer, NEW q \in DOMAIN fewer,
                      NEW k \in DOMAIN fewer[p], NEW n \in DOMAIN fewer[q],
                      p < q \/ (p = q /\ k < n)
               PROVE  fewer[p][k] < fewer[q][n]
      OBVIOUS
  <2>1. /\ p + 1 \in DOMAIN packets /\ q + 1 \in DOMAIN packets
        /\ fewer[p] = packets[p + 1] /\ fewer[q] = packets[q + 1]
        /\ p + 1 < q + 1 \/ (p + 1 = q + 1 /\ k < n)
      BY <1>1
  <2> QED
      BY <2>1 DEF Line!Hold
<1> QED
    BY <1>4, <1>5, <1>6 DEF Line!Hold, fewer

\* The first byte of the first packet is read: it is the first of all.
LEMMA HoldRead ==
    ASSUME NEW packets \in Packets, packets # <<>>, Head(packets) # <<>>,
           NEW first \in Nat, NEW last \in Nat, Line!Hold(packets, first, last)
    PROVE  /\ Head(Head(packets)) = first
           /\ Line!Hold([packets EXCEPT ![1] = Tail(@)], first + 1, last)
<1> DEFINE new == [packets EXCEPT ![1] = Tail(@)]
<1>1. /\ Len(packets) \in Nat \ {0} /\ DOMAIN packets = 1..Len(packets) /\ 1 \in DOMAIN packets
      /\ packets[1] = Head(packets) /\ packets[1] \in Seq(Nat)
      /\ \A p \in DOMAIN packets : packets[p] \in Seq(Nat)
    BY DEF Packets
<1>2. /\ Len(packets[1]) \in Nat \ {0} /\ DOMAIN packets[1] = 1..Len(packets[1])
      /\ 1 \in DOMAIN packets[1] /\ packets[1][1] = Head(Head(packets))
      /\ \A p \in DOMAIN packets : DOMAIN packets[p] = 1..Len(packets[p]) /\ Len(packets[p]) \in Nat
    BY <1>1
<1>3. /\ DOMAIN new = DOMAIN packets /\ new[1] = Tail(packets[1])
      /\ \A p \in DOMAIN new : p # 1 => new[p] = packets[p]
    BY <1>1
<1>4. /\ DOMAIN new[1] = 1..Len(packets[1]) - 1
      /\ \A k \in DOMAIN new[1] : new[1][k] = packets[1][k + 1] /\ k + 1 \in DOMAIN packets[1]
    BY <1>1, <1>2, <1>3
<1> HIDE DEF new
<1>5. \A p \in DOMAIN packets : \A k \in DOMAIN packets[p] :
         ~(p = 1 /\ k = 1) => packets[1][1] < packets[p][k]
  <2> SUFFICES ASSUME NEW p \in DOMAIN packets, NEW k \in DOMAIN packets[p], ~(p = 1 /\ k = 1)
               PROVE  packets[1][1] < packets[p][k]
      OBVIOUS
  <2>1. 1 < p \/ (1 = p /\ 1 < k)
      BY <1>1, <1>2
  <2> QED
      BY <2>1, <1>1, <1>2 DEF Line!Hold
<1>6. packets[1][1] = first
  <2>1. packets[1][1] \in first..last
      BY <1>1, <1>2 DEF Line!Hold
  <2>2. PICK p \in DOMAIN packets : \E k \in DOMAIN packets[p] : packets[p][k] = first
      BY <2>1 DEF Line!Hold
  <2> QED
      BY <2>1, <2>2, <1>5
<1>7. \A p \in DOMAIN new : \A k \in DOMAIN new[p] :
         \E n \in DOMAIN packets[p] : /\ new[p][k] = packets[p][n] /\ ~(p = 1 /\ n = 1)
                                      /\ n = IF p = 1 THEN k + 1 ELSE k
  <2> SUFFICES ASSUME NEW p \in DOMAIN new, NEW k \in DOMAIN new[p]
               PROVE  \E n \in DOMAIN packets[p] :
                         /\ new[p][k] = packets[p][n] /\ ~(p = 1 /\ n = 1)
                         /\ n = IF p = 1 THEN k + 1 ELSE k
      OBVIOUS
  <2>1. CASE p = 1
    <3>1. k + 1 \in DOMAIN packets[p] /\ new[p][k] = packets[p][k + 1] /\ k + 1 # 1
        BY <2>1, <1>2, <1>4
    <3> QED
        BY <2>1, <3>1
  <2>2. CASE p # 1
      BY <2>2, <1>3
  <2> QED
      BY <2>1, <2>2
<1>8. \A p \in DOMAIN new : \A k \in DOMAIN new[p] : new[p][k] \in first + 1..last
  <2> SUFFICES ASSUME NEW p \in DOMAIN new, NEW k \in DOMAIN new[p]
               PROVE  new[p][k] \in first + 1..last
      OBVIOUS
  <2>1. PICK n \in DOMAIN packets[p] : new[p][k] = packets[p][n] /\ ~(p = 1 /\ n = 1)
      BY <1>7
  <2>2. packets[p][n] \in first..last /\ packets[p][n] # first
    <3>1. packets[p][n] \in first..last
        BY <1>3 DEF Line!Hold
    <3> QED
        BY <3>1, <2>1, <1>3, <1>5, <1>6
  <2> QED
      BY <2>1, <2>2
<1>9. \A byte \in first + 1..last :
          \E p \in DOMAIN new : \E k \in DOMAIN new[p] : new[p][k] = byte
  <2> SUFFICES ASSUME NEW byte \in first + 1..last
               PROVE  \E p \in DOMAIN new : \E k \in DOMAIN new[p] : new[p][k] = byte
      OBVIOUS
  <2>1. PICK p \in DOMAIN packets : \E k \in DOMAIN packets[p] : packets[p][k] = byte
      BY DEF Line!Hold
  <2>2. PICK k \in DOMAIN packets[p] : packets[p][k] = byte
      BY <2>1
  <2>3. CASE p # 1
      BY <2>2, <2>3, <1>3
  <2>4. CASE p = 1
    <3>1. k # 1
        BY <2>2, <2>4, <1>6
    <3>2. k - 1 \in DOMAIN new[1] /\ new[1][k - 1] = byte
        BY <3>1, <2>2, <2>4, <1>2, <1>4
    <3> QED
        BY <3>2, <1>3, <1>1
  <2> QED
      BY <2>3, <2>4
<1>10. \A p, q \in DOMAIN new : \A k \in DOMAIN new[p], n \in DOMAIN new[q] :
          p < q \/ (p = q /\ k < n) => new[p][k] < new[q][n]
  <2> SUFFICES ASSUME NEW p \in DOMAIN new, NEW q \in DOMAIN new,
                      NEW k \in DOMAIN new[p], NEW n \in DOMAIN new[q],
                      p < q \/ (p = q /\ k < n)
               PROVE  new[p][k] < new[q][n]
      OBVIOUS
  <2>1. PICK x \in DOMAIN packets[p] : new[p][k] = packets[p][x] /\ x = IF p = 1 THEN k + 1 ELSE k
      BY <1>7
  <2>2. PICK y \in DOMAIN packets[q] : new[q][n] = packets[q][y] /\ y = IF q = 1 THEN n + 1 ELSE n
      BY <1>7
  <2>3. \A r \in DOMAIN new : \A m \in DOMAIN new[r] : m \in Nat
    <3> SUFFICES ASSUME NEW r \in DOMAIN new, NEW m \in DOMAIN new[r] PROVE m \in Nat
        OBVIOUS
    <3>1. CASE r = 1
        BY <3>1, <1>2, <1>4
    <3>2. CASE r # 1
        BY <3>2, <1>2, <1>3
    <3> QED
        BY <3>1, <3>2
  <2>4. p < q \/ (p = q /\ x < y)
      BY <2>1, <2>2, <2>3
  <2>5. packets[p][x] < packets[q][y]
      BY <2>4, <1>3 DEF Line!Hold
  <2> QED
      BY <2>5, <2>1, <2>2
<1> QED
    BY <1>2, <1>6, <1>8, <1>9, <1>10 DEF Line!Hold, new

\* Packets are a first packet, and others.
LEMMA WaySplit ==
    ASSUME NEW q \in Packets, q # <<>>
    PROVE  /\ Head(q) \in Seq(Nat) /\ Tail(q) \in Packets
           /\ q = <<Head(q)>> \o Tail(q)
<1>1. Head(q) \in Seq(Nat) /\ Tail(q) \in Packets
    BY HeadTailProperties DEF Packets
<1>2. q = <<Head(q)>> \o Tail(q)
    BY HeadTailProperties DEF Packets
<1> QED
    BY <1>1, <1>2

\* What the steps do to the packets on the way: nothing when one crosses the bus.
LEMMA WayMoves ==
    ASSUME NEW r \in Packets, NEW packet \in Seq(Nat), NEW others \in Packets
    PROVE  /\ Append(r, packet) \o others = r \o (<<packet>> \o others)
           /\ Append(r, packet) \in Packets
<1>1. Append(r, packet) = r \o <<packet>> /\ Append(r, packet) \in Packets
    BY AppendIsConcat, AppendProperties DEF Packets
<1>2. <<packet>> \in Packets
    BY DEF Packets
<1>3. (r \o <<packet>>) \o others = r \o (<<packet>> \o others)
    BY <1>2, ConcatAssociative DEF Packets
<1> QED
    BY <1>1, <1>3

\* A packet that is transferred stays at its place among all that are on their way.
LEMMA WayTransfer ==
    ASSUME NEW r \in Packets, NEW q \in Packets, q # <<>>
    PROVE  /\ Append(r, Head(q)) \o Tail(q) = r \o q
           /\ Append(r, Head(q)) \in Packets /\ Tail(q) \in Packets
<1>1. \A packet \in Seq(Nat), others \in Packets :
         /\ Append(r, packet) \o others = r \o (<<packet>> \o others)
         /\ Append(r, packet) \in Packets
    BY WayMoves
<1>2. Head(q) \in Seq(Nat) /\ Tail(q) \in Packets
    BY WaySplit
<1>3. q = <<Head(q)>> \o Tail(q)
    BY WaySplit
<1>4. /\ Append(r, Head(q)) \o Tail(q) = r \o (<<Head(q)>> \o Tail(q))
      /\ Append(r, Head(q)) \in Packets
    BY <1>1, <1>2
<1> QED
    BY <1>2, <1>3, <1>4, Zenon

\* An empty packet follows when one is given to the controller.
LEMMA WayClear ==
    ASSUME NEW r \in Packets, NEW q \in Packets, NEW b \in Seq(Nat)
    PROVE  /\ r \o Append(q, b) \o << <<>> >> = Append(r \o q \o <<b>>, <<>>)
           /\ Append(q, b) \in Packets
<1>1. <<b>> \in Packets /\ Append(q, b) = q \o <<b>> /\ Append(q, b) \in Packets /\ <<>> \in Seq(Nat)
    BY AppendIsConcat, AppendProperties DEF Packets
<1>2. r \o (q \o <<b>>) = r \o q \o <<b>>
    BY <1>1, ConcatAssociative DEF Packets
<1>3. r \o q \in Packets /\ r \o q \o <<b>> \in Packets
    BY <1>1, ConcatProperties DEF Packets
<1>4. Append(r \o q \o <<b>>, <<>>) = (r \o q \o <<b>>) \o << <<>> >>
    BY <1>1, <1>3, AppendIsConcat DEF Packets
<1> QED
    BY <1>1, <1>2, <1>4

\* The last packet is the one being written.
LEMMA WayPut ==
    ASSUME NEW r \in Packets, NEW q \in Packets, NEW b \in Seq(Nat)
    PROVE  /\ r \o q \o <<b>> = Append(r \o q, b) /\ r \o q \in Packets
           /\ r \o q \o <<b>> \in Packets
<1>1. r \o q \in Packets
    BY ConcatProperties DEF Packets
<1>2. Append(r \o q, b) = (r \o q) \o <<b>> /\ Append(r \o q, b) \in Packets
    BY <1>1, AppendIsConcat, AppendProperties DEF Packets
<1> QED
    BY <1>1, <1>2

\* A first packet, and what follows it.
LEMMA WayBegins ==
    ASSUME NEW packet \in Seq(Nat), NEW others \in Packets
    PROVE  /\ <<packet>> \o others \in Packets /\ <<packet>> \o others # <<>>
           /\ Head(<<packet>> \o others) = packet /\ Tail(<<packet>> \o others) = others
           /\ packet # <<>> =>
                [<<packet>> \o others EXCEPT ![1] = Tail(@)] = <<Tail(packet)>> \o others
<1> DEFINE w == <<packet>> \o others
<1>1. /\ w \in Packets /\ Len(w) = 1 + Len(others) /\ Len(others) \in Nat
      /\ w[1] = packet /\ \A i \in 1..Len(others) : w[i + 1] = others[i]
    BY ConcatProperties DEF Packets
<1>2. w # <<>> /\ Head(w) = packet
    BY <1>1 DEF Packets
<1>3. Tail(w) = others
  <2> HIDE DEF w
  <2>1. Tail(w) \in Packets /\ Len(Tail(w)) = Len(others)
      BY <1>1, <1>2, HeadTailProperties DEF Packets
  <2>2. \A i \in 1..Len(Tail(w)) : Tail(w)[i] = others[i]
      BY <1>1, <1>2, <2>1, HeadTailProperties DEF Packets
  <2> QED
      BY <2>1, <2>2, SeqEqual DEF Packets
<1>4. ASSUME packet # <<>> PROVE [w EXCEPT ![1] = Tail(@)] = <<Tail(packet)>> \o others
  <2> DEFINE v == [w EXCEPT ![1] = Tail(packet)]
             x == <<Tail(packet)>> \o others
  <2>1. Tail(packet) \in Seq(Nat)
      BY <1>4, HeadTailProperties
  <2>2. /\ v \in Packets /\ Len(v) = Len(w) /\ v[1] = Tail(packet)
        /\ \A i \in 1..Len(others) : v[i + 1] = others[i]
    <3> HIDE DEF w
    <3> QED
        BY <1>1, <2>1, ExceptSeq DEF Packets
  <2>3. /\ x \in Packets /\ Len(x) = 1 + Len(others) /\ x[1] = Tail(packet)
        /\ \A i \in 1..Len(others) : x[i + 1] = others[i]
      BY <2>1, ConcatProperties DEF Packets
  <2>4. v = x
    <3> HIDE DEF v, x, w
    <3>1. \A i \in 1..Len(v) : v[i] = x[i]
      <4> SUFFICES ASSUME NEW i \in 1..Len(v) PROVE v[i] = x[i]
          OBVIOUS
      <4>1. CASE i = 1
          BY <4>1, <2>2, <2>3
      <4>2. CASE i # 1
        <5>1. i - 1 \in 1..Len(others) /\ (i - 1) + 1 = i
            BY <4>2, <1>1, <2>2
        <5> QED
            BY <5>1, <2>2, <2>3
      <4> QED
          BY <4>1, <4>2
    <3> QED
        BY <3>1, <1>1, <2>2, <2>3, SeqEqual DEF Packets
  <2>5. [w EXCEPT ![1] = Tail(@)] = v
      BY <1>1
  <2> QED
      BY <2>4, <2>5
<1> QED
    BY <1>1, <1>2, <1>3, <1>4

\* The first is the one being read.
LEMMA WayFirst ==
    ASSUME NEW packet \in Seq(Nat), NEW others \in Packets, NEW q \in Packets, NEW b \in Seq(Nat)
    PROVE  /\ (<<packet>> \o others) \o q \o <<b>> = <<packet>> \o (others \o q \o <<b>>)
           /\ others \o q \o <<b>> \in Packets
<1>1. others \o q \in Packets /\ <<b>> \in Packets /\ <<packet>> \in Packets
    BY ConcatProperties DEF Packets
<1>2. others \o q \o <<b>> \in Packets
    BY <1>1, ConcatProperties DEF Packets
<1>3. (<<packet>> \o others) \o q = <<packet>> \o (others \o q)
    BY <1>1, ConcatAssociative DEF Packets
<1>4. (<<packet>> \o (others \o q)) \o <<b>> = <<packet>> \o (others \o q \o <<b>>)
    BY <1>1, ConcatAssociative DEF Packets
<1> QED
    BY <1>2, <1>3, <1>4

-----------------------------------------------------------------------------
(* Bytes of a serial line.                                                 *)

LineTypes ==
    /\ accepted \in Nat /\ got \in 0..accepted /\ rest \in Nat /\ readable \in Nat
    /\ BankFull \in BOOLEAN /\ lapsed \in BOOLEAN /\ short \in BOOLEAN
    /\ bank \in Seq(Nat) /\ queue \in Packets /\ received \in Packets

\* The writer gives away a full bank before it writes, and puts no byte into a bank that is not free.
WriterInv ==
    /\ writer \in {"idle", "write", "clear", "wait", "wait string", "string", "clear string", "bytes",
                   "full", "flush", "wait flush", "empty"}
    /\ ~Line!Ready => bank = <<>>
    /\ writer = "write" => Line!ReadWriteAllowed
    /\ writer \in {"wait", "wait flush", "empty"} => bank = <<>>
    /\ writer = "empty" => Line!Ready
    /\ writer = "flush" /\ ~BankFull => Line!ReadWriteAllowed
    /\ writer \in {"clear string", "wait string"} => rest > 0

\* No byte or empty packet is to follow.
Ending == writer \in {"idle", "bytes", "full", "flush"} \/ (writer = "string" /\ rest = 0)

\* The last packet that was sent is short, unless bytes follow it.
ShortInv == Ending => lapsed \/ short \/ bank # <<>>

\* The reader was told of no more bytes than the first packet holds.
ReaderInv == readable > 0 => received # <<>> /\ readable <= Len(Head(received))

LineInv == LineTypes /\ WriterInv /\ ShortInv /\ ReaderInv /\ InOrder

\* The beginning of a call.
LEMMA LineCalls ==
    ASSUME LineInv, Line!SendByte \/ Line!SendString \/ Line!Flush
    PROVE  LineInv'
<1>1. /\ UNCHANGED <<accepted, got, readable, BankFull, lapsed, short, bank, queue, received>>
      /\ writer = "idle" /\ (lapsed \/ short \/ bank # <<>>) /\ LineTypes /\ WriterInv /\ ReaderInv
      /\ (Len(queue) < Banks \/ bank = <<>>)
    BY DEF Line!SendByte, Line!SendString, Line!Flush, LineInv, ShortInv, Ending, WriterInv,
      Line!Called, Line!reads, Line!Ready
<1>2. \/ Line!ReadWriteAllowed /\ writer' = "write" /\ rest' = 0
      \/ writer' = "clear" /\ rest' = 0
      \/ writer' = "wait string" /\ rest' \in Nat /\ rest' > 0
      \/ writer' = "bytes" /\ rest' = rest
  <2>1. CASE Line!SendByte
      BY <2>1 DEF Line!SendByte
  <2>2. CASE Line!SendString
    <3>1. rest' \in 1..(Longest - accepted) /\ accepted \in Nat
        BY <2>2, <1>1 DEF Line!SendString, LineTypes
    <3>2. rest' \in Nat /\ rest' > 0
        BY <3>1, LineAssumption DEF LineAssumption
    <3> QED
        BY <2>2, <3>2 DEF Line!SendString
  <2>3. CASE Line!Flush
      BY <2>3 DEF Line!Flush
  <2> QED
      BY <2>1, <2>2, <2>3
<1>3. WriterInv' /\ ShortInv'
  <2> USE DEF Line!Ready, Line!ReadWriteAllowed
  <2>1. writer' \in {"write", "clear", "wait string", "bytes"}
      BY <1>2
  <2>a. writer' = "write" => Line!ReadWriteAllowed'
      BY <1>1, <1>2
  <2>b. ~Line!Ready' => bank' = <<>>
      BY <1>1
  <2>c. writer' \in {"clear string", "wait string"} => rest' > 0
      BY <1>2
  <2>d. ~(writer' \in {"wait", "wait flush", "empty"}) /\ writer' # "flush"
      BY <2>1
  <2>2. WriterInv'
      BY <2>1, <2>a, <2>b, <2>c, <2>d DEF WriterInv
  <2>3. ShortInv'
      BY <1>1, <2>1 DEF ShortInv, Ending
  <2> QED
      BY <2>2, <2>3
<1>4. LineTypes' /\ ReaderInv'
  <2>0. rest \in Nat
      BY <1>1 DEF LineTypes
  <2>1. rest' \in Nat
    <3>1. CASE rest' = 0
        BY <3>1
    <3>2. CASE rest' = rest
        BY <3>2, <2>0
    <3> QED
        BY <1>2, <3>1, <3>2
  <2>2. LineTypes'
      BY <1>1, <2>1 DEF LineTypes
  <2>3. ReaderInv'
      BY <1>1 DEF ReaderInv
  <2> QED
      BY <2>2, <2>3
<1>5. InOrder'
    BY <1>1 DEF LineInv, InOrder, Line!InOrder
<1> QED
    BY <1>3, <1>4, <1>5 DEF LineInv

\* A bank is given to the controller.
LEMMA LineClears ==
    ASSUME LineInv, Line!Clear, UNCHANGED <<accepted, got, received>>
    PROVE  /\ bank' = <<>> /\ bank' \in Seq(Nat) /\ queue' \in Packets /\ short' \in BOOLEAN
           /\ InOrder'
<1>1. CASE Line!Ready
  <2>1. queue' = Append(queue, bank) /\ bank' = <<>> /\ short' \in BOOLEAN
      BY <1>1 DEF Line!Clear
  <2>2. /\ received \o Append(queue, bank) \o << <<>> >> = Append(received \o queue \o <<bank>>, <<>>)
        /\ Append(queue, bank) \in Packets
      BY WayClear DEF LineInv, LineTypes
  <2>3. received \o queue \o <<bank>> \in Packets
      BY WayPut DEF LineInv, LineTypes
  <2>4. InOrder'
    <3>1. Line!Hold(Append(received \o queue \o <<bank>>, <<>>), got + 1, accepted)
        BY <2>3, HoldNext DEF LineInv, LineTypes, InOrder, Line!InOrder
    <3> QED
        BY <2>1, <2>2, <3>1 DEF InOrder, Line!InOrder
  <2> QED
      BY <2>1, <2>2, <2>4
<1>2. CASE ~Line!Ready
    BY <1>2 DEF Line!Clear, LineInv, LineTypes, WriterInv, InOrder, Line!InOrder
<1> QED
    BY <1>1, <1>2

\* A byte goes into a bank that takes it.
LEMMA LinePuts ==
    ASSUME LineInv, Line!Put, Line!ReadWriteAllowed, UNCHANGED <<got, received, queue>>
    PROVE  bank' \in Seq(Nat) /\ bank' # <<>> /\ accepted' \in Nat /\ InOrder'
<1>1. bank' = Append(bank, accepted + 1) /\ accepted' = accepted + 1
    BY DEF Line!Put
<1>2. received \o queue \in Packets
    BY WayPut DEF LineInv, LineTypes
<1>3. \A b \in Seq(Nat) : received \o queue \o <<b>> = Append(received \o queue, b)
    BY WayPut DEF LineInv, LineTypes
<1>4. bank' \in Seq(Nat) /\ bank' # <<>>
    BY <1>1, AppendProperties DEF LineInv, LineTypes
<1>5. got + 1 <= accepted + 1
    BY DEF LineInv, LineTypes
<1>6. Line!Hold(Append(received \o queue, bank), got + 1, accepted)
    BY <1>3 DEF LineInv, LineTypes, InOrder, Line!InOrder
<1>7. accepted \in Nat /\ got + 1 \in Nat /\ bank \in Seq(Nat)
    BY DEF LineInv, LineTypes
<1>8. Line!Hold(Append(received \o queue, bank'), got + 1, accepted + 1)
    BY <1>1, <1>2, <1>5, <1>6, <1>7, HoldPut
<1>9. Line!Hold(received \o queue \o <<bank'>>, got + 1, accepted + 1)
    BY <1>3, <1>4, <1>8
<1> QED
    BY <1>1, <1>4, <1>7, <1>9 DEF InOrder, Line!InOrder

\* A bank is cleared.
LEMMA LineClearSteps ==
    ASSUME LineInv, Line!ClearFirst \/ Line!ClearFlushed \/ Line!ClearEmpty
    PROVE  LineInv'
<1> USE DEF Line!Ready, Line!ReadWriteAllowed
<1>1. /\ Line!Clear /\ UNCHANGED <<accepted, got, received, readable, BankFull, lapsed>>
      /\ LineTypes /\ WriterInv /\ ReaderInv
    BY DEF Line!ClearFirst, Line!ClearFlushed, Line!ClearEmpty, LineInv, Line!reads
<1>2. /\ bank' = <<>> /\ bank' \in Seq(Nat) /\ queue' \in Packets /\ short' \in BOOLEAN
      /\ InOrder'
    BY <1>1, LineClears
<1>3. \/ /\ writer \in {"clear", "clear string"} /\ rest' = rest
         /\ writer' = (IF writer = "clear" THEN "wait" ELSE "wait string")
      \/ writer = "flush" /\ BankFull /\ writer' = "wait flush" /\ rest' = rest
      \/ writer = "flush" /\ ~BankFull /\ writer' = "idle" /\ rest' = 0
      \/ writer = "empty" /\ writer' = "idle" /\ rest' = 0
    BY DEF Line!ClearFirst, Line!ClearFlushed, Line!ClearEmpty, Line!Returns, Line!AfterFull
<1>4. rest' \in Nat
  <2>1. rest \in Nat
      BY <1>1 DEF LineTypes
  <2>2. rest' = rest \/ rest' = 0
      BY <1>3
  <2> QED
      BY <2>1, <2>2
<1>5. LineTypes'
    BY <1>1, <1>2, <1>4 DEF LineTypes
<1>6. ReaderInv'
    BY <1>1 DEF ReaderInv
<1>7. WriterInv'
  <2>1. writer' \in {"wait", "wait string", "wait flush", "idle"}
      BY <1>3
  <2>2. writer' = "wait string" => rest' > 0
      BY <1>1, <1>3 DEF WriterInv
  <2> QED
      BY <2>1, <2>2, <1>2 DEF WriterInv
<1>8. ShortInv'
  <2>1. CASE writer' = "idle"
    <3>1. Len(queue) < Banks /\ Len(bank) < BankSize
      <4>1. CASE writer = "flush"
          BY <4>1, <1>1, <1>3, <2>1 DEF WriterInv
      <4>2. CASE writer = "empty"
          BY <4>2, <1>1, LineAssumption DEF WriterInv, LineAssumption
      <4> QED
          BY <4>1, <4>2, <1>3, <2>1
    <3>2. short'
        BY <3>1, <1>1 DEF Line!Clear
    <3> QED
        BY <3>2 DEF ShortInv
  <2>2. CASE writer' # "idle"
    <3>1. writer' \in {"wait", "wait string", "wait flush"}
        BY <2>2, <1>3
    <3> QED
        BY <3>1 DEF ShortInv, Ending
  <2> QED
      BY <2>1, <2>2
<1> QED
    BY <1>2, <1>5, <1>6, <1>7, <1>8 DEF LineInv

\* A byte is written.
LEMMA LineWrites ==
    ASSUME LineInv, Line!WriteByte \/ (Line!Stream /\ rest > 0 /\ Line!ReadWriteAllowed)
    PROVE  LineInv'
<1>1. /\ UNCHANGED <<got, received, readable, BankFull, queue, short, lapsed>> /\ Line!Put
      /\ LineTypes /\ WriterInv /\ ReaderInv /\ Line!ReadWriteAllowed
  <2>1. CASE Line!WriteByte
      BY <2>1 DEF Line!WriteByte, LineInv, WriterInv, Line!reads
  <2>2. CASE Line!Stream /\ rest > 0 /\ Line!ReadWriteAllowed
    <3>1. rest # 0
        BY <2>2 DEF LineInv, LineTypes
    <3> QED
        BY <3>1, <2>2 DEF Line!Stream, LineInv, WriterInv, Line!reads
  <2> QED
      BY <2>1, <2>2
<1>2. bank' \in Seq(Nat) /\ bank' # <<>> /\ accepted' \in Nat /\ InOrder'
    BY <1>1, LinePuts
<1>3. accepted' = accepted + 1
    BY <1>1 DEF Line!Put
<1>4. rest \in Nat
    BY <1>1 DEF LineTypes
<1>5. \/ writer' = "idle" /\ rest' = 0
      \/ writer = "string" /\ writer' = writer /\ rest' = rest - 1 /\ rest > 0
  <2>1. CASE Line!WriteByte
      BY <2>1 DEF Line!WriteByte, Line!Returns
  <2>2. CASE Line!Stream /\ rest > 0 /\ Line!ReadWriteAllowed
    <3>1. rest # 0
        BY <2>2, <1>4
    <3> QED
        BY <3>1, <2>2 DEF Line!Stream
  <2> QED
      BY <2>1, <2>2
<1>6. rest' \in Nat
    BY <1>4, <1>5
<1>7. got' \in 0..accepted'
    BY <1>1, <1>3 DEF LineTypes
<1>8. LineTypes'
    BY <1>1, <1>2, <1>6, <1>7 DEF LineTypes
<1>9. WriterInv'
  <2>1. writer' \in {"idle", "string"}
      BY <1>5
  <2>2. Line!Ready'
      BY <1>1 DEF Line!Ready, Line!ReadWriteAllowed
  <2> QED
      BY <2>1, <2>2 DEF WriterInv
<1>10. ShortInv' /\ ReaderInv'
    BY <1>1, <1>2 DEF ShortInv, ReaderInv
<1> QED
    BY <1>2, <1>8, <1>9, <1>10 DEF LineInv

\* The writer tests, waits, or gives up.
LEMMA LineWaits ==
    ASSUME LineInv,
           \/ Line!Stream /\ ~(rest > 0 /\ Line!ReadWriteAllowed)
           \/ Line!AnyBytes \/ Line!LookFull \/ Line!Waited \/ Line!WaitFails
    PROVE  LineInv'
<1>1. rest \in Nat /\ LineTypes /\ WriterInv /\ ShortInv /\ ReaderInv /\ InOrder
    BY DEF LineInv, LineTypes
<1>2. /\ UNCHANGED <<got, received, readable, queue, short, bank, accepted>>
      /\ rest' = rest \/ rest' = 0
      /\ lapsed' = lapsed \/ lapsed' = TRUE
      /\ BankFull' \in BOOLEAN
  <2>1. CASE Line!Stream /\ ~(rest > 0 /\ Line!ReadWriteAllowed)
      BY <2>1, <1>1 DEF Line!Stream, Line!Returns, Line!reads, LineTypes
  <2>2. CASE Line!AnyBytes
      BY <2>2, <1>1 DEF Line!AnyBytes, Line!Returns, Line!reads, LineTypes
  <2>3. CASE Line!LookFull
      BY <2>3, <1>1 DEF Line!LookFull, Line!reads, LineTypes
  <2>4. CASE Line!Waited
      BY <2>4, <1>1 DEF Line!Waited, Line!reads, LineTypes
  <2>5. CASE Line!WaitFails
      BY <2>5, <1>1 DEF Line!WaitFails, Line!Returns, Line!reads, LineTypes
  <2> QED
      BY <2>1, <2>2, <2>3, <2>4, <2>5
<1>3. rest' \in Nat
    BY <1>1, <1>2
<1>4. lapsed' \in BOOLEAN
    BY <1>1, <1>2 DEF LineTypes
<1>5. LineTypes' /\ InOrder' /\ ReaderInv'
    BY <1>1, <1>2, <1>3, <1>4 DEF LineTypes, InOrder, Line!InOrder, ReaderInv
<1>6. /\ Line!Ready' <=> Line!Ready
      /\ Line!ReadWriteAllowed' <=> Line!ReadWriteAllowed
    BY <1>2 DEF Line!Ready, Line!ReadWriteAllowed
<1>7. ~Line!Ready' => bank' = <<>>
    BY <1>1, <1>2, <1>6 DEF WriterInv
<1>8. WriterInv' /\ ShortInv'
  <2>1. CASE Line!Stream /\ ~(rest > 0 /\ Line!ReadWriteAllowed)
    <3>1. \/ writer = "string" /\ rest = 0 /\ writer' = "idle"
          \/ rest > 0 /\ writer' = "clear string" /\ rest' = rest
        BY <2>1 DEF Line!Stream, Line!Returns
    <3>2. WriterInv'
        BY <3>1, <1>7 DEF WriterInv
    <3>3. ShortInv'
      <4>1. CASE writer = "string" /\ rest = 0
          BY <4>1, <1>1, <1>2 DEF ShortInv, Ending
      <4>2. CASE writer' = "clear string"
          BY <4>2 DEF ShortInv, Ending
      <4> QED
          BY <4>1, <4>2, <3>1
    <3> QED
        BY <3>2, <3>3
  <2>2. CASE Line!AnyBytes
    <3>1. writer = "bytes" /\ writer' \in {"idle", "full"}
        BY <2>2 DEF Line!AnyBytes, Line!Returns
    <3>2. WriterInv'
        BY <3>1, <1>7 DEF WriterInv
    <3>3. ShortInv'
        BY <3>1, <1>1, <1>2 DEF ShortInv, Ending
    <3> QED
        BY <3>2, <3>3
  <2>3. CASE Line!LookFull
    <3>1. writer = "full" /\ writer' = "flush" /\ (BankFull' <=> ~Line!ReadWriteAllowed)
        BY <2>3 DEF Line!LookFull
    <3>2. WriterInv'
        BY <3>1, <1>6, <1>7 DEF WriterInv
    <3>3. ShortInv'
        BY <3>1, <1>1, <1>2 DEF ShortInv, Ending
    <3> QED
        BY <3>2, <3>3
  <2>4. CASE Line!Waited
    <3>1. /\ Line!Ready /\ rest' = rest /\ writer \in {"wait", "wait string", "wait flush"}
          /\ writer' = CASE writer = "wait" -> "write" [] writer = "wait string" -> "string"
                         [] OTHER -> "empty"
        BY <2>4 DEF Line!Waited, Line!Waiting
    <3>2. \/ writer = "wait" /\ writer' = "write"
          \/ writer = "wait string" /\ writer' = "string"
          \/ writer = "wait flush" /\ writer' = "empty"
        BY <3>1
    <3>3. writer # "wait string" => bank = <<>>
        BY <3>2, <1>1 DEF WriterInv
    <3>4. writer' = "write" => Line!ReadWriteAllowed'
      <4>1. SUFFICES ASSUME writer' = "write" PROVE Line!ReadWriteAllowed
          BY <1>6
      <4>2. bank = <<>> /\ Line!Ready
          BY <4>1, <3>1, <3>2, <3>3
      <4>3. Len(bank) < BankSize
          BY <4>2, LineAssumption DEF LineAssumption
      <4> QED
          BY <4>2, <4>3 DEF Line!ReadWriteAllowed
    <3>5. writer' = "empty" => bank' = <<>> /\ Line!Ready'
        BY <1>2, <1>6, <3>1, <3>2, <3>3
    <3>6. WriterInv'
        BY <1>7, <3>2, <3>4, <3>5 DEF WriterInv
    <3>7. writer = "wait string" => rest > 0
        BY <1>1 DEF WriterInv
    <3>8. ~Ending'
      <4>1. CASE writer' = "string"
        <5>1. writer = "wait string"
            BY <4>1, <3>2
        <5>2. rest' = rest
            BY <3>1
        <5>a. rest > 0
            BY <5>1, <3>7
        <5>b. rest # 0
            BY <5>a
        <5>3. rest' # 0
            BY <5>2, <5>b
        <5> QED
            BY <4>1, <5>3 DEF Ending
      <4>2. CASE writer' \in {"write", "empty"}
          BY <4>2 DEF Ending
      <4> QED
          BY <4>1, <4>2, <3>2
    <3> QED
        BY <3>6, <3>8 DEF ShortInv
  <2>5. CASE Line!WaitFails
    <3>1. writer' = "idle" /\ lapsed' = TRUE
        BY <2>5 DEF Line!WaitFails, Line!Returns
    <3> QED
        BY <3>1, <1>7 DEF WriterInv, ShortInv
  <2> QED
      BY <2>1, <2>2, <2>3, <2>4, <2>5
<1> QED
    BY <1>5, <1>8 DEF LineInv

\* What becomes of the bytes when the reader gives an empty packet back.
LEMMA LineGivesBack ==
    ASSUME NEW r \in Packets, NEW q \in Packets, NEW b \in Seq(Nat),
           NEW first \in Nat, NEW last \in Nat, Line!Hold(r \o q \o <<b>>, first, last)
    PROVE  /\ Line!GivenBack(r) \in Packets
           /\ Line!Hold(Line!GivenBack(r) \o q \o <<b>>, first, last)
<1>1. CASE r # <<>> /\ Head(r) = <<>>
  <2>1. Head(r) \in Seq(Nat) /\ Tail(r) \in Packets /\ r = <<Head(r)>> \o Tail(r)
      BY <1>1, WaySplit
  <2>2. PICK packet \in Seq(Nat), others \in Packets :
          packet = Head(r) /\ others = Tail(r) /\ r = <<packet>> \o others
      BY <2>1
  <2>3. Line!GivenBack(r) = others /\ packet = <<>>
      BY <1>1, <2>2 DEF Line!GivenBack
  <2>4. /\ (<<packet>> \o others) \o q \o <<b>> = <<packet>> \o (others \o q \o <<b>>)
        /\ others \o q \o <<b>> \in Packets
      BY WayFirst
  <2> DEFINE way2 == others \o q \o <<b>>
             whole == <<packet>> \o way2
  <2>5. whole \in Packets /\ whole # <<>> /\ Head(whole) = packet /\ Tail(whole) = way2
      BY <2>4, WayBegins
  <2>6. Line!Hold(whole, first, last)
      BY <2>2, <2>4
  <2>7. Line!Hold(way2, first, last)
    <3> HIDE DEF whole, way2
    <3> QED
        BY <2>3, <2>5, <2>6, HoldDrop
  <2> QED
      BY <2>3, <2>7
<1>2. CASE ~(r # <<>> /\ Head(r) = <<>>)
    BY <1>2 DEF Line!GivenBack
<1> QED
    BY <1>1, <1>2

\* What becomes of the bytes when the reader takes one.
LEMMA LineReads ==
    ASSUME NEW r \in Packets, r # <<>>, Head(r) # <<>>, NEW q \in Packets, NEW b \in Seq(Nat),
           NEW first \in Nat, NEW last \in Nat, Line!Hold(r \o q \o <<b>>, first, last)
    PROVE  /\ Head(Head(r)) = first /\ first <= last
           /\ [r EXCEPT ![1] = Tail(@)] \in Packets
           /\ Head([r EXCEPT ![1] = Tail(@)]) = Tail(Head(r))
           /\ Line!Hold([r EXCEPT ![1] = Tail(@)] \o q \o <<b>>, first + 1, last)
<1>1. Head(r) \in Seq(Nat) /\ Tail(r) \in Packets /\ r = <<Head(r)>> \o Tail(r)
    BY WaySplit
<1>2. PICK packet \in Seq(Nat), others \in Packets :
        packet = Head(r) /\ others = Tail(r) /\ r = <<packet>> \o others
    BY <1>1
<1>3. packet # <<>> /\ Tail(packet) \in Seq(Nat)
    BY <1>2, HeadTailProperties
<1> DEFINE way2 == others \o q \o <<b>>
           whole == <<packet>> \o way2
           fewer == <<Tail(packet)>> \o others
           after == <<Tail(packet)>> \o way2
<1>4. [r EXCEPT ![1] = Tail(@)] = fewer
  <2>1. [<<packet>> \o others EXCEPT ![1] = Tail(@)] = fewer
      BY <1>3, WayBegins
  <2> HIDE DEF fewer
  <2> QED
      BY <2>1, <1>2
<1>5. fewer \in Packets /\ Head(fewer) = Tail(packet)
    BY <1>3, WayBegins
<1>6. way2 \in Packets /\ (<<packet>> \o others) \o q \o <<b>> = whole
    BY WayFirst
<1>7. fewer \o q \o <<b>> = after
  <2>1. PICK t \in Seq(Nat) : t = Tail(packet)
      BY <1>3
  <2>2. (<<t>> \o others) \o q \o <<b>> = <<t>> \o (others \o q \o <<b>>)
      BY WayFirst, ZenonT(60)
  <2> QED
      BY <2>1, <2>2
<1>8. /\ whole \in Packets /\ whole # <<>> /\ Head(whole) = packet
      /\ [whole EXCEPT ![1] = Tail(@)] = after
    BY <1>3, <1>6, WayBegins
<1>9. Line!Hold(whole, first, last)
    BY <1>2, <1>6
<1>10. /\ Head(packet) = first
       /\ Line!Hold(after, first + 1, last)
  <2> HIDE DEF whole, way2, after
  <2> QED
      BY <1>3, <1>8, <1>9, HoldRead
<1>11. first <= last
  <2> HIDE DEF way2
  <2>1. 1 \in DOMAIN whole /\ whole[1] = packet /\ 1 \in DOMAIN packet
    <3>1. Len(whole) \in Nat \ {0} /\ Len(packet) \in Nat \ {0} /\ Head(whole) = whole[1]
      <4> HIDE DEF whole
      <4> QED
          BY <1>8, <1>3 DEF Packets
    <3> HIDE DEF whole
    <3> QED
        BY <3>1, <1>8 DEF Packets
  <2>2. packet[1] \in first..last
    <3> HIDE DEF whole
    <3> QED
        BY <2>1, <1>9 DEF Line!Hold
  <2> QED
      BY <2>2
<1>12. Head(Head(r)) = first
    BY <1>10, <1>2
<1>13. Head([r EXCEPT ![1] = Tail(@)]) = Tail(Head(r))
  <2> HIDE DEF fewer
  <2>1. Head(fewer) = Tail(Head(r))
      BY <1>5, <1>2
  <2> QED
      BY <2>1, <1>4
<1>14. Line!Hold(fewer \o q \o <<b>>, first + 1, last)
  <2> HIDE DEF after
  <2> QED
      BY <1>7, <1>10
<1> QED
    BY <1>4, <1>5, <1>11, <1>12, <1>13, <1>14

\* A step of the reader.
LEMMA LineReader ==
    ASSUME LineInv, Line!Look \/ Line!Reader \/ Line!DeviceTask
    PROVE  LineInv'
<1>1. /\ UNCHANGED <<writer, rest, BankFull, bank, queue, accepted, short, lapsed>>
      /\ LineTypes /\ WriterInv /\ ShortInv /\ ReaderInv
      /\ Line!Hold(received \o queue \o <<bank>>, got + 1, accepted)
    BY DEF Line!Look, Line!Reader, Line!BytesReceived, Line!NoBaudRate, Line!ReceiveByte,
      Line!DeviceTask, Line!writes, LineInv, InOrder, Line!InOrder
<1>2. WriterInv' /\ ShortInv'
    BY <1>1 DEF WriterInv, ShortInv, Ending, Line!Ready, Line!ReadWriteAllowed
<1>3. /\ received \in Packets /\ queue \in Packets /\ bank \in Seq(Nat)
      /\ accepted \in Nat /\ got \in 0..accepted /\ got \in Nat /\ readable \in Nat
    BY <1>1 DEF LineTypes
<1>4. SUFFICES /\ received' \in Packets /\ readable' \in Nat /\ got' \in 0..accepted
               /\ ReaderInv' /\ Line!Hold(received' \o queue \o <<bank>>, got' + 1, accepted)
  <2>1. ASSUME received' \in Packets, readable' \in Nat, got' \in 0..accepted
        PROVE  LineTypes'
      BY <1>1, <2>1 DEF LineTypes
  <2>2. ASSUME Line!Hold(received' \o queue \o <<bank>>, got' + 1, accepted)
        PROVE  InOrder'
      BY <1>1, <2>2 DEF InOrder, Line!InOrder
  <2> QED
      BY <1>2, <2>1, <2>2 DEF LineInv
<1>5. CASE UNCHANGED <<received, readable, got>>
    BY <1>1, <1>3, <1>5 DEF ReaderInv
<1>6. CASE Line!BytesReceived
  <2>1. /\ received' = Line!GivenBack(received) /\ got' = got
        /\ readable' = (IF received' = <<>> THEN 0 ELSE Len(Head(received')))
      BY <1>6 DEF Line!BytesReceived
  <2>2. received' \in Packets /\ Line!Hold(received' \o queue \o <<bank>>, got + 1, accepted)
      BY <1>1, <1>3, <2>1, LineGivesBack
  <2>3. CASE received' = <<>>
      BY <2>1, <2>2, <2>3, <1>3 DEF ReaderInv
  <2>4. CASE received' # <<>>
    <3>1. Head(received') \in Seq(Nat) /\ readable' = Len(Head(received'))
        BY <2>1, <2>2, <2>4, WaySplit
    <3>2. readable' \in Nat
        BY <3>1
    <3> QED
        BY <2>1, <2>2, <2>4, <3>1, <3>2, <1>3 DEF ReaderInv
  <2> QED
      BY <2>3, <2>4
<1>7. CASE Line!ReceiveByte
  <2>1. /\ readable > 0 /\ got' = Head(Head(received)) /\ readable' = readable - 1
        /\ received' = Line!GivenBack([received EXCEPT ![1] = Tail(@)])
      BY <1>7 DEF Line!ReceiveByte
  <2>2. received # <<>> /\ readable <= Len(Head(received))
      BY <1>1, <2>1 DEF ReaderInv
  <2>3. Head(received) \in Seq(Nat)
      BY <1>3, <2>2, WaySplit
  <2>4. Head(received) # <<>>
      BY <2>1, <2>2, <2>3, <1>3
  <2> DEFINE after == [received EXCEPT ![1] = Tail(@)]
  <2>5. /\ Head(Head(received)) = got + 1 /\ got + 1 <= accepted
        /\ after \in Packets /\ Head(after) = Tail(Head(received))
        /\ Line!Hold(after \o queue \o <<bank>>, got + 1 + 1, accepted)
    <3>1. got + 1 \in Nat
        BY <1>3
    <3>2. /\ Head(Head(received)) = got + 1 /\ got + 1 <= accepted
          /\ [received EXCEPT ![1] = Tail(@)] \in Packets
          /\ Head([received EXCEPT ![1] = Tail(@)]) = Tail(Head(received))
          /\ Line!Hold([received EXCEPT ![1] = Tail(@)] \o queue \o <<bank>>, got + 1 + 1, accepted)
        BY <1>1, <1>3, <2>2, <2>4, <3>1, LineReads
    <3> QED
        BY <3>2
  <2>6. got' = got + 1 /\ got' \in 0..accepted /\ readable' \in Nat
      BY <2>1, <2>5, <1>3
  <2>7. received' = Line!GivenBack(after)
      BY <2>1
  <2> HIDE DEF after
  <2>8. /\ received' \in Packets
        /\ Line!Hold(received' \o queue \o <<bank>>, got + 1 + 1, accepted)
    <3>1. got + 1 + 1 \in Nat
        BY <1>3
    <3> QED
        BY <1>3, <2>5, <2>7, <3>1, LineGivesBack
  <2>9. ReaderInv'
    <3>1. SUFFICES ASSUME readable' > 0
                   PROVE  received' # <<>> /\ readable' <= Len(Head(received'))
        BY DEF ReaderInv
    <3>2. readable' <= Len(Tail(Head(received)))
        BY <2>1, <2>2, <2>3, <2>4, <1>3
    <3>3. Tail(Head(received)) # <<>>
        BY <3>1, <3>2, <2>3, <2>4, <2>6
    <3>4. received' = after
        BY <2>5, <2>7, <3>3 DEF Line!GivenBack
    <3>5. after # <<>>
        BY <2>2, <1>3 DEF after, Packets
    <3> QED
        BY <2>5, <3>2, <3>4, <3>5
  <2> QED
      BY <2>6, <2>8, <2>9
<1>8. CASE Line!DeviceTask
  <2>1. /\ received' = Line!GivenBack(received) /\ got' = got /\ readable' = readable
        /\ received' # received
      BY <1>8 DEF Line!DeviceTask
  <2>2. received' \in Packets /\ Line!Hold(received' \o queue \o <<bank>>, got + 1, accepted)
      BY <1>1, <1>3, <2>1, LineGivesBack
  <2>3. received # <<>> /\ Head(received) = <<>>
      BY <2>1 DEF Line!GivenBack
  <2>4. ~(readable > 0)
    <3>1. Len(Head(received)) = 0
        BY <2>3
    <3> QED
        BY <3>1, <1>1, <1>3 DEF ReaderInv
  <2> QED
      BY <2>1, <2>2, <2>4, <1>3 DEF ReaderInv
<1> QED
    BY <1>5, <1>6, <1>7, <1>8 DEF Line!Look, Line!Reader, Line!NoBaudRate

\* The controller moves a packet, or the host sets the line up.
LEMMA LineMoves ==
    ASSUME LineInv, Line!Transfer \/ Line!SetLineEncoding \/ UNCHANGED Line!linkvars
    PROVE  LineInv'
<1>1. CASE Line!Transfer
  <2>1. /\ UNCHANGED <<writer, rest, BankFull, bank, accepted, short, lapsed, readable, got>>
        /\ queue # <<>> /\ received' = Append(received, Head(queue)) /\ queue' = Tail(queue)
        /\ LineTypes /\ WriterInv /\ ShortInv /\ ReaderInv
      BY <1>1 DEF Line!Transfer, LineInv
  <2>2. received \in Packets /\ queue \in Packets
      BY <2>1 DEF LineTypes
  <2>3. /\ received' \o queue' = received \o queue /\ received' \in Packets /\ queue' \in Packets
      BY <2>1, <2>2, WayTransfer
  <2>4. InOrder'
    <3>1. (received \o queue \o <<bank>>)' = received \o queue \o <<bank>>
        BY <2>1, <2>3
    <3>2. UNCHANGED <<got, accepted>>
        BY <2>1
    <3> QED
        BY <3>1, <3>2 DEF LineInv, InOrder, Line!InOrder
  <2>5. LineTypes' /\ ShortInv'
      BY <2>1, <2>3 DEF LineTypes, ShortInv, Ending
  <2>6. ReaderInv'
    <3>1. CASE received = <<>>
      <4>1. ~(readable > 0)
          BY <2>1, <3>1 DEF ReaderInv
      <4> QED
          BY <4>1, <2>1 DEF ReaderInv
    <3>2. CASE received # <<>>
      <4>1. Head(queue) \in Seq(Nat)
          BY <2>1, <2>2, WaySplit
      <4>2. \A r \in Packets, packet \in Seq(Nat) :
              r # <<>> => Append(r, packet) # <<>> /\ Head(Append(r, packet)) = Head(r)
        <5> SUFFICES ASSUME NEW r \in Packets, NEW packet \in Seq(Nat), r # <<>>
                     PROVE  Append(r, packet) # <<>> /\ Head(Append(r, packet)) = Head(r)
            OBVIOUS
        <5> DEFINE longer == Append(r, packet)
        <5>1. Len(r) \in Nat \ {0} /\ Head(r) = r[1]
            BY DEF Packets
        <5>2. Len(longer) = Len(r) + 1 /\ longer[1] = r[1] /\ longer \in Seq(Seq(Nat))
            BY <5>1, AppendProperties DEF Packets
        <5> HIDE DEF longer
        <5>3. longer # <<>> /\ Head(longer) = longer[1]
            BY <5>1, <5>2
        <5> QED
            BY <5>1, <5>2, <5>3 DEF longer
      <4>3. received' # <<>> /\ Head(received') = Head(received)
          BY <3>2, <4>1, <4>2, <2>1, <2>2
      <4> QED
          BY <4>3, <2>1 DEF ReaderInv
    <3> QED
        BY <3>1, <3>2
  <2>7. WriterInv'
    <3>1. Len(queue') < Len(queue) /\ Len(queue') \in Nat /\ Len(queue) \in Nat
        BY <2>1, <2>2 DEF Packets
    <3>2. /\ Line!Ready => Line!Ready'
          /\ Line!ReadWriteAllowed => Line!ReadWriteAllowed'
        BY <3>1, <2>1, LineAssumption DEF Line!Ready, Line!ReadWriteAllowed, LineAssumption
    <3> QED
        BY <3>2, <2>1 DEF WriterInv
  <2> QED
      BY <2>4, <2>5, <2>6, <2>7 DEF LineInv
<1>2. CASE Line!SetLineEncoding \/ UNCHANGED Line!linkvars
  <2>1. UNCHANGED <<Line!writes, Line!reads>>
      BY <1>2 DEF Line!SetLineEncoding, Line!linkvars
  <2> QED
      BY <2>1 DEF Line!writes, Line!reads, LineInv, LineTypes, WriterInv, ShortInv, Ending, ReaderInv,
        InOrder, Line!InOrder, Line!Ready, Line!ReadWriteAllowed
<1> QED
    BY <1>1, <1>2

\* Every step of the line.
LEMMA LineStep ==
    LineInv /\ [Line!Next]_(Line!linkvars) => LineInv'
<1> SUFFICES ASSUME LineInv, [Line!Next]_(Line!linkvars) PROVE LineInv'
    OBVIOUS
<1>1. CASE Line!SendByte \/ Line!SendString \/ Line!Flush
    BY <1>1, LineCalls
<1>2. CASE Line!Writer \/ Line!WaitFails
    BY <1>2, LineClearSteps, LineWrites, LineWaits DEF Line!Writer
<1>3. CASE Line!Look \/ Line!Reader \/ Line!DeviceTask
    BY <1>3, LineReader
<1>4. CASE Line!Transfer \/ Line!SetLineEncoding \/ UNCHANGED Line!linkvars
    BY <1>4, LineMoves
<1> QED
    BY <1>1, <1>2, <1>3, <1>4 DEF Line!Next

\* The line as it begins.
LEMMA LineBegins ==
    Line!Init => LineInv
<1> SUFFICES ASSUME Line!Init PROVE LineInv
    OBVIOUS
<1>1. /\ writer = "idle" /\ rest = 0 /\ BankFull = FALSE /\ bank = <<>> /\ queue = <<>>
      /\ received = <<>> /\ readable = 0 /\ accepted = 0 /\ got = 0 /\ short = TRUE /\ lapsed = FALSE
    BY DEF Line!Init
<1>2. LineTypes
  <2>1. <<>> \in Seq(Nat) /\ <<>> \in Packets
      BY DEF Packets
  <2>2. got \in 0..accepted
      BY <1>1
  <2> QED
      BY <1>1, <2>1, <2>2 DEF LineTypes
<1>3. WriterInv /\ ShortInv /\ ReaderInv
    BY <1>1 DEF WriterInv, ShortInv, ReaderInv
<1>4. InOrder
  <2>1. received \o queue \o <<bank>> = << <<>> >>
      BY <1>1
  <2>2. Line!Hold(<< <<>> >>, 1, 0)
      BY DEF Line!Hold
  <2> QED
      BY <1>1, <2>1, <2>2 DEF InOrder, Line!InOrder
<1> QED
    BY <1>2, <1>3, <1>4 DEF LineInv

\* The class drivers keep the invariant of the line.
LEMMA LineInvCorrect ==
    FairSpec => []LineInv
<1>1. Init => LineInv
    BY LineBegins DEF Init
<1>2. LineInv /\ [Next]_vars => LineInv'
  <2> SUFFICES ASSUME LineInv, [Next]_vars PROVE [Line!Next]_(Line!linkvars)
      BY LineStep
  <2>1. CASE InLine /\ Line!Next
      BY <2>1
  <2>2. CASE UNCHANGED line
      BY <2>2 DEF line, Line!linkvars, Line!sides, Line!writes, Line!reads
  <2> QED
      BY <2>1, <2>2 DEF Next, InStorage, InReports, InNetwork, vars
<1> QED
    BY <1>1, <1>2, PTL DEF FairSpec

\* Bytes of a serial line arrive once and in order: for any number of banks, of any size, and
\* any number of bytes.
THEOREM InOrderCorrect ==
    FairSpec => []InOrder
<1>1. LineInv => InOrder
    BY DEF LineInv
<1> QED
    BY <1>1, LineInvCorrect, PTL

\* What the reader receives is the byte after the one before, and one that was written.
THEOREM ReceivesNext ==
    FairSpec => [][got' = got \/ (got' = got + 1 /\ got' <= accepted)]_vars
<1>1. LineInv /\ LineInv' /\ [Next]_vars => [got' = got \/ (got' = got + 1 /\ got' <= accepted)]_vars
  <2> SUFFICES ASSUME LineInv, Next, got' # got PROVE got' = got + 1 /\ got' <= accepted
      OBVIOUS
  <2>1. Line!ReceiveByte
    <3>1. Line!Next
        BY DEF Next, InStorage, InReports, InNetwork, line
    <3> QED
        BY <3>1 DEF Line!Next, Line!SendByte, Line!SendString, Line!Flush, Line!Called, Line!Writer,
          Line!ClearFirst, Line!WriteByte, Line!Stream, Line!AnyBytes, Line!LookFull, Line!ClearFlushed,
          Line!ClearEmpty, Line!Waited, Line!WaitFails, Line!Look, Line!Reader, Line!BytesReceived,
          Line!NoBaudRate, Line!DeviceTask, Line!Transfer, Line!SetLineEncoding, Line!reads
  <2>2. readable > 0 /\ got' = Head(Head(received))
      BY <2>1 DEF Line!ReceiveByte
  <2>3. received # <<>> /\ readable <= Len(Head(received)) /\ LineTypes
      BY <2>2 DEF LineInv, ReaderInv
  <2>4. /\ received \in Packets /\ queue \in Packets /\ bank \in Seq(Nat)
        /\ got + 1 \in Nat /\ accepted \in Nat
      BY <2>3 DEF LineTypes
  <2>5. Head(received) # <<>>
    <3>1. Head(received) \in Seq(Nat) /\ readable \in Nat
        BY <2>3, <2>4, WaySplit DEF LineTypes
    <3> QED
        BY <3>1, <2>2, <2>3
  <2>6. Line!Hold(received \o queue \o <<bank>>, got + 1, accepted)
      BY DEF LineInv, InOrder, Line!InOrder
  <2>7. Head(Head(received)) = got + 1 /\ got + 1 <= accepted
      BY <2>3, <2>4, <2>5, <2>6, LineReads, ZenonT(30)
  <2> QED
      BY <2>2, <2>7
<1> QED
    BY <1>1, LineInvCorrect, PTL DEF FairSpec

\* As long as no wait has failed, the last packet that a flush sends is not a full one.
THEOREM FlushCorrect ==
    FairSpec => FlushEnds
<1> DEFINE Ends == writer' = "idle" /\ writer \in {"bytes", "flush", "empty"} /\ ~lapsed
                     => short' /\ Len(bank') = 0
<1>1. LineInv /\ [Next]_vars => [Ends]_(Line!linkvars)
  <2> SUFFICES ASSUME LineInv, [Next]_vars, ~UNCHANGED Line!linkvars, writer' = "idle",
                      writer \in {"bytes", "flush", "empty"}, ~lapsed
               PROVE  short' /\ Len(bank') = 0
      BY DEF Ends
  <2>1. Line!Next
      BY DEF Next, InStorage, InReports, InNetwork, vars, line, Line!linkvars, Line!sides, Line!writes,
        Line!reads
  <2>2. Line!AnyBytes \/ Line!ClearFlushed \/ Line!ClearEmpty
    <3>1. writer # "idle" /\ writer' # writer
        OBVIOUS
    <3> QED
        BY <2>1, <3>1 DEF Line!Next, Line!SendByte, Line!SendString, Line!Flush, Line!Called, Line!Writer,
          Line!ClearFirst, Line!WriteByte, Line!Stream, Line!LookFull,
          Line!Waited, Line!Waiting, Line!WaitFails, Line!Look, Line!Reader, Line!BytesReceived,
          Line!NoBaudRate, Line!ReceiveByte, Line!DeviceTask, Line!Transfer, Line!SetLineEncoding,
          Line!writes
  <2>3. /\ bank \in Seq(Nat) /\ queue \in Packets /\ WriterInv /\ ShortInv
      BY DEF LineInv, LineTypes
  <2>4. CASE Line!AnyBytes
    <3>1. writer = "bytes" /\ bank' = bank /\ short' = short /\ Line!BytesIn = 0
        BY <2>4 DEF Line!AnyBytes
    <3>2. bank = <<>>
      <4>1. CASE Line!Ready
          BY <4>1, <3>1, <2>3 DEF Line!BytesIn
      <4>2. CASE ~Line!Ready
          BY <4>2, <2>3 DEF WriterInv
      <4> QED
          BY <4>1, <4>2
    <3>3. short
        BY <3>1, <3>2, <2>3 DEF ShortInv, Ending
    <3> QED
        BY <3>1, <3>2, <3>3
  <2>5. CASE Line!ClearFlushed \/ Line!ClearEmpty
    <3>1. Line!Clear /\ ((writer = "flush" /\ ~BankFull) \/ writer = "empty")
        BY <2>5 DEF Line!ClearFlushed, Line!ClearEmpty, Line!AfterFull
    <3>2. Line!Ready /\ Len(bank) < BankSize
      <4>1. CASE writer = "flush" /\ ~BankFull
          BY <4>1, <2>3 DEF WriterInv, Line!ReadWriteAllowed
      <4>2. CASE writer = "empty"
          BY <4>2, <2>3, LineAssumption DEF WriterInv, LineAssumption
      <4> QED
          BY <4>1, <4>2, <3>1
    <3>3. bank' = <<>> /\ short' = (Len(bank) < BankSize)
        BY <3>1, <3>2 DEF Line!Clear
    <3>4. Len(bank') = 0
        BY <3>3
    <3> QED
        BY <3>2, <3>3, <3>4
  <2> QED
      BY <2>2, <2>4, <2>5
<1> QED
  <2>1. FairSpec => [][Ends]_(Line!linkvars)
      BY <1>1, LineInvCorrect, PTL DEF FairSpec
  <2> QED
      BY <2>1 DEF FlushEnds, Line!FlushEnds, Ends

-----------------------------------------------------------------------------
(* Frames.                                                                 *)

\* Frames arrive once and in order, and no frame arrives that was not sent; the host may have
\* given back one unread.
FramesInOrder ==
    /\ gotOUT = [k \in 1..Len(gotOUT) |-> k] /\ Len(gotOUT) <= sentOUT
    /\ \A k \in 1..Len(gotIN) : gotIN[k] \in {k, Network!Unread}
    /\ Len(gotIN) <= sentIN

\* The frames the device has read, and written.
ReadOnes == IF FrameIN = 0 THEN Len(gotOUT) ELSE Len(gotOUT) + 1
WrittenOnes == IF FrameOUT = 0 THEN sentIN ELSE sentIN - 1

\* A bank holds a part of a frame, or nothing; and the frame of the part that follows it.
Holds(bank_, frame) == bank_ # <<>> => Head(bank_).frame = frame
NextOf(frame, bank_) == IF bank_ = <<>> \/ Head(bank_).more THEN frame ELSE frame + 1

FrameTypes ==
    sentOUT \in Nat /\ sentIN \in Nat /\ gotOUT \in Seq(Nat) /\ gotIN \in Seq(Nat)

\* What the device holds is the frame after those the application took, or the last it offered.
HeldInv ==
    /\ FrameIN \in {0, Len(gotOUT) + 1} /\ FrameOUT \in {0, sentIN}
    /\ (step = "read" /\ moved # 0) => FrameIN = 0
    /\ step \notin {"read", "write"} => moved = 0
    /\ gotOUT = [k \in 1..Len(gotOUT) |-> k]
    /\ \A k \in 1..Len(gotIN) : gotIN[k] \in {k, Network!Unread}

\* The parts in the device's bank and in the host's follow the frames that the device has read,
\* and the next part of the host follows them.
OutChain ==
    /\ Holds(bankOUT, ReadOnes + 1) /\ Holds(pipeOUT, NextOf(ReadOnes + 1, bankOUT))
    /\ NextOf(NextOf(ReadOnes + 1, bankOUT), pipeOUT) = sentOUT + 1
OutInv == ReadOnes <= sentOUT /\ (~brokenOUT => OutChain)

\* The same the other way, and longer: a call that began before the device's stream failed still
\* reads what that has left.
Reads == ~brokenIN \/ host \in {"reading", "unreadable", "receiving"}
InEnd == NextOf(NextOf(Len(gotIN) + 1, pipeIN), bankIN)
InChain ==
    /\ Holds(pipeIN, Len(gotIN) + 1) /\ Holds(bankIN, NextOf(Len(gotIN) + 1, pipeIN))
    /\ InEnd <= WrittenOnes + 1
InInv ==
    /\ Len(gotIN) <= WrittenOnes
    /\ Reads => InChain
    /\ ~brokenIN => InEnd = WrittenOnes + 1

FrameInv == FrameTypes /\ HeldInv /\ OutInv /\ InInv

\* What follows a bank is the same frame or the next; what the numbers are.
LEMMA NextBounds ==
    ASSUME NEW frame \in Int, NEW bank_
    PROVE  NextOf(frame, bank_) \in Int /\ NextOf(frame, bank_) \in {frame, frame + 1}
    BY DEF NextOf

LEMMA PartFacts ==
    ASSUME NEW frame, NEW more
    PROVE  /\ Network!Part(frame, more) # <<>> /\ Head(Network!Part(frame, more)).frame = frame
           /\ Head(Network!Part(frame, more)).more = more
    BY DEF Network!Part

LEMMA FrameNumbers ==
    ASSUME FrameInv
    PROVE  /\ sentOUT \in Nat /\ sentIN \in Nat /\ Len(gotOUT) \in Nat /\ Len(gotIN) \in Nat
           /\ gotOUT \in Seq(Nat) /\ gotIN \in Seq(Nat)
           /\ ReadOnes \in Nat /\ WrittenOnes \in Int
<1>1. FrameTypes
    BY DEF FrameInv
<1>2. Len(gotOUT) \in Nat /\ Len(gotIN) \in Nat
    BY <1>1 DEF FrameTypes
<1> QED
    BY <1>1, <1>2 DEF FrameTypes, ReadOnes, WrittenOnes

\* A step that moves no part and takes no frame.
LEMMA FramesKept ==
    ASSUME FrameInv,
           UNCHANGED <<moved, FrameIN, FrameOUT, pipeOUT, pipeIN, bankOUT, bankIN, sentOUT, gotOUT,
                       sentIN, gotIN, brokenOUT, brokenIN>>,
           Reads' => Reads,
           step' = step \/ moved = 0
    PROVE  FrameInv'
<1>1. FrameTypes'
    BY DEF FrameInv, FrameTypes
<1>2. HeldInv'
    BY DEF FrameInv, HeldInv
<1>3. ReadOnes' = ReadOnes /\ WrittenOnes' = WrittenOnes
    BY DEF ReadOnes, WrittenOnes
<1>4. OutInv'
    BY <1>3 DEF FrameInv, OutInv, OutChain, Holds, NextOf
<1>5. InInv'
    BY <1>3 DEF FrameInv, InInv, InChain, InEnd, Holds, NextOf
<1> QED
    BY <1>1, <1>2, <1>4, <1>5 DEF FrameInv

\* What a step to the device leaves of the frames to the host.
LEMMA InKept ==
    ASSUME FrameInv, UNCHANGED <<FrameOUT, pipeIN, bankIN, sentIN, gotIN, brokenIN>>,
           Reads' => Reads
    PROVE  InInv'
<1>1. WrittenOnes' = WrittenOnes
    BY DEF WrittenOnes
<1> QED
    BY <1>1 DEF FrameInv, InInv, InChain, InEnd, Holds, NextOf

\* What a step to the host leaves of the frames to the device.
LEMMA OutKept ==
    ASSUME FrameInv, UNCHANGED <<FrameIN, pipeOUT, bankOUT, sentOUT, gotOUT>>,
           brokenOUT => brokenOUT'
    PROVE  OutInv'
<1>1. ReadOnes' = ReadOnes
    BY DEF ReadOnes
<1> QED
    BY <1>1 DEF FrameInv, OutInv, OutChain, Holds, NextOf

\* The host gives away a part of a frame.
LEMMA FramesSent ==
    ASSUME FrameInv, Network!SendPart
    PROVE  FrameInv'
<1> USE DEF Network!control, Network!device
<1>1. PICK more \in Network!More(place) :
        /\ pipeOUT' = Network!Part(sentOUT + 1, more)
        /\ IF more THEN UNCHANGED <<sentOUT, host>> ELSE sentOUT' = sentOUT + 1 /\ host' = "sent"
    BY DEF Network!SendPart
<1>2. /\ host = "sending" /\ pipeOUT = <<>>
      /\ UNCHANGED <<moved, step, FrameIN, FrameOUT, pipeIN, bankOUT, bankIN, gotOUT, sentIN, gotIN,
                     brokenOUT, brokenIN>>
    BY DEF Network!SendPart
<1>3. sentOUT \in Nat /\ ReadOnes \in Nat /\ sentOUT' = IF more THEN sentOUT ELSE sentOUT + 1
    BY <1>1, FrameNumbers
<1>4. FrameTypes'
    BY <1>2, <1>3 DEF FrameInv, FrameTypes
<1>5. HeldInv'
    BY <1>2 DEF FrameInv, HeldInv
<1>6. Reads' => Reads
    BY <1>1, <1>2 DEF Reads
<1>7. InInv'
    BY <1>2, <1>6, InKept
<1>8. ReadOnes' = ReadOnes
    BY <1>2 DEF ReadOnes
<1>9. OutChain => OutChain'
  <2> SUFFICES ASSUME OutChain PROVE OutChain'
      OBVIOUS
  <2> DEFINE next == NextOf(ReadOnes + 1, bankOUT)
  <2>1. next = sentOUT + 1 /\ NextOf(ReadOnes + 1, bankOUT)' = next
      BY <1>2, <1>8 DEF OutChain, NextOf
  <2>2. Holds(bankOUT, ReadOnes + 1)'
      BY <1>2, <1>8 DEF OutChain, Holds
  <2>3. pipeOUT' # <<>> /\ Head(pipeOUT').frame = sentOUT + 1 /\ Head(pipeOUT').more = more
      BY <1>1, PartFacts
  <2>4. Holds(pipeOUT', next)
      BY <2>1, <2>3 DEF Holds
  <2>5. NextOf(next, pipeOUT') = sentOUT' + 1
      BY <1>3, <2>1, <2>3 DEF NextOf
  <2> QED
      BY <2>1, <2>2, <2>4, <2>5 DEF OutChain
<1>10. OutInv'
    BY <1>2, <1>3, <1>8, <1>9 DEF FrameInv, OutInv
<1> QED
    BY <1>4, <1>5, <1>7, <1>10 DEF FrameInv

\* The device takes one.
LEMMA FramesRead ==
    ASSUME FrameInv, Network!ReadPart
    PROVE  FrameInv'
<1> USE DEF Network!calls, Network!control, Network!frames
<1>1. /\ step = "read" /\ ~brokenOUT /\ bankOUT # <<>> /\ bankOUT' = <<>> /\ FrameIN = 0
      /\ UNCHANGED <<host, FrameOUT, pipeOUT, pipeIN, bankIN, sentOUT, gotOUT, sentIN, gotIN,
                     brokenOUT, brokenIN>>
    BY DEF Network!ReadPart, Network!RoomForFrame, FrameInv, HeldInv
<1>2. /\ sentOUT \in Nat /\ Len(gotOUT) \in Nat /\ ReadOnes = Len(gotOUT)
    BY <1>1, FrameNumbers DEF ReadOnes
<1>3. OutChain
    BY <1>1 DEF FrameInv, OutInv
<1>4. Head(bankOUT).frame = Len(gotOUT) + 1
    BY <1>1, <1>2, <1>3 DEF OutChain, Holds
<1>5. IF Head(bankOUT).more THEN FrameIN' = 0 /\ step' = "read"
                            ELSE moved' = 0 /\ FrameIN' = Len(gotOUT) + 1 /\ step' = "write"
    BY <1>1, <1>4 DEF Network!ReadPart
<1>6. FrameTypes'
    BY <1>1 DEF FrameInv, FrameTypes
<1>7. HeldInv'
    BY <1>1, <1>5 DEF FrameInv, HeldInv
<1>8. Reads' => Reads
    BY <1>1 DEF Reads
<1>9. InInv'
    BY <1>1, <1>8, InKept
<1>10. ReadOnes' + 1 = NextOf(ReadOnes + 1, bankOUT)
    BY <1>1, <1>2, <1>5 DEF ReadOnes, NextOf
<1>11. NextOf(ReadOnes + 1, bankOUT)' = ReadOnes' + 1
    BY <1>1 DEF NextOf
<1>12. ReadOnes' \in Nat
    BY <1>1, <1>2, <1>5 DEF ReadOnes
<1>13. OutChain'
  <2>1. Holds(bankOUT, ReadOnes + 1)'
      BY <1>1 DEF Holds
  <2>2. Holds(pipeOUT', ReadOnes' + 1) /\ NextOf(ReadOnes' + 1, pipeOUT') = sentOUT' + 1
      BY <1>1, <1>3, <1>10 DEF OutChain
  <2> QED
      BY <1>11, <2>1, <2>2 DEF OutChain
<1>14. ReadOnes' <= sentOUT'
  <2>1. NextOf(ReadOnes' + 1, pipeOUT') = sentOUT' + 1
      BY <1>11, <1>13 DEF OutChain
  <2>2. sentOUT' + 1 \in {ReadOnes' + 1, ReadOnes' + 2}
      BY <1>12, <2>1 DEF NextOf
  <2>3. \A m, n \in Nat : n + 1 \in {m + 1, m + 2} => m <= n
      OBVIOUS
  <2>4. sentOUT' \in Nat
      BY <1>1, <1>2
  <2> QED
      BY <1>12, <2>2, <2>3, <2>4
<1> QED
    BY <1>6, <1>7, <1>9, <1>13, <1>14 DEF FrameInv, OutInv

\* The device writes a part.
LEMMA FramesWritten ==
    ASSUME FrameInv, Network!WritePart
    PROVE  FrameInv'
<1> USE DEF Network!calls, Network!control, Network!frames
<1>1. PICK more \in Network!More(moved) :
        /\ bankIN' = Network!Part(FrameOUT, more)
        /\ IF more THEN UNCHANGED <<FrameOUT, step>>
                   ELSE moved' = 0 /\ FrameOUT' = 0 /\ step' = "notify"
    BY DEF Network!WritePart
<1>2. /\ step = "write" /\ FrameOUT # 0 /\ bankIN = <<>> /\ ~brokenIN
      /\ UNCHANGED <<host, FrameIN, pipeOUT, pipeIN, bankOUT, sentOUT, gotOUT, sentIN, gotIN,
                     brokenOUT, brokenIN>>
    BY DEF Network!WritePart
<1>3. sentIN \in Nat /\ Len(gotIN) \in Nat /\ FrameOUT = sentIN /\ WrittenOnes = sentIN - 1
    BY <1>2, FrameNumbers DEF FrameInv, HeldInv, WrittenOnes
<1>4. FrameTypes'
    BY <1>2 DEF FrameInv, FrameTypes
<1>5. HeldInv'
    BY <1>1, <1>2 DEF FrameInv, HeldInv
<1>6. OutInv'
    BY <1>2, OutKept
<1> DEFINE next == NextOf(Len(gotIN) + 1, pipeIN)
<1>7. next = sentIN /\ Holds(pipeIN, Len(gotIN) + 1) /\ Len(gotIN) <= WrittenOnes
  <2>1. next = WrittenOnes + 1
      BY <1>2 DEF FrameInv, InInv, InEnd, NextOf
  <2> QED
      BY <1>2, <1>3, <2>1 DEF FrameInv, InInv, InChain, Reads
<1>8. Holds(pipeIN, Len(gotIN) + 1)' /\ NextOf(Len(gotIN) + 1, pipeIN)' = next
    BY <1>2, <1>7 DEF Holds, NextOf
<1>9. bankIN' # <<>> /\ Head(bankIN').frame = sentIN /\ Head(bankIN').more = more
    BY <1>1, <1>3, PartFacts
<1>10. Holds(bankIN', next)
    BY <1>7, <1>9 DEF Holds
<1>11. WrittenOnes' = IF more THEN sentIN - 1 ELSE sentIN
    BY <1>1, <1>2 DEF WrittenOnes
<1>12. NextOf(next, bankIN') = WrittenOnes' + 1 /\ WrittenOnes' + 1 \in Int
    BY <1>3, <1>7, <1>9, <1>11 DEF NextOf
<1>13. InEnd' = WrittenOnes' + 1
    BY <1>8, <1>12 DEF InEnd
<1>14. InChain'
    BY <1>8, <1>10, <1>12, <1>13 DEF InChain
<1>15. Len(gotIN') <= WrittenOnes'
    BY <1>2, <1>3, <1>7, <1>11
<1> QED
    BY <1>4, <1>5, <1>6, <1>13, <1>14, <1>15 DEF FrameInv, InInv

\* What becomes of the first part that the host holds, if the frames it has had go by "next".
LEMMA FrameComes ==
    ASSUME FrameInv, Reads, pipeIN # <<>>, pipeIN' = <<>>,
           UNCHANGED <<FrameOUT, bankIN, sentIN>>,
           IF Head(pipeIN).more THEN gotIN' = gotIN
           ELSE gotIN' \in {Append(gotIN, Len(gotIN) + 1), Append(gotIN, Network!Unread)}
    PROVE  /\ gotIN' \in Seq(Nat) /\ \A k \in 1..Len(gotIN') : gotIN'[k] \in {k, Network!Unread}
           /\ InChain' /\ InEnd' = InEnd /\ WrittenOnes' = WrittenOnes
           /\ Len(gotIN') <= WrittenOnes'
<1>1. gotIN \in Seq(Nat) /\ Len(gotIN) \in Nat /\ WrittenOnes \in Int
    BY FrameNumbers
<1>2. InChain /\ Len(gotIN) <= WrittenOnes
      /\ \A k \in 1..Len(gotIN) : gotIN[k] \in {k, Network!Unread}
    BY DEF FrameInv, InInv, HeldInv
<1>3. /\ gotIN' \in Seq(Nat) /\ \A k \in 1..Len(gotIN') : gotIN'[k] \in {k, Network!Unread}
      /\ Len(gotIN') \in Nat /\ Len(gotIN') + 1 = NextOf(Len(gotIN) + 1, pipeIN)
  <2>1. CASE Head(pipeIN).more
      BY <1>1, <1>2, <2>1 DEF NextOf
  <2>2. CASE ~Head(pipeIN).more
    <3>1. PICK frame \in {Len(gotIN) + 1, Network!Unread} : gotIN' = Append(gotIN, frame)
        BY <2>2
    <3>2. frame \in Nat
        BY <1>1, <3>1 DEF Network!Unread
    <3>3. gotIN' \in Seq(Nat) /\ Len(gotIN') = Len(gotIN) + 1
        BY <1>1, <3>1, <3>2
    <3>4. \A k \in 1..Len(gotIN') : gotIN'[k] \in {k, Network!Unread}
      <4> SUFFICES ASSUME NEW k \in 1..Len(gotIN') PROVE gotIN'[k] \in {k, Network!Unread}
          OBVIOUS
      <4>1. CASE k = Len(gotIN) + 1
        <5>1. gotIN'[k] = frame
            BY <1>1, <3>1, <3>2, <4>1
        <5> QED
            BY <3>1, <4>1, <5>1
      <4>2. CASE k # Len(gotIN) + 1
        <5>1. k \in 1..Len(gotIN)
            BY <1>1, <3>3, <4>2
        <5>2. gotIN'[k] = gotIN[k]
            BY <1>1, <3>1, <3>2, <5>1
        <5> QED
            BY <1>2, <5>1, <5>2
      <4> QED
          BY <4>1, <4>2
    <3>5. Len(gotIN') \in Nat /\ Len(gotIN') + 1 = NextOf(Len(gotIN) + 1, pipeIN)
        BY <1>1, <2>2, <3>3 DEF NextOf
    <3> QED
        BY <3>3, <3>4, <3>5
  <2> QED
      BY <2>1, <2>2
<1>4. WrittenOnes' = WrittenOnes
    BY DEF WrittenOnes
<1>5. NextOf(Len(gotIN) + 1, pipeIN)' = NextOf(Len(gotIN) + 1, pipeIN)
    BY <1>3 DEF NextOf
<1>6. InEnd' = InEnd
    BY <1>5 DEF InEnd
<1>7. Holds(pipeIN, Len(gotIN) + 1)' /\ Holds(bankIN, NextOf(Len(gotIN) + 1, pipeIN))'
    BY <1>2, <1>5 DEF Holds, InChain
<1>8. InChain'
    BY <1>2, <1>4, <1>6, <1>7 DEF InChain
<1>9. Len(gotIN') <= WrittenOnes'
  <2>1. InEnd = NextOf(Len(gotIN') + 1, bankIN) /\ InEnd <= WrittenOnes + 1
      BY <1>2, <1>3 DEF InEnd, InChain
  <2>2. InEnd \in {Len(gotIN') + 1, Len(gotIN') + 2}
      BY <1>3, <2>1 DEF NextOf
  <2> QED
      BY <1>1, <1>3, <1>4, <2>1, <2>2
<1> QED
    BY <1>3, <1>4, <1>6, <1>8, <1>9

\* The host reads a part, or gives it back unread.
LEMMA FramesReceived ==
    ASSUME FrameInv, Network!ReceivePart \/ Network!Unreadable
    PROVE  FrameInv'
<1> USE DEF Network!control, Network!device
<1>1. /\ host \in {"receiving", "unreadable"} /\ host' \in {"receiving", "received"} /\ pipeIN' = <<>>
      /\ UNCHANGED <<step, moved, FrameIN, FrameOUT, pipeOUT, bankOUT, bankIN, sentOUT, gotOUT, sentIN,
                     brokenOUT>>
    BY DEF Network!ReceivePart, Network!Unreadable
<1>2. OutInv'
    BY <1>1, OutKept
<1>3. Reads /\ (host' = "receiving" => brokenIN' = brokenIN) /\ (~brokenIN' => ~brokenIN)
  <2>1. Reads
      BY <1>1 DEF Reads
  <2>2. CASE Network!ReceivePart
      BY <2>1, <2>2 DEF Network!ReceivePart
  <2>3. CASE Network!Unreadable
    <3>1. host' = "received"
        BY <2>3 DEF Network!Unreadable
    <3>2. brokenIN' = TRUE \/ brokenIN' = brokenIN
        BY <2>3 DEF Network!Unreadable
    <3> QED
        BY <2>1, <3>1, <3>2
  <2> QED
      BY <2>2, <2>3
<1>4. CASE pipeIN = <<>>
  <2>1. Network!Unreadable
      BY <1>4 DEF Network!ReceivePart
  <2>2. /\ host' = "received" /\ UNCHANGED <<gotIN, brokenIN, pipeIN>>
      BY <1>1, <1>4, <2>1 DEF Network!Unreadable
  <2>3. Reads' => Reads
      BY <1>3
  <2> QED
      BY <1>1, <2>2, <2>3, FramesKept
<1>5. CASE pipeIN # <<>>
  <2>1. Head(pipeIN).frame = Len(gotIN) + 1
      BY <1>3, <1>5 DEF FrameInv, InInv, InChain, Holds
  <2>2. IF Head(pipeIN).more THEN gotIN' = gotIN
        ELSE gotIN' \in {Append(gotIN, Len(gotIN) + 1), Append(gotIN, Network!Unread)}
    <3>1. CASE Network!ReceivePart
        BY <2>1, <3>1 DEF Network!ReceivePart
    <3>2. CASE Network!Unreadable
        BY <1>5, <3>2 DEF Network!Unreadable
    <3> QED
        BY <3>1, <3>2
  <2>3. /\ gotIN' \in Seq(Nat) /\ \A k \in 1..Len(gotIN') : gotIN'[k] \in {k, Network!Unread}
        /\ InChain' /\ InEnd' = InEnd /\ WrittenOnes' = WrittenOnes
        /\ Len(gotIN') <= WrittenOnes'
      BY <1>1, <1>3, <1>5, <2>2, FrameComes
  <2>4. FrameTypes'
      BY <1>1, <2>3 DEF FrameInv, FrameTypes
  <2>5. HeldInv'
      BY <1>1, <2>3 DEF FrameInv, HeldInv
  <2>6. ~brokenIN' => InEnd' = WrittenOnes' + 1
      BY <1>3, <2>3 DEF FrameInv, InInv
  <2>7. InInv'
      BY <2>3, <2>6 DEF InInv
  <2> QED
      BY <1>2, <2>4, <2>5, <2>7 DEF FrameInv
<1> QED
    BY <1>4, <1>5

\* The bus moves a part.
LEMMA FramesMoved ==
    ASSUME FrameInv, Network!Bus
    PROVE  FrameInv'
<1> USE DEF Network!calls, Network!control, Network!device, Network!frames
<1>1. UNCHANGED <<host, step, moved, FrameIN, FrameOUT, sentOUT, gotOUT, sentIN, gotIN, brokenOUT,
                  brokenIN>>
    BY DEF Network!Bus
<1>2. FrameTypes' /\ HeldInv'
    BY <1>1 DEF FrameInv, FrameTypes, HeldInv
<1>3. (Reads' => Reads) /\ ReadOnes' = ReadOnes /\ WrittenOnes' = WrittenOnes
    BY <1>1 DEF Reads, ReadOnes, WrittenOnes
<1>4. CASE /\ pipeOUT # <<>> /\ bankOUT = <<>> /\ bankOUT' = pipeOUT /\ pipeOUT' = <<>>
           /\ UNCHANGED <<bankIN, pipeIN>>
  <2>1. InInv'
      BY <1>1, <1>3, <1>4, InKept
  <2>2. OutInv'
      BY <1>1, <1>3, <1>4 DEF FrameInv, OutInv, OutChain, Holds, NextOf
  <2> QED
      BY <1>2, <2>1, <2>2 DEF FrameInv
<1>5. CASE /\ bankIN # <<>> /\ pipeIN = <<>> /\ pipeIN' = bankIN /\ bankIN' = <<>>
           /\ UNCHANGED <<bankOUT, pipeOUT>>
  <2>1. OutInv'
      BY <1>1, <1>5, OutKept
  <2>2. InEnd' = InEnd
      BY <1>1, <1>5 DEF InEnd, NextOf
  <2>3. InChain => InChain'
      BY <1>1, <1>3, <1>5, <2>2 DEF InChain, Holds, NextOf
  <2>4. InInv'
      BY <1>1, <1>3, <2>2, <2>3 DEF FrameInv, InInv
  <2> QED
      BY <1>2, <2>1, <2>4 DEF FrameInv
<1> QED
    BY <1>4, <1>5 DEF Network!Bus

\* A stream that fails half-way, and a call that ends.
LEMMA FramesFail ==
    ASSUME FrameInv, Network!TaskFails \/ Network!PacketFails
    PROVE  FrameInv'
<1> USE DEF Network!calls, Network!control, Network!device, Network!banks
<1>1. CASE Network!ReadFails
  <2>1. /\ step = "read" /\ step' = "write" /\ moved' = 0 /\ brokenOUT' = TRUE
        /\ UNCHANGED <<host, FrameIN, FrameOUT, pipeOUT, pipeIN, bankOUT, bankIN, sentOUT, gotOUT,
                       sentIN, gotIN, brokenIN>>
      BY <1>1 DEF Network!ReadFails
  <2>2. FrameTypes' /\ HeldInv'
      BY <2>1 DEF FrameInv, FrameTypes, HeldInv
  <2>3. Reads' => Reads
      BY <2>1 DEF Reads
  <2>4. InInv' /\ OutInv'
      BY <2>1, <2>3, InKept, OutKept
  <2> QED
      BY <2>2, <2>4 DEF FrameInv
<1>2. CASE Network!WriteFails
  <2>1. /\ step = "write" /\ step' = "notify" /\ moved' = 0 /\ FrameOUT' = 0 /\ brokenIN' = TRUE
        /\ UNCHANGED <<host, FrameIN, pipeOUT, pipeIN, bankOUT, bankIN, sentOUT, gotOUT, sentIN, gotIN,
                       brokenOUT>>
      BY <1>2 DEF Network!WriteFails
  <2>2. FrameTypes' /\ HeldInv'
      BY <2>1 DEF FrameInv, FrameTypes, HeldInv
  <2>3. OutInv'
      BY <2>1, OutKept
  <2>4. WrittenOnes \in Int /\ WrittenOnes' \in Int /\ WrittenOnes <= WrittenOnes'
      BY <2>1, FrameNumbers DEF WrittenOnes
  <2>5. Len(gotIN) \in Nat /\ Len(gotIN) <= WrittenOnes
      BY FrameNumbers DEF FrameInv, InInv
  <2>6. Len(gotIN') <= WrittenOnes'
      BY <2>1, <2>4, <2>5
  <2>7. Reads' => Reads
      BY <2>1 DEF Reads
  <2>8. InEnd' = InEnd /\ InEnd \in Int
      BY <2>1, <2>5 DEF InEnd, NextOf
  <2>9. InChain => InChain'
    <3> SUFFICES ASSUME InChain PROVE InChain'
        OBVIOUS
    <3>1. \A k, m, n \in Int : k <= m + 1 /\ m <= n => k <= n + 1
        OBVIOUS
    <3>2. InEnd <= WrittenOnes' + 1
        BY <2>4, <2>8, <3>1 DEF InChain
    <3>3. InEnd' <= WrittenOnes' + 1
        BY <2>8, <3>2
    <3>4. Holds(pipeIN, Len(gotIN) + 1)' /\ Holds(bankIN, NextOf(Len(gotIN) + 1, pipeIN))'
        BY <2>1 DEF InChain, Holds, NextOf
    <3> QED
        BY <3>3, <3>4 DEF InChain
  <2>10. InInv'
      BY <2>1, <2>6, <2>7, <2>9 DEF FrameInv, InInv
  <2> QED
      BY <2>2, <2>3, <2>10 DEF FrameInv
<1>3. CASE Network!PacketFails
  <2>1. /\ host' \in {"idle", "sent", "received"}
        /\ UNCHANGED <<step, moved, FrameIN, FrameOUT, pipeOUT, pipeIN, bankOUT, bankIN, sentOUT,
                       gotOUT, sentIN, gotIN>>
      BY <1>3 DEF Network!PacketFails
  <2>2. FrameTypes' /\ HeldInv'
      BY <2>1 DEF FrameInv, FrameTypes, HeldInv
  <2>3. brokenOUT => brokenOUT'
      BY <1>3 DEF Network!PacketFails
  <2>4. OutInv'
      BY <2>1, <2>3, OutKept
  <2>5. ~brokenIN' => ~brokenIN
      BY <1>3 DEF Network!PacketFails
  <2>6. Reads' => Reads
      BY <2>1, <2>5 DEF Reads
  <2>7. WrittenOnes' = WrittenOnes /\ InEnd' = InEnd /\ (InChain => InChain')
      BY <2>1 DEF WrittenOnes, InEnd, InChain, Holds, NextOf
  <2>8. InInv'
      BY <2>1, <2>5, <2>6, <2>7 DEF FrameInv, InInv
  <2> QED
      BY <2>2, <2>4, <2>8 DEF FrameInv
<1> QED
    BY <1>1, <1>2, <1>3 DEF Network!TaskFails

\* The application takes a frame, or offers one.
LEMMA FramesTaken ==
    ASSUME FrameInv, Network!TakeFrame \/ Network!OfferFrame
    PROVE  FrameInv'
<1> USE DEF Network!calls, Network!control, Network!banks
<1>1. /\ sentIN \in Nat /\ Len(gotOUT) \in Nat /\ gotOUT \in Seq(Nat)
      /\ FrameIN \in {0, Len(gotOUT) + 1}
    BY FrameNumbers DEF FrameInv, HeldInv
<1>2. CASE Network!TakeFrame
  <2>1. /\ step = "notify" /\ gotOUT' = Append(gotOUT, FrameIN) /\ FrameIN' = 0 /\ FrameIN # 0
        /\ UNCHANGED <<host, step, moved, FrameOUT, pipeOUT, pipeIN, bankOUT, bankIN, sentOUT, sentIN,
                       gotIN, brokenOUT, brokenIN>>
      BY <1>2 DEF Network!TakeFrame
  <2>2. gotOUT' = Append(gotOUT, Len(gotOUT) + 1)
      BY <1>1, <2>1
  <2>3. Len(gotOUT') = Len(gotOUT) + 1 /\ gotOUT' \in Seq(Nat)
      BY <1>1, <2>2
  <2>4. gotOUT' = [k \in 1..Len(gotOUT') |-> k]
      BY <1>1, <2>2, <2>3 DEF FrameInv, HeldInv
  <2>5. FrameTypes'
      BY <2>1, <2>3 DEF FrameInv, FrameTypes
  <2>6. HeldInv'
      BY <2>1, <2>4 DEF FrameInv, HeldInv
  <2>7. ReadOnes' = ReadOnes
      BY <1>1, <2>1, <2>3 DEF ReadOnes
  <2>8. OutInv'
      BY <2>1, <2>7 DEF FrameInv, OutInv, OutChain, Holds, NextOf
  <2>9. Reads' => Reads
      BY <2>1 DEF Reads
  <2>10. InInv'
      BY <2>1, <2>9, InKept
  <2> QED
      BY <2>5, <2>6, <2>8, <2>10 DEF FrameInv
<1>3. CASE Network!OfferFrame
  <2>1. /\ step = "notify" /\ sentIN' = sentIN + 1 /\ FrameOUT' = sentIN + 1 /\ FrameOUT = 0
        /\ UNCHANGED <<host, step, moved, FrameIN, pipeOUT, pipeIN, bankOUT, bankIN, sentOUT, gotOUT,
                       gotIN, brokenOUT, brokenIN>>
      BY <1>3 DEF Network!OfferFrame
  <2>2. FrameTypes'
      BY <1>1, <2>1 DEF FrameInv, FrameTypes
  <2>3. HeldInv'
      BY <1>1, <2>1 DEF FrameInv, HeldInv
  <2>4. OutInv'
      BY <2>1, OutKept
  <2>5. WrittenOnes' = WrittenOnes
      BY <1>1, <2>1 DEF WrittenOnes
  <2>6. InEnd' = InEnd /\ (InChain => InChain') /\ (Reads' => Reads)
      BY <2>1, <2>5 DEF InEnd, InChain, Holds, NextOf, Reads
  <2>7. InInv'
      BY <2>1, <2>5, <2>6 DEF FrameInv, InInv
  <2> QED
      BY <2>2, <2>3, <2>4, <2>7 DEF FrameInv
<1> QED
    BY <1>2, <1>3

\* Messages, and the steps of the task and the host that only look for frames.
LEMMA FramesWait ==
    ASSUME FrameInv,
           \/ Network!StartCall \/ Network!GetResponse
           \/ Network!Notify \/ Network!Notified \/ Network!MovesFrames
           \/ Network!NothingToRead \/ Network!NothingToWrite
           \/ Network!SendPacket \/ Network!IsPacketReceived \/ Network!ReadPacket
           \/ Network!Readable \/ Network!Freeze \/ UNCHANGED Network!rndisvars
    PROVE  FrameInv'
<1> USE DEF Network!calls, Network!control, Network!device, Network!banks, Network!frames
<1>1. CASE Network!StartCall \/ Network!GetResponse
  <2>1. UNCHANGED <<step, moved, FrameIN, FrameOUT, pipeOUT, pipeIN, bankOUT, bankIN, sentOUT, gotOUT,
                    sentIN, gotIN, brokenOUT, brokenIN>>
      BY <1>1 DEF Network!StartCall, Network!GetResponse
  <2>2. host' \in {"idle", "get"}
    <3>1. CASE Network!StartCall
      <4>1. PICK message \in Messages : Network!SendCommand(message)
          BY <3>1 DEF Network!StartCall
      <4> QED
          BY <4>1 DEF Network!SendCommand
    <3>2. CASE Network!GetResponse
        BY <3>2 DEF Network!GetResponse
    <3> QED
        BY <1>1, <3>1, <3>2
  <2>3. Reads' => Reads
      BY <2>1, <2>2 DEF Reads
  <2> QED
      BY <2>1, <2>3, FramesKept
<1>2. CASE \/ Network!Notify \/ Network!Notified \/ Network!MovesFrames
           \/ Network!NothingToRead \/ Network!NothingToWrite
  <2>1. UNCHANGED <<host, moved, FrameIN, FrameOUT, pipeOUT, pipeIN, bankOUT, bankIN, sentOUT, gotOUT,
                    sentIN, gotIN, brokenOUT, brokenIN>>
      BY <1>2 DEF Network!Notify, Network!Notified, Network!MovesFrames, Network!NothingToRead,
                  Network!NothingToWrite
  <2>2. moved = 0
      BY <1>2 DEF Network!Notify, Network!Notified, Network!MovesFrames, Network!NothingToRead,
                  Network!NothingToWrite, FrameInv, HeldInv
  <2>3. Reads' => Reads
      BY <2>1 DEF Reads
  <2> QED
      BY <2>1, <2>2, <2>3, FramesKept
<1>3. CASE \/ Network!SendPacket \/ Network!IsPacketReceived \/ Network!ReadPacket
           \/ Network!Readable \/ Network!Freeze \/ UNCHANGED Network!rndisvars
  <2>1. UNCHANGED <<step, moved, FrameIN, FrameOUT, pipeOUT, pipeIN, bankOUT, bankIN, sentOUT, gotOUT,
                    sentIN, gotIN, brokenOUT, brokenIN>>
      BY <1>3 DEF Network!SendPacket, Network!IsPacketReceived, Network!ReadPacket, Network!Readable,
                  Network!Freeze, Network!rndisvars
  <2>2. Reads' => Reads
      BY <1>3 DEF Reads, Network!SendPacket, Network!IsPacketReceived, Network!ReadPacket,
                  Network!Readable, Network!Freeze, Network!rndisvars
  <2> QED
      BY <2>1, <2>2, FramesKept
<1> QED
    BY <1>1, <1>2, <1>3

\* Every step of the adapter.
LEMMA FramesStep ==
    FrameInv /\ [Network!Next]_(Network!rndisvars) => FrameInv'
<1> SUFFICES ASSUME FrameInv, [Network!Next]_(Network!rndisvars) PROVE FrameInv'
    OBVIOUS
<1>1. CASE Network!SendPart \/ Network!ReceivePart \/ Network!Unreadable
    BY <1>1, FramesSent, FramesReceived
<1>2. CASE Network!ReadPart \/ Network!WritePart \/ Network!Bus
    BY <1>2, FramesRead, FramesWritten, FramesMoved
<1>3. CASE Network!TaskFails \/ Network!PacketFails
    BY <1>3, FramesFail
<1>4. CASE Network!TakeFrame \/ Network!OfferFrame
    BY <1>4, FramesTaken
<1> QED
    BY <1>1, <1>2, <1>3, <1>4, FramesWait DEF Network!Next, Network!Task, Network!PacketPart

\* Frames of a network adapter arrive once and in order, whatever messages come between them and
\* whichever calls thaw and freeze their pipes, for any number of frames and of banks in a frame;
\* one for the host may be given back unread, and nothing is said of what follows a stream that
\* failed half-way.
THEOREM FramesInOrderCorrect ==
    FairSpec => []FramesInOrder
<1>1. Init => FrameInv
  <2> SUFFICES ASSUME Network!Init PROVE FrameInv
      BY DEF Init
  <2>1. /\ host = "idle" /\ step = "notify" /\ FrameIN = 0 /\ FrameOUT = 0 /\ pipeOUT = <<>>
        /\ pipeIN = <<>> /\ bankOUT = <<>> /\ bankIN = <<>> /\ moved = 0 /\ sentOUT = 0
        /\ gotOUT = <<>> /\ sentIN = 0 /\ gotIN = <<>>
      BY DEF Network!Init
  <2>2. Len(gotOUT) = 0 /\ Len(gotIN) = 0 /\ gotOUT \in Seq(Nat) /\ gotIN \in Seq(Nat)
      BY <2>1
  <2>3. FrameTypes
      BY <2>1, <2>2 DEF FrameTypes
  <2>4. HeldInv
    <3>1. gotOUT = [k \in 1..Len(gotOUT) |-> k]
        BY <2>1, <2>2
    <3> QED
        BY <2>1, <2>2, <3>1 DEF HeldInv
  <2>5. ReadOnes = 0 /\ WrittenOnes = 0
      BY <2>1, <2>2 DEF ReadOnes, WrittenOnes
  <2>6. OutInv
      BY <2>1, <2>5 DEF OutInv, OutChain, Holds, NextOf
  <2>7. InInv
      BY <2>1, <2>2, <2>5 DEF InInv, InChain, InEnd, Holds, NextOf
  <2> QED
      BY <2>3, <2>4, <2>6, <2>7 DEF FrameInv
<1>2. FrameInv /\ [Next]_vars => FrameInv'
  <2> SUFFICES ASSUME FrameInv, [Next]_vars PROVE [Network!Next]_(Network!rndisvars)
      BY FramesStep
  <2>1. CASE InNetwork /\ Network!Next
      BY <2>1
  <2>2. CASE UNCHANGED network
      BY <2>2 DEF network, Network!rndisvars, Network!calls, Network!control, Network!device,
                  Network!banks, Network!frames
  <2> QED
      BY <2>1, <2>2 DEF Next, InStorage, InReports, InLine, vars
<1>3. FrameInv => FramesInOrder
  <2> SUFFICES ASSUME FrameInv PROVE FramesInOrder
      OBVIOUS
  <2>1. /\ sentOUT \in Nat /\ sentIN \in Nat /\ Len(gotOUT) \in Nat /\ Len(gotIN) \in Nat
        /\ ReadOnes \in Nat /\ WrittenOnes \in Int
      BY FrameNumbers
  <2>2. Len(gotOUT) <= ReadOnes /\ WrittenOnes <= sentIN
      BY <2>1 DEF ReadOnes, WrittenOnes
  <2>3. ReadOnes <= sentOUT /\ Len(gotIN) <= WrittenOnes
      BY DEF FrameInv, OutInv, InInv
  <2>4. Len(gotOUT) <= sentOUT /\ Len(gotIN) <= sentIN
      BY <2>1, <2>2, <2>3
  <2> QED
      BY <2>4 DEF FrameInv, HeldInv, FramesInOrder
<1> QED
    BY <1>1, <1>2, <1>3, PTL DEF FairSpec

-----------------------------------------------------------------------------
(* Input reports.                                                          *)

\* Once no report is on its way and the device finds no change to send, the host has seen the
\* input, unless a GET_REPORT was taken for a report.
QuietSeen ==
    endpoint = <<>> /\ pipe = <<>> /\ ~Reports!StatesChanged /\ ~Reports!Mistaken => seen = input

Values == Inputs \cup {Zero}

ReportTypes ==
    /\ input \in Values /\ PrevReportIN \in Values /\ sent \in Values /\ seen \in Values
    /\ endpoint \in Seq(Values) /\ pipe \in Seq(Values) /\ Len(pipe) <= 1

\* The last report on the way is the last one sent.
LatestOnWay ==
    /\ endpoint # <<>> => endpoint[Len(endpoint)] = sent
    /\ endpoint = <<>> /\ pipe # <<>> => Head(pipe) = sent
    /\ endpoint = <<>> /\ pipe = <<>> => seen = sent

ReportInv ==
    /\ ReportTypes /\ LatestOnWay
    /\ ~fetched => PrevReportIN = sent

\* Every step of the device and of the host.
LEMMA ReportsStep ==
    ReportInv /\ [Reports!Next]_(Reports!reportvars) => ReportInv'
<1> SUFFICES ASSUME ReportInv, [Reports!Next]_(Reports!reportvars) PROVE ReportInv'
    OBVIOUS
<1>1. ReportTypes /\ LatestOnWay /\ (~fetched => PrevReportIN = sent)
    BY DEF ReportInv
<1>2. CASE Reports!Task
  <2>1. PICK ForceSend \in BOOLEAN : Reports!HID_Device_USBTask(ForceSend)
      BY <1>2 DEF Reports!Task
  <2>2. CASE Reports!Room /\ endpoint' = Append(endpoint, input) /\ sent' = input
    <3>1. PrevReportIN' = input /\ UNCHANGED <<input, pipe, seen>>
        BY <2>1, <2>2 DEF Reports!HID_Device_USBTask, Reports!Keeps
    <3>2. endpoint' \in Seq(Values) /\ Len(endpoint') # 0 /\ endpoint'[Len(endpoint')] = input
        BY <1>1, <2>2 DEF ReportTypes
    <3>3. endpoint' # <<>>
        BY <3>2
    <3>4. ReportTypes'
        BY <1>1, <2>2, <3>1, <3>2 DEF ReportTypes
    <3>5. LatestOnWay'
        BY <2>2, <3>2, <3>3 DEF LatestOnWay
    <3> QED
        BY <2>2, <3>1, <3>4, <3>5 DEF ReportInv
  <2>3. CASE UNCHANGED <<endpoint, sent, fetched>>
    <3>1. UNCHANGED <<input, pipe, seen>> /\ PrevReportIN' \in {input, PrevReportIN}
        BY <2>1 DEF Reports!HID_Device_USBTask
    <3>2. ReportTypes' /\ LatestOnWay'
        BY <1>1, <2>3, <3>1 DEF ReportTypes, LatestOnWay
    <3>3. PrevReportIN' = PrevReportIN \/ sent' = PrevReportIN'
      <4>1. CASE Reports!Room /\ Reports!StatesChanged
          BY <2>1, <4>1 DEF Reports!HID_Device_USBTask, Reports!Keeps
      <4>2. CASE ~Reports!Room
          BY <2>1, <4>2 DEF Reports!HID_Device_USBTask, Reports!Keeps
      <4>3. CASE ~Reports!StatesChanged
          BY <3>1, <4>3 DEF Reports!StatesChanged
      <4> QED
          BY <4>1, <4>2, <4>3
    <3> QED
        BY <1>1, <2>3, <3>2, <3>3 DEF ReportInv
  <2> QED
      BY <2>1, <2>2, <2>3 DEF Reports!HID_Device_USBTask
<1>3. CASE \/ Reports!Change \/ Reports!HID_Device_MillisecondElapsed \/ Reports!GetReport
           \/ Reports!SetIdle \/ UNCHANGED Reports!reportvars
  <2>1. /\ UNCHANGED <<endpoint, pipe, sent, seen>>
        /\ input' \in Values /\ PrevReportIN' \in Values
        /\ fetched' \/ (fetched' = fetched /\ PrevReportIN' = PrevReportIN)
      BY <1>1, <1>3 DEF ReportTypes, Values, Reports!Change, Reports!HID_Device_MillisecondElapsed,
                        Reports!GetReport, Reports!SetIdle, Reports!reportvars
  <2> QED
      BY <1>1, <2>1 DEF ReportInv, ReportTypes, LatestOnWay
<1>4. CASE Reports!Host
  <2>1. UNCHANGED <<input, PrevReportIN, sent, fetched>>
      BY <1>4 DEF Reports!Host, Reports!HID_Host_IsReportReceived, Reports!HID_Host_ReceiveReport
  <2>2. seen' = (IF pipe = <<>> THEN seen ELSE Head(pipe)) /\ seen' \in Values
    <3>1. CASE Reports!HID_Host_IsReportReceived
        BY <1>1, <3>1 DEF Reports!HID_Host_IsReportReceived, ReportTypes
    <3>2. CASE Reports!HID_Host_ReceiveReport
        BY <1>1, <3>2 DEF Reports!HID_Host_ReceiveReport, ReportTypes
    <3> QED
        BY <1>4, <3>1, <3>2 DEF Reports!Host
  <2>3. CASE Reports!Arrives
    <3>1. endpoint # <<>> /\ pipe' = <<Head(endpoint)>> /\ endpoint' = Tail(endpoint)
        BY <2>3 DEF Reports!Arrives
    <3>2. /\ endpoint \in Seq(Values) /\ Len(endpoint) \in Nat /\ Len(endpoint) # 0
          /\ Head(endpoint) \in Values /\ endpoint' \in Seq(Values)
          /\ Len(endpoint') = Len(endpoint) - 1
        BY <1>1, <3>1 DEF ReportTypes
    <3>3. pipe' \in Seq(Values) /\ Len(pipe') = 1 /\ pipe' # <<>> /\ Head(pipe') = Head(endpoint)
        BY <3>1, <3>2
    <3>4. ReportTypes'
        BY <1>1, <2>1, <2>2, <3>2, <3>3 DEF ReportTypes
    <3>5. endpoint[Len(endpoint)] = sent
        BY <1>1, <3>1 DEF LatestOnWay
    <3>6. CASE Len(endpoint) = 1
      <4>1. endpoint' = <<>> /\ Head(endpoint) = sent
          BY <3>1, <3>2, <3>5, <3>6
      <4> QED
          BY <1>1, <2>1, <3>3, <3>4, <4>1 DEF LatestOnWay, ReportInv
    <3>7. CASE Len(endpoint) # 1
      <4>1. endpoint'[Len(endpoint')] = sent /\ Len(endpoint') # 0
          BY <3>1, <3>2, <3>5, <3>7
      <4>2. endpoint' # <<>>
          BY <4>1
      <4> QED
          BY <1>1, <2>1, <3>4, <4>1, <4>2 DEF LatestOnWay, ReportInv
    <3> QED
        BY <3>6, <3>7
  <2>4. CASE pipe # <<>> /\ pipe' = <<>> /\ UNCHANGED endpoint
    <3>1. pipe' \in Seq(Values) /\ Len(pipe') <= 1
        BY <2>4
    <3>2. ReportTypes'
        BY <1>1, <2>1, <2>2, <2>4, <3>1 DEF ReportTypes
    <3>3. LatestOnWay'
        BY <1>1, <2>1, <2>2, <2>4 DEF LatestOnWay
    <3> QED
        BY <1>1, <2>1, <3>2, <3>3 DEF ReportInv
  <2> QED
      BY <1>4, <2>3, <2>4 DEF Reports!Host, Reports!HID_Host_IsReportReceived,
                              Reports!HID_Host_ReceiveReport
<1> QED
    BY <1>2, <1>3, <1>4 DEF Reports!Next

\* Once no report is on its way and the device finds no change, the host has seen the input: for
\* any number of banks, and however full they were when it changed.
THEOREM QuietSeenCorrect ==
    FairSpec => []QuietSeen
<1>1. Init => ReportInv
  <2> SUFFICES ASSUME Reports!Init PROVE ReportInv
      BY DEF Init
  <2>1. /\ input = Zero /\ PrevReportIN = Zero /\ sent = Zero /\ seen = Zero
        /\ endpoint = <<>> /\ pipe = <<>>
      BY DEF Reports!Init
  <2>2. endpoint \in Seq(Values) /\ pipe \in Seq(Values) /\ Len(pipe) <= 1
      BY <2>1
  <2> QED
      BY <2>1, <2>2 DEF ReportInv, ReportTypes, LatestOnWay, Values
<1>2. ReportInv /\ [Next]_vars => ReportInv'
  <2> SUFFICES ASSUME ReportInv, [Next]_vars PROVE [Reports!Next]_(Reports!reportvars)
      BY ReportsStep
  <2>1. CASE InReports /\ Reports!Next
      BY <2>1
  <2>2. CASE UNCHANGED reports
      BY <2>2 DEF reports, Reports!reportvars
  <2> QED
      BY <2>1, <2>2 DEF Next, InStorage, InNetwork, InLine, vars
<1>3. ReportInv => QuietSeen
    BY DEF ReportInv, LatestOnWay, QuietSeen, Reports!StatesChanged, Reports!Mistaken
<1> QED
    BY <1>1, <1>2, <1>3, PTL DEF FairSpec

=============================================================================
