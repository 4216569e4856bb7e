-------------------------- MODULE MassStorage_proofs --------------------------
(***************************************************************************)
(* What the mass storage class drivers keep, for every set of commands,    *)
(* every size of banks and packets, and any number of calls.               *)
(***************************************************************************)
EXTENDS MCDrivers, TLAPS

\* A bank holds at most one packet, and packets are numbered.
Single(b) == b = <<>> \/ b = <<b[1]>>
Numbered(b) ==
    b # <<>> => {"kind", "number"} \subseteq DOMAIN b[1] /\ b[1].number \in Int

HoldsBlock(b) == b # <<>> /\ b[1].kind = "block"

\* The command blocks on their way are newer than the one the device took last, the ones behind
\* newer than the ones ahead, and the one that the host is about to send is newer than all.
NumberInv ==
    /\ Single(hostOUT) /\ Numbered(hostOUT) /\ Single(deviceOUT) /\ Numbered(deviceOUT)
    /\ tag \in Int /\ block.number \in Int /\ block.number <= tag
    /\ HoldsBlock(hostOUT) => block.number < hostOUT[1].number /\ hostOUT[1].number <= tag
    /\ HoldsBlock(deviceOUT) => block.number < deviceOUT[1].number /\ deviceOUT[1].number <= tag
    /\ HoldsBlock(hostOUT) /\ HoldsBlock(deviceOUT) => deviceOUT[1].number < hostOUT[1].number
    /\ call = "block" =>
         /\ block.number < tag
         /\ HoldsBlock(hostOUT) => hostOUT[1].number < tag
         /\ HoldsBlock(deviceOUT) => deviceOUT[1].number < tag

\* A step that moves no packet towards the device, but may empty a bank, and starts no call.
LEMMA NumberFrame ==
    ASSUME NumberInv, UNCHANGED <<tag, block>>, call' = call \/ call' # "block",
           hostOUT' \in {hostOUT, <<>>}, deviceOUT' \in {deviceOUT, <<>>}
    PROVE  NumberInv'
    BY DEF NumberInv, Single, Numbered, HoldsBlock

\* What is left of a packet is a packet of the same number.
LEMMA NumberAfter ==
    ASSUME NumberInv, UNCHANGED <<tag, block, hostOUT, call>>, deviceOUT # <<>>,
           NEW size, deviceOUT' \in {Storage!After(Head(deviceOUT), size), <<>>}
    PROVE  NumberInv'
<1>1. CASE deviceOUT' = <<>>
    BY <1>1, NumberFrame
<1>2. CASE deviceOUT' = Storage!After(Head(deviceOUT), size)
  <2>1. Head(deviceOUT) = deviceOUT[1]
      BY DEF NumberInv, Single
  <2>2. deviceOUT' = <<[deviceOUT[1] EXCEPT !.size = deviceOUT[1].size - size]>>
      BY <1>2, <2>1 DEF Storage!After
  <2>3. /\ deviceOUT' = <<deviceOUT'[1]>> /\ DOMAIN deviceOUT'[1] = DOMAIN deviceOUT[1]
        /\ deviceOUT'[1].kind = deviceOUT[1].kind /\ deviceOUT'[1].number = deviceOUT[1].number
      BY <2>2 DEF NumberInv, Numbered
  <2> QED
      BY <2>3 DEF NumberInv, Single, Numbered, HoldsBlock
<1> QED
    BY <1>1, <1>2

\* A task that ends leaves the bank as it was, or empties it for a reset.
LEMMA EndsBank == ASSUME NEW out, NEW in, NEW stalled, Storage!Ends(out, in, stalled)
                  PROVE  deviceOUT' \in {out, <<>>}
    BY DEF Storage!Ends

\* The host's calls: only sending adds a command block, and it is the newest.
LEMMA NumberHost ==
    ASSUME NumberInv, Storage!Ask \/ Storage!HostStep \/ Storage!Timeout
    PROVE  NumberInv'
<1> USE DEF Storage!deviceVars, Storage!elsewhere
<1>1. ASSUME NEW c \in Commands, Storage!StartCommand(c) PROVE NumberInv'
  <2>1. tag' = tag + 1 /\ UNCHANGED <<block, hostOUT, deviceOUT>>
      BY <1>1 DEF Storage!StartCommand
  <2> QED
      BY <2>1 DEF NumberInv, Single, Numbered, HoldsBlock
<1>2. ASSUME NEW name, Storage!ClassRequest(name) PROVE NumberInv'
    BY <1>2, NumberFrame DEF Storage!ClassRequest
<1>3. CASE Storage!SendBlock
  <2>1. /\ hostOUT' = <<Storage!Block>> /\ call = "block" /\ call' # "block" /\ hostOUT = <<>>
        /\ UNCHANGED <<tag, block, deviceOUT>>
      BY <1>3 DEF Storage!SendBlock
  <2>2. hostOUT'[1] = Storage!Block /\ hostOUT' # <<>>
      BY <2>1
  <2>3. {"kind", "number"} \subseteq DOMAIN Storage!Block /\ Storage!Block.number = tag
      BY DEF Storage!Block
  <2> QED
      BY <2>1, <2>2, <2>3 DEF NumberInv, Single, Numbered, HoldsBlock
<1>4. CASE Storage!Write
  <2>1. PICK size : hostOUT' = <<Storage!Data(tag, size)>>
      BY <1>4 DEF Storage!Write
  <2>2. call' # "block" /\ UNCHANGED <<tag, block, deviceOUT>>
      BY <1>4 DEF Storage!Write
  <2>3. /\ hostOUT' # <<>> /\ hostOUT' = <<hostOUT'[1]>>
        /\ {"kind", "number"} \subseteq DOMAIN hostOUT'[1]
        /\ hostOUT'[1].number = tag /\ hostOUT'[1].kind = "data"
      BY <2>1 DEF Storage!Data
  <2> QED
      BY <2>2, <2>3 DEF NumberInv, Single, Numbered, HoldsBlock
<1>5. CASE Storage!BlockSent \/ Storage!Receive \/ Storage!TryOUT \/ Storage!TryIN
    BY <1>5, NumberFrame DEF Storage!BlockSent, Storage!Receive, Storage!TryOUT, Storage!TryIN,
      Storage!Clears, Storage!Returns
<1>6. CASE Storage!Read \/ Storage!Written
    BY <1>6, NumberFrame DEF Storage!Read, Storage!Written, Storage!AwaitStatus, Storage!Returns
<1>7. CASE Storage!GiveUp \/ Storage!Timeout
    BY <1>7, NumberFrame DEF Storage!GiveUp, Storage!Timeout, Storage!Returns
<1> QED
    BY <1>1, <1>2, <1>3, <1>4, <1>5, <1>6, <1>7 DEF Storage!Ask, Storage!HostStep

\* The device: only a command block that it carries out is taken over.
LEMMA NumberDevice ==
    ASSUME NumberInv, Storage!DeviceStep
    PROVE  NumberInv'
<1> USE DEF Storage!away
<1>1. CASE Storage!ReadBlock
  <2>1. deviceOUT # <<>> /\ UNCHANGED <<tag, hostOUT, call>> /\ Head(deviceOUT) = deviceOUT[1]
      BY <1>1 DEF Storage!ReadBlock, NumberInv, Single
  <2>2. CASE Storage!Valid(Head(deviceOUT)) /\ deviceOUT' = Storage!ClearsBlock
             /\ block' = [command |-> Head(deviceOUT).asks, number |-> Head(deviceOUT).number]
    <3>1. deviceOUT' = <<>> /\ block'.number = deviceOUT[1].number /\ HoldsBlock(deviceOUT)
        BY <2>1, <2>2 DEF Storage!ClearsBlock, Storage!Valid, HoldsBlock
    <3> QED
        BY <2>1, <3>1 DEF NumberInv, Single, Numbered, HoldsBlock
  <2>3. CASE UNCHANGED block /\ Storage!Ends(Storage!After(Head(deviceOUT), HeaderSize), deviceIN,
    {"OUT", "IN"})
      BY <2>1, <2>3, EndsBank, NumberAfter
  <2>4. CASE UNCHANGED block /\ deviceOUT' = <<>>
      BY <2>1, <2>4, NumberFrame
  <2> QED
      BY <1>1, <2>2, <2>3, <2>4 DEF Storage!ReadBlock
<1>2. CASE Storage!ReadHeader
  <2>1. deviceOUT # <<>> /\ UNCHANGED <<tag, hostOUT, call, block>>
      BY <1>2 DEF Storage!ReadHeader
  <2>2. CASE Storage!Ends(Storage!After(Head(deviceOUT), left), deviceIN, {"OUT", "IN"})
      BY <2>1, <2>2, EndsBank, NumberAfter
  <2>3. CASE deviceOUT' = <<>>
      BY <2>1, <2>3, NumberFrame
  <2> QED
      BY <1>2, <2>2, <2>3 DEF Storage!ReadHeader
<1>3. CASE Storage!NoHeader \/ Storage!Reset
    BY <1>3, EndsBank, NumberFrame DEF Storage!NoHeader, Storage!Reset
<1>4. CASE Storage!Transfer \/ Storage!EndCommand
    BY <1>4, NumberFrame DEF Storage!Transfer, Storage!EndCommand
<1>5. CASE Storage!ReturnStatus
    BY <1>5, EndsBank, NumberFrame DEF Storage!ReturnStatus
<1>6. CASE Storage!HandleRequest
    BY <1>6, NumberFrame DEF Storage!HandleRequest
<1> QED
    BY <1>1, <1>2, <1>3, <1>4, <1>5, <1>6 DEF Storage!DeviceStep

\* The order of the command blocks is kept by every step.
LEMMA NumberStep == NumberInv /\ [Storage!Next]_Storage!vars => NumberInv'
<1> SUFFICES ASSUME NumberInv, [Storage!Next]_Storage!vars PROVE NumberInv'
    OBVIOUS
<1>1. CASE Storage!BusOUT
  <2>1. UNCHANGED <<tag, block, call>>
      BY <1>1 DEF Storage!BusOUT, Storage!deviceVars
  <2>2. CASE UNCHANGED <<hostOUT, deviceOUT>>
      BY <2>1, <2>2, NumberFrame
  <2>3. CASE deviceOUT = <<>> /\ deviceOUT' = hostOUT /\ hostOUT' = <<>>
      BY <2>1, <2>3 DEF NumberInv, Single, Numbered, HoldsBlock
  <2> QED
      BY <1>1, <2>2, <2>3 DEF Storage!BusOUT
<1>2. CASE Storage!BusIN \/ Storage!Detach
    BY <1>2, NumberFrame DEF Storage!BusIN, Storage!Detach, Storage!deviceVars, Storage!hostVars
<1>3. CASE UNCHANGED Storage!vars
    BY <1>3, NumberFrame DEF Storage!vars, Storage!deviceVars, Storage!hostVars
<1> QED
    BY <1>1, <1>2, <1>3, NumberHost, NumberDevice DEF Storage!Next

\* The device's task goes on to a command only with the block it has just read.
LEMMA CommandTaken ==
    ASSUME NumberInv, [Storage!Next]_Storage!vars, task = "idle", task' = "command"
    PROVE  block'.number > block.number
<1>1. CASE Storage!ReadBlock
  <2>1. Head(deviceOUT) = deviceOUT[1] /\ deviceOUT # <<>>
      BY <1>1 DEF Storage!ReadBlock, NumberInv, Single
  <2>2. Storage!Valid(Head(deviceOUT)) /\ block'.number = Head(deviceOUT).number
      BY <1>1 DEF Storage!ReadBlock, Storage!Ends
  <2>3. HoldsBlock(deviceOUT)
      BY <2>1, <2>2 DEF Storage!Valid, HoldsBlock
  <2> QED
      BY <2>1, <2>2, <2>3 DEF NumberInv, Numbered
<1>2. CASE Storage!ReadHeader \/ Storage!NoHeader \/ Storage!Transfer \/ Storage!EndCommand
  \/ Storage!ReturnStatus \/ Storage!Reset \/ Storage!HandleRequest
    BY <1>2 DEF Storage!ReadHeader, Storage!NoHeader, Storage!Transfer, Storage!EndCommand,
      Storage!ReturnStatus, Storage!Reset, Storage!HandleRequest, Storage!Ends
<1>3. CASE Storage!Ask \/ Storage!HostStep \/ Storage!Timeout
    BY <1>3 DEF Storage!Ask, Storage!StartCommand, Storage!ClassRequest, Storage!HostStep,
      Storage!SendBlock, Storage!BlockSent, Storage!Receive, Storage!TryOUT,
                Storage!TryIN, Storage!Read, Storage!Write, Storage!Written, Storage!GiveUp,
                  Storage!Timeout, Storage!deviceVars, Storage!elsewhere
<1>4. CASE Storage!BusOUT \/ Storage!BusIN \/ Storage!Detach \/ UNCHANGED Storage!vars
    BY <1>4 DEF Storage!BusOUT, Storage!BusIN, Storage!Detach, Storage!vars, Storage!deviceVars
<1> QED
    BY <1>1, <1>2, <1>3, <1>4 DEF Storage!Next, Storage!DeviceStep

\* Whatever stalls, timeouts, resets and retries came before, the device carries out each command
\* block at most once, and none after a newer one.
THEOREM OrderCorrect == FairSpec => ExecutedInOrder
<1>1. Init => NumberInv
    BY DEF Init, Storage!Init, NumberInv, Single, Numbered, HoldsBlock
<1>2. ASSUME NumberInv, [Next]_vars
      PROVE  NumberInv' /\ (task = "idle" /\ task' = "command" => block'.number > block.number)
  <2>1. CASE Storage!Next
      BY <1>2, <2>1, NumberStep, CommandTaken
  <2>2. CASE UNCHANGED storage
    <3>1. UNCHANGED Storage!vars
        BY <2>2 DEF storage, Storage!vars, Storage!hostVars, Storage!deviceVars
    <3> QED
        BY <1>2, <3>1, NumberStep, CommandTaken
  <2> QED
      BY <1>2, <2>1, <2>2 DEF Next, InReports, InLine, InNetwork, vars
<1>3. NumberInv /\ [Next]_vars =>
         /\ NumberInv'
         /\ [task = "idle" /\ task' = "command" => block'.number > block.number]_Storage!vars
    BY <1>2
<1> QED
    BY <1>1, <1>3, PTL DEF FairSpec, ExecutedInOrder, Storage!ExecutedInOrder

-----------------------------------------------------------------------------
(* Whose answers the host takes.                                           *)

\* No command's call is going on, or one is about to fail: it clears a stall.
Resting == call = "idle" \/ (call = "control" /\ stage = "class")
Clearing == call = "control" /\ stage # "class"

\* The host reads.
Reading == {"receive", "tryOUT", "tryIN", "read"}

\* The data that the host has still to transfer.
Pending == IF stage = "data" THEN need ELSE 0

\* What a bank may hold of the command of number n.
Empty(packets) == packets = <<>>
OwnBlock(n, c, packets) ==
    packets = <<[kind |-> "block", number |-> n, size |-> BlockSize, asks |-> c]>>
OwnData(n, packets) == \E size \in Nat \ {0} : packets = <<Storage!Data(n, size)>>
OwnStatus(n, packets) ==
    /\ packets # <<>> /\ packets = <<packets[1]>>
    /\ packets[1].kind = "status" /\ packets[1].number = n /\ packets[1].size = StatusSize
Bytes(packets) == IF packets # <<>> /\ packets[1].kind = "data" THEN packets[1].size ELSE 0

\* What a device does not take for a command block, nor what is left of it.
Stray(packets) ==
    packets # <<>> =>
       /\ packets = <<packets[1]>> /\ {"kind", "size"} \subseteq DOMAIN packets[1]
       /\ packets[1].size \in Int
       /\ packets[1].kind = "block" => packets[1].size < BlockSize

Quiet == Empty(hostOUT) /\ Empty(deviceOUT) /\ Empty(hostIN) /\ Empty(deviceIN) /\ task = "idle"

\* The command block is on its way.
Posted ==
    /\ task = "idle" /\ Empty(hostIN) /\ Empty(deviceIN)
    /\ command.length = Pending + Bytes(hostOUT)
    /\ \/ OwnBlock(tag, command, hostOUT) /\ Empty(deviceOUT)
       \/ /\ OwnBlock(tag, command, deviceOUT)
          /\ Empty(hostOUT) \/ (OwnData(tag, hostOUT) /\ command.direction = "OUT")

\* Its data go from the host to the device, or the other way.
Flow ==
    \/ /\ command.direction = "OUT" /\ left = Pending + Bytes(hostOUT) + Bytes(deviceOUT)
       /\ Empty(hostOUT) \/ OwnData(tag, hostOUT)
       /\ Empty(deviceOUT) \/ OwnData(tag, deviceOUT)
       /\ Empty(hostIN) \/ OwnStatus(tag, hostIN)
       /\ Empty(deviceIN) \/ OwnStatus(tag, deviceIN)
    \/ /\ command.direction = "IN" /\ Pending = left + Bytes(hostIN) + Bytes(deviceIN)
       /\ Empty(hostOUT) /\ Empty(deviceOUT)
       /\ Empty(hostIN) \/ OwnData(tag, hostIN) \/ OwnStatus(tag, hostIN)
       /\ Empty(deviceIN) \/ OwnData(tag, deviceIN) \/ OwnStatus(tag, deviceIN)

\* The device carries it out, or has sent its status.
Answered == OwnStatus(tag, hostIN) \/ OwnStatus(tag, deviceIN)
Served ==
    /\ block.number = tag /\ block.command = command
    /\ \A p \in taken : p.kind = "data" /\ p.number = tag
    /\ Flow
    /\ OwnStatus(tag, hostIN) => Empty(deviceIN)
    /\ Answered => task = "idle" /\ left = 0
    /\ ~Answered => task \in {"command", "status"} /\ (task = "status" /\ halted = {} => left = 0)

\* The device has dropped it, or its status, and sends none.
Lost ==
    /\ task \in {"idle", "header"} /\ Stray(hostOUT) /\ Stray(deviceOUT)
    /\ Empty(hostIN) \/ OwnData(tag, hostIN)
    /\ Empty(deviceIN) \/ OwnData(tag, deviceIN)
    /\ command.direction = "OUT" => Empty(hostIN) /\ Empty(deviceIN)
    /\ Bytes(hostIN) + Bytes(deviceIN) <= Pending

\* Where the call stands.
CallOK ==
    /\ command \in Commands /\ need \in Nat /\ left \in Nat
    /\ call \in {"idle", "control", "block", "sent", "write", "written"} \cup Reading
    /\ Resting \/ stage \in {"data", "status"}
    /\ Resting \/ (Storage!Own(origin.status, "status") /\ Storage!Own(origin.data, "data"))
    /\ call \in {"block", "sent"} => stage = "data" /\ need = command.length
    /\ call \in Reading =>
         /\ stage = "data" => need > 0 /\ command.direction = "IN"
         /\ stage = "status" => need = StatusSize
    /\ call = "write" => stage = "data" /\ need > 0 /\ command.direction = "OUT"
    /\ call = "written" => stage = "data" /\ need = 0 /\ command.direction = "OUT"
    /\ "IN" \in thawed => call \in Reading
    /\ request \in {<<>>, <<"reset">>, <<"maxlun">>} /\ halted \subseteq {"IN", "OUT"}
    /\ origin = [data |-> origin.data, status |-> origin.status]

Placed ==
    /\ Resting \/ call = "block" => Quiet
    /\ ~Resting /\ call # "block" => Posted \/ Served \/ Lost

AnswerInv == failed \in BOOLEAN /\ (failed \/ Clearing \/ (CallOK /\ Placed))

\* An empty bank.
LEMMA EmptyIs ==
    ASSUME NEW packets, Empty(packets)
    PROVE  /\ packets = <<>> /\ Bytes(packets) = 0 /\ Stray(packets)
           /\ \A n : ~OwnData(n, packets) /\ ~OwnStatus(n, packets)
           /\ \A n, c : ~OwnBlock(n, c, packets)
    BY DEF Empty, Bytes, Stray, OwnData, OwnStatus, OwnBlock

\* A bank that holds a packet of a command's data.
LEMMA DataIs ==
    ASSUME NEW n, NEW packets, OwnData(n, packets)
    PROVE  /\ packets # <<>> /\ Head(packets) = packets[1] /\ packets = <<packets[1]>>
           /\ packets[1].kind = "data" /\ packets[1].number = n /\ packets[1].size = Bytes(packets)
           /\ Bytes(packets) \in Nat /\ Bytes(packets) > 0
           /\ ~Empty(packets) /\ (\A m : ~OwnStatus(m, packets)) /\ (\A m, c : ~OwnBlock(m, c, packets))
           /\ Stray(packets)
<1>1. PICK size \in Nat \ {0} : packets = <<Storage!Data(n, size)>>
    BY DEF OwnData
<1>2. /\ packets # <<>> /\ Head(packets) = packets[1] /\ packets = <<packets[1]>>
      /\ packets[1].kind = "data" /\ packets[1].number = n /\ packets[1].size = size
      /\ {"kind", "size"} \subseteq DOMAIN packets[1]
    BY <1>1 DEF Storage!Data
<1> QED
    BY <1>2 DEF Bytes, Stray, Empty, OwnStatus, OwnBlock

\* A bank that holds a command's status.
LEMMA StatusIs ==
    ASSUME NEW n, NEW packets, OwnStatus(n, packets)
    PROVE  /\ packets # <<>> /\ Head(packets) = packets[1] /\ packets = <<packets[1]>>
           /\ packets[1].kind = "status" /\ packets[1].number = n /\ packets[1].size = StatusSize
           /\ Bytes(packets) = 0 /\ ~Empty(packets) /\ (\A m : ~OwnData(m, packets))
<1>2. /\ packets # <<>> /\ Head(packets) = packets[1] /\ packets = <<packets[1]>>
      /\ packets[1].kind = "status" /\ packets[1].number = n /\ packets[1].size = StatusSize
    BY DEF OwnStatus
<1>3. \A m : ~OwnData(m, packets)
    BY <1>2, DataIs
<1> QED
    BY <1>2, <1>3 DEF Bytes, Empty

\* A bank that holds a command block.
LEMMA BlockIs ==
    ASSUME NEW n, NEW c, NEW packets, OwnBlock(n, c, packets)
    PROVE  /\ packets # <<>> /\ Head(packets) = packets[1] /\ packets = <<packets[1]>>
           /\ packets[1].kind = "block" /\ packets[1].number = n /\ packets[1].size = BlockSize
           /\ packets[1].asks = c /\ {"kind", "size"} \subseteq DOMAIN packets[1]
           /\ Bytes(packets) = 0 /\ ~Empty(packets) /\ (\A m : ~OwnData(m, packets))
<1>1. /\ packets # <<>> /\ Head(packets) = packets[1] /\ packets = <<packets[1]>>
      /\ packets[1].kind = "block" /\ packets[1].number = n /\ packets[1].size = BlockSize
      /\ packets[1].asks = c /\ {"kind", "size"} \subseteq DOMAIN packets[1]
    BY DEF OwnBlock
<1>2. \A m : ~OwnData(m, packets)
    BY <1>1, DataIs
<1> QED
    BY <1>1, <1>2 DEF Bytes, Empty

\* What is left of a packet is no command block.
LEMMA AfterIs ==
    ASSUME NEW packets, packets # <<>>, NEW size \in Nat,
           Stray(packets) \/ (size > 0 /\ \E n, c : OwnBlock(n, c, packets))
    PROVE  Stray(Storage!After(Head(packets), size))
<1>1. /\ packets = <<packets[1]>> /\ {"kind", "size"} \subseteq DOMAIN packets[1]
      /\ packets[1].size \in Int
      /\ packets[1].kind = "block" => packets[1].size - size < BlockSize
  <2>1. CASE Stray(packets)
      BY <2>1, StorageAssumption DEF Stray, StorageAssumption
  <2>2. CASE size > 0 /\ \E n, c : OwnBlock(n, c, packets)
      BY <2>2, BlockIs, StorageAssumption DEF StorageAssumption
  <2> QED
      BY <2>1, <2>2
<1>2. Head(packets) = packets[1]
    BY <1>1
<1>3. PICK p : p = packets[1]
    OBVIOUS
<1>4. Storage!After(Head(packets), size) = <<[p EXCEPT !.size = p.size - size]>>
    BY <1>2, <1>3 DEF Storage!After
<1>5. PICK rem : rem = [p EXCEPT !.size = p.size - size]
    OBVIOUS
<1>6. rem.kind = p.kind /\ rem.size = p.size - size /\ {"kind", "size"} \subseteq DOMAIN rem
    BY <1>1, <1>3, <1>5
<1>7. Storage!After(Head(packets), size) = <<rem>>
    BY <1>4, <1>5
<1> QED
    BY <1>1, <1>3, <1>6, <1>7 DEF Stray

\* What an empty bank, or one of each kind of packet, says of the others.
LEMMA BytesIs ==
    ASSUME NEW n, NEW packets, Empty(packets) \/ OwnData(n, packets) \/ OwnStatus(n, packets)
    PROVE  Bytes(packets) \in Nat
    BY EmptyIs, DataIs, StatusIs

\* The host's side of a call stays as it is.
LEMMA CallKept ==
    ASSUME CallOK, UNCHANGED <<call, stage, need, command, tag, origin>>, left' \in Nat,
           thawed' \subseteq thawed, request' \in {request, <<>>}, halted' \subseteq {"IN", "OUT"}
    PROVE  CallOK'
    BY DEF CallOK, Resting, Storage!Own

\* The phase stays as it is when nothing of it changes.
LEMMA PhaseKept ==
    ASSUME UNCHANGED <<command, tag, hostOUT, deviceOUT, hostIN, deviceIN, task, block, left, taken>>,
           halted' = halted \/ halted' # {}, Pending' = Pending, Posted \/ Served \/ Lost
    PROVE  (Posted \/ Served \/ Lost)'
<1>1. CASE Posted
    BY <1>1 DEF Posted
<1>2. CASE Served
  <2>1. Flow' <=> Flow
      BY DEF Flow
  <2> QED
      BY <1>2, <2>1 DEF Served, Answered
<1>3. CASE Lost
    BY <1>3 DEF Lost
<1> QED
    BY <1>1, <1>2, <1>3

\* A command that was lost stays lost.
LEMMA LostKept ==
    ASSUME CallOK, Lost, UNCHANGED <<command, tag, hostIN>>, Pending' = Pending,
           Stray(hostOUT)', Stray(deviceOUT)', deviceIN' \in {deviceIN, <<>>}, task' \in {"idle", "header"}
    PROVE  Lost'
<1>1. CASE deviceIN' = deviceIN
    BY <1>1 DEF Lost
<1>2. CASE deviceIN' = <<>>
  <2>1. Empty(deviceIN)' /\ Bytes(deviceIN)' = 0
      BY <1>2 DEF Empty, Bytes
  <2>2. Bytes(hostIN) \in Nat /\ Bytes(deviceIN) \in Nat /\ Pending \in Nat
      BY BytesIs DEF Lost, CallOK, Pending
  <2>3. Bytes(hostIN)' = Bytes(hostIN)
      OBVIOUS
  <2> QED
      BY <2>1, <2>2, <2>3 DEF Lost
<1> QED
    BY <1>1, <1>2

\* A device that ends its task before it has sent the status sends none.
LEMMA ServedLost ==
    ASSUME CallOK, Served, ~Answered, UNCHANGED <<command, tag, hostOUT, hostIN>>, Pending' = Pending,
           deviceOUT' \in {deviceOUT, <<>>}, deviceIN' \in {deviceIN, <<>>}, task' = "idle"
    PROVE  Lost'
<1>1. /\ Empty(hostIN) \/ OwnData(tag, hostIN)
      /\ Empty(deviceIN) \/ OwnData(tag, deviceIN)
      /\ command.direction = "OUT" => Empty(hostIN) /\ Empty(deviceIN)
      /\ Bytes(hostIN) + Bytes(deviceIN) <= Pending
  <2>1. CASE command.direction = "OUT"
    <3>1. Empty(hostIN) /\ Empty(deviceIN)
        BY <2>1 DEF Served, Flow, Answered
    <3>2. Pending \in Nat
        BY DEF CallOK, Pending
    <3> QED
        BY <3>1, <3>2, EmptyIs
  <2>2. CASE command.direction # "OUT"
    <3>1. /\ Pending = left + Bytes(hostIN) + Bytes(deviceIN)
          /\ Empty(hostIN) \/ OwnData(tag, hostIN)
          /\ Empty(deviceIN) \/ OwnData(tag, deviceIN)
        BY <2>2 DEF Served, Flow, Answered
    <3>2. Bytes(hostIN) \in Nat /\ Bytes(deviceIN) \in Nat /\ left \in Nat
        BY <3>1, BytesIs DEF CallOK
    <3> QED
        BY <2>2, <3>1, <3>2
  <2> QED
      BY <2>1, <2>2
<1>2. Stray(hostOUT) /\ Stray(deviceOUT) /\ Stray(<<>>)
    BY EmptyIs, DataIs DEF Served, Flow, Stray
<1>3. Stray(hostOUT)' /\ Stray(deviceOUT)'
    BY <1>2
<1>4. CASE deviceIN' = deviceIN
    BY <1>1, <1>3, <1>4 DEF Lost
<1>5. CASE deviceIN' = <<>>
  <2>1. Empty(deviceIN)' /\ Bytes(deviceIN)' = 0
      BY <1>5 DEF Empty, Bytes
  <2>2. Bytes(hostIN) \in Nat /\ Bytes(deviceIN) \in Nat /\ Pending \in Nat
      BY <1>1, BytesIs DEF CallOK, Pending
  <2>3. Bytes(hostIN)' = Bytes(hostIN)
      OBVIOUS
  <2> QED
      BY <1>1, <1>3, <2>1, <2>2, <2>3 DEF Lost
<1> QED
    BY <1>4, <1>5

\* Once the device has answered, nothing is left towards it.
LEMMA AnsweredIs ==
    ASSUME CallOK, Served, Answered
    PROVE  /\ Empty(hostOUT) /\ Empty(deviceOUT) /\ task = "idle" /\ left = 0
           /\ command.direction = "OUT" => Pending = 0
           /\ command.direction = "IN" => Pending = Bytes(hostIN) + Bytes(deviceIN)
<1>1. task = "idle" /\ left = 0
    BY DEF Served
<1>2. CASE command.direction = "OUT"
  <2>1. /\ 0 = Pending + Bytes(hostOUT) + Bytes(deviceOUT)
        /\ Empty(hostOUT) \/ OwnData(tag, hostOUT)
        /\ Empty(deviceOUT) \/ OwnData(tag, deviceOUT)
      BY <1>1, <1>2 DEF Served, Flow
  <2>2. Pending \in Nat /\ Bytes(hostOUT) \in Nat /\ Bytes(deviceOUT) \in Nat
      BY <2>1, BytesIs DEF CallOK, Pending
  <2>3. Pending = 0 /\ Bytes(hostOUT) = 0 /\ Bytes(deviceOUT) = 0
      BY <2>1, <2>2
  <2> QED
      BY <1>1, <1>2, <2>1, <2>3, DataIs
<1>3. CASE command.direction # "OUT"
  <2>1. /\ Pending = 0 + Bytes(hostIN) + Bytes(deviceIN)
        /\ Empty(hostOUT) /\ Empty(deviceOUT)
        /\ Empty(hostIN) \/ OwnData(tag, hostIN) \/ OwnStatus(tag, hostIN)
        /\ Empty(deviceIN) \/ OwnData(tag, deviceIN) \/ OwnStatus(tag, deviceIN)
      BY <1>1, <1>3 DEF Served, Flow
  <2>2. Bytes(hostIN) \in Nat /\ Bytes(deviceIN) \in Nat
      BY <2>1, BytesIs
  <2> QED
      BY <1>1, <1>3, <2>1, <2>2
<1> QED
    BY <1>2, <1>3

-----------------------------------------------------------------------------
\* The steps of the device leave the host's side of the call alone.
here == <<call, stage, need, command, tag, origin, failed, thawed, hostOUT, hostIN>>

\* A task that ends: a reset empties the banks.
LEMMA EndsIs ==
    ASSUME NEW out, NEW in, NEW stalled, Storage!Ends(out, in, stalled),
           stalled \subseteq {"IN", "OUT"}
    PROVE  /\ task' = "idle" /\ deviceOUT' \in {out, <<>>} /\ deviceIN' \in {in, <<>>}
           /\ halted' \subseteq {"IN", "OUT"}
    BY DEF Storage!Ends

\* Where the host stands is as before; only the phase is left to show.
LEMMA DeviceMoves ==
    ASSUME CallOK, Placed, UNCHANGED here, left' \in Nat, request' \in {request, <<>>},
           halted' \subseteq {"IN", "OUT"},
           Quiet => Quiet',
           Posted => (Posted \/ Served \/ Lost)',
           Served => (Posted \/ Served \/ Lost)',
           ~Resting /\ call # "block" /\ Lost => Lost'
    PROVE  CallOK' /\ Placed'
<1>1. CallOK'
    BY CallKept DEF here
<1>2. Resting' <=> Resting
    BY DEF Resting, here
<1>3. Placed'
    BY <1>2 DEF Placed, here
<1> QED
    BY <1>1, <1>3

\* Nothing happens at a device that has nothing to do.
LEMMA QuietKept ==
    ASSUME Quiet, UNCHANGED <<hostOUT, hostIN>>, deviceOUT' \in {deviceOUT, <<>>},
           deviceIN' \in {deviceIN, <<>>}, task' = "idle"
    PROVE  Quiet'
    BY DEF Quiet, Empty

\* MS_Device_ReadInCommandBlock.
LEMMA AnswerBlock ==
    ASSUME CallOK, Placed, Storage!ReadBlock
    PROVE  CallOK' /\ Placed'
<1>1. /\ UNCHANGED here /\ UNCHANGED request /\ task = "idle" /\ deviceOUT # <<>>
      /\ Head(deviceOUT).size > 0
    BY DEF Storage!ReadBlock, Storage!away, here
<1> DEFINE packet == Head(deviceOUT)
<1>2. Pending' = Pending
    BY <1>1 DEF Pending, here
<1>3. ~Quiet
    BY <1>1 DEF Quiet, Empty
<1>4. ~Served
  <2>1. SUFFICES ASSUME Served PROVE FALSE
      OBVIOUS
  <2>2. Answered
      BY <1>1, <2>1 DEF Served
  <2>3. Empty(deviceOUT)
      BY <2>1, <2>2, AnsweredIs
  <2> QED
      BY <1>1, <2>3 DEF Empty
<1>5. ~Resting /\ call # "block" /\ (Posted \/ Lost)
    BY <1>3, <1>4 DEF Placed
<1>6. CASE /\ Storage!Valid(packet) /\ task' = "command"
           /\ block' = [command |-> packet.asks, number |-> packet.number]
           /\ left' = packet.asks.length /\ taken' = {} /\ deviceOUT' = <<>>
           /\ UNCHANGED <<deviceIN, halted>>
  <2>1. packet.kind = "block" /\ packet.size = BlockSize
      BY <1>6 DEF Storage!Valid
  <2>2. ~Lost
    <3>1. SUFFICES ASSUME Lost PROVE FALSE
        OBVIOUS
    <3>2. Stray(deviceOUT)
        BY <3>1 DEF Lost
    <3>3. deviceOUT[1].kind = "block" => deviceOUT[1].size < BlockSize
        BY <1>1, <3>2 DEF Stray
    <3>4. packet = deviceOUT[1]
        BY <1>1, <3>2 DEF Stray
    <3> QED
        BY <2>1, <3>3, <3>4, StorageAssumption DEF StorageAssumption
  <2>3. Posted
      BY <1>5, <2>2
  <2>4. /\ OwnBlock(tag, command, deviceOUT)
        /\ Empty(hostOUT) \/ (OwnData(tag, hostOUT) /\ command.direction = "OUT")
        /\ Empty(hostIN) /\ Empty(deviceIN) /\ command.length = Pending + Bytes(hostOUT)
      BY <1>1, <2>3 DEF Posted, Empty
  <2>5. packet.number = tag /\ packet.asks = command
      BY <2>4, BlockIs
  <2>6. /\ block'.number = tag /\ block'.command = command /\ left' = command.length
        /\ command.length \in Nat /\ command.direction \in {"IN", "OUT"}
      BY <1>6, <2>5, StorageAssumption DEF CallOK, StorageAssumption
  <2>7. Empty(deviceOUT)' /\ Empty(deviceIN)' /\ Empty(hostIN)' /\ UNCHANGED <<tag, command, hostOUT>>
      BY <1>1, <1>6, <2>4 DEF Empty, here
  <2>8. /\ Bytes(deviceOUT)' = 0 /\ Bytes(deviceIN)' = 0 /\ Bytes(hostIN)' = 0
        /\ Bytes(hostOUT)' = Bytes(hostOUT) /\ Bytes(hostOUT) \in Nat /\ Pending \in Nat
        /\ Empty(hostOUT) => Bytes(hostOUT) = 0
      BY <2>4, <2>7, BytesIs, EmptyIs DEF CallOK, Pending
  <2>9. Flow'
    <3>1. CASE command.direction = "OUT"
        BY <1>2, <2>4, <2>6, <2>7, <2>8, <3>1 DEF Flow
    <3>2. CASE command.direction = "IN"
        BY <1>2, <2>4, <2>6, <2>7, <2>8, <3>2 DEF Flow
    <3> QED
        BY <2>6, <3>1, <3>2
  <2>10. ~Answered'
      BY <2>7, EmptyIs DEF Answered
  <2>11. ~OwnStatus(tag, hostIN)'
      BY <2>10 DEF Answered
  <2>12. Served'
      BY <1>6, <2>6, <2>7, <2>9, <2>10, <2>11 DEF Served
  <2>13. halted' \subseteq {"IN", "OUT"}
      BY <1>6 DEF CallOK
  <2> QED
      BY <1>1, <1>3, <1>4, <2>2, <2>6, <2>12, <2>13, DeviceMoves
<1>7. CASE /\ ~Storage!Valid(packet) /\ task' \in {"idle", "header"} /\ left' \in Nat
           /\ Stray(deviceOUT)' /\ deviceIN' \in {deviceIN, <<>>} /\ halted' \subseteq {"IN", "OUT"}
  <2>1. UNCHANGED <<command, tag, hostIN, hostOUT>>
      BY <1>1 DEF here
  <2>2. Posted => Lost'
    <3>1. SUFFICES ASSUME Posted PROVE Lost'
        OBVIOUS
    <3>2. /\ Empty(hostIN) /\ Empty(deviceIN)
          /\ Empty(hostOUT) \/ OwnData(tag, hostOUT)
        BY <1>1, <3>1 DEF Posted, Empty
    <3>3. Stray(hostOUT)'
        BY <2>1, <3>2, EmptyIs, DataIs
    <3>4. Empty(hostIN)' /\ Empty(deviceIN)'
        BY <1>7, <2>1, <3>2 DEF Empty
    <3>5. Bytes(hostIN)' = 0 /\ Bytes(deviceIN)' = 0 /\ Pending' \in Nat
        BY <1>2, <3>4, EmptyIs DEF CallOK, Pending
    <3> QED
        BY <1>7, <3>3, <3>4, <3>5 DEF Lost
  <2>3. Lost => Lost'
    <3>1. SUFFICES ASSUME Lost PROVE Lost'
        OBVIOUS
    <3>2. Stray(hostOUT)'
        BY <2>1, <3>1 DEF Lost
    <3> QED
        BY <1>2, <1>7, <2>1, <3>1, <3>2, LostKept
  <2> QED
      BY <1>1, <1>3, <1>4, <1>7, <2>2, <2>3, DeviceMoves
<1>8. ~Storage!Valid(packet) => Stray(deviceOUT) \/ OwnBlock(tag, command, deviceOUT)
    BY <1>1, <1>5 DEF Posted, Lost, Empty
<1>9. CASE ~Storage!Valid(packet) /\ packet.size >= HeaderSize
           /\ Storage!Ends(Storage!After(packet, HeaderSize), deviceIN, {"OUT", "IN"})
           /\ UNCHANGED left
  <2>1. /\ task' = "idle" /\ deviceOUT' \in {Storage!After(packet, HeaderSize), <<>>}
        /\ deviceIN' \in {deviceIN, <<>>} /\ halted' \subseteq {"IN", "OUT"}
      BY <1>9, EndsIs
  <2>2. HeaderSize \in Nat /\ HeaderSize > 0
      BY StorageAssumption DEF StorageAssumption
  <2>3. Stray(Storage!After(packet, HeaderSize)) /\ Stray(<<>>)
      BY <1>1, <1>8, <1>9, <2>2, AfterIs DEF Stray
  <2>4. Stray(deviceOUT)'
      BY <2>1, <2>3
  <2>5. left' \in Nat
      BY <1>9 DEF CallOK
  <2> QED
      BY <1>7, <1>9, <2>1, <2>4, <2>5
<1>10. CASE ~Storage!Valid(packet) /\ packet.size < HeaderSize
            /\ task' = "header" /\ left' = HeaderSize - packet.size /\ deviceOUT' = <<>>
            /\ UNCHANGED <<deviceIN, halted>>
  <2>1. packet.size \in Int
    <3>1. CASE Stray(deviceOUT)
        BY <1>1, <3>1 DEF Stray
    <3>2. CASE OwnBlock(tag, command, deviceOUT)
        BY <3>2, BlockIs, StorageAssumption DEF StorageAssumption
    <3> QED
        BY <1>8, <1>10, <3>1, <3>2
  <2>2. left' \in Nat
      BY <1>10, <2>1, StorageAssumption DEF StorageAssumption
  <2>3. Stray(deviceOUT)'
      BY <1>10 DEF Stray
  <2> QED
      BY <1>7, <1>10, <2>2, <2>3 DEF CallOK
<1> QED
    BY <1>6, <1>9, <1>10 DEF Storage!ReadBlock, Storage!ClearsBlock

\* The rest of a header, or none.
LEMMA AnswerHeader ==
    ASSUME CallOK, Placed, Storage!ReadHeader \/ Storage!NoHeader
    PROVE  CallOK' /\ Placed'
<1>1. UNCHANGED here /\ UNCHANGED request /\ task = "header"
    BY DEF Storage!ReadHeader, Storage!NoHeader, Storage!away, here
<1>2. ~Quiet /\ ~Posted /\ ~Served
    BY <1>1 DEF Quiet, Posted, Served
<1>3. Lost
    BY <1>2 DEF Placed
<1>4. Pending' = Pending /\ UNCHANGED <<command, tag, hostIN>> /\ Stray(hostOUT)' /\ Stray(deviceOUT)
    BY <1>1, <1>3 DEF Pending, here, Lost
<1>5. CASE /\ left' \in Nat /\ Stray(deviceOUT)' /\ deviceIN' \in {deviceIN, <<>>}
           /\ task' \in {"idle", "header"} /\ halted' \subseteq {"IN", "OUT"}
  <2>1. Lost'
      BY <1>3, <1>4, <1>5, LostKept
  <2> QED
      BY <1>1, <1>2, <1>5, <2>1, DeviceMoves
<1>6. CASE /\ deviceOUT # <<>> /\ left' = 0
           /\ Storage!Ends(Storage!After(Head(deviceOUT), left), deviceIN, {"OUT", "IN"})
  <2>1. /\ task' = "idle" /\ deviceOUT' \in {Storage!After(Head(deviceOUT), left), <<>>}
        /\ deviceIN' \in {deviceIN, <<>>} /\ halted' \subseteq {"IN", "OUT"}
      BY <1>6, EndsIs
  <2>2. Stray(Storage!After(Head(deviceOUT), left)) /\ Stray(<<>>)
      BY <1>4, <1>6, AfterIs DEF Stray, CallOK
  <2> QED
      BY <1>5, <1>6, <2>1, <2>2
<1>7. CASE /\ deviceOUT # <<>> /\ Head(deviceOUT).size < left /\ left' = left - Head(deviceOUT).size
           /\ deviceOUT' = <<>> /\ UNCHANGED <<task, deviceIN, halted>>
  <2>1. Head(deviceOUT).size \in Int
      BY <1>4, <1>7 DEF Stray
  <2>2. left' \in Nat /\ Stray(deviceOUT)'
      BY <1>7, <2>1 DEF CallOK, Stray
  <2> QED
      BY <1>1, <1>5, <1>7, <2>2 DEF CallOK
<1>8. CASE deviceOUT = <<>> /\ Storage!Ends(deviceOUT, deviceIN, halted) /\ UNCHANGED left
  <2>1. /\ task' = "idle" /\ deviceOUT' = <<>> /\ deviceIN' \in {deviceIN, <<>>}
        /\ halted' \subseteq {"IN", "OUT"}
      BY <1>8, EndsIs DEF CallOK
  <2>2. Stray(deviceOUT)'
      BY <2>1 DEF Stray
  <2> QED
      BY <1>5, <1>8, <2>1, <2>2 DEF CallOK
<1> QED
    BY <1>6, <1>7, <1>8 DEF Storage!ReadHeader, Storage!NoHeader

\* The application transfers a bank of the data.
LEMMA AnswerTransfer ==
    ASSUME CallOK, Placed, Storage!Transfer
    PROVE  CallOK' /\ Placed'
<1>1. /\ UNCHANGED here /\ UNCHANGED <<request, task, block, halted>> /\ task = "command" /\ left > 0
    BY DEF Storage!Transfer, Storage!away, here
<1>2. ~Quiet /\ ~Posted /\ ~Lost
    BY <1>1 DEF Quiet, Posted, Lost
<1>3. Served /\ ~Answered
    BY <1>1, <1>2 DEF Placed, Served
<1>4. /\ Pending' = Pending /\ Pending \in Nat /\ left \in Nat
      /\ UNCHANGED <<command, tag, hostIN, hostOUT>>
    BY <1>1 DEF Pending, here, CallOK
<1>5. block.command = command
    BY <1>3 DEF Served
<1>6. CASE /\ command.direction = "IN" /\ deviceIN = <<>> /\ UNCHANGED <<taken, deviceOUT>>
           /\ deviceIN' = <<Storage!Data(block.number, Storage!Least(left, BlockSize))>>
           /\ left' = left - Storage!Least(left, BlockSize)
  <2> DEFINE size == Storage!Least(left, BlockSize)
  <2>1. BlockSize \in Nat /\ BlockSize > 0
      BY StorageAssumption DEF StorageAssumption
  <2>2. size \in Nat /\ size > 0 /\ size <= left
      BY <1>1, <1>4, <2>1 DEF Storage!Least
  <2> HIDE DEF size
  <2>3. deviceIN' = <<Storage!Data(tag, size)>> /\ left' = left - size
      BY <1>3, <1>6 DEF Served, size
  <2>4. OwnData(tag, deviceIN')
      BY <2>2, <2>3 DEF OwnData
  <2>5. deviceIN'[1].size = size
      BY <2>3 DEF Storage!Data
  <2>6. Bytes(deviceIN') = size
      BY <2>4, <2>5, DataIs
  <2>7. /\ Empty(hostIN) \/ OwnData(tag, hostIN)
        /\ Empty(hostOUT) /\ Empty(deviceOUT)
        /\ Pending = left + Bytes(hostIN) + Bytes(deviceIN)
      BY <1>3, <1>6 DEF Served, Flow, Answered
  <2>8. Empty(deviceIN) /\ Bytes(deviceIN) = 0 /\ Bytes(hostIN) \in Nat
      BY <1>6, <2>7, BytesIs, EmptyIs DEF Empty
  <2>9. left' \in Nat /\ Pending = left' + Bytes(hostIN) + size
      BY <1>4, <2>2, <2>3, <2>7, <2>8
  <2>10. Flow'
      BY <1>4, <1>6, <2>4, <2>6, <2>7, <2>9 DEF Flow
  <2>11. ~OwnStatus(tag, hostIN) /\ ~OwnStatus(tag, deviceIN')
      BY <2>4, <2>7, DataIs, EmptyIs
  <2>12. Served'
      BY <1>1, <1>3, <1>4, <1>6, <2>10, <2>11 DEF Served, Answered
  <2> QED
      BY <1>1, <1>2, <2>9, <2>12, DeviceMoves DEF CallOK
<1>7. CASE /\ command.direction = "OUT" /\ deviceOUT # <<>> /\ deviceOUT' = <<>> /\ UNCHANGED deviceIN
           /\ taken' = taken \cup {Head(deviceOUT)}
           /\ left' = left - Storage!Least(left, Head(deviceOUT).size)
  <2>1. /\ left = Pending + Bytes(hostOUT) + Bytes(deviceOUT)
        /\ Empty(hostOUT) \/ OwnData(tag, hostOUT)
        /\ OwnData(tag, deviceOUT)
        /\ Empty(hostIN) /\ Empty(deviceIN)
      BY <1>3, <1>7 DEF Served, Flow, Answered, Empty
  <2>2. Head(deviceOUT).size = Bytes(deviceOUT) /\ Bytes(deviceOUT) \in Nat /\ Bytes(hostOUT) \in Nat
      BY <2>1, DataIs, BytesIs
  <2>3. Storage!Least(left, Head(deviceOUT).size) = Bytes(deviceOUT)
      BY <1>4, <2>1, <2>2 DEF Storage!Least
  <2>4. left' = Pending + Bytes(hostOUT) /\ left' \in Nat
      BY <1>4, <1>7, <2>1, <2>2, <2>3
  <2>5. Empty(deviceOUT') /\ Bytes(deviceOUT') = 0
      BY <1>7, EmptyIs DEF Empty
  <2>6. left' = Pending + Bytes(hostOUT) + 0
      BY <2>2, <2>4, <1>4
  <2>7. Flow'
      BY <1>4, <1>7, <2>1, <2>5, <2>6 DEF Flow
  <2>8. \A p \in taken' : p.kind = "data" /\ p.number = tag
      BY <1>3, <1>7, <2>1, DataIs DEF Served
  <2>9. ~OwnStatus(tag, hostIN) /\ ~OwnStatus(tag, deviceIN)
      BY <2>1, EmptyIs
  <2>10. Served'
      BY <1>1, <1>3, <1>4, <1>7, <2>7, <2>8, <2>9 DEF Served, Answered
  <2> QED
      BY <1>1, <1>2, <2>4, <2>10, DeviceMoves DEF CallOK
<1> QED
    BY <1>5, <1>6, <1>7 DEF Storage!Transfer

\* The application's handler returns: a command that failed with data left has stalled a pipe.
LEMMA AnswerEnd ==
    ASSUME CallOK, Placed, Storage!EndCommand
    PROVE  CallOK' /\ Placed'
<1>1. /\ UNCHANGED here /\ UNCHANGED <<request, block, left, taken, deviceOUT, deviceIN>>
      /\ task = "command" /\ task' = "status"
    BY DEF Storage!EndCommand, Storage!away, here
<1>2. ~Quiet /\ ~Posted /\ ~Lost
    BY <1>1 DEF Quiet, Posted, Lost
<1>3. Served /\ ~Answered
    BY <1>1, <1>2 DEF Placed, Served
<1>4. Pending' = Pending /\ UNCHANGED <<command, tag, hostIN, hostOUT>>
    BY <1>1 DEF Pending, here
<1>5. block.command = command /\ command.direction \in {"IN", "OUT"}
    BY <1>3, StorageAssumption DEF Served, CallOK, StorageAssumption
<1>6. PICK passed \in BOOLEAN :
         /\ passed => left = 0
         /\ halted' = IF ~passed /\ left > 0 THEN halted \cup {block.command.direction} ELSE halted
    BY DEF Storage!EndCommand
<1>7. halted' \subseteq {"IN", "OUT"} /\ (halted' = {} => left = 0)
  <2>1. CASE left = 0
      BY <1>6, <2>1 DEF CallOK
  <2>2. CASE left # 0
    <3>1. left > 0 /\ ~passed
        BY <1>6, <2>2 DEF CallOK
    <3> QED
        BY <1>5, <1>6, <3>1 DEF CallOK
  <2> QED
      BY <2>1, <2>2
<1>8. Flow' /\ ~Answered' /\ ~OwnStatus(tag, hostIN)'
  <2>1. Flow
      BY <1>3 DEF Served
  <2> QED
      BY <1>1, <1>3, <1>4, <2>1 DEF Flow, Answered
<1>9. Served'
    BY <1>1, <1>3, <1>4, <1>7, <1>8 DEF Served
<1> QED
    BY <1>1, <1>2, <1>7, <1>9, DeviceMoves DEF CallOK

\* MS_Device_ReturnCommandStatus.
LEMMA AnswerStatus ==
    ASSUME CallOK, Placed, Storage!ReturnStatus
    PROVE  CallOK' /\ Placed'
<1>1. /\ UNCHANGED here /\ UNCHANGED <<request, block, left, taken>> /\ task = "status"
    BY DEF Storage!ReturnStatus, Storage!away, here
<1>2. ~Quiet /\ ~Posted /\ ~Lost
    BY <1>1 DEF Quiet, Posted, Lost
<1>3. Served /\ ~Answered
    BY <1>1, <1>2 DEF Placed, Served
<1>4. Pending' = Pending /\ UNCHANGED <<command, tag, hostIN, hostOUT>>
    BY <1>1 DEF Pending, here
<1>5. left' \in Nat
    BY <1>1 DEF CallOK
<1>6. CASE \E stalled \in SUBSET {"IN", "OUT"} : Storage!Ends(deviceOUT, deviceIN, stalled)
  <2>1. PICK stalled \in SUBSET {"IN", "OUT"} : Storage!Ends(deviceOUT, deviceIN, stalled)
      BY <1>6
  <2>2. /\ task' = "idle" /\ deviceOUT' \in {deviceOUT, <<>>} /\ deviceIN' \in {deviceIN, <<>>}
        /\ halted' \subseteq {"IN", "OUT"}
      BY <2>1, EndsIs
  <2>3. Lost'
      BY <1>3, <1>4, <2>2, ServedLost
  <2> QED
      BY <1>1, <1>2, <1>5, <2>2, <2>3, DeviceMoves
<1>7. CASE halted = {} /\ deviceIN = <<>> /\ Storage!Ends(deviceOUT, <<Storage!CommandStatus>>, {})
  <2>1. /\ task' = "idle" /\ deviceOUT' \in {deviceOUT, <<>>}
        /\ deviceIN' \in {<<Storage!CommandStatus>>, <<>>} /\ halted' \subseteq {"IN", "OUT"}
      BY <1>7, EndsIs
  <2>2. left = 0
      BY <1>1, <1>3, <1>7 DEF Served
  <2>3. CASE deviceIN' = <<>>
    <3>1. Lost'
        BY <1>3, <1>4, <2>1, <2>3, ServedLost
    <3> QED
        BY <1>1, <1>2, <1>5, <2>1, <3>1, DeviceMoves
  <2>4. CASE deviceIN' = <<Storage!CommandStatus>> /\ deviceOUT' = deviceOUT
    <3>1. OwnStatus(tag, deviceIN')
      <4>1. /\ Storage!CommandStatus.kind = "status" /\ Storage!CommandStatus.number = tag
            /\ Storage!CommandStatus.size = StatusSize
          BY <1>3 DEF Storage!CommandStatus, Served
      <4> QED
          BY <2>4, <4>1 DEF OwnStatus
    <3>2. Bytes(deviceIN') = 0
        BY <3>1, StatusIs
    <3>3. Empty(deviceIN) /\ Bytes(deviceIN) = 0
        BY <1>7, EmptyIs DEF Empty
    <3>4. Flow /\ ~OwnStatus(tag, hostIN)
        BY <1>3 DEF Served, Answered
    <3>5. Flow'
      <4>1. CASE command.direction = "OUT"
        <5>1. Empty(hostIN)
            BY <3>4, <4>1 DEF Flow
        <5> QED
            BY <1>1, <1>4, <2>4, <3>1, <3>4, <4>1, <5>1 DEF Flow
      <4>2. CASE command.direction # "OUT"
          BY <1>1, <1>4, <2>4, <3>1, <3>2, <3>3, <3>4, <4>2 DEF Flow
      <4> QED
          BY <4>1, <4>2
    <3>6. Answered' /\ ~OwnStatus(tag, hostIN)'
        BY <1>4, <3>1, <3>4 DEF Answered
    <3>7. Served'
        BY <1>1, <1>3, <1>4, <2>1, <2>2, <3>5, <3>6 DEF Served
    <3> QED
        BY <1>1, <1>2, <1>5, <2>1, <3>7, DeviceMoves
  <2>5. deviceIN' = <<>> \/ (deviceIN' = <<Storage!CommandStatus>> /\ deviceOUT' = deviceOUT)
      BY <1>7 DEF Storage!Ends
  <2> QED
      BY <2>3, <2>4, <2>5
<1> QED
    BY <1>6, <1>7 DEF Storage!ReturnStatus, CallOK

\* A reset that finds the task idle.
LEMMA AnswerReset ==
    ASSUME CallOK, Placed, Storage!Reset
    PROVE  CallOK' /\ Placed'
<1>1. /\ UNCHANGED here /\ UNCHANGED <<request, block, left, taken>> /\ task = "idle"
      /\ \A k \in DOMAIN deviceOUT : deviceOUT[k].size = 0
      /\ Storage!Ends(deviceOUT, deviceIN, halted) /\ IsMassStoreReset
    BY DEF Storage!Reset, Storage!away, here
<1>2. /\ Pending' = Pending /\ UNCHANGED <<command, tag, hostIN, hostOUT>>
      /\ task' = "idle" /\ deviceOUT' = <<>> /\ deviceIN' = <<>> /\ halted' = {} /\ left' \in Nat
    BY <1>1 DEF Pending, here, Storage!Ends, CallOK
<1>3. Quiet => Quiet'
    BY <1>1, <1>2, QuietKept
<1>4. Posted => Posted'
  <2>1. SUFFICES ASSUME Posted PROVE Posted'
      OBVIOUS
  <2>2. ~OwnBlock(tag, command, deviceOUT)
    <3>1. SUFFICES ASSUME OwnBlock(tag, command, deviceOUT) PROVE FALSE
        OBVIOUS
    <3>2. deviceOUT[1].size = BlockSize /\ 1 \in DOMAIN deviceOUT
        BY <3>1 DEF OwnBlock
    <3> QED
        BY <1>1, <3>2, StorageAssumption DEF StorageAssumption
  <2>3. /\ OwnBlock(tag, command, hostOUT) /\ Empty(deviceOUT) /\ Empty(hostIN) /\ Empty(deviceIN)
        /\ command.length = Pending + Bytes(hostOUT)
      BY <2>1, <2>2 DEF Posted
  <2> QED
      BY <1>2, <2>3 DEF Posted, Empty
<1>5. Served => Served' \/ Lost'
  <2>1. SUFFICES ASSUME Served PROVE Served' \/ Lost'
      OBVIOUS
  <2>2. Answered
      BY <1>1, <2>1 DEF Served
  <2>3. /\ Empty(hostOUT) /\ Empty(deviceOUT) /\ left = 0
        /\ command.direction = "OUT" => Pending = 0
        /\ command.direction = "IN" => Pending = Bytes(hostIN) + Bytes(deviceIN)
      BY <2>1, <2>2, AnsweredIs
  <2>4. Empty(deviceIN') /\ Bytes(deviceIN') = 0 /\ Empty(deviceOUT') /\ Empty(hostOUT')
      BY <1>2, <2>3, EmptyIs DEF Empty
  <2>5. CASE OwnStatus(tag, hostIN)
    <3>1. Empty(deviceIN) /\ Flow
        BY <2>1, <2>5 DEF Served
    <3>2. UNCHANGED <<deviceIN, deviceOUT>>
        BY <1>2, <2>3, <3>1 DEF Empty
    <3>3. Flow'
        BY <1>1, <1>2, <3>1, <3>2 DEF Flow
    <3>4. Served'
        BY <1>1, <1>2, <2>1, <2>2, <2>5, <3>1, <3>2, <3>3 DEF Served, Answered
    <3> QED
        BY <3>4
  <2>6. CASE ~OwnStatus(tag, hostIN)
    <3>1. /\ Empty(hostIN) \/ OwnData(tag, hostIN)
          /\ command.direction = "OUT" => Empty(hostIN)
          /\ OwnStatus(tag, deviceIN)
          /\ command.direction \in {"IN", "OUT"}
        BY <2>1, <2>2, <2>6, DataIs DEF Served, Flow, Answered, Empty
    <3>2. Bytes(deviceIN) = 0 /\ Bytes(hostIN) \in Nat
        BY <3>1, StatusIs, BytesIs
    <3>3. Bytes(hostIN) + Bytes(deviceIN') <= Pending
      <4>1. CASE command.direction = "IN"
          BY <2>3, <2>4, <3>2, <4>1
      <4>2. CASE command.direction = "OUT"
          BY <2>3, <2>4, <3>1, <4>2, EmptyIs
      <4> QED
          BY <3>1, <4>1, <4>2
    <3>4. Stray(hostOUT') /\ Stray(deviceOUT')
        BY <2>4, EmptyIs
    <3>5. Lost'
        BY <1>2, <2>4, <3>1, <3>3, <3>4 DEF Lost
    <3> QED
        BY <3>5
  <2> QED
      BY <2>5, <2>6
<1>6. Lost => Lost'
  <2>1. SUFFICES ASSUME Lost PROVE Lost'
      OBVIOUS
  <2>2. Stray(hostOUT)' /\ Stray(deviceOUT)'
      BY <1>2, <2>1 DEF Lost, Stray
  <2> QED
      BY <1>2, <2>1, <2>2, LostKept
<1> QED
    BY <1>1, <1>2, <1>3, <1>4, <1>5, <1>6, DeviceMoves

\* The device handles a reset or GET MAX LUN.
LEMMA AnswerRequest ==
    ASSUME CallOK, Placed, Storage!HandleRequest
    PROVE  CallOK' /\ Placed'
<1>1. /\ UNCHANGED here /\ UNCHANGED <<block, left, taken, task>> /\ request # <<>> /\ request' = <<>>
    BY DEF Storage!HandleRequest, Storage!away, here
<1>2. Head(request) \in {"reset", "maxlun"}
    BY <1>1 DEF CallOK
<1>3. UNCHANGED <<halted, deviceOUT, deviceIN>>
    BY <1>2 DEF Storage!HandleRequest, CallOK
<1>4. Pending' = Pending
    BY <1>1 DEF Pending, here
<1>5. Quiet => Quiet'
    BY <1>1, <1>3 DEF Quiet, here
<1>6. Lost => Lost'
    BY <1>1, <1>3, <1>4 DEF Lost, here
<1>7. Posted \/ Served => (Posted \/ Served \/ Lost)'
    BY <1>1, <1>3, <1>4, PhaseKept DEF here
<1> QED
    BY <1>1, <1>3, <1>5, <1>6, <1>7, DeviceMoves DEF CallOK

-----------------------------------------------------------------------------
\* The device's side, in a step of the host that moves no packet.
there == <<hostOUT, deviceOUT, hostIN, deviceIN, task, block, left, taken, halted>>

\* The phase goes on as it was.
LEMMA HostMoves ==
    ASSUME Placed, UNCHANGED there, UNCHANGED <<command, tag>>, Pending' = Pending,
           ~Resting, call # "block", ~Resting', call' # "block"
    PROVE  Placed'
    BY PhaseKept DEF Placed, there

\* A new command.
LEMMA AskCommand ==
    ASSUME CallOK, Placed, NEW c \in Commands, Storage!StartCommand(c)
    PROVE  CallOK' /\ Placed'
<1>1. /\ call = "idle" /\ call' = "block" /\ command' = c /\ stage' = "data" /\ need' = c.length
      /\ origin' = [data |-> {}, status |-> {}] /\ thawed' = thawed \cup {"OUT"}
      /\ UNCHANGED <<hostOUT, hostIN, request, task, left, deviceOUT, deviceIN, halted>>
    BY DEF Storage!StartCommand, Storage!None, Storage!deviceVars
<1>2. c.length \in Nat
    BY StorageAssumption DEF StorageAssumption
<1>3. "IN" \notin thawed
    BY <1>1 DEF CallOK, Reading
<1>4. CallOK'
  <2>1. Storage!Own(origin.status, "status")' /\ Storage!Own(origin.data, "data")'
      BY <1>1 DEF Storage!Own
  <2> QED
      BY <1>1, <1>2, <1>3, <2>1 DEF CallOK, Reading, Resting
<1>5. Quiet'
    BY <1>1 DEF Placed, Resting, Quiet
<1> QED
    BY <1>1, <1>4, <1>5 DEF Placed, Resting

\* A class request, which is no command.
LEMMA AskClass ==
    ASSUME CallOK, Placed, NEW name \in {"reset", "maxlun"}, Storage!ClassRequest(name)
    PROVE  CallOK' /\ Placed'
<1>1. /\ call = "idle" /\ call' = "control" /\ stage' = "class" /\ request' = <<name>>
      /\ UNCHANGED <<need, command, origin, thawed, hostOUT, hostIN, task, left, deviceOUT, deviceIN,
                     halted>>
    BY DEF Storage!ClassRequest, Storage!deviceVars
<1>2. "IN" \notin thawed
    BY <1>1 DEF CallOK, Reading
<1>3. CallOK'
    BY <1>1, <1>2 DEF CallOK, Reading, Resting
<1>4. Quiet'
    BY <1>1 DEF Placed, Resting, Quiet
<1> QED
    BY <1>1, <1>3, <1>4 DEF Placed, Resting

\* The command block is put into its bank.
LEMMA PostBlock ==
    ASSUME CallOK, Placed, Storage!SendBlock
    PROVE  CallOK' /\ Placed'
<1>1. /\ call = "block" /\ call' = "sent" /\ hostOUT' = <<Storage!Block>>
      /\ UNCHANGED <<stage, need, command, tag, origin, hostIN, thawed, request, task, left, deviceOUT,
                     deviceIN, halted>>
    BY DEF Storage!SendBlock, Storage!elsewhere, Storage!deviceVars
<1>2. Quiet
    BY <1>1 DEF Placed
<1>3. CallOK'
    BY <1>1 DEF CallOK, Reading, Resting, Storage!Own
<1>4. OwnBlock(tag, command, hostOUT')
    BY <1>1 DEF OwnBlock, Storage!Block
<1>5. Pending' = command.length /\ command.length \in Nat
    BY <1>1, StorageAssumption DEF CallOK, Pending, StorageAssumption
<1>6. command.length = Pending' + Bytes(hostOUT')
    BY <1>4, <1>5, BlockIs
<1>7. Posted'
    BY <1>1, <1>2, <1>4, <1>6 DEF Posted, Quiet
<1> QED
    BY <1>1, <1>3, <1>7 DEF Placed, Resting

\* Steps that move on without a packet.
LEMMA HostTurns ==
    ASSUME CallOK, Placed,
           \/ Storage!BlockSent \/ Storage!Receive \/ Storage!TryOUT \/ Storage!TryIN
           \/ Storage!Written,
           ~failed', ~Clearing'
    PROVE  CallOK' /\ Placed'
<1>1. UNCHANGED <<command, tag, origin>> /\ UNCHANGED there
    BY DEF Storage!BlockSent, Storage!Receive, Storage!TryOUT, Storage!TryIN, Storage!Written,
           Storage!elsewhere, Storage!deviceVars, there
<1>2. left' \in Nat /\ halted' \subseteq {"IN", "OUT"} /\ command' \in Commands
    BY <1>1 DEF CallOK, there
<1>3. StatusSize \in Nat /\ command.length \in Nat /\ command.direction \in {"IN", "OUT"}
    BY StorageAssumption DEF CallOK, StorageAssumption
<1>4. ASSUME ~Resting PROVE Storage!Own(origin.status, "status")' /\ Storage!Own(origin.data, "data")'
    BY <1>1, <1>4 DEF CallOK, Storage!Own
<1>5. CASE Storage!BlockSent
  <2>1. CASE command.length > 0 /\ command.direction = "OUT"
    <3>1. /\ call = "sent" /\ call' = "write" /\ thawed' = thawed \cup {"OUT"}
          /\ UNCHANGED <<stage, need, request>>
        BY <1>5, <2>1 DEF Storage!BlockSent
    <3>2. CallOK'
        BY <1>1, <1>2, <1>4, <2>1, <3>1 DEF CallOK, Reading, Resting
    <3>3. Pending' = Pending
        BY <3>1 DEF Pending
    <3> QED
        BY <1>1, <3>1, <3>2, <3>3, HostMoves DEF Resting
  <2>2. CASE ~(command.length > 0 /\ command.direction = "OUT")
    <3>1. /\ call = "sent" /\ call' = "receive" /\ thawed' = (thawed \ {"OUT"}) \cup {"IN"}
          /\ stage' = (IF command.length > 0 THEN "data" ELSE "status")
          /\ need' = (IF command.length > 0 THEN need ELSE StatusSize)
          /\ UNCHANGED request
        BY <1>5, <2>2 DEF Storage!BlockSent
    <3>2. stage = "data" /\ need = command.length
        BY <3>1 DEF CallOK
    <3>3. CASE command.length > 0
      <4>1. CallOK'
          BY <1>1, <1>2, <1>3, <1>4, <2>2, <3>1, <3>2, <3>3 DEF CallOK, Reading, Resting
      <4>2. Pending' = Pending
          BY <3>1, <3>2, <3>3 DEF Pending
      <4> QED
          BY <1>1, <3>1, <4>1, <4>2, HostMoves DEF Resting
    <3>4. CASE ~(command.length > 0)
      <4>1. CallOK'
          BY <1>1, <1>2, <1>3, <1>4, <3>1, <3>2, <3>4 DEF CallOK, Reading, Resting
      <4>2. Pending' = Pending
          BY <1>3, <3>1, <3>2, <3>4 DEF Pending
      <4> QED
          BY <1>1, <3>1, <4>1, <4>2, HostMoves DEF Resting
    <3> QED
        BY <3>3, <3>4
  <2> QED
      BY <2>1, <2>2
<1>6. CASE Storage!Receive \/ Storage!TryOUT \/ Storage!TryIN
  <2>1. call \in {"receive", "tryOUT", "tryIN"} /\ UNCHANGED <<stage, need>> /\ stage \in {"data", "status"}
      BY <1>6 DEF Storage!Receive, Storage!TryOUT, Storage!TryIN, CallOK, Resting
  <2>2. /\ call' \in {"read", "tryOUT", "tryIN", "receive"} /\ UNCHANGED request
        /\ thawed' \in {{"IN"}, {"OUT"}, thawed}
    <3>1. CASE Storage!Receive
        BY <3>1 DEF Storage!Receive
    <3>2. CASE Storage!TryOUT
      <4>1. ~Storage!Clears("OUT")
          BY <2>1 DEF Storage!Clears, Clearing
      <4> QED
          BY <3>2, <4>1 DEF Storage!TryOUT
    <3>3. CASE Storage!TryIN
      <4>1. ~Storage!Clears("IN")
          BY <2>1 DEF Storage!Clears, Clearing
      <4>2. ~Storage!Returns(Storage!Selected("IN"))
          BY <2>1 DEF Storage!Returns
      <4> QED
          BY <3>3, <4>1, <4>2 DEF Storage!TryIN
    <3> QED
        BY <1>6, <3>1, <3>2, <3>3
  <2>3. CallOK'
      BY <1>1, <1>2, <1>4, <2>1, <2>2 DEF CallOK, Reading, Resting
  <2>4. Pending' = Pending
      BY <2>1 DEF Pending
  <2> QED
      BY <1>1, <2>1, <2>2, <2>3, <2>4, HostMoves DEF Resting
<1>7. CASE Storage!Written
  <2>1. call = "written" /\ stage = "data" /\ need = 0
      BY <1>7 DEF Storage!Written, CallOK
  <2>2. /\ call' = "receive" /\ stage' = "status" /\ need' = StatusSize /\ thawed' = {"IN"}
        /\ UNCHANGED request
    <3>1. ~Storage!Returns({"OUT"})
        BY <2>1 DEF Storage!Returns
    <3> QED
        BY <1>7, <3>1 DEF Storage!Written, Storage!AwaitStatus
  <2>3. CallOK'
      BY <1>1, <1>2, <1>3, <1>4, <2>1, <2>2 DEF CallOK, Reading, Resting
  <2>4. Pending' = Pending
      BY <2>1, <2>2 DEF Pending
  <2> QED
      BY <1>1, <2>1, <2>2, <2>3, <2>4, HostMoves DEF Resting
<1> QED
    BY <1>5, <1>6, <1>7

\* The host writes its data.
LEMMA HostWrites ==
    ASSUME CallOK, Placed, Storage!Write
    PROVE  CallOK' /\ Placed'
<1> DEFINE size == Storage!Least(need, BlockSize)
<1>1. /\ call = "write" /\ hostOUT = <<>> /\ hostOUT' = <<Storage!Data(tag, size)>> /\ need' = need - size
      /\ call' = (IF need = size THEN "written" ELSE "write")
      /\ UNCHANGED <<stage, command, tag, origin, hostIN, thawed, request, task, block, left, taken,
                     deviceOUT, deviceIN, halted>>
    BY DEF Storage!Write, Storage!elsewhere, Storage!deviceVars
<1>2. stage = "data" /\ need \in Nat /\ need > 0 /\ command.direction = "OUT" /\ "IN" \notin thawed
    BY <1>1 DEF CallOK, Reading
<1>3. BlockSize \in Nat /\ BlockSize > 0
    BY StorageAssumption DEF StorageAssumption
<1>4. size \in Nat /\ size > 0 /\ size <= need
    BY <1>2, <1>3 DEF Storage!Least
<1> HIDE DEF size
<1>5. need' \in Nat /\ (need' = 0 <=> need = size)
    BY <1>1, <1>2, <1>4
<1>6. CallOK'
    BY <1>1, <1>2, <1>5 DEF CallOK, Reading, Resting, Storage!Own
<1>7. OwnData(tag, hostOUT') /\ hostOUT'[1].size = size
    BY <1>1, <1>4 DEF OwnData, Storage!Data
<1>8. Bytes(hostOUT') = size /\ Stray(hostOUT') /\ Bytes(hostOUT) = 0
    BY <1>1, <1>7, DataIs, EmptyIs DEF Empty
<1>9. Pending = need /\ Pending' = need - size
    BY <1>1, <1>2 DEF Pending
<1>10. Posted \/ Served \/ Lost
    BY <1>1 DEF Placed, Resting
<1>11. Posted => Posted'
  <2>1. SUFFICES ASSUME Posted PROVE Posted'
      OBVIOUS
  <2>2. ~OwnBlock(tag, command, hostOUT)
      BY <1>1, EmptyIs DEF Empty
  <2>3. command.length = Pending' + Bytes(hostOUT')
      BY <1>2, <1>4, <1>8, <1>9, <2>1 DEF Posted
  <2> QED
      BY <1>1, <1>2, <1>7, <2>1, <2>2, <2>3 DEF Posted
<1>12. Served => Served'
  <2>1. SUFFICES ASSUME Served PROVE Served'
      OBVIOUS
  <2>2. /\ left = Pending + Bytes(hostOUT) + Bytes(deviceOUT)
        /\ Empty(deviceOUT) \/ OwnData(tag, deviceOUT)
      BY <1>2, <2>1 DEF Served, Flow
  <2>3. Bytes(deviceOUT) \in Nat
      BY <2>2, BytesIs
  <2>4. left = Pending' + Bytes(hostOUT') + Bytes(deviceOUT)
      BY <1>2, <1>4, <1>8, <1>9, <2>2, <2>3
  <2>5. Flow'
      BY <1>1, <1>2, <1>7, <2>1, <2>4 DEF Served, Flow
  <2> QED
      BY <1>1, <2>1, <2>5 DEF Served, Answered
<1>13. Lost => Lost'
  <2>1. SUFFICES ASSUME Lost PROVE Lost'
      OBVIOUS
  <2>2. Empty(hostIN) /\ Empty(deviceIN)
      BY <1>2, <2>1 DEF Lost
  <2>3. Bytes(hostIN) + Bytes(deviceIN) <= Pending'
      BY <1>2, <1>4, <1>9, <2>2, EmptyIs
  <2> QED
      BY <1>1, <1>8, <2>1, <2>2, <2>3 DEF Lost
<1> QED
    BY <1>1, <1>6, <1>10, <1>11, <1>12, <1>13 DEF Placed, Resting

\* What the host reads in a call is its own: data while it waits for data, then the status.
LEMMA HostFinds ==
    ASSUME CallOK, Placed, call = "read", hostIN # <<>>
    PROVE  /\ stage \in {"data", "status"} /\ (Served \/ Lost) /\ ~Resting
           /\ stage = "data" => OwnData(tag, hostIN) /\ Bytes(hostIN) <= need /\ command.direction = "IN"
           /\ stage = "status" =>
                OwnStatus(tag, hostIN) /\ Served /\ need = StatusSize
<1>1. stage \in {"data", "status"} /\ ~Resting
    BY DEF CallOK, Resting
<1>2. Served \/ Lost
    BY <1>1 DEF Placed, Posted, Empty
<1>3. stage = "data" => need > 0 /\ command.direction = "IN"
    BY DEF CallOK, Reading
<1>4. stage = "status" => need = StatusSize /\ Pending = 0
    BY DEF CallOK, Reading, Pending
<1>5. stage = "data" => Pending = need
    BY DEF Pending
<1>6. ~Empty(hostIN) /\ need \in Nat /\ left \in Nat
    BY DEF Empty, CallOK
<1>7. CASE Lost
  <2>1. /\ OwnData(tag, hostIN) /\ Bytes(hostIN) + Bytes(deviceIN) <= Pending
        /\ Empty(deviceIN) \/ OwnData(tag, deviceIN)
      BY <1>6, <1>7 DEF Lost
  <2>2. Bytes(hostIN) \in Nat /\ Bytes(hostIN) > 0 /\ Bytes(deviceIN) \in Nat
      BY <2>1, DataIs, BytesIs
  <2>3. stage # "status"
      BY <1>4, <2>1, <2>2
  <2> QED
      BY <1>1, <1>2, <1>3, <1>5, <1>6, <2>1, <2>2, <2>3
<1>8. CASE Served /\ stage = "data"
  <2>1. /\ Pending = left + Bytes(hostIN) + Bytes(deviceIN)
        /\ OwnData(tag, hostIN) \/ OwnStatus(tag, hostIN)
        /\ Empty(deviceIN) \/ OwnData(tag, deviceIN) \/ OwnStatus(tag, deviceIN)
      BY <1>3, <1>6, <1>8 DEF Served, Flow
  <2>2. Bytes(hostIN) \in Nat /\ Bytes(deviceIN) \in Nat
      BY <2>1, BytesIs
  <2>3. ~OwnStatus(tag, hostIN)
    <3>1. SUFFICES ASSUME OwnStatus(tag, hostIN) PROVE FALSE
        OBVIOUS
    <3>2. Empty(deviceIN) /\ left = 0
        BY <1>8, <3>1 DEF Served, Answered
    <3>3. Bytes(hostIN) = 0 /\ Bytes(deviceIN) = 0
        BY <3>1, <3>2, StatusIs, EmptyIs
    <3> QED
        BY <1>3, <1>5, <1>8, <2>1, <3>2, <3>3
  <2> QED
      BY <1>1, <1>2, <1>3, <1>5, <1>6, <1>8, <2>1, <2>2, <2>3
<1>9. CASE Served /\ stage = "status"
  <2>1. OwnStatus(tag, hostIN)
    <3>1. CASE command.direction = "OUT"
        BY <1>6, <1>9, <3>1 DEF Served, Flow
    <3>2. CASE command.direction # "OUT"
      <4>1. /\ Pending = left + Bytes(hostIN) + Bytes(deviceIN)
            /\ OwnData(tag, hostIN) \/ OwnStatus(tag, hostIN)
            /\ Empty(deviceIN) \/ OwnData(tag, deviceIN) \/ OwnStatus(tag, deviceIN)
          BY <1>6, <1>9, <3>2 DEF Served, Flow
      <4>2. Bytes(hostIN) \in Nat /\ Bytes(deviceIN) \in Nat
          BY <4>1, BytesIs
      <4>3. Bytes(hostIN) = 0
          BY <1>4, <1>6, <1>9, <4>1, <4>2
      <4> QED
          BY <4>1, <4>3, DataIs
    <3> QED
        BY <3>1, <3>2
  <2> QED
      BY <1>1, <1>4, <1>9, <2>1
<1> QED
    BY <1>1, <1>2, <1>7, <1>8, <1>9

\* The host reads a packet: of data, or the status.
LEMMA HostReads ==
    ASSUME CallOK, Placed, Storage!Read
    PROVE  CallOK' /\ Placed'
<1>1. /\ call = "read" /\ hostIN # <<>> /\ origin' = [origin EXCEPT ![stage] = @ \cup {Head(hostIN)}]
      /\ hostIN' = <<>>
      /\ UNCHANGED <<command, tag, hostOUT, request, task, block, left, taken, deviceOUT, deviceIN,
                     halted>>
    BY DEF Storage!Read, Storage!elsewhere, Storage!deviceVars, Storage!Emptied
<1>2. /\ stage \in {"data", "status"} /\ (Served \/ Lost) /\ ~Resting
      /\ stage = "data" => OwnData(tag, hostIN) /\ Bytes(hostIN) <= need /\ command.direction = "IN"
      /\ stage = "status" => OwnStatus(tag, hostIN) /\ Served /\ need = StatusSize
    BY <1>1, HostFinds
<1>3. need \in Nat /\ left \in Nat /\ StatusSize \in Nat
    BY StorageAssumption DEF CallOK, StorageAssumption
<1>4. Empty(hostIN') /\ Bytes(hostIN') = 0
    BY <1>1, EmptyIs DEF Empty
<1>5. CASE stage = "data"
  <2>1. /\ Head(hostIN).size = Bytes(hostIN) /\ Head(hostIN).kind = "data" /\ Head(hostIN).number = tag
        /\ Bytes(hostIN) \in Nat /\ Bytes(hostIN) <= need
      BY <1>2, <1>5, DataIs
  <2>2. need - Storage!Least(need, Head(hostIN).size) = need - Bytes(hostIN)
      BY <1>3, <2>1 DEF Storage!Least
  <2>3. /\ Storage!Own(origin.status, "status")' /\ Storage!Own(origin.data, "data")'
        /\ origin' = [data |-> origin'.data, status |-> origin'.status]
    <3>1. \A p \in origin.status : p.kind = "status" /\ p.number = tag
        BY <1>2 DEF CallOK, Storage!Own
    <3>2. \A p \in origin.data : p.kind = "data" /\ p.number = tag
        BY <1>2 DEF CallOK, Storage!Own
    <3>3. origin' = [origin EXCEPT !["data"] = origin["data"] \cup {Head(hostIN)}]
        BY <1>1, <1>5
    <3>4. PICK d, s : d = origin.data /\ s = origin.status /\ origin = [data |-> d, status |-> s]
        BY DEF CallOK
    <3>5. origin' = [data |-> d \cup {Head(hostIN)}, status |-> s]
      <4>1. origin["data"] = d
          BY <3>4
      <4> QED
          BY <3>3, <3>4, <4>1
    <3>6. origin'.status = origin.status /\ origin'.data = origin.data \cup {Head(hostIN)}
        BY <3>4, <3>5
    <3> QED
        BY <1>1, <2>1, <3>1, <3>2, <3>5, <3>6 DEF Storage!Own
  <2>4. /\ need - Bytes(hostIN) \in Nat
        /\ \/ /\ need - Bytes(hostIN) > 0 /\ need' = need - Bytes(hostIN)
              /\ UNCHANGED <<call, stage, thawed>>
           \/ /\ need = Bytes(hostIN) /\ stage' = "status" /\ need' = StatusSize /\ call' = "receive"
              /\ thawed' = {"IN"}
      BY <1>3, <1>5, <2>1, <2>2 DEF Storage!Read, Storage!AwaitStatus
  <2>5. CallOK'
      BY <1>1, <1>2, <1>3, <1>5, <2>3, <2>4 DEF CallOK, Reading, Resting
  <2>6. Pending = need /\ Pending' = need - Bytes(hostIN) /\ ~Resting' /\ call' # "block"
      BY <1>1, <1>3, <1>5, <2>1, <2>4 DEF Pending, Resting
  <2>7. ~OwnStatus(tag, hostIN) /\ ~OwnStatus(tag, hostIN')
      BY <1>2, <1>4, <1>5, DataIs, EmptyIs
  <2>8. Served => Served'
    <3>1. SUFFICES ASSUME Served PROVE Served'
        OBVIOUS
    <3>2. /\ Pending = left + Bytes(hostIN) + Bytes(deviceIN)
          /\ Empty(hostOUT) /\ Empty(deviceOUT)
          /\ Empty(deviceIN) \/ OwnData(tag, deviceIN) \/ OwnStatus(tag, deviceIN)
        BY <1>2, <1>5, <3>1 DEF Served, Flow
    <3>3. Bytes(deviceIN) \in Nat
        BY <3>2, BytesIs
    <3>4. Pending' = left + 0 + Bytes(deviceIN)
        BY <1>3, <2>1, <2>6, <3>2, <3>3
    <3>5. Flow'
        BY <1>1, <1>2, <1>4, <1>5, <3>2, <3>4 DEF Flow
    <3> QED
        BY <1>1, <2>7, <3>1, <3>5 DEF Served, Answered
  <2>9. Lost => Lost'
    <3>1. SUFFICES ASSUME Lost PROVE Lost'
        OBVIOUS
    <3>2. /\ Empty(deviceIN) \/ OwnData(tag, deviceIN)
          /\ Bytes(hostIN) + Bytes(deviceIN) <= Pending
        BY <3>1 DEF Lost
    <3>3. Bytes(deviceIN) \in Nat
        BY <3>2, BytesIs
    <3>4. 0 + Bytes(deviceIN) <= Pending'
        BY <1>3, <2>1, <2>6, <3>2, <3>3
    <3> QED
        BY <1>1, <1>2, <1>4, <1>5, <3>1, <3>4 DEF Lost
  <2> QED
      BY <1>2, <2>5, <2>6, <2>8, <2>9 DEF Placed
<1>6. CASE stage = "status"
  <2>1. Head(hostIN).size = StatusSize /\ need = StatusSize
      BY <1>2, <1>6, StatusIs
  <2>2. need - Storage!Least(need, Head(hostIN).size) = 0
      BY <1>3, <2>1 DEF Storage!Least
  <2>3. call' = "idle" /\ need' = 0 /\ thawed' = thawed \ {"IN"} /\ UNCHANGED stage
      BY <1>6, <2>2 DEF Storage!Read
  <2>4. CallOK'
    <3>1. PICK d, s : d = origin.data /\ s = origin.status /\ origin = [data |-> d, status |-> s]
        BY DEF CallOK
    <3>2. origin' = [data |-> d, status |-> s \cup {Head(hostIN)}]
      <4>1. origin' = [origin EXCEPT !["status"] = origin["status"] \cup {Head(hostIN)}]
          BY <1>1, <1>6
      <4>2. origin["status"] = s
          BY <3>1
      <4> QED
          BY <3>1, <4>1, <4>2
    <3>3. origin' = [data |-> origin'.data, status |-> origin'.status]
        BY <3>2
    <3> QED
        BY <1>1, <2>3, <3>3 DEF CallOK, Reading, Resting
  <2>5. Empty(deviceIN) /\ Answered /\ Served
      BY <1>2, <1>6 DEF Served, Answered
  <2>6. Quiet'
      BY <1>1, <1>4, <2>5, AnsweredIs DEF Quiet
  <2> QED
      BY <2>3, <2>4, <2>6 DEF Placed, Resting
<1> QED
    BY <1>2, <1>5, <1>6

\* The bus.
LEMMA BusMoves ==
    ASSUME CallOK, Placed, Storage!BusOUT \/ Storage!BusIN
    PROVE  CallOK' /\ Placed'
<1>1. /\ UNCHANGED <<call, stage, need, command, tag, origin, request, task, block, left, taken, halted>>
      /\ thawed' \subseteq thawed
    BY DEF Storage!BusOUT, Storage!BusIN, Storage!Sees, Storage!deviceVars
<1>2. CallOK'
    BY <1>1, CallKept DEF CallOK
<1>3. Pending' = Pending /\ (Resting' <=> Resting) /\ left \in Nat /\ Pending \in Nat
    BY <1>1 DEF Pending, Resting, CallOK
<1>4. CASE UNCHANGED <<hostOUT, deviceOUT, hostIN, deviceIN>>
  <2>1. Quiet => Quiet'
      BY <1>1, <1>4 DEF Quiet
  <2>2. Posted \/ Served \/ Lost => (Posted \/ Served \/ Lost)'
      BY <1>1, <1>3, <1>4, PhaseKept
  <2> QED
      BY <1>1, <1>2, <1>3, <2>1, <2>2 DEF Placed
<1>5. CASE /\ hostOUT # <<>> /\ deviceOUT = <<>> /\ deviceOUT' = hostOUT /\ hostOUT' = <<>>
           /\ UNCHANGED <<hostIN, deviceIN>>
  <2>1. ~Resting /\ call # "block" /\ ~Empty(hostOUT) /\ Empty(deviceOUT) /\ Empty(hostOUT')
      BY <1>5 DEF Placed, Quiet, Empty
  <2>2. Bytes(deviceOUT) = 0 /\ Bytes(hostOUT') = 0 /\ Bytes(deviceOUT') = Bytes(hostOUT) /\ Stray(hostOUT')
      BY <1>5, <2>1, EmptyIs
  <2>3. Posted => Posted'
    <3>1. SUFFICES ASSUME Posted PROVE Posted'
        OBVIOUS
    <3>2. OwnBlock(tag, command, hostOUT)
        BY <2>1, <3>1, EmptyIs DEF Posted
    <3>3. command.length = Pending + 0
        BY <3>1, <3>2, BlockIs DEF Posted
    <3> QED
        BY <1>1, <1>3, <1>5, <2>1, <2>2, <3>1, <3>2, <3>3 DEF Posted
  <2>4. Served => Served'
    <3>1. SUFFICES ASSUME Served PROVE Served'
        OBVIOUS
    <3>2. /\ command.direction = "OUT" /\ left = Pending + Bytes(hostOUT) + Bytes(deviceOUT)
          /\ OwnData(tag, hostOUT)
          /\ Empty(hostIN) \/ OwnStatus(tag, hostIN)
          /\ Empty(deviceIN) \/ OwnStatus(tag, deviceIN)
        BY <2>1, <3>1 DEF Served, Flow
    <3>3. Bytes(hostOUT) \in Nat
        BY <3>2, BytesIs
    <3>4. left = Pending + 0 + Bytes(hostOUT)
        BY <1>3, <2>2, <3>2, <3>3
    <3>5. Flow'
        BY <1>1, <1>3, <1>5, <2>1, <2>2, <3>2, <3>4 DEF Flow
    <3> QED
        BY <1>1, <1>5, <3>1, <3>5 DEF Served, Answered
  <2>5. Lost => Lost'
      BY <1>1, <1>3, <1>5, <2>2 DEF Lost
  <2> QED
      BY <1>1, <1>2, <1>3, <2>1, <2>3, <2>4, <2>5 DEF Placed
<1>6. CASE /\ hostIN = <<>> /\ deviceIN # <<>> /\ hostIN' = deviceIN /\ deviceIN' = <<>>
           /\ UNCHANGED <<hostOUT, deviceOUT>>
  <2>1. /\ ~Resting /\ call # "block" /\ Empty(hostIN) /\ ~Empty(deviceIN) /\ Empty(deviceIN') /\ ~Posted
      BY <1>6 DEF Placed, Quiet, Posted, Empty
  <2>2. Bytes(hostIN) = 0 /\ Bytes(deviceIN') = 0 /\ Bytes(hostIN') = Bytes(deviceIN)
      BY <1>6, <2>1, EmptyIs
  <2>3. Served => Served'
    <3>1. SUFFICES ASSUME Served PROVE Served'
        OBVIOUS
    <3>2. ~OwnStatus(tag, hostIN) /\ ~OwnStatus(tag, deviceIN')
        BY <2>1, EmptyIs
    <3>3. Answered' <=> Answered
        BY <1>1, <1>6, <3>2 DEF Answered
    <3>4. Flow
        BY <3>1 DEF Served
    <3>5. Flow'
      <4>1. CASE command.direction = "OUT"
          BY <1>1, <1>3, <1>6, <2>1, <2>2, <3>4, <4>1 DEF Flow
      <4>2. CASE command.direction # "OUT"
        <5>1. /\ Pending = left + Bytes(hostIN) + Bytes(deviceIN)
              /\ Empty(hostOUT) /\ Empty(deviceOUT) /\ command.direction = "IN"
              /\ OwnData(tag, deviceIN) \/ OwnStatus(tag, deviceIN)
            BY <2>1, <3>4, <4>2 DEF Flow
        <5>2. Bytes(deviceIN) \in Nat
            BY <5>1, BytesIs
        <5>3. Pending = left + Bytes(deviceIN) + 0
            BY <1>3, <2>2, <5>1, <5>2
        <5> QED
            BY <1>1, <1>3, <1>6, <2>1, <2>2, <5>1, <5>3 DEF Flow
      <4> QED
          BY <4>1, <4>2
    <3>6. Empty(deviceIN)'
        BY <2>1
    <3> QED
        BY <1>1, <3>1, <3>3, <3>5, <3>6 DEF Served
  <2>4. Lost => Lost'
    <3>1. SUFFICES ASSUME Lost PROVE Lost'
        OBVIOUS
    <3>2. OwnData(tag, deviceIN) /\ Bytes(hostIN) + Bytes(deviceIN) <= Pending /\ command.direction # "OUT"
        BY <2>1, <3>1 DEF Lost
    <3>3. Bytes(deviceIN) \in Nat
        BY <3>2, BytesIs
    <3>4. Bytes(deviceIN) + 0 <= Pending
        BY <1>3, <2>2, <3>2, <3>3
    <3> QED
        BY <1>1, <1>3, <1>6, <2>1, <2>2, <3>1, <3>2, <3>4 DEF Lost
  <2> QED
      BY <1>1, <1>2, <1>3, <2>1, <2>3, <2>4 DEF Placed
<1> QED
    BY <1>4, <1>5, <1>6 DEF Storage!BusOUT, Storage!BusIN

\* Once a call has failed, it has.
LEMMA FailedStays ==
    ASSUME failed = TRUE, [Storage!Next]_Storage!vars
    PROVE  failed' = TRUE
<1>1. failed' = failed \/ failed' = (failed \/ stage # "class")
    BY DEF Storage!vars, Storage!hostVars, Storage!Next, Storage!Ask, Storage!StartCommand,
           Storage!ClassRequest, Storage!HostStep, Storage!SendBlock, Storage!BlockSent,
           Storage!Receive, Storage!TryOUT, Storage!TryIN, Storage!Read, Storage!Write,
           Storage!Written, Storage!GiveUp, Storage!Timeout, Storage!Returns, Storage!Clears,
           Storage!BusOUT, Storage!BusIN, Storage!Detach, Storage!DeviceStep, Storage!ReadBlock,
           Storage!ReadHeader, Storage!NoHeader, Storage!Transfer, Storage!EndCommand,
           Storage!ReturnStatus, Storage!Reset, Storage!HandleRequest, Storage!away
<1> QED
    BY <1>1

\* A call that clears a stall ends with an error.
LEMMA ClearingEnds ==
    ASSUME Clearing, failed = FALSE, [Storage!Next]_Storage!vars
    PROVE  failed' = TRUE \/ (failed' = FALSE /\ Clearing')
<1>1. CASE Storage!GiveUp \/ Storage!Timeout
    BY <1>1 DEF Storage!GiveUp, Storage!Timeout, Storage!Returns, Clearing
<1>2. CASE UNCHANGED <<call, stage, failed>>
    BY <1>2 DEF Clearing
<1>3. ASSUME ~(Storage!GiveUp \/ Storage!Timeout) PROVE UNCHANGED <<call, stage, failed>>
    BY <1>3 DEF Clearing, Storage!vars, Storage!hostVars, Storage!Next, Storage!Ask,
           Storage!StartCommand, Storage!ClassRequest, Storage!HostStep, Storage!SendBlock,
           Storage!BlockSent, Storage!Receive, Storage!TryOUT, Storage!TryIN, Storage!Read,
           Storage!Write, Storage!Written,
           Storage!BusOUT, Storage!BusIN, Storage!Detach, Storage!DeviceStep, Storage!ReadBlock,
           Storage!ReadHeader, Storage!NoHeader, Storage!Transfer, Storage!EndCommand,
           Storage!ReturnStatus, Storage!Reset, Storage!HandleRequest, Storage!away
<1> QED
    BY <1>1, <1>2, <1>3

\* Only a host's step fails, and an end that is not one leaves a class request's call.
LEMMA EndsKeep ==
    ASSUME CallOK, Placed, Storage!GiveUp \/ Storage!Timeout, failed = FALSE, ~Clearing
    PROVE  failed' = TRUE \/ (failed' = FALSE /\ CallOK' /\ Placed')
<1>1. /\ call' = "idle" /\ thawed' \subseteq thawed /\ failed' = (failed \/ stage # "class")
      /\ call # "idle"
      /\ UNCHANGED <<stage, need, command, tag, origin, hostOUT, hostIN, request, task, block, left, taken,
                     deviceOUT, deviceIN, halted>>
    BY DEF Storage!GiveUp, Storage!Timeout, Storage!Waits, Storage!Returns, Storage!elsewhere,
           Storage!deviceVars
<1>2. CASE stage # "class"
    BY <1>1, <1>2
<1>3. CASE stage = "class"
  <2>1. call = "control" /\ failed' = FALSE
    <3>1. Resting
        BY <1>3 DEF CallOK
    <3> QED
        BY <1>1, <1>3, <3>1 DEF Resting
  <2>2. "IN" \notin thawed
      BY <2>1 DEF CallOK, Reading
  <2>3. CallOK'
      BY <1>1, <2>2 DEF CallOK, Reading, Resting
  <2>4. Quiet'
      BY <1>1, <1>3, <2>1 DEF Placed, Resting, Quiet
  <2> QED
      BY <1>1, <2>1, <2>3, <2>4 DEF Placed, Resting
<1> QED
    BY <1>2, <1>3

\* Every step of host, device and bus.
LEMMA AnswerStep == AnswerInv /\ [Storage!Next]_Storage!vars => AnswerInv'
<1> SUFFICES ASSUME AnswerInv, [Storage!Next]_Storage!vars PROVE AnswerInv'
    OBVIOUS
<1>1. CASE failed = TRUE
    BY <1>1, FailedStays DEF AnswerInv
<1>2. CASE failed = FALSE /\ Clearing
    BY <1>2, ClearingEnds DEF AnswerInv
<1>3. CASE failed = FALSE /\ ~Clearing
  <2>1. CallOK /\ Placed
      BY <1>3 DEF AnswerInv
  <2>2. CASE CallOK' /\ Placed' /\ failed' = failed
      BY <1>3, <2>2 DEF AnswerInv
  <2>3. CASE Storage!GiveUp \/ Storage!Timeout
      BY <1>3, <2>1, <2>3, EndsKeep DEF AnswerInv
  <2>4. CASE \/ Storage!BlockSent \/ Storage!Receive \/ Storage!TryOUT \/ Storage!TryIN
             \/ Storage!Written
    <3>1. failed' \in {failed, (failed \/ stage # "class")}
        BY <2>4 DEF Storage!BlockSent, Storage!Receive, Storage!TryOUT, Storage!TryIN, Storage!Written,
                    Storage!Returns, Storage!Clears
    <3>2. CASE failed' = TRUE
        BY <3>2 DEF AnswerInv
    <3>3. CASE failed' = FALSE /\ Clearing'
        BY <3>3 DEF AnswerInv
    <3>4. CASE failed' = FALSE /\ ~Clearing'
      <4>1. CallOK' /\ Placed'
          BY <2>1, <2>4, <3>4, HostTurns
      <4> QED
          BY <3>4, <4>1 DEF AnswerInv
    <3> QED
        BY <1>3, <3>1, <3>2, <3>3, <3>4
  <2>5. CASE Storage!Ask \/ Storage!SendBlock \/ Storage!Read \/ Storage!Write
    <3>1. failed' = failed
        BY <2>5 DEF Storage!Ask, Storage!StartCommand, Storage!ClassRequest, Storage!SendBlock,
                    Storage!Read, Storage!Write
    <3>2. CallOK' /\ Placed'
        BY <2>1, <2>5, AskCommand, AskClass, PostBlock, HostReads, HostWrites DEF Storage!Ask
    <3> QED
        BY <2>2, <3>1, <3>2
  <2>6. CASE Storage!DeviceStep
    <3>1. failed' = failed
        BY <2>6 DEF Storage!DeviceStep, Storage!ReadBlock, Storage!ReadHeader, Storage!NoHeader,
                    Storage!Transfer, Storage!EndCommand, Storage!ReturnStatus, Storage!Reset,
                    Storage!HandleRequest, Storage!away
    <3>2. CallOK' /\ Placed'
        BY <2>1, <2>6, AnswerBlock, AnswerHeader, AnswerTransfer, AnswerEnd, AnswerStatus, AnswerReset,
           AnswerRequest DEF Storage!DeviceStep
    <3> QED
        BY <2>2, <3>1, <3>2
  <2>7. CASE Storage!BusOUT \/ Storage!BusIN
    <3>1. failed' = failed
        BY <2>7 DEF Storage!BusOUT, Storage!BusIN
    <3> QED
        BY <2>1, <2>2, <2>7, <3>1, BusMoves
  <2>8. CASE Storage!Detach \/ UNCHANGED Storage!vars
    <3>1. /\ UNCHANGED <<call, stage, need, command, tag, origin, thawed, request, failed>>
          /\ UNCHANGED there
        BY <2>8 DEF Storage!Detach, Storage!vars, Storage!hostVars, Storage!deviceVars, there
    <3>2. UNCHANGED Pending /\ (Resting' <=> Resting)
        BY <3>1 DEF Pending, Resting
    <3>3. CallOK'
        BY <2>1, <3>1, CallKept DEF CallOK, there
    <3>4. Quiet => Quiet'
        BY <3>1 DEF Quiet, there
    <3>5. Posted \/ Served \/ Lost => (Posted \/ Served \/ Lost)'
        BY <3>1, <3>2, PhaseKept DEF there
    <3>6. Placed'
        BY <2>1, <3>1, <3>2, <3>4, <3>5 DEF Placed
    <3> QED
        BY <2>2, <3>1, <3>3, <3>6
  <2> QED
      BY <2>3, <2>4, <2>5, <2>6, <2>7, <2>8 DEF Storage!Next, Storage!HostStep
<1> QED
    BY <1>1, <1>2, <1>3 DEF AnswerInv

\* A command completes with what was its own.
LEMMA AnswersOwn ==
    ASSUME AnswerInv, [Storage!Next]_Storage!vars, Storage!Completes, failed = FALSE
    PROVE  /\ Storage!Own(origin'.status, "status") /\ Storage!Own(origin'.data, "data")
           /\ Storage!Own(taken, "data")
<1>1. call = "read" /\ stage = "status" /\ call' = "idle" /\ need' = 0
    BY DEF Storage!Completes
<1>2. CallOK /\ Placed
    BY <1>1 DEF AnswerInv, Clearing
<1>3. need = StatusSize /\ need > 0
    BY <1>1, <1>2, StorageAssumption DEF CallOK, Reading, StorageAssumption
<1>4. Storage!Read
  <2>1. need' # need
      BY <1>1, <1>3
  <2> QED
      BY <1>1, <2>1 DEF Storage!vars, Storage!hostVars, Storage!Next, Storage!Ask,
           Storage!StartCommand, Storage!ClassRequest, Storage!HostStep, Storage!SendBlock,
           Storage!BlockSent, Storage!Receive, Storage!TryOUT, Storage!TryIN,
           Storage!Write, Storage!Written, Storage!GiveUp, Storage!Timeout,
           Storage!BusOUT, Storage!BusIN, Storage!Detach, Storage!DeviceStep, Storage!ReadBlock,
           Storage!ReadHeader, Storage!NoHeader, Storage!Transfer, Storage!EndCommand,
           Storage!ReturnStatus, Storage!Reset, Storage!HandleRequest, Storage!away
<1>5. hostIN # <<>> /\ origin' = [origin EXCEPT !["status"] = origin["status"] \cup {Head(hostIN)}]
    BY <1>1, <1>4 DEF Storage!Read
<1>6. OwnStatus(tag, hostIN) /\ Served /\ ~Resting
    BY <1>1, <1>2, <1>5, HostFinds
<1>7. /\ \A p \in origin.status : p.kind = "status" /\ p.number = tag
      /\ \A p \in origin.data : p.kind = "data" /\ p.number = tag
    BY <1>2, <1>6 DEF CallOK, Storage!Own
<1>8. PICK d, s : d = origin.data /\ s = origin.status /\ origin = [data |-> d, status |-> s]
    BY <1>2 DEF CallOK
<1>9. origin' = [data |-> d, status |-> s \cup {Head(hostIN)}]
  <2>1. origin["status"] = s
      BY <1>8
  <2> QED
      BY <1>5, <1>8, <2>1
<1>10. Head(hostIN).kind = "status" /\ Head(hostIN).number = tag
    BY <1>6, StatusIs
<1> QED
    BY <1>6, <1>7, <1>8, <1>9, <1>10 DEF Storage!Own, Served

\* As long as no call has failed, what a host takes for the data and the status of a command are
\* that command's, for all commands and sizes, whatever class requests timed out or were carried
\* out on the way.
THEOREM AnswersCorrect == FairSpec => OwnAnswers
<1>1. Init => AnswerInv
  <2> SUFFICES ASSUME Init PROVE AnswerInv
      OBVIOUS
  <2>1. Storage!Init
      BY DEF Init
  <2>2. command \in Commands
      BY <2>1, StorageAssumption DEF Storage!Init, StorageAssumption
  <2>3. CallOK
      BY <2>1, <2>2 DEF Storage!Init, Storage!None, CallOK, Reading, Resting
  <2>4. Quiet
      BY <2>1 DEF Storage!Init, Quiet, Empty
  <2>5. call = "idle" /\ failed = FALSE
      BY <2>1 DEF Storage!Init
  <2> QED
      BY <2>3, <2>4, <2>5 DEF AnswerInv, Placed, Resting
<1>2. ASSUME AnswerInv, [Next]_vars
      PROVE  /\ AnswerInv'
             /\ Storage!Completes /\ ~failed =>
                  /\ Storage!Own(origin'.status, "status") /\ Storage!Own(origin'.data, "data")
                  /\ Storage!Own(taken, "data")
  <2>1. [Storage!Next]_Storage!vars
    <3>1. CASE UNCHANGED storage
        BY <3>1 DEF storage, Storage!vars, Storage!hostVars, Storage!deviceVars
    <3> QED
        BY <1>2, <3>1 DEF Next, InReports, InLine, InNetwork, vars
  <2>2. AnswerInv'
      BY <1>2, <2>1, AnswerStep
  <2>3. ~failed => failed = FALSE
      BY <1>2 DEF AnswerInv
  <2> QED
      BY <1>2, <2>1, <2>2, <2>3, AnswersOwn
<1>3. AnswerInv /\ [Next]_vars =>
         /\ AnswerInv'
         /\ [Storage!Completes /\ ~failed =>
               /\ Storage!Own(origin'.status, "status") /\ Storage!Own(origin'.data, "data")
               /\ Storage!Own(taken, "data")]_Storage!vars
    BY <1>2
<1> QED
    BY <1>1, <1>3, PTL DEF FairSpec, OwnAnswers, Storage!OwnAnswers

-----------------------------------------------------------------------------
(* The course of a call.                                                   *)

\* MS_Host_WaitForDataReceived.
Polls == {"receive", "tryOUT", "tryIN"}

\* How many stages a call has before it; it polls and reads for its data, and then for its status.
Stages == [block |-> 9, sent |-> 8, write |-> 7, written |-> 6,
           receive |-> 3, tryOUT |-> 3, tryIN |-> 3, read |-> 2, control |-> 1, idle |-> 0]
Phase == Stages[call] + (IF call \in Polls \cup {"read"} /\ stage = "data" THEN 2 ELSE 0)

\* A turn of the host takes a stage, or bytes of the stage, from what its call has before it, or is
\* one of the turns that count frames; nothing but the host moves it on.
Forward ==
    \/ Phase' < Phase
    \/ Phase' = Phase /\ need' < need
    \/ Phase' = Phase /\ need' = need /\ call \in Polls /\ call' \in Polls
CallGoesOn ==
    [][InStorage /\ call # "idle" =>
         /\ Storage!HostStep \/ Storage!Timeout => Forward
         /\ ~(Storage!HostStep \/ Storage!Timeout) => UNCHANGED <<call, stage, need>>]_vars

\* What it has before it is bounded.
CallBounded == Phase \in 0..9 /\ need \in Nat

\* A packet on its way to the host has bytes.
Room(b) == b # <<>> => b = <<b[1]>> /\ b[1].size \in Nat /\ b[1].size > 0

\* One on its way to the device may have lost them to a header; a command block asks for a command.
Asked(b) ==
    b # <<>> => /\ b = <<b[1]>> /\ {"kind", "size"} \subseteq DOMAIN b[1] /\ b[1].size \in Nat
                /\ b[1].kind = "block" => "asks" \in DOMAIN b[1] /\ b[1].asks \in Commands

DeviceSized == left \in Nat /\ Room(hostIN) /\ Room(deviceIN) /\ Asked(hostOUT) /\ Asked(deviceOUT)
HostSized ==
    /\ need \in Nat /\ command \in Commands
    /\ call \in {"idle", "control", "block", "sent", "write", "written", "read"} \cup Polls
    /\ call \in {"block", "sent", "write", "written"} => stage = "data"
    /\ call \in {"block", "sent"} => need = command.length
    /\ call = "write" => need > 0
    /\ call \in Polls \cup {"read"} => stage \in {"data", "status"} /\ need > 0
TurnInv == DeviceSized /\ HostSized

\* The stages left at each place, before a step and after it.
Phases ==
    /\ call = "block" => Phase = 9
    /\ call = "sent" => Phase = 8
    /\ call = "write" => Phase = 7
    /\ call = "written" => Phase = 6
    /\ call \in Polls => (stage = "data" => Phase = 5) /\ (stage = "status" => Phase = 3)
    /\ call = "read" => (stage = "data" => Phase = 4) /\ (stage = "status" => Phase = 2)
    /\ call = "control" => Phase = 1
    /\ call = "idle" => Phase = 0
LEMMA PhasesAre == Phases /\ Phases'
<1>1. Phases
    BY DEF Phases, Phase, Stages, Polls
<1>2. Phases'
    BY DEF Phases, Phase, Stages, Polls
<1> QED
    BY <1>1, <1>2

\* A packet of data, a status and a command block are what the banks may hold.
LEMMA PacketsAre ==
    /\ \A n, size : size \in Nat =>
         /\ Asked(<<Storage!Data(n, size)>>)
         /\ size > 0 => Room(<<Storage!Data(n, size)>>)
    /\ Room(<<Storage!CommandStatus>>)
    /\ command \in Commands => Asked(<<Storage!Block>>)
    /\ Room(<<>>) /\ Asked(<<>>)
<1>1. ASSUME NEW n, NEW size, size \in Nat
      PROVE  /\ Asked(<<Storage!Data(n, size)>>)
             /\ size > 0 => Room(<<Storage!Data(n, size)>>)
  <2>1. PICK p : p = Storage!Data(n, size)
      OBVIOUS
  <2>2. p.kind = "data" /\ p.size = size /\ {"kind", "size"} \subseteq DOMAIN p
      BY <2>1 DEF Storage!Data
  <2>3. <<p>>[1] = p
      OBVIOUS
  <2>4. Asked(<<p>>) /\ (size > 0 => Room(<<p>>))
      BY <1>1, <2>2, <2>3 DEF Asked, Room
  <2> QED
      BY <2>1, <2>4
<1>2. Room(<<Storage!CommandStatus>>)
  <2>1. PICK p : p = Storage!CommandStatus
      OBVIOUS
  <2>2. p.size = StatusSize
      BY <2>1 DEF Storage!CommandStatus
  <2>3. <<p>>[1] = p
      OBVIOUS
  <2>4. Room(<<p>>)
      BY <2>2, <2>3, StorageAssumption DEF StorageAssumption, Room
  <2> QED
      BY <2>1, <2>4
<1>3. ASSUME command \in Commands PROVE Asked(<<Storage!Block>>)
  <2>1. PICK p : p = Storage!Block
      OBVIOUS
  <2>2. p.size = BlockSize /\ p.asks = command /\ {"kind", "size", "asks"} \subseteq DOMAIN p
      BY <2>1 DEF Storage!Block
  <2>3. <<p>>[1] = p
      OBVIOUS
  <2>4. Asked(<<p>>)
      BY <1>3, <2>2, <2>3, StorageAssumption DEF StorageAssumption, Asked
  <2> QED
      BY <2>1, <2>4
<1>4. Room(<<>>) /\ Asked(<<>>)
    BY DEF Room, Asked
<1> QED
    BY <1>1, <1>2, <1>3, <1>4

\* What is left of a packet that had enough.
LEMMA LeftOver ==
    ASSUME NEW packets, packets # <<>>, Asked(packets), NEW size \in Nat, packets[1].size >= size
    PROVE  Asked(Storage!After(Head(packets), size))
<1>1. Head(packets) = packets[1]
    BY DEF Asked
<1>2. PICK p : p = packets[1]
    OBVIOUS
<1>3. Storage!After(Head(packets), size) = <<[p EXCEPT !.size = p.size - size]>>
    BY <1>1, <1>2 DEF Storage!After
<1>4. PICK rem : rem = [p EXCEPT !.size = p.size - size]
    OBVIOUS
<1>5. {"kind", "size"} \subseteq DOMAIN p /\ p.size \in Nat /\ p.size >= size
      /\ (p.kind = "block" => "asks" \in DOMAIN p /\ p.asks \in Commands)
    BY <1>2 DEF Asked
<1>6. /\ rem.size = p.size - size /\ {"kind", "size"} \subseteq DOMAIN rem
      /\ rem.kind = p.kind /\ (p.kind = "block" => "asks" \in DOMAIN rem /\ rem.asks \in Commands)
    BY <1>4, <1>5
<1> QED
    BY <1>2, <1>3, <1>4, <1>5, <1>6 DEF Asked

\* The device's tasks transfer what is left, a bank at a time, and never less than nothing.
LEMMA DeviceSizes ==
    ASSUME DeviceSized, Storage!DeviceStep
    PROVE  DeviceSized' /\ UNCHANGED <<call, stage, need, command>>
<1> USE PacketsAre
<1>0. /\ UNCHANGED <<call, stage, need, command, hostOUT, hostIN>>
      /\ HeaderSize \in Nat /\ BlockSize \in Nat /\ BlockSize > 0
    BY StorageAssumption
    DEF StorageAssumption, Storage!DeviceStep, Storage!ReadBlock, Storage!ReadHeader, Storage!NoHeader,
        Storage!Transfer, Storage!EndCommand, Storage!ReturnStatus, Storage!Reset,
        Storage!HandleRequest, Storage!away
<1>1. CASE Storage!ReadBlock
  <2>1. deviceOUT # <<>> /\ Asked(deviceOUT) /\ Head(deviceOUT) = deviceOUT[1]
      BY <1>1 DEF Storage!ReadBlock, DeviceSized, Asked
  <2>2. CASE /\ Storage!Valid(Head(deviceOUT)) /\ deviceOUT' = Storage!ClearsBlock
             /\ left' = Head(deviceOUT).asks.length /\ UNCHANGED deviceIN
    <3>1. left' \in Nat
        BY <2>1, <2>2, StorageAssumption DEF StorageAssumption, Storage!Valid, Asked
    <3> QED
        BY <1>0, <2>2, <3>1 DEF DeviceSized, Storage!ClearsBlock
  <2>3. CASE /\ UNCHANGED left /\ Head(deviceOUT).size >= HeaderSize
             /\ Storage!Ends(Storage!After(Head(deviceOUT), HeaderSize), deviceIN, {"OUT", "IN"})
    <3>1. Asked(Storage!After(Head(deviceOUT), HeaderSize))
        BY <1>0, <2>1, <2>3, LeftOver
    <3> QED
        BY <1>0, <2>3, <3>1 DEF DeviceSized, Storage!Ends
  <2>4. CASE /\ left' = HeaderSize - Head(deviceOUT).size /\ Head(deviceOUT).size < HeaderSize
             /\ deviceOUT' = <<>> /\ UNCHANGED deviceIN
    <3>1. left' \in Nat
        BY <1>0, <2>1, <2>4 DEF Asked
    <3> QED
        BY <1>0, <2>4, <3>1 DEF DeviceSized
  <2> QED
      BY <1>1, <2>2, <2>3, <2>4 DEF Storage!ReadBlock
<1>2. CASE Storage!ReadHeader
  <2>1. deviceOUT # <<>> /\ Asked(deviceOUT) /\ Head(deviceOUT) = deviceOUT[1] /\ left \in Nat
      BY <1>2 DEF Storage!ReadHeader, DeviceSized, Asked
  <2>2. CASE /\ Head(deviceOUT).size >= left /\ left' = 0
             /\ Storage!Ends(Storage!After(Head(deviceOUT), left), deviceIN, {"OUT", "IN"})
    <3>1. Asked(Storage!After(Head(deviceOUT), left))
        BY <2>1, <2>2, LeftOver
    <3> QED
        BY <1>0, <2>2, <3>1 DEF DeviceSized, Storage!Ends
  <2>3. CASE /\ Head(deviceOUT).size < left /\ left' = left - Head(deviceOUT).size
             /\ deviceOUT' = <<>> /\ UNCHANGED deviceIN
    <3>1. left' \in Nat
        BY <2>1, <2>3 DEF Asked
    <3> QED
        BY <1>0, <2>3, <3>1 DEF DeviceSized
  <2> QED
      BY <1>2, <2>2, <2>3 DEF Storage!ReadHeader
<1>3. CASE Storage!NoHeader \/ Storage!Reset
    BY <1>0, <1>3 DEF Storage!NoHeader, Storage!Reset, Storage!Ends, DeviceSized
<1>4. CASE Storage!Transfer
  <2>1. left \in Nat /\ left > 0
      BY <1>4 DEF Storage!Transfer, DeviceSized
  <2>2. CASE block.command.direction = "IN" /\ deviceIN = <<>>
             /\ deviceIN' = <<Storage!Data(block.number, Storage!Least(left, BlockSize))>>
             /\ left' = left - Storage!Least(left, BlockSize) /\ UNCHANGED deviceOUT
    <3>1. PICK size \in Nat : /\ size = Storage!Least(left, BlockSize) /\ size > 0 /\ size <= left
        BY <1>0, <2>1 DEF Storage!Least
    <3>2. left' \in Nat /\ Room(deviceIN')
        BY <2>1, <2>2, <3>1
    <3> QED
        BY <1>0, <2>2, <3>2 DEF DeviceSized
  <2>3. CASE deviceOUT # <<>> /\ left' = left - Storage!Least(left, Head(deviceOUT).size)
             /\ deviceOUT' = <<>> /\ UNCHANGED deviceIN
    <3>1. Head(deviceOUT).size \in Nat
        BY <2>3 DEF DeviceSized, Asked
    <3>2. left' \in Nat
        BY <2>1, <2>3, <3>1 DEF Storage!Least
    <3> QED
        BY <1>0, <2>3, <3>2 DEF DeviceSized
  <2> QED
      BY <1>4, <2>2, <2>3 DEF Storage!Transfer
<1>5. CASE Storage!EndCommand
    BY <1>0, <1>5 DEF Storage!EndCommand, DeviceSized
<1>6. CASE Storage!ReturnStatus
  <2>1. deviceOUT' \in {deviceOUT, <<>>} /\ deviceIN' \in {deviceIN, <<Storage!CommandStatus>>, <<>>}
        /\ left' = left
      BY <1>6 DEF Storage!ReturnStatus, Storage!Ends
  <2> QED
      BY <1>0, <2>1 DEF DeviceSized
<1>7. CASE Storage!HandleRequest
  <2>1. deviceOUT' \in {deviceOUT, <<>>} /\ deviceIN' \in {deviceIN, <<>>} /\ left' = left
      BY <1>7 DEF Storage!HandleRequest
  <2> QED
      BY <1>0, <2>1 DEF DeviceSized
<1> QED
    BY <1>0, <1>1, <1>2, <1>3, <1>4, <1>5, <1>6, <1>7 DEF Storage!DeviceStep

\* The bus moves a packet as it is.
LEMMA BusSizes ==
    ASSUME DeviceSized, Storage!BusOUT \/ Storage!BusIN \/ Storage!Detach
    PROVE  DeviceSized' /\ UNCHANGED <<call, stage, need, command>>
<1>1. /\ hostOUT' \in {hostOUT, <<>>} /\ deviceOUT' \in {deviceOUT, hostOUT}
      /\ deviceIN' \in {deviceIN, <<>>} /\ hostIN' \in {hostIN, deviceIN}
      /\ UNCHANGED <<left, call, stage, need, command>>
    BY DEF Storage!BusOUT, Storage!BusIN, Storage!Detach, Storage!deviceVars, Storage!hostVars
<1> QED
    BY <1>1, PacketsAre DEF DeviceSized

\* A call begins with its first stage.
LEMMA CallBegins ==
    ASSUME TurnInv, Storage!Ask
    PROVE  TurnInv' /\ call = "idle"
<1>1. ASSUME NEW c \in Commands, Storage!StartCommand(c) PROVE TurnInv' /\ call = "idle"
    BY <1>1, StorageAssumption
    DEF StorageAssumption, Storage!StartCommand, Storage!deviceVars, TurnInv, DeviceSized, HostSized, Polls
<1>2. ASSUME NEW name, Storage!ClassRequest(name) PROVE TurnInv' /\ call = "idle"
    BY <1>2 DEF Storage!ClassRequest, Storage!deviceVars, TurnInv, DeviceSized, HostSized, Polls
<1> QED
    BY <1>1, <1>2 DEF Storage!Ask

\* Each turn of the host moves its call on.
LEMMA CallTurns ==
    ASSUME TurnInv, Storage!HostStep \/ Storage!Timeout
    PROVE  TurnInv' /\ Forward /\ call # "idle"
<1> USE PacketsAre DEF Storage!elsewhere, Storage!deviceVars
<1>0. /\ DeviceSized /\ HostSized /\ need \in Nat /\ command \in Commands /\ command.length \in Nat
      /\ StatusSize \in Nat /\ StatusSize > 0 /\ BlockSize \in Nat /\ BlockSize > 0
    BY StorageAssumption DEF StorageAssumption, TurnInv, HostSized
<1>1. UNCHANGED <<left, deviceIN, deviceOUT, command>>
    BY DEF Storage!HostStep, Storage!SendBlock, Storage!BlockSent, Storage!Receive, Storage!TryOUT,
           Storage!TryIN, Storage!Read, Storage!Write, Storage!Written, Storage!GiveUp, Storage!Timeout
<1>2. CASE Storage!SendBlock
  <2>1. call = "block" /\ call' = "sent" /\ hostOUT' = <<Storage!Block>> /\ UNCHANGED <<stage, need, hostIN>>
      BY <1>2 DEF Storage!SendBlock
  <2>2. Phase' < Phase
      BY <2>1, PhasesAre DEF Phases
  <2> QED
      BY <1>0, <1>1, <2>1, <2>2 DEF TurnInv, DeviceSized, HostSized, Forward, Polls
<1>3. CASE Storage!BlockSent
  <2>1. /\ call = "sent" /\ stage = "data" /\ need = command.length /\ UNCHANGED <<hostOUT, hostIN>>
        /\ \/ call' = "write" /\ need > 0 /\ UNCHANGED <<stage, need>>
           \/ call' = "receive" /\ need > 0 /\ UNCHANGED <<stage, need>>
           \/ call' = "receive" /\ stage' = "status" /\ need' = StatusSize
      BY <1>0, <1>3 DEF Storage!BlockSent, HostSized
  <2>2. Phase' < Phase
      BY <2>1, PhasesAre DEF Phases, Polls
  <2> QED
      BY <1>0, <1>1, <2>1, <2>2 DEF TurnInv, DeviceSized, HostSized, Forward, Polls
<1>4. CASE Storage!Receive \/ Storage!TryOUT \/ Storage!TryIN
  <2>1. /\ call \in Polls /\ UNCHANGED <<stage, need, hostOUT, hostIN>>
        /\ call' \in Polls \cup {"read", "control", "idle"}
      BY <1>4 DEF Storage!Receive, Storage!TryOUT, Storage!TryIN, Storage!Clears, Storage!Returns, Polls
  <2>2. stage \in {"data", "status"} /\ need > 0
      BY <1>0, <2>1 DEF HostSized
  <2>3. Forward
      BY <2>1, <2>2, PhasesAre DEF Phases, Forward
  <2> QED
      BY <1>0, <1>1, <2>1, <2>2, <2>3 DEF TurnInv, DeviceSized, HostSized, Polls
<1>5. CASE Storage!Read
  <2>1. call = "read" /\ hostIN # <<>> /\ stage \in {"data", "status"} /\ need > 0 /\ hostOUT' = hostOUT
      BY <1>0, <1>5 DEF Storage!Read, HostSized
  <2>2. Head(hostIN).size \in Nat /\ Head(hostIN).size > 0
      BY <1>0, <2>1 DEF DeviceSized, Room
  <2>3. PICK size \in Nat : size = Storage!Least(need, Head(hostIN).size) /\ size > 0 /\ size <= need
      BY <1>0, <2>1, <2>2 DEF Storage!Least
  <2>4. /\ hostIN' = <<>>
        /\ \/ need - size > 0 /\ need' = need - size /\ UNCHANGED <<call, stage>>
           \/ stage = "data" /\ Storage!AwaitStatus
           \/ stage = "status" /\ call' = "idle" /\ need' = 0 /\ UNCHANGED stage
      BY <1>5, <2>3 DEF Storage!Read, Storage!Emptied
  <2>5. CASE need - size > 0 /\ need' = need - size /\ UNCHANGED <<call, stage>>
    <3>1. need' \in Nat /\ need' > 0 /\ need' < need
        BY <1>0, <2>3, <2>5
    <3>2. Phase' = Phase
        BY <2>1, <2>5, PhasesAre DEF Phases
    <3> QED
        BY <1>0, <1>1, <2>1, <2>4, <2>5, <3>1, <3>2 DEF TurnInv, DeviceSized, HostSized, Forward, Polls
  <2>6. CASE stage = "data" /\ Storage!AwaitStatus
    <3>1. stage' = "status" /\ need' = StatusSize /\ call' = "receive"
        BY <2>6 DEF Storage!AwaitStatus
    <3>2. Phase' < Phase
        BY <2>1, <2>6, <3>1, PhasesAre DEF Phases, Polls
    <3> QED
        BY <1>0, <1>1, <2>1, <2>4, <3>1, <3>2 DEF TurnInv, DeviceSized, HostSized, Forward, Polls
  <2>7. CASE stage = "status" /\ call' = "idle" /\ need' = 0 /\ UNCHANGED stage
    <3>1. Phase' < Phase
        BY <2>1, <2>7, PhasesAre DEF Phases
    <3> QED
        BY <1>0, <1>1, <2>1, <2>4, <2>7, <3>1 DEF TurnInv, DeviceSized, HostSized, Forward, Polls
  <2> QED
      BY <2>4, <2>5, <2>6, <2>7
<1>6. CASE Storage!Write
  <2>1. call = "write" /\ stage = "data" /\ need > 0 /\ UNCHANGED <<stage, hostIN>>
      BY <1>0, <1>6 DEF Storage!Write, HostSized
  <2>2. PICK size \in Nat : size = Storage!Least(need, BlockSize) /\ size > 0 /\ size <= need
      BY <1>0, <2>1 DEF Storage!Least
  <2>3. /\ hostOUT' = <<Storage!Data(tag, size)>> /\ need' = need - size
        /\ call' = (IF need = size THEN "written" ELSE "write")
      BY <1>6, <2>2 DEF Storage!Write
  <2>4. need' \in Nat /\ need' < need /\ (need = size \/ need' > 0) /\ Asked(hostOUT')
      BY <1>0, <2>2, <2>3
  <2>5. Phase' < Phase \/ Phase' = Phase
      BY <2>1, <2>3, PhasesAre DEF Phases
  <2> QED
      BY <1>0, <1>1, <2>1, <2>3, <2>4, <2>5 DEF TurnInv, DeviceSized, HostSized, Forward, Polls
<1>7. CASE Storage!Written
  <2>1. /\ call = "written" /\ UNCHANGED <<hostOUT, hostIN>>
        /\ \/ stage' = "status" /\ need' = StatusSize /\ call' = "receive"
           \/ call' = "idle" /\ UNCHANGED <<stage, need>>
      BY <1>7 DEF Storage!Written, Storage!AwaitStatus, Storage!Returns
  <2>2. Phase' < Phase
      BY <2>1, PhasesAre DEF Phases, Polls
  <2> QED
      BY <1>0, <1>1, <2>1, <2>2 DEF TurnInv, DeviceSized, HostSized, Forward, Polls
<1>8. CASE Storage!GiveUp \/ Storage!Timeout
  <2>1. /\ call \in {"block", "write", "read", "receive", "control"} /\ call' = "idle"
        /\ UNCHANGED <<stage, need, hostOUT, hostIN>>
      BY <1>8 DEF Storage!GiveUp, Storage!Timeout, Storage!Waits, Storage!Returns
  <2>2. Phase' < Phase
      BY <1>0, <2>1, PhasesAre DEF Phases, Polls, HostSized
  <2> QED
      BY <1>0, <1>1, <2>1, <2>2 DEF TurnInv, DeviceSized, HostSized, Forward, Polls
<1> QED
    BY <1>2, <1>3, <1>4, <1>5, <1>6, <1>7, <1>8 DEF Storage!HostStep

\* Every step of the two drivers.
LEMMA CallStep ==
    ASSUME TurnInv, Storage!Next
    PROVE  /\ TurnInv'
           /\ call # "idle" =>
                /\ Storage!HostStep \/ Storage!Timeout => Forward
                /\ ~(Storage!HostStep \/ Storage!Timeout) => UNCHANGED <<call, stage, need>>
<1>1. CASE Storage!HostStep \/ Storage!Timeout
    BY <1>1, CallTurns
<1>2. CASE Storage!Ask /\ ~(Storage!HostStep \/ Storage!Timeout)
    BY <1>2, CallBegins
<1>3. CASE ~Storage!Ask /\ ~(Storage!HostStep \/ Storage!Timeout)
  <2>1. DeviceSized' /\ UNCHANGED <<call, stage, need, command>>
      BY <1>3, DeviceSizes, BusSizes DEF TurnInv, Storage!Next
  <2> QED
      BY <1>3, <2>1 DEF TurnInv, HostSized
<1> QED
    BY <1>1, <1>2, <1>3

\* A call of the mass storage host goes through its stages once and in their order, and each turn
\* takes a stage or bytes from those before it, whatever the device does; only the turns of
\* MS_Host_WaitForDataReceived, which the timeout counts, and the wait for the last bank, which
\* takes no turn, can hold it up.
THEOREM CallsCorrect == FairSpec => []CallBounded /\ CallGoesOn
<1>1. Init => TurnInv
  <2>1. (CHOOSE c \in Commands : TRUE) \in Commands
      BY StorageAssumption DEF StorageAssumption
  <2> QED
      BY <2>1, PacketsAre DEF Init, Storage!Init, TurnInv, DeviceSized, HostSized, Polls
<1>2. ASSUME TurnInv, [Next]_vars
      PROVE  /\ TurnInv'
             /\ vars' # vars /\ InStorage /\ call # "idle" =>
                  /\ Storage!HostStep \/ Storage!Timeout => Forward
                  /\ ~(Storage!HostStep \/ Storage!Timeout) => UNCHANGED <<call, stage, need>>
  <2>1. CASE Storage!Next
      BY <1>2, <2>1, CallStep
  <2>2. CASE UNCHANGED storage
    <3>1. TurnInv'
        BY <1>2, <2>2 DEF storage, TurnInv, DeviceSized, HostSized
    <3>2. InStorage => UNCHANGED vars
        BY <2>2 DEF InStorage, vars
    <3> QED
        BY <3>1, <3>2
  <2> QED
      BY <1>2, <2>1, <2>2 DEF Next, InReports, InLine, InNetwork, vars
<1>3. TurnInv /\ [Next]_vars =>
         /\ TurnInv'
         /\ [InStorage /\ call # "idle" =>
               /\ Storage!HostStep \/ Storage!Timeout => Forward
               /\ ~(Storage!HostStep \/ Storage!Timeout) => UNCHANGED <<call, stage, need>>]_vars
    BY <1>2
<1>4. TurnInv => CallBounded
    BY PhasesAre DEF TurnInv, HostSized, Phases, CallBounded, Polls
<1> QED
    BY <1>1, <1>3, <1>4, PTL DEF FairSpec, CallGoesOn
=============================================================================
