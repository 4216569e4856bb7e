---------------------------- MODULE Console_proofs ----------------------------
(***************************************************************************)
(* For every set of lines, length of the serial number and capacity of the *)
(* buffer, and wherever the power goes: the serial number is terminated    *)
(* and is the text between the quotes, and the settings in use and in the  *)
(* memory are those acknowledged last.  For every answer and blocks of any *)
(* length: the blocks are whole, and a host reads the words as they were.  *)
(***************************************************************************)
EXTENDS MCConsole, WellFoundedInduction, SequenceTheorems, TLAPS

Terminator == <<"serial", SERIALNO_LEN - 1>>

\* The inductive invariant.  The last cell can only be written a NUL: the loop over the text
\* stops before it, and every other handler writes cells of another name.
SerialInv ==
    /\ eeprom = [c \in Cells |-> eeprom[c]]
    /\ eeprom[Terminator] = 0
    /\ serialno[SERIALNO_LEN - 1] = 0
    /\ pending.cell = Terminator => pending.value = 0
    /\ i \in Int
    /\ pc = "serial" => i < Room

\* The terminator is one of the cells of the EEPROM.
LEMMA LastCell == SERIALNO_LEN \in Int /\ SERIALNO_LEN >= 2 /\ Terminator \in Cells
    BY SettingsAssumption DEF Terminator, Cells, SerialIndices

\* A numeric setting is not kept under the serial number's name.
LEMMA OtherName == ASSUME NEW n PROVE SettingOf(n) # "serial"
    BY DEF SettingOf

\* A new board has an empty serial number.
LEMMA SerialInit == Init => SerialInv
<1> SUFFICES ASSUME Init PROVE SerialInv
    OBVIOUS
<1>1. eeprom = [c \in Cells |-> IF c[1] = "serial" THEN 0 ELSE ByteOf(Factory[c[1]], c[2])]
    BY DEF Init, FactoryCells
<1>2. Terminator[1] = "serial"
    BY DEF Terminator
<1>3. eeprom[Terminator] = 0
    BY <1>1, <1>2, LastCell
<1>4. serialno[SERIALNO_LEN - 1] = eeprom[Terminator]
    BY LastCell DEF Init, StoredSerial, SerialIndices, Terminator
<1>5. pending.cell # Terminator
    BY DEF Init, Idle, Terminator
<1> QED
    BY <1>1, <1>3, <1>4, <1>5 DEF Init, SerialInv

\* Ending a write keeps the last cell's NUL.
LEMMA WrittenKeeps ==
    ASSUME SerialInv
    PROVE  /\ Written = [c \in Cells |-> Written[c]]
           /\ Written[Terminator] = 0
    BY LastCell DEF SerialInv, Written

\* A boot reads the serial number as it is stored.
LEMMA BootReads == ASSUME NEW e, e[Terminator] = 0 PROVE StoredSerial(e)[SERIALNO_LEN - 1] = 0
    BY LastCell DEF StoredSerial, SerialIndices, Terminator

\* No command, write or loss of power puts anything but a NUL into the last cell.
LEMMA SerialStep == SerialInv /\ [Next]_vars => SerialInv'
<1> SUFFICES ASSUME SerialInv, [Next]_vars PROVE SerialInv'
    OBVIOUS
<1>1. ASSUME NEW line \in Lines, Receive(line) PROVE SerialInv'
  <2>1. UNCHANGED <<eeprom, pending, serialno>> /\ i' = 0
      BY <1>1 DEF Receive, ram
  <2>2. 0 < Room
      BY LastCell DEF Room
  <2> QED
      BY <2>1, <2>2 DEF SerialInv
<1>2. CASE UseSetting
    BY <1>2 DEF UseSetting, SerialInv
<1>3. CASE WriteSetting
  <2>1. pending'.cell # Terminator
      BY <1>3, OtherName DEF WriteSetting, StartWrite, Terminator
  <2>2. pc' # "serial" /\ i' \in Int
      BY <1>3 DEF WriteSetting, Returned, SerialInv
  <2> QED
      BY <1>3, <2>1, <2>2 DEF WriteSetting, ram, SerialInv
<1>4. CASE WriteSerial
  <2>1. i < Room /\ i \in Int
      BY <1>4 DEF WriteSerial, SerialInv
  <2>2. pending'.cell = <<"serial", i>>
      BY <1>4 DEF WriteSerial, StartWrite
  <2>3. pending'.cell # Terminator
      BY <2>1, <2>2, LastCell DEF Terminator, Room
  <2>4. i' \in Int
      BY <1>4, <2>1 DEF WriteSerial
  <2>5. pc' = "serial" => i' < Room
      BY <1>4, <2>1, LastCell DEF WriteSerial, Room
  <2> QED
      BY <1>4, <2>3, <2>4, <2>5 DEF WriteSerial, ram, SerialInv
<1>5. CASE TerminateSerial
  <2>1. pending'.value = 0
      BY <1>5 DEF TerminateSerial, StartWrite
  <2>2. pc' # "serial" /\ i' \in Int
      BY <1>5 DEF TerminateSerial, Returned
  <2> QED
      BY <1>5, <2>1, <2>2 DEF TerminateSerial, ram, SerialInv
<1>6. CASE WriteEnds
  <2>1. pending'.cell # Terminator
      BY <1>6 DEF WriteEnds, Idle, Terminator
  <2> QED
      BY <1>6, <2>1, WrittenKeeps DEF WriteEnds, ram, SerialInv
<1>7. CASE PowerCycle
  <2>1. eeprom' = eeprom \/ eeprom' = Written
      BY <1>7 DEF PowerCycle
  <2>2. eeprom' = [c \in Cells |-> eeprom'[c]] /\ eeprom'[Terminator] = 0
      BY <2>1, WrittenKeeps DEF SerialInv
  <2>3. serialno'[SERIALNO_LEN - 1] = 0
      BY <1>7, <2>2, BootReads DEF PowerCycle
  <2>4. pending'.cell # Terminator
      BY <1>7 DEF PowerCycle, Idle, Terminator
  <2>5. pc' # "serial" /\ i' \in Int
      BY <1>7 DEF PowerCycle, Returned
  <2> QED
      BY <2>2, <2>3, <2>4, <2>5 DEF SerialInv
<1>8. CASE UNCHANGED vars
    BY <1>8 DEF vars, ram, SerialInv
<1> QED
    BY <1>1, <1>2, <1>3, <1>4, <1>5, <1>6, <1>7, <1>8 DEF Next

\* The serial number is a terminated string at every moment, in the EEPROM and in use: no line,
\* however long, and no loss of power takes its NUL away.
THEOREM SerialCorrect == Spec => []SerialTerminated
<1>1. SerialInv => SerialTerminated
    BY DEF SerialInv, SerialTerminated, Terminator
<1> QED
    BY <1>1, SerialInit, SerialStep, PTL DEF Spec


-----------------------------------------------------------------------------
(* The values of the settings.                                             *)

Numeric == {STH, SDI, SRE, SFR}

\* The memory once the write in progress has ended.
Final == IF pending = Idle THEN eeprom ELSE Written

\* A setting as the memory has it, before a boot looks at the sign of frt.
Raw(e, s) ==
    CASE s = "thresh" -> e[<<"thresh", 0>>]
      [] s = "dist" -> Word(e[<<"dist", 0>>], e[<<"dist", 1>>])
      [] OTHER -> Signed(e[<<s, 0>>])

Handled(s) == pc \in {"use", "write"} /\ s = SettingOf(name)

UsedAsAsked(s) ==
    (s = "thresh" => thresh = asked["thresh"]) /\ (s = "dist" => dist = asked["dist"])

\* Where a handler stands.
HandlerInv ==
    /\ pc \in {"poll", "use", "write", "serial", "terminate"}
    /\ pc \in {"use", "write"} =>
         name \in Numeric /\ arg \in Int /\ asked[SettingOf(name)] = Kept(SettingOf(name), arg)
    /\ pc \in {"serial", "terminate"} => name = SSN /\ i \in Nat /\ i < SERIALNO_LEN
    /\ pc = "serial" => i < Room
    /\ pc = "use" => i = 0
    /\ pc = "write" => i = 0 \/ (i = 1 /\ SettingOf(name) = "dist")

MemoryInv ==
    /\ eeprom = [c \in Cells |-> eeprom[c]] /\ asked = [s \in SettingNames |-> asked[s]]
    /\ pending = Idle \/ (pending.cell \in Cells /\ pending # Idle)

\* A setting that a handler is about to write has been written up to byte i; any other that no
\* loss of power cut short is in use and in the memory as it was acknowledged.
SettingInv(s) ==
    IF Handled(s)
      THEN pc = "write" => UsedAsAsked(s) /\ (i = 1 => Final[<<s, 0>>] = ByteOf(arg, 0))
      ELSE UsedAsAsked(s) /\ Raw(Final, s) = asked[s]

ValueInv ==
    HandlerInv /\ MemoryInv /\ \A s \in SettingNames \ torn : SettingInv(s)

\* What an argument gives is a number, and a command's setting has a name.
LEMMA ArgumentInt ==
    ASSUME NEW line \in Lines, NEW d \in {3, 4}
    PROVE  Argument(Command(line), d) \in Int
<1> DEFINE c == Command(line)
<1>1. c \in Seq(Nat \ {0}) /\ Len(c) \in Nat
    BY SettingsAssumption DEF Command
<1> DEFINE With(value, k) == IF k <= d /\ k < Len(c) THEN 10 * value + (c[k + 1] - 48) ELSE value
<1>2. ASSUME NEW value \in Int, NEW k \in Nat \ {0} PROVE With(value, k) \in Int
  <2>1. CASE k < Len(c)
    <3>1. k + 1 \in 1..Len(c)
        BY <1>1, <2>1
    <3>2. c[k + 1] \in Int
        BY <1>1, <3>1
    <3> QED
        BY <3>2
  <2>2. CASE ~(k < Len(c))
      BY <2>2
  <2> QED
      BY <2>1, <2>2
<1> HIDE DEF With
<1>3. With(0, 1) \in Int
    BY <1>2
<1>4. With(With(0, 1), 2) \in Int
    BY <1>2, <1>3
<1>5. With(With(With(0, 1), 2), 3) \in Int
    BY <1>2, <1>4
<1>6. With(With(With(With(0, 1), 2), 3), 4) \in Int
    BY <1>2, <1>5
<1> QED
    BY <1>6 DEF Argument, With

\* Each numeric command has a setting of its own.
LEMMA SettingsOfCommands ==
    ASSUME NEW n \in Numeric
    PROVE  SettingOf(n) \in SettingNames /\ n # SSN /\ Digits(n) \in {3, 4}
    BY DEF Numeric, SettingOf, SettingNames, Digits, STH, SDI, SRE, SFR, SSN

\* The cells of the settings.
LEMMA SettingCells ==
    /\ \A s \in SettingNames : <<s, 0>> \in Cells
    /\ <<"dist", 1>> \in Cells
    /\ \A c \in Cells : c # <<"none", 0>>
    BY DEF Cells, SettingNames

\* The bytes of a value make it up again, as far as its setting keeps it.
LEMMA BytesKept ==
    ASSUME NEW v \in Int, NEW e, NEW s \in SettingNames,
           e[<<s, 0>>] = ByteOf(v, 0), s = "dist" => e[<<"dist", 1>>] = ByteOf(v, 1)
    PROVE  Raw(e, s) = Kept(s, v)
<1>1. CASE s = "dist"
  <2>1. (v % 256) + 256 * ((v \div 256) % 256) = v % 65536
      OBVIOUS
  <2> QED
      BY <1>1, <2>1 DEF Raw, Kept, Word, ByteOf, Byte
<1>2. CASE s # "dist"
    BY <1>2 DEF Raw, Kept, ByteOf, Byte, SettingNames
<1> QED
    BY <1>1, <1>2

\* What Raw looks at.
LEMMA RawSame ==
    ASSUME NEW e, NEW f, NEW s \in SettingNames,
           f[<<s, 0>>] = e[<<s, 0>>], s = "dist" => f[<<"dist", 1>>] = e[<<"dist", 1>>]
    PROVE  Raw(f, s) = Raw(e, s)
    BY DEF Raw, SettingNames

\* A new board uses what its memory holds.
LEMMA ValueInit == Init => ValueInv
<1> SUFFICES ASSUME Init PROVE ValueInv
    OBVIOUS
<1>1. HandlerInv
    BY DEF Init, HandlerInv
<1>2. MemoryInv
    BY DEF Init, MemoryInv, FactoryCells
<1>3. ASSUME NEW s \in SettingNames PROVE SettingInv(s)
  <2>1. Final = eeprom /\ ~Handled(s)
      BY DEF Init, Final, Handled
  <2>2. Factory[s] \in Int /\ s # "serial"
      BY SettingsAssumption DEF SettingNames
  <2>3. eeprom[<<s, 0>>] = ByteOf(Factory[s], 0)
      BY <2>2, SettingCells DEF Init, FactoryCells
  <2>4. s = "dist" => eeprom[<<"dist", 1>>] = ByteOf(Factory[s], 1)
      BY <2>2, SettingCells DEF Init, FactoryCells
  <2>5. Raw(eeprom, s) = Kept(s, Factory[s])
      BY <2>2, <2>3, <2>4, BytesKept
  <2>6. asked[s] = Kept(s, Factory[s])
      BY DEF Init
  <2>7. UsedAsAsked(s)
      BY <2>5, <2>6 DEF Init, UsedAsAsked, Stored, Raw
  <2> QED
      BY <2>1, <2>5, <2>6, <2>7 DEF SettingInv
<1> QED
    BY <1>1, <1>2, <1>3 DEF ValueInv

\* The end of a write changes what the memory holds to what it was going to hold.
LEMMA FinalKept == ASSUME WriteEnds PROVE Final' = Final
    BY DEF WriteEnds, Final

\* A write that starts changes one cell of what the memory is going to hold.
LEMMA FinalWritten ==
    ASSUME MemoryInv, UNCHANGED <<eeprom, asked>>, NEW s, NEW k, NEW v, StartWrite(s, k, v),
           <<s, k>> \in Cells
    PROVE  MemoryInv' /\ Final = eeprom /\ Final' = [Final EXCEPT ![<<s, k>>] = v]
<1>1. pending' # Idle /\ pending'.cell = <<s, k>> /\ pending'.value = v /\ pending = Idle
    BY SettingCells DEF StartWrite, Idle
<1> QED
    BY <1>1 DEF MemoryInv, Final, Written

\* A command is acknowledged.
LEMMA ValueReceive == ASSUME ValueInv, NEW line \in Lines, Receive(line) PROVE ValueInv'
<1> DEFINE c == Command(line)
<1>1. Final' = Final /\ UNCHANGED <<eeprom, pending, thresh, dist>> /\ pc = "poll"
    BY DEF Receive, Final, Written, ram
<1>2. \A s \in SettingNames \ torn : UsedAsAsked(s) /\ Raw(Final, s) = asked[s]
    BY <1>1 DEF ValueInv, SettingInv, Handled
<1>3. CASE IsNumeric(c)
  <2> DEFINE v == Argument(c, Digits(c[1]))
             t == SettingOf(c[1])
  <2>1. /\ pc' = "use" /\ name' = c[1] /\ arg' = v /\ i' = 0
        /\ asked' = [asked EXCEPT ![t] = Kept(t, v)] /\ torn' = torn \ {t}
      BY <1>3 DEF Receive, IsNumeric, IsSerial, SSN, STH, SDI, SRE, SFR
  <2>2. c[1] \in Numeric
      BY <1>3 DEF IsNumeric, Numeric
  <2>3. v \in Int /\ t \in SettingNames
      BY <2>2, SettingsOfCommands, ArgumentInt
  <2>4. asked'[t] = Kept(t, v) /\ MemoryInv'
      BY <1>1, <2>1, <2>3 DEF ValueInv, MemoryInv
  <2>5. HandlerInv'
      BY <2>1, <2>2, <2>3, <2>4 DEF HandlerInv
  <2>6. ASSUME NEW s \in SettingNames \ torn' PROVE SettingInv(s)'
    <3>1. CASE s = t
        BY <2>1, <3>1 DEF SettingInv, Handled
    <3>2. CASE s # t
      <4>1. s \notin torn /\ asked'[s] = asked[s]
          BY <2>1, <3>2 DEF ValueInv, MemoryInv
      <4>2. UsedAsAsked(s)'
          BY <1>1, <1>2, <4>1 DEF UsedAsAsked
      <4>3. Raw(Final, s)' = asked'[s]
          BY <1>1, <1>2, <4>1 DEF Raw
      <4>4. ~Handled(s)'
          BY <2>1, <3>2 DEF Handled
      <4> QED
          BY <4>2, <4>3, <4>4 DEF SettingInv
    <3> QED
        BY <3>1, <3>2
  <2> QED
      BY <2>4, <2>5, <2>6 DEF ValueInv
<1>4. CASE ~IsNumeric(c)
  <2>1. asked' = asked /\ torn \subseteq torn' \cup {"serial"} /\ i' = 0
      BY <1>4 DEF Receive, history
  <2>2. (pc' = "serial" /\ name' = SSN) \/ pc' = "poll"
      BY <1>1, <1>4 DEF Receive
  <2>3. HandlerInv'
      BY <2>1, <2>2, SettingsAssumption DEF HandlerInv, Room
  <2>4. ASSUME NEW s \in SettingNames \ torn' PROVE SettingInv(s)'
    <3>1. s \notin torn /\ ~Handled(s)'
        BY <2>1, <2>2 DEF SettingNames, Handled
    <3>2. UsedAsAsked(s)' /\ Raw(Final, s)' = asked'[s]
        BY <1>1, <1>2, <2>1, <3>1 DEF UsedAsAsked, Raw
    <3> QED
        BY <3>1, <3>2 DEF SettingInv
  <2> QED
      BY <1>1, <2>1, <2>3, <2>4 DEF ValueInv, MemoryInv
<1> QED
    BY <1>3, <1>4

\* A handler takes its argument for its setting.
LEMMA ValueUse == ASSUME ValueInv, UseSetting PROVE ValueInv'
<1>1. /\ pc = "use" /\ pc' = "write" /\ i' = i /\ i = 0
      /\ UNCHANGED <<name, arg, eeprom, pending, asked, torn>>
    BY DEF UseSetting, history, ValueInv, HandlerInv
<1>2. Final' = Final /\ MemoryInv' /\ HandlerInv'
    BY <1>1 DEF Final, Written, ValueInv, MemoryInv, HandlerInv
<1>3. /\ name \in Numeric
      /\ asked[SettingOf(name)] = Kept(SettingOf(name), arg)
    BY <1>1 DEF ValueInv, HandlerInv
<1>4. ASSUME NEW s \in SettingNames \ torn' PROVE SettingInv(s)'
  <2>1. SettingInv(s)
      BY <1>1 DEF ValueInv
  <2>2. CASE s = SettingOf(name)
    <3>1. UsedAsAsked(s)'
        BY <1>1, <1>3, <2>2
        DEF UseSetting, UsedAsAsked, SettingOf, Numeric, STH, SDI, SRE, SFR
    <3> QED
        BY <1>1, <2>2, <3>1 DEF SettingInv, Handled
  <2>3. CASE s # SettingOf(name)
    <3>1. UsedAsAsked(s) /\ Raw(Final, s) = asked[s]
        BY <2>1, <2>3 DEF SettingInv, Handled
    <3>2. s = "thresh" => name # STH
        BY <2>3 DEF SettingOf, STH, SDI, SRE
    <3>3. s = "dist" => name # SDI
        BY <2>3 DEF SettingOf, STH, SDI, SRE
    <3>4. UsedAsAsked(s)'
        BY <1>1, <3>1, <3>2, <3>3 DEF UseSetting, UsedAsAsked
    <3> QED
        BY <1>1, <1>2, <2>3, <3>1, <3>4 DEF SettingInv, Handled, Raw
  <2> QED
      BY <2>2, <2>3
<1> QED
    BY <1>2, <1>4 DEF ValueInv

\* A byte of a setting is written: the handler goes on, or returns.
LEMMA ValueWrite == ASSUME ValueInv, WriteSetting PROVE ValueInv'
<1>0. PICK t \in SettingNames : t = SettingOf(name)
    BY SettingsOfCommands DEF WriteSetting, ValueInv, HandlerInv
<1>1. pc = "write" /\ UNCHANGED <<eeprom, asked, torn, thresh, dist>> /\ StartWrite(t, i, ByteOf(arg, i))
    BY <1>0 DEF WriteSetting, history, ram
<1>2. name \in Numeric /\ arg \in Int /\ asked[t] = Kept(t, arg) /\ MemoryInv
    BY <1>0, <1>1 DEF ValueInv, HandlerInv
<1>3. t \in SettingNames
    BY <1>0
<1>4. i = 0 \/ (i = 1 /\ t = "dist")
    BY <1>0, <1>1 DEF ValueInv, HandlerInv
<1>5. <<t, i>> \in Cells
    BY <1>3, <1>4, SettingCells
<1>6. MemoryInv' /\ Final' = [Final EXCEPT ![<<t, i>>] = ByteOf(arg, i)] /\ Final = eeprom
    BY <1>1, <1>2, <1>5, FinalWritten
<1>7. Final = [c \in Cells |-> Final[c]]
    BY <1>2, <1>6 DEF MemoryInv
<1>8. Final'[<<t, i>>] = ByteOf(arg, i)
    BY <1>5, <1>6, <1>7
<1>9. ASSUME NEW s \in SettingNames \ torn, s # t PROVE UsedAsAsked(s)' /\ Raw(Final', s) = asked'[s]
  <2>1. UsedAsAsked(s) /\ Raw(Final, s) = asked[s]
      BY <1>0, <1>9 DEF ValueInv, SettingInv, Handled
  <2>2. Final'[<<s, 0>>] = Final[<<s, 0>>] /\ (s = "dist" => Final'[<<"dist", 1>>] = Final[<<"dist", 1>>])
      BY <1>5, <1>6, <1>7, <1>9, SettingCells
  <2>3. Raw(Final', s) = Raw(Final, s)
      BY <2>2, RawSame
  <2> QED
      BY <1>1, <2>1, <2>3 DEF UsedAsAsked
<1>10. t \notin torn => UsedAsAsked(t) /\ (i = 1 => Final[<<t, 0>>] = ByteOf(arg, 0))
    BY <1>0, <1>1, <1>3 DEF ValueInv, SettingInv, Handled
<1>11. CASE i + 1 = Width(t)
  <2>1. pc' = "poll"
      BY <1>0, <1>11 DEF WriteSetting, Returned
  <2>2. HandlerInv'
      BY <2>1 DEF HandlerInv
  <2>3. ASSUME t \notin torn PROVE UsedAsAsked(t)' /\ Raw(Final', t) = asked'[t]
    <3>1. CASE t = "dist"
      <4>1. i = 1 /\ Final[<<t, 0>>] = ByteOf(arg, 0)
          BY <1>4, <1>10, <1>11, <2>3, <3>1 DEF Width
      <4>2. Final'[<<t, 0>>] = ByteOf(arg, 0) /\ Final'[<<"dist", 1>>] = ByteOf(arg, 1)
          BY <1>3, <1>6, <1>7, <1>8, <3>1, <4>1, SettingCells
      <4>3. Raw(Final', t) = Kept(t, arg)
          BY <1>2, <1>3, <4>2, BytesKept
      <4> QED
          BY <1>1, <1>2, <1>10, <2>3, <4>3 DEF UsedAsAsked
    <3>2. CASE t # "dist"
      <4>1. Final'[<<t, 0>>] = ByteOf(arg, 0)
          BY <1>4, <1>8, <3>2
      <4>2. Raw(Final', t) = Kept(t, arg)
          BY <1>2, <1>3, <3>2, <4>1, BytesKept
      <4> QED
          BY <1>1, <1>2, <1>10, <2>3, <4>2 DEF UsedAsAsked
    <3> QED
        BY <3>1, <3>2
  <2>4. ASSUME NEW s \in SettingNames \ torn' PROVE SettingInv(s)'
    <3>1. UsedAsAsked(s)' /\ Raw(Final', s) = asked'[s]
        BY <1>1, <1>9, <2>3
    <3> QED
        BY <2>1, <3>1 DEF SettingInv, Handled, Raw
  <2> QED
      BY <1>6, <2>2, <2>4 DEF ValueInv
<1>12. CASE i + 1 # Width(t)
  <2>1. i = 0 /\ t = "dist" /\ i' = 1 /\ UNCHANGED <<pc, name, arg>>
      BY <1>0, <1>4, <1>12 DEF WriteSetting, Width
  <2>2. HandlerInv'
      BY <1>0, <1>1, <1>2, <2>1 DEF HandlerInv
  <2>3. ASSUME NEW s \in SettingNames \ torn' PROVE SettingInv(s)'
    <3>1. CASE s = t
        BY <1>0, <1>1, <1>8, <1>10, <2>1, <2>3, <3>1 DEF SettingInv, Handled, UsedAsAsked
    <3>2. CASE s # t
        BY <1>0, <1>1, <1>9, <2>1, <2>3, <3>2 DEF SettingInv, Handled
    <3> QED
        BY <3>1, <3>2
  <2> QED
      BY <1>6, <2>2, <2>3 DEF ValueInv
<1> QED
    BY <1>11, <1>12

\* Writing the serial number leaves the other settings alone.
LEMMA ValueSerial == ASSUME ValueInv, WriteSerial \/ TerminateSerial PROVE ValueInv'
<1>1. pc \in {"serial", "terminate"} /\ UNCHANGED <<eeprom, asked, torn, thresh, dist>>
    BY DEF WriteSerial, TerminateSerial, history, ram
<1>2. name = SSN /\ i \in Nat /\ i < SERIALNO_LEN /\ MemoryInv /\ (pc = "serial" => i < Room)
    BY <1>1 DEF ValueInv, HandlerInv
<1>3. PICK v : StartWrite("serial", i, v)
    BY DEF WriteSerial, TerminateSerial
<1>4. <<"serial", i>> \in Cells
    BY <1>2, SettingsAssumption DEF Cells, SerialIndices
<1>5. MemoryInv' /\ Final' = [Final EXCEPT ![<<"serial", i>>] = v]
    BY <1>1, <1>2, <1>3, <1>4, FinalWritten
<1>6. HandlerInv'
  <2>1. CASE WriteSerial
      BY <1>2, <2>1, SettingsAssumption DEF WriteSerial, HandlerInv, Room
  <2>2. CASE TerminateSerial
      BY <2>2 DEF TerminateSerial, Returned, HandlerInv
  <2> QED
      BY <2>1, <2>2
<1>7. ASSUME NEW s \in SettingNames \ torn' PROVE SettingInv(s)'
  <2>1. UsedAsAsked(s) /\ Raw(Final, s) = asked[s]
      BY <1>1 DEF ValueInv, SettingInv, Handled
  <2>2. s # "serial"
      BY DEF SettingNames
  <2>3. Final'[<<s, 0>>] = Final[<<s, 0>>] /\ (s = "dist" => Final'[<<"dist", 1>>] = Final[<<"dist", 1>>])
      BY <1>5, <2>2
  <2>4. Raw(Final', s) = Raw(Final, s)
      BY <2>3, RawSame
  <2>5. pc' \in {"poll", "serial", "terminate"}
      BY DEF WriteSerial, TerminateSerial, Returned
  <2> QED
      BY <1>1, <2>1, <2>4, <2>5 DEF SettingInv, Handled, UsedAsAsked, Raw
<1> QED
    BY <1>5, <1>6, <1>7 DEF ValueInv

\* A write ends.
LEMMA ValueWriteEnds == ASSUME ValueInv, WriteEnds PROVE ValueInv'
<1>1. Final' = Final
    BY FinalKept
<1>2. UNCHANGED <<pc, name, arg, i, asked, torn, thresh, dist>>
    BY DEF WriteEnds, history, ram
<1>3. MemoryInv'
    BY <1>2 DEF WriteEnds, Written, ValueInv, MemoryInv
<1>4. HandlerInv'
    BY <1>2 DEF ValueInv, HandlerInv
<1>5. ASSUME NEW s \in SettingNames \ torn' PROVE SettingInv(s)'
  <2>1. SettingInv(s)
      BY <1>2 DEF ValueInv
  <2> QED
      BY <1>1, <1>2, <2>1 DEF SettingInv, Handled, UsedAsAsked, Raw
<1> QED
    BY <1>3, <1>4, <1>5 DEF ValueInv

\* A boot: what was not being written is in the memory whichever way the last write ended.
LEMMA ValueBoot == ASSUME ValueInv, PowerCycle PROVE ValueInv'
<1>1. eeprom' = eeprom \/ (pending # Idle /\ eeprom' = Written)
    BY DEF PowerCycle
<1>2. pc' = "poll" /\ pending' = Idle /\ asked' = asked /\ torn' = torn \cup InProgress
    BY DEF PowerCycle, Returned
<1>3. MemoryInv'
    BY <1>1, <1>2 DEF ValueInv, MemoryInv, Written
<1>4. HandlerInv'
    BY <1>2 DEF HandlerInv
<1>5. ASSUME NEW s \in SettingNames \ torn' PROVE SettingInv(s)'
  <2>1. s \notin torn /\ s \notin InProgress
      BY <1>2
  <2>2. ~Handled(s)
      BY <2>1, SettingsOfCommands DEF InProgress, Handled, ValueInv, HandlerInv
  <2>3. Raw(Final, s) = asked[s]
      BY <2>1, <2>2 DEF ValueInv, SettingInv
  <2>4. pending # Idle => pending.cell[1] # s
      BY <2>1 DEF InProgress
  <2>5. eeprom'[<<s, 0>>] = Final[<<s, 0>>] /\ (s = "dist" => eeprom'[<<"dist", 1>>] = Final[<<"dist", 1>>])
    <3>1. CASE pending = Idle
        BY <1>1, <3>1 DEF Final
    <3>2. CASE pending # Idle
      <4>1. pending.cell # <<s, 0>> /\ (s = "dist" => pending.cell # <<"dist", 1>>)
          BY <2>4, <3>2
      <4> QED
          BY <1>1, <3>2, <4>1, SettingCells DEF Final, Written, ValueInv, MemoryInv
    <3> QED
        BY <3>1, <3>2
  <2>6. Raw(eeprom', s) = asked[s]
      BY <2>3, <2>5, RawSame
  <2>7. s = "thresh" => thresh' = Raw(eeprom', s)
      BY DEF PowerCycle, Stored, Raw
  <2>8. s = "dist" => dist' = Raw(eeprom', s)
      BY DEF PowerCycle, Stored, Raw
  <2>9. Final' = eeprom' /\ ~Handled(s)'
      BY <1>2 DEF Final, Handled
  <2>10. Raw(Final', s) = asked'[s] /\ UsedAsAsked(s)'
      BY <1>2, <2>6, <2>7, <2>8, <2>9 DEF UsedAsAsked
  <2> QED
      BY <2>9, <2>10 DEF SettingInv, Raw
<1> QED
    BY <1>3, <1>4, <1>5 DEF ValueInv

\* All of them.
LEMMA ValueInvariant == Spec => []ValueInv
<1>1. ValueInv /\ [Next]_vars => ValueInv'
  <2> SUFFICES ASSUME ValueInv, [Next]_vars PROVE ValueInv'
      OBVIOUS
  <2>1. CASE UNCHANGED vars
    <3>1. Final' = Final
        BY <2>1 DEF vars, Final, Written
    <3>2. UNCHANGED <<pc, name, arg, i, eeprom, pending, asked, torn, thresh, dist>>
        BY <2>1 DEF vars, history, ram
    <3> QED
        BY <3>1, <3>2
        DEF ValueInv, HandlerInv, MemoryInv, SettingInv, Handled, UsedAsAsked, Raw
  <2> QED
      BY <2>1, ValueReceive, ValueUse, ValueWrite, ValueSerial, ValueWriteEnds, ValueBoot DEF Next
<1> QED
    BY <1>1, ValueInit, PTL DEF Spec

\* The threshold and the distance in use are those acknowledged last, for every set of lines.
THEOREM UseCorrect == Spec => []SettingsInUse
<1>1. ValueInv => SettingsInUse
    BY DEF ValueInv, SettingInv, Handled, UsedAsAsked, SettingsInUse, SettingNames
<1> QED
    BY <1>1, ValueInvariant, PTL

\* What a boot reads are the values acknowledged last, for every set of lines and whenever the
\* power went before.
THEOREM SurvivalCorrect == Spec => []SettingsSurvive
<1>1. ValueInv => SettingsSurvive
  <2> SUFFICES ASSUME ValueInv, pc = "poll", pending = Idle, NEW s \in SettingNames \ torn,
                      s \in {"thresh", "dist"} \/ ("frt" \notin torn /\ ~(asked["frt"] < 0))
               PROVE  Stored(eeprom, s) = asked[s]
      BY DEF SettingsSurvive
  <2>1. \A t \in SettingNames \ torn : Raw(eeprom, t) = asked[t]
      BY DEF ValueInv, SettingInv, Handled, Final
  <2>2. CASE s \in {"thresh", "dist"}
      BY <2>1, <2>2 DEF Stored, Raw
  <2>3. CASE s \notin {"thresh", "dist"}
    <3>1. "frt" \in SettingNames \ torn /\ s \in {"res", "frt"}
        BY <2>3 DEF SettingNames
    <3>2. StoredFrt(eeprom) = asked["frt"]
        BY <2>1, <3>1 DEF Raw, StoredFrt
    <3>3. ~(StoredFrt(eeprom) < 0)
        BY <2>3, <3>2
    <3> QED
        BY <2>1, <3>1, <3>2, <3>3 DEF Stored, Raw
  <2> QED
      BY <2>2, <2>3
<1> QED
    BY <1>1, ValueInvariant, PTL

-----------------------------------------------------------------------------
(* The serial number is the text between the quotes.                       *)

QuotedOK ==
    /\ quoted \in Seq(Nat \ {0}) /\ Len(quoted) < SERIALNO_LEN
    /\ \A k \in 1..Len(quoted) : quoted[k] > 0 /\ quoted[k] < Byte /\ quoted[k] # Quote

\* What a cell of the serial number is to hold: the text, and the NUL after it.
AsQuoted(k) == IF k < Len(quoted) THEN quoted[k + 1] ELSE 0

\* The memory is going to hold the first n of these cells as they should be.
Copied(n) == \A k \in 0..Len(quoted) : k < n => Final[<<"serial", k>>] = AsQuoted(k)

\* The handler is going to find them in the buffer; at their end it may find the closing quote.
InBuffer ==
    \A k \in 0..Len(quoted) :
       k < Room => \/ read_buffer[k + 2] = AsQuoted(k)
                   \/ k = Len(quoted) /\ read_buffer[k + 2] = Quote

TextInv ==
    /\ QuotedOK
    /\ "serial" \notin torn =>
         /\ pc = "serial" => InBuffer /\ Copied(i)
         /\ pc = "terminate" => Len(quoted) <= i /\ Copied(i)
         /\ pc \notin {"serial", "terminate"} => Copied(SERIALNO_LEN)

\* A set of numbers that is not empty has a least one, which Min returns.
LEMMA LeastIsMin ==
    ASSUME NEW S, S \subseteq Nat, S # {}
    PROVE  Min(S) \in S /\ \A k \in S : Min(S) <= k
<1>1. PICK m \in S : \A k \in S : <<k, m>> \notin OpToRel(<, Nat)
    BY WFMin, NatLessThanWellFounded, Zenon
<1>2. \A k \in S : ~(k < m)
    BY <1>1, Zenon DEF OpToRel
<1>3. m \in S /\ \A k \in S : m <= k
    BY <1>2
<1> QED
    BY <1>3 DEF Min

\* The string in an array ends with its first NUL.
LEMMA StringIs ==
    ASSUME NEW f, NEW n \in Nat, n < SERIALNO_LEN, f[n] = 0, \A k \in 0..n - 1 : f[k] # 0
    PROVE  String(f) = [k \in 1..n |-> f[k - 1]]
<1> DEFINE ends == {k \in SerialIndices : f[k] = 0}
           end == CHOOSE k \in ends : \A j \in ends : k <= j
<1>1. SERIALNO_LEN \in Nat
    BY SettingsAssumption
<1>2. n \in ends /\ ends # {}
    BY <1>1 DEF SerialIndices
<1>3. \A j \in ends : j \in Nat /\ n <= j
    BY <1>1 DEF SerialIndices
<1>4. end \in ends /\ \A j \in ends : end <= j
    BY <1>2, <1>3
<1>5. String(f) = [k \in 1..end |-> f[k - 1]]
    BY <1>2 DEF String
<1> HIDE DEF end, ends
<1>6. end \in Nat /\ n <= end /\ end <= n
    BY <1>2, <1>3, <1>4
<1>7. end = n
    BY <1>6
<1> QED
    BY <1>5, <1>7

\* What TextOf finds: the characters after the opening quote, before the next one or the end.
LEMMA TextIs ==
    ASSUME NEW c \in Seq(Nat \ {0}), Len(c) >= 2
    PROVE  \E end \in Nat :
             /\ end >= 2 /\ end <= Len(c)
             /\ TextOf(c) = SubSeq(c, 3, IF end < SERIALNO_LEN + 2 THEN end ELSE SERIALNO_LEN + 1)
             /\ \A k \in 3..end : c[k] # Quote
             /\ end = Len(c) \/ c[end + 1] = Quote
<1> DEFINE quotes == {k \in 3..Len(c) : c[k] = Quote}
           End == IF quotes = {} THEN Len(c) ELSE Min(quotes) - 1
<1>1. SERIALNO_LEN \in Nat /\ Len(c) \in Nat
    BY SettingsAssumption
<1>2. TextOf(c) = SubSeq(c, 3, IF End < SERIALNO_LEN + 2 THEN End ELSE SERIALNO_LEN + 1)
    BY DEF TextOf
<1>3. PICK end : end = End
    OBVIOUS
<1>4. (quotes = {} => end = Len(c)) /\ (quotes # {} => end = Min(quotes) - 1)
    BY <1>3
<1>5. quotes \subseteq Nat /\ \A k \in 3..Len(c) : k \in quotes <=> c[k] = Quote
    BY <1>1
<1>6. TextOf(c) = SubSeq(c, 3, IF end < SERIALNO_LEN + 2 THEN end ELSE SERIALNO_LEN + 1)
    BY <1>2, <1>3
<1> HIDE DEF End
<1>7. CASE quotes = {}
  <2>1. \A k \in 3..Len(c) : c[k] # Quote
      BY <1>5, <1>7
  <2> HIDE DEF quotes
  <2>2. end = Len(c) /\ end \in Nat /\ end >= 2 /\ end <= Len(c)
      BY <1>1, <1>4, <1>7
  <2>3. \A k \in 3..end : c[k] # Quote
      BY <2>1, <2>2
  <2> QED
      BY <1>6, <2>2, <2>3
<1>8. CASE quotes # {}
  <2>1. PICK m \in quotes : m = Min(quotes) /\ \A k \in quotes : m <= k
      BY <1>5, <1>8, LeastIsMin
  <2>2. m \in 3..Len(c) /\ c[m] = Quote /\ end = m - 1
      BY <1>4, <1>8, <2>1
  <2> HIDE DEF quotes
  <2>3. end \in Nat /\ end >= 2 /\ end <= Len(c) /\ end + 1 = m
      BY <1>1, <2>2
  <2>4. ASSUME NEW k \in 3..end PROVE c[k] # Quote
    <3>1. k \in 3..Len(c) /\ k \in Nat /\ ~(m <= k)
        BY <1>1, <2>2, <2>3
    <3> QED
        BY <1>5, <2>1, <3>1
  <2> QED
      BY <1>6, <2>2, <2>3, <2>4
<1> QED
    BY <1>7, <1>8

\* A command is a line as far as there is room for it.
LEMMA CommandIs ==
    ASSUME NEW line \in Lines
    PROVE  /\ Command(line) \in Seq(Nat \ {0}) /\ Len(Command(line)) \in Nat
           /\ Len(Command(line)) <= Capacity
           /\ \A k \in 2..Len(Command(line)) : Command(line)[k] < Byte
<1> DEFINE n == IF Len(line) > Capacity THEN Capacity ELSE Len(line)
<1>1. line \in Seq(Nat \ {0}) /\ Len(line) \in Nat /\ Capacity \in Nat
    BY SettingsAssumption
<1>2. n \in Nat /\ n <= Len(line) /\ n <= Capacity
    BY <1>1
<1>3. Command(line) = SubSeq(line, 1, n)
    BY DEF Command
<1> HIDE DEF n
<1>4. /\ Command(line) \in Seq(Nat \ {0}) /\ Len(Command(line)) = n
      /\ \A k \in 1..n : Command(line)[k] = line[k]
    BY <1>1, <1>2, <1>3
<1>5. ASSUME NEW k \in 2..n PROVE Command(line)[k] < Byte
  <2>1. k \in 1..n /\ k \in 2..Len(line)
      BY <1>1, <1>2
  <2> QED
      BY <1>4, <2>1, TextAssumption
<1> QED
    BY <1>2, <1>4, <1>5

\* What $SSN acknowledges is text without quotes and NULs, and the buffer holds it, with a quote
\* or a NUL behind it unless it is as long as there is room.
LEMMA QuotedText ==
    ASSUME NEW c \in Seq(Nat \ {0}), Len(c) >= 2, Len(c) <= Capacity,
           \A k \in 2..Len(c) : c[k] < Byte,
           quoted' = TextOf(c), read_buffer' = Assembled(c)
    PROVE  QuotedOK' /\ InBuffer'
<1>1. SERIALNO_LEN \in Nat /\ SERIALNO_LEN >= 2 /\ Capacity \in Nat /\ SERIALNO_LEN < Capacity
    BY SettingsAssumption
<1>2. PICK end \in Nat :
        /\ end >= 2 /\ end <= Len(c)
        /\ TextOf(c) = SubSeq(c, 3, IF end < SERIALNO_LEN + 2 THEN end ELSE SERIALNO_LEN + 1)
        /\ \A k \in 3..end : c[k] # Quote
        /\ end = Len(c) \/ c[end + 1] = Quote
    BY TextIs
<1>3. PICK last : last = IF end < SERIALNO_LEN + 2 THEN end ELSE SERIALNO_LEN + 1
    OBVIOUS
<1>4. Len(c) \in Nat /\ last \in Nat /\ last >= 2 /\ last <= end /\ last <= SERIALNO_LEN + 1
    BY <1>1, <1>2, <1>3
<1>5. quoted' = SubSeq(c, 3, last)
    BY <1>2, <1>3
<1>6. /\ quoted' \in Seq(Nat \ {0}) /\ Len(quoted') = last - 2
      /\ \A k \in 1..last - 2 : quoted'[k] = c[k + 2]
  <2>1. \A k \in 3..last : k \in 1..Len(c) /\ c[k] \in Nat \ {0}
      BY <1>2, <1>4
  <2>2. SubSeq(c, 3, last) \in Seq(Nat \ {0})
      BY <1>2, <1>4, <2>1
  <2>3. SubSeq(c, 3, last) = [k \in 1..last - 2 |-> c[k + 2]]
      BY <1>2, <1>4
  <2> QED
      BY <1>4, <1>5, <2>2, <2>3
<1>7. ASSUME NEW k \in 1..last - 2
      PROVE  quoted'[k] > 0 /\ quoted'[k] < Byte /\ quoted'[k] # Quote
  <2>1. k + 2 \in 3..end /\ k + 2 \in 2..Len(c) /\ k + 2 \in 1..Len(c)
      BY <1>2, <1>4
  <2>2. c[k + 2] \in Nat \ {0} /\ c[k + 2] < Byte /\ c[k + 2] # Quote
      BY <1>2, <2>1
  <2> QED
      BY <1>6, <2>2
<1>8. QuotedOK'
    BY <1>1, <1>4, <1>6, <1>7 DEF QuotedOK
<1>9. ASSUME NEW k \in 0..Len(quoted'), k < Room
      PROVE  \/ read_buffer'[k + 2] = AsQuoted(k)'
             \/ k = Len(quoted') /\ read_buffer'[k + 2] = Quote
  <2>1. k \in Nat /\ k < SERIALNO_LEN - 1 /\ k <= last - 2
      BY <1>1, <1>4, <1>6, <1>9 DEF Room
  <2>2. k + 2 \in 0..Capacity
      BY <1>1, <2>1
  <2>3. read_buffer'[k + 2] = IF k + 2 < Len(c) THEN c[k + 3]
                             ELSE IF k + 2 = Len(c) THEN 0 ELSE read_buffer[k + 2]
      BY <2>1, <2>2 DEF Assembled
  <2>4. CASE k < last - 2
    <3>1. k + 2 < Len(c) /\ k + 1 \in 1..last - 2
        BY <1>2, <1>4, <2>1, <2>4
    <3>2. quoted'[k + 1] = c[k + 3]
        BY <1>6, <2>1, <3>1
    <3> QED
        BY <1>6, <2>3, <2>4, <3>1, <3>2 DEF AsQuoted
  <2>5. CASE k = last - 2
    <3>1. last = end /\ k + 2 = end /\ k + 3 = end + 1
        BY <1>1, <1>3, <1>4, <2>1, <2>5
    <3>2. AsQuoted(k)' = 0 /\ k = Len(quoted')
        BY <1>4, <1>6, <2>1, <2>5 DEF AsQuoted
    <3>3. CASE end = Len(c)
        BY <1>4, <2>3, <3>1, <3>2, <3>3
    <3>4. CASE end # Len(c)
      <4>1. k + 2 < Len(c) /\ c[k + 3] = Quote
          BY <1>2, <1>4, <3>1, <3>4
      <4> QED
          BY <2>3, <3>2, <4>1
    <3> QED
        BY <3>3, <3>4
  <2> QED
      BY <1>4, <2>1, <2>4, <2>5
<1> QED
    BY <1>8, <1>9 DEF InBuffer

\* The cells of the serial number that quoted reaches to.
LEMMA TextCells ==
    ASSUME QuotedOK
    PROVE  /\ SERIALNO_LEN \in Nat /\ Room = SERIALNO_LEN - 1 /\ Len(quoted) \in Nat
           /\ \A k \in 0..Len(quoted) : k \in Nat /\ k < SERIALNO_LEN
           /\ \A k \in Nat : k < SERIALNO_LEN => <<"serial", k>> \in Cells
    BY SettingsAssumption DEF QuotedOK, Cells, SerialIndices, Room

\* A new board has an empty text.
LEMMA TextInit == Init => TextInv
<1> SUFFICES ASSUME Init PROVE TextInv
    OBVIOUS
<1>1. quoted = <<>> /\ pc = "poll" /\ Final = FactoryCells
    BY DEF Init, Final
<1>2. QuotedOK
    BY <1>1, SettingsAssumption DEF QuotedOK
<1>3. FactoryCells[<<"serial", 0>>] = 0
    BY <1>2, TextCells, <1>1 DEF FactoryCells
<1>4. Copied(SERIALNO_LEN)
    BY <1>1, <1>3 DEF Copied, AsQuoted
<1> QED
    BY <1>1, <1>2, <1>4 DEF TextInv

\* A command is acknowledged.
LEMMA TextReceive == ASSUME TextInv, NEW line \in Lines, Receive(line) PROVE TextInv'
<1> DEFINE c == Command(line)
<1>1. Final' = Final /\ pc = "poll" /\ i' = 0 /\ read_buffer' = Assembled(c)
    BY DEF Receive, Final, Written
<1>2. CASE IsSerial(c)
  <2>1. pc' = "serial" /\ quoted' = TextOf(c)
      BY <1>2 DEF Receive, IsSerial, IsNumeric, SSN, STH, SDI, SRE, SFR
  <2>2. /\ c \in Seq(Nat \ {0}) /\ Len(c) \in Nat /\ Len(c) <= Capacity
        /\ \A k \in 2..Len(c) : c[k] < Byte
      BY CommandIs
  <2>3. Len(c) >= 2
      BY <1>2, <2>2 DEF IsSerial
  <2> HIDE DEF c
  <2>4. QuotedOK' /\ InBuffer'
      BY <1>1, <2>1, <2>2, <2>3, QuotedText
  <2>5. Copied(0)'
      BY <2>4 DEF Copied, QuotedOK
  <2> QED
      BY <1>1, <2>1, <2>4, <2>5 DEF TextInv
<1>3. CASE ~IsSerial(c)
  <2>1. quoted' = quoted /\ ("serial" \notin torn' => "serial" \notin torn)
      BY <1>3, OtherName DEF Receive, history
  <2>2. pc' \in {"poll", "use"}
      BY <1>1, <1>3 DEF Receive
  <2> QED
      BY <1>1, <2>1, <2>2 DEF TextInv, QuotedOK, Copied, AsQuoted
<1> QED
    BY <1>2, <1>3

\* A byte of another setting is written.
LEMMA TextOther == ASSUME TextInv, ValueInv, WriteSetting PROVE TextInv'
<1>1. pc = "write" /\ UNCHANGED <<eeprom, asked, torn, quoted, read_buffer>>
    BY DEF WriteSetting, history
<1>2. PICK s \in SettingNames : s = SettingOf(name)
    BY <1>1, SettingsOfCommands DEF ValueInv, HandlerInv
<1>3. StartWrite(s, i, ByteOf(arg, i)) /\ s # "serial"
    BY <1>2, OtherName DEF WriteSetting
<1>4. i = 0 \/ (i = 1 /\ s = "dist")
    BY <1>1, <1>2 DEF ValueInv, HandlerInv
<1>5. <<s, i>> \in Cells
    BY <1>4, SettingCells
<1>6. MemoryInv /\ Final = eeprom /\ Final' = [Final EXCEPT ![<<s, i>>] = ByteOf(arg, i)]
    BY <1>1, <1>3, <1>5, FinalWritten DEF ValueInv
<1>7. QuotedOK /\ QuotedOK'
    BY <1>1 DEF TextInv, QuotedOK
<1>8. \A k \in 0..Len(quoted) : Final'[<<"serial", k>>] = Final[<<"serial", k>>]
  <2>1. \A k \in 0..Len(quoted) : <<"serial", k>> \in Cells /\ <<"serial", k>> # <<s, i>>
      BY <1>3, <1>7, TextCells
  <2> QED
      BY <1>6, <2>1 DEF MemoryInv
<1>9. pc' \in {"poll", "write"}
    BY <1>1 DEF WriteSetting, Returned
<1> QED
    BY <1>1, <1>7, <1>8, <1>9 DEF TextInv, Copied, AsQuoted

\* A character is copied: it is the next of the text, its end, or one behind it.
LEMMA TextSerial == ASSUME TextInv, ValueInv, WriteSerial PROVE TextInv'
<1> DEFINE c == read_buffer[i + 2]
<1>1. /\ pc = "serial" /\ UNCHANGED <<eeprom, asked, torn, quoted, read_buffer>>
      /\ StartWrite("serial", i, c % Byte)
    BY DEF WriteSerial, history
<1>2. QuotedOK /\ QuotedOK' /\ i \in Nat /\ i < Room /\ MemoryInv
    BY <1>1 DEF TextInv, QuotedOK, ValueInv, HandlerInv
<1>3. i < SERIALNO_LEN /\ <<"serial", i>> \in Cells
    BY <1>2, TextCells
<1>4. Final = eeprom /\ Final' = [Final EXCEPT ![<<"serial", i>>] = c % Byte]
    BY <1>1, <1>2, <1>3, FinalWritten
<1>5. \A k \in 0..Len(quoted) :
         /\ k # i => Final'[<<"serial", k>>] = Final[<<"serial", k>>]
         /\ k = i => Final'[<<"serial", k>>] = c % Byte
  <2>1. \A k \in 0..Len(quoted) :
           <<"serial", k>> \in Cells /\ (k # i => <<"serial", k>> # <<"serial", i>>)
      BY <1>2, TextCells
  <2> QED
      BY <1>2, <1>4, <2>1 DEF MemoryInv
<1>6. SUFFICES ASSUME "serial" \notin torn
               PROVE  /\ pc' = "serial" => InBuffer' /\ Copied(i)'
                      /\ pc' = "terminate" => Len(quoted) <= i' /\ Copied(i)'
    BY <1>1, <1>2 DEF TextInv, WriteSerial
<1>7. InBuffer /\ Copied(i) /\ InBuffer'
    BY <1>1, <1>6 DEF TextInv, InBuffer, AsQuoted
<1>8. \A k \in 0..Len(quoted) : k < i => Final'[<<"serial", k>>] = AsQuoted(k)
    BY <1>2, <1>5, <1>7 DEF Copied
<1>9. CASE c = Quote
  <2>1. pc' = "terminate" /\ i' = i
      BY <1>9 DEF WriteSerial, EndsText
  <2>2. Len(quoted) <= i
    <3>1. SUFFICES ASSUME i < Len(quoted) PROVE FALSE
        BY <1>2, TextCells
    <3>2. i \in 0..Len(quoted) /\ i # Len(quoted) /\ i + 1 \in 1..Len(quoted)
        BY <1>2, <3>1, TextCells
    <3>3. c = quoted[i + 1]
        BY <1>2, <1>7, <3>1, <3>2 DEF InBuffer, AsQuoted
    <3> QED
        BY <1>2, <1>9, <3>2, <3>3 DEF QuotedOK
  <2>3. Copied(i)'
      BY <1>1, <1>8, <2>1 DEF Copied, AsQuoted
  <2> QED
      BY <2>1, <2>2, <2>3
<1>10. CASE c # Quote
  <2>1. i' = i + 1 /\ (pc' = "terminate" => i + 1 = Room)
      BY <1>10 DEF WriteSerial, EndsText
  <2>2. i \in 0..Len(quoted) => c % Byte = AsQuoted(i)
    <3>1. SUFFICES ASSUME i \in 0..Len(quoted) PROVE c % Byte = AsQuoted(i)
        OBVIOUS
    <3>2. c = AsQuoted(i)
        BY <1>2, <1>7, <1>10, <3>1 DEF InBuffer
    <3>3. AsQuoted(i) \in Nat /\ AsQuoted(i) < Byte
      <4>1. CASE i < Len(quoted)
        <5>1. i + 1 \in 1..Len(quoted)
            BY <1>2, <4>1, TextCells
        <5> QED
            BY <1>2, <4>1, <5>1 DEF QuotedOK, AsQuoted
      <4>2. CASE ~(i < Len(quoted))
          BY <4>2 DEF AsQuoted, Byte
      <4> QED
          BY <4>1, <4>2
    <3> QED
        BY <3>2, <3>3 DEF Byte
  <2>3. Copied(i)'
    <3>1. ASSUME NEW k \in 0..Len(quoted), k < i + 1
          PROVE  Final'[<<"serial", k>>] = AsQuoted(k)
      <4>1. k < i \/ k = i
          BY <1>2, <3>1, TextCells
      <4> QED
          BY <1>5, <1>8, <2>2, <4>1
    <3> QED
        BY <1>1, <2>1, <3>1 DEF Copied, AsQuoted
  <2>4. i + 1 = Room => Len(quoted) <= i + 1
      BY <1>2, TextCells DEF QuotedOK
  <2> QED
      BY <1>7, <2>1, <2>3, <2>4
<1> QED
    BY <1>9, <1>10

\* The NUL is written behind the text.
LEMMA TextTerminate == ASSUME TextInv, ValueInv, TerminateSerial PROVE TextInv'
<1>1. /\ pc = "terminate" /\ pc' = "poll" /\ UNCHANGED <<eeprom, asked, torn, quoted>>
      /\ StartWrite("serial", i, 0)
    BY DEF TerminateSerial, Returned, history
<1>2. QuotedOK /\ QuotedOK' /\ i \in Nat /\ i < SERIALNO_LEN /\ MemoryInv
    BY <1>1 DEF TextInv, QuotedOK, ValueInv, HandlerInv
<1>3. <<"serial", i>> \in Cells
    BY <1>2, TextCells
<1>4. Final = eeprom /\ Final' = [Final EXCEPT ![<<"serial", i>>] = 0]
    BY <1>1, <1>2, <1>3, FinalWritten
<1>5. \A k \in 0..Len(quoted) :
         /\ k # i => Final'[<<"serial", k>>] = Final[<<"serial", k>>]
         /\ k = i => Final'[<<"serial", k>>] = 0
  <2>1. \A k \in 0..Len(quoted) :
           <<"serial", k>> \in Cells /\ (k # i => <<"serial", k>> # <<"serial", i>>)
      BY <1>2, TextCells
  <2> QED
      BY <1>2, <1>4, <2>1 DEF MemoryInv
<1>6. SUFFICES ASSUME "serial" \notin torn PROVE Copied(SERIALNO_LEN)'
    BY <1>1, <1>2 DEF TextInv
<1>7. Len(quoted) <= i /\ Copied(i)
    BY <1>1, <1>6 DEF TextInv
<1>8. ASSUME NEW k \in 0..Len(quoted) PROVE Final'[<<"serial", k>>] = AsQuoted(k)
  <2>1. k < i \/ (k = i /\ i = Len(quoted))
      BY <1>2, <1>7, TextCells
  <2>2. CASE k < i
      BY <1>2, <1>5, <1>7, <2>2, TextCells DEF Copied
  <2>3. CASE k = i /\ i = Len(quoted)
      BY <1>2, <1>5, <2>3, TextCells DEF AsQuoted
  <2> QED
      BY <2>1, <2>2, <2>3
<1> QED
    BY <1>1, <1>8 DEF Copied, AsQuoted

\* A boot: the text that was not being written is there whichever way the last write ended.
LEMMA TextBoot == ASSUME TextInv, ValueInv, PowerCycle PROVE TextInv'
<1>1. /\ eeprom' = eeprom \/ (pending # Idle /\ eeprom' = Written)
      /\ pc' = "poll" /\ pending' = Idle /\ quoted' = quoted /\ torn' = torn \cup InProgress
    BY DEF PowerCycle, Returned
<1>2. QuotedOK /\ QuotedOK' /\ MemoryInv
    BY <1>1 DEF TextInv, QuotedOK, ValueInv
<1>3. SUFFICES ASSUME "serial" \notin torn' PROVE Copied(SERIALNO_LEN)'
    BY <1>1, <1>2 DEF TextInv
<1>4. "serial" \notin torn /\ "serial" \notin InProgress
    BY <1>1, <1>3
<1>5. pc \notin {"serial", "terminate"}
    BY <1>4 DEF ValueInv, HandlerInv, InProgress
<1>6. pending # Idle => pending.cell[1] # "serial"
    BY <1>4 DEF InProgress
<1>7. Copied(SERIALNO_LEN)
    BY <1>4, <1>5 DEF TextInv
<1>8. \A k \in 0..Len(quoted) : Final'[<<"serial", k>>] = Final[<<"serial", k>>]
  <2>1. Final' = eeprom'
      BY <1>1 DEF Final
  <2>2. CASE pending = Idle
      BY <1>1, <2>1, <2>2 DEF Final
  <2>3. CASE pending # Idle
    <3>1. \A k \in 0..Len(quoted) : <<"serial", k>> \in Cells /\ <<"serial", k>> # pending.cell
      <4>1. \A k : <<"serial", k>>[1] = "serial"
          OBVIOUS
      <4>2. \A k : <<"serial", k>> # pending.cell
          BY <1>6, <2>3, <4>1
      <4> QED
          BY <1>2, <4>2, TextCells
    <3> QED
        BY <1>1, <1>2, <2>1, <2>3, <3>1 DEF Final, Written, MemoryInv
  <2> QED
      BY <2>2, <2>3
<1> QED
    BY <1>1, <1>7, <1>8 DEF Copied, AsQuoted

\* All of them.
LEMMA TextInvariant == Spec => []TextInv
<1>1. TextInv /\ ValueInv /\ [Next]_vars => TextInv'
  <2> SUFFICES ASSUME TextInv, ValueInv, [Next]_vars PROVE TextInv'
      OBVIOUS
  <2>1. CASE UseSetting
    <3>1. /\ pc = "use" /\ pc' = "write" /\ Final' = Final
          /\ UNCHANGED <<quoted, torn>>
        BY <2>1 DEF UseSetting, history, Final, Written
    <3> QED
        BY <3>1 DEF TextInv, QuotedOK, Copied, AsQuoted
  <2>2. CASE WriteEnds
    <3>1. Final' = Final /\ UNCHANGED <<pc, i, read_buffer, quoted, torn>>
        BY <2>2, FinalKept DEF WriteEnds, history
    <3> QED
        BY <3>1 DEF TextInv, QuotedOK, InBuffer, Copied, AsQuoted
  <2>3. CASE UNCHANGED vars
    <3>1. Final' = Final /\ UNCHANGED <<pc, i, read_buffer, quoted, torn>>
        BY <2>3 DEF vars, history, Final, Written
    <3> QED
        BY <3>1 DEF TextInv, QuotedOK, InBuffer, Copied, AsQuoted
  <2> QED
      BY <2>1, <2>2, <2>3, TextReceive, TextOther, TextSerial, TextTerminate, TextBoot DEF Next
<1> QED
    BY <1>1, TextInit, ValueInvariant, PTL DEF Spec

\* Once a $SSN has been carried out, a boot reads the text that stood between its quotes, for
\* every set of lines, every length of the serial number and whatever was there before.
THEOREM SerialQuotedCorrect == Spec => []SerialIsQuoted
<1>1. TextInv => SerialIsQuoted
  <2> SUFFICES ASSUME TextInv, pc = "poll", pending = Idle, "serial" \notin torn
               PROVE  String(StoredSerial(eeprom)) = quoted
      BY DEF SerialIsQuoted
  <2> DEFINE f == StoredSerial(eeprom)
             n == Len(quoted)
  <2>1. QuotedOK /\ Copied(SERIALNO_LEN) /\ Final = eeprom
      BY DEF TextInv, Final
  <2>2. n \in Nat /\ n < SERIALNO_LEN /\ \A k \in 0..n : k < SERIALNO_LEN /\ k \in SerialIndices
      BY <2>1, TextCells DEF QuotedOK, SerialIndices
  <2>3. \A k \in 0..n : f[k] = AsQuoted(k)
      BY <2>1, <2>2 DEF Copied, StoredSerial
  <2> HIDE DEF f
  <2>4. f[n] = 0
      BY <2>2, <2>3 DEF AsQuoted
  <2>5. ASSUME NEW k \in 0..n - 1 PROVE f[k] = quoted[k + 1] /\ k + 1 \in 1..n
      BY <2>2, <2>3 DEF AsQuoted
  <2>6. \A k \in 0..n - 1 : f[k] # 0
      BY <2>1, <2>5 DEF QuotedOK
  <2>7. String(f) = [k \in 1..n |-> f[k - 1]]
      BY <2>2, <2>4, <2>6, StringIs
  <2>8. \A k \in 1..n : f[k - 1] = quoted[k]
    <3> SUFFICES ASSUME NEW k \in 1..n PROVE f[k - 1] = quoted[k]
        OBVIOUS
    <3>1. k - 1 \in 0..n - 1 /\ (k - 1) + 1 = k
        BY <2>2
    <3> QED
        BY <2>5, <3>1
  <2>9. quoted = [k \in 1..n |-> quoted[k]]
      BY <2>1 DEF QuotedOK
  <2>10. String(f) = quoted
      BY <2>7, <2>8, <2>9
  <2> QED
      BY <2>10 DEF f
<1> QED
    BY <1>1, TextInvariant, PTL

-----------------------------------------------------------------------------
(* The data of an answer.                                                  *)

WordSet == [value : Nat, enc : 1..4]
Places == Nat \X Nat

\* Of the characters of all the words, a place is a word and one of its characters.
IsPlace(words, at) == at[1] \in 1..Len(words) /\ at[2] \in 1..words[at[1]].enc
After(words, at) ==
    IF at[2] < words[at[1]].enc THEN <<at[1], at[2] + 1>> ELSE <<at[1] + 1, 1>>
At(words, at) == Answer!Character(words[at[1]], at[2])

\* A text that holds the characters from one place up to another.
Carries(words, line, from, to) ==
    /\ line \in Seq(Nat)
    /\ \E f \in Seq(Places) :
          /\ Len(f) = Len(line) + 1 /\ f[1] = from /\ f[Len(line) + 1] = to
          /\ \A c \in 1..Len(line) :
                IsPlace(words, f[c]) /\ line[c] = At(words, f[c]) /\ f[c + 1] = After(words, f[c])

\* The number a host has after k characters of a word.
ReadOf(word, k) == IF k = 0 THEN 0 ELSE Answer!Shifted(word, k)

\* What is sent of a word fits its width.
LEMMA LimitedNat ==
    ASSUME NEW word \in WordSet
    PROVE  /\ Answer!Limited(word) \in Nat
           /\ word.enc = 1 => Answer!Limited(word) <= 63
           /\ word.enc = 2 => Answer!Limited(word) <= 4095
           /\ word.enc = 3 => Answer!Limited(word) <= 262143
           /\ word.enc = 4 => Answer!Limited(word) <= 16777215
<1>1. word.value \in Nat /\ word.enc \in 1..4
    BY DEF WordSet
<1>2. word.enc = 1 \/ word.enc = 2 \/ word.enc = 3 \/ word.enc = 4
    BY <1>1
<1>3. CASE word.enc = 1
    BY <1>1, <1>3 DEF Answer!Limited, Answer!enc_mask
<1>4. CASE word.enc = 2
    BY <1>1, <1>4 DEF Answer!Limited, Answer!enc_mask
<1>5. CASE word.enc = 3
    BY <1>1, <1>5 DEF Answer!Limited, Answer!enc_mask
<1>6. CASE word.enc = 4
    BY <1>1, <1>6 DEF Answer!Limited, Answer!enc_mask
<1> QED
    BY <1>2, <1>3, <1>4, <1>5, <1>6

\* What a host reads of a word of number x, one character after another.
LEMMA Horner ==
    ASSUME NEW x \in Nat
    PROVE  /\ x \div 1 = x
           /\ x <= 63 => x % 64 = x
           /\ x <= 4095 => (x \div 64) % 64 = x \div 64
           /\ x <= 262143 => (x \div 4096) % 64 = x \div 4096
           /\ x <= 16777215 => (x \div 262144) % 64 = x \div 262144
           /\ (x \div 64) * 64 + (x % 64) = x
           /\ (x \div 4096) * 64 + ((x \div 64) % 64) = x \div 64
           /\ (x \div 262144) * 64 + ((x \div 4096) % 64) = x \div 4096
    OBVIOUS

\* A character of a word is a number.
LEMMA CharacterNat ==
    ASSUME NEW word \in WordSet, NEW k \in 1..word.enc
    PROVE  /\ Answer!Shifted(word, k) \in Nat
           /\ Answer!Character(word, k) \in Nat
<1> DEFINE x == Answer!Limited(word)
<1>1. x \in Nat /\ word.enc \in 1..4
    BY LimitedNat DEF WordSet
<1> HIDE DEF x
<1>2. word.enc - k + 1 \in {1, 2, 3, 4}
    BY <1>1
<1> DEFINE d == <<1, 64, 4096, 262144>>[word.enc - k + 1]
<1>3. d \in Nat \ {0}
    BY <1>2
<1> HIDE DEF d
<1>4. x \div d \in Nat /\ (x \div d) % 64 \in 0..63
    BY <1>1, <1>3
<1> QED
    BY <1>4 DEF x, d, Answer!Shifted, Answer!Character, Answer!Base, Answer!Zero

\* A host that has read some characters of a word has, after one more, the number they make up;
\* and after all of them the word.
LEMMA ReadsOn ==
    ASSUME NEW word \in WordSet, NEW k \in 0..word.enc - 1
    PROVE  /\ ReadOf(word, k) \in Nat
           /\ ReadOf(word, k) * Answer!Base + (Answer!Character(word, k + 1) - Answer!Zero)
                = ReadOf(word, k + 1)
           /\ ReadOf(word, word.enc) = Answer!Limited(word)
<1> DEFINE x == Answer!Limited(word)
<1>1. /\ x \in Nat /\ word.enc \in 1..4
      /\ word.enc = 1 => x <= 63
      /\ word.enc = 2 => x <= 4095
      /\ word.enc = 3 => x <= 262143
      /\ word.enc = 4 => x <= 16777215
    BY LimitedNat DEF WordSet
<1> HIDE DEF x
<1> DEFINE shift == <<1, 64, 4096, 262144>>
<1>a. shift[1] = 1 /\ shift[2] = 64 /\ shift[3] = 4096 /\ shift[4] = 262144
    OBVIOUS
<1>2. \A n : Answer!Shifted(word, n) = x \div shift[word.enc - n + 1]
    BY DEF Answer!Shifted, x
<1> HIDE DEF shift
<1>b. x \div 1 = x
    BY <1>1
<1>3. \/ word.enc = 1 /\ k = 0
      \/ word.enc = 2 /\ (k = 0 \/ k = 1)
      \/ word.enc = 3 /\ (k = 0 \/ k = 1 \/ k = 2)
      \/ word.enc = 4 /\ (k = 0 \/ k = 1 \/ k = 2 \/ k = 3)
    BY <1>1
<1>4. /\ word.enc = 1 => Answer!Shifted(word, 1) = x
      /\ word.enc = 2 => Answer!Shifted(word, 1) = x \div 64 /\ Answer!Shifted(word, 2) = x
      /\ word.enc = 3 => /\ Answer!Shifted(word, 1) = x \div 4096
                         /\ Answer!Shifted(word, 2) = x \div 64 /\ Answer!Shifted(word, 3) = x
      /\ word.enc = 4 => /\ Answer!Shifted(word, 1) = x \div 262144
                         /\ Answer!Shifted(word, 2) = x \div 4096
                         /\ Answer!Shifted(word, 3) = x \div 64 /\ Answer!Shifted(word, 4) = x
  <2>1. CASE word.enc = 1
    <3>1. word.enc - 1 + 1 = 1
        BY <2>1
    <3> QED
        BY <2>1, <3>1, <1>2, <1>a, <1>b
  <2>2. CASE word.enc = 2
    <3>1. word.enc - 1 + 1 = 2 /\ word.enc - 2 + 1 = 1
        BY <2>2
    <3> QED
        BY <2>2, <3>1, <1>2, <1>a, <1>b
  <2>3. CASE word.enc = 3
    <3>1. word.enc - 1 + 1 = 3 /\ word.enc - 2 + 1 = 2 /\ word.enc - 3 + 1 = 1
        BY <2>3
    <3> QED
        BY <2>3, <3>1, <1>2, <1>a, <1>b
  <2>4. CASE word.enc = 4
    <3>1. word.enc - 1 + 1 = 4 /\ word.enc - 2 + 1 = 3 /\ word.enc - 3 + 1 = 2 /\ word.enc - 4 + 1 = 1
        BY <2>4
    <3> QED
        BY <2>4, <3>1, <1>2, <1>a, <1>b
  <2> QED
      BY <2>1, <2>2, <2>3, <2>4, <1>3
<1>5. Answer!Character(word, k + 1) - Answer!Zero = Answer!Shifted(word, k + 1) % 64
  <2>1. Answer!Shifted(word, k + 1) \in Nat
      BY <1>1, CharacterNat
  <2> QED
      BY <2>1 DEF Answer!Character, Answer!Zero, Answer!Base
<1>6. /\ x <= 63 => x % 64 = x
      /\ x <= 4095 => (x \div 64) % 64 = x \div 64
      /\ x <= 262143 => (x \div 4096) % 64 = x \div 4096
      /\ x <= 16777215 => (x \div 262144) % 64 = x \div 262144
      /\ (x \div 64) * 64 + (x % 64) = x
      /\ (x \div 4096) * 64 + ((x \div 64) % 64) = x \div 64
      /\ (x \div 262144) * 64 + ((x \div 4096) % 64) = x \div 4096
    BY <1>1, Horner
<1>7. ReadOf(word, k) * 64 + (Answer!Shifted(word, k + 1) % 64) = ReadOf(word, k + 1)
  <2> USE DEF ReadOf
  <2>1. CASE word.enc = 1
      BY <2>1, <1>1, <1>3, <1>4, <1>6
  <2>2. CASE word.enc = 2
      BY <2>2, <1>1, <1>3, <1>4, <1>6
  <2>3. CASE word.enc = 3
      BY <2>3, <1>1, <1>3, <1>4, <1>6
  <2>4. CASE word.enc = 4
      BY <2>4, <1>1, <1>3, <1>4, <1>6
  <2> QED
      BY <2>1, <2>2, <2>3, <2>4, <1>3
<1>8. ReadOf(word, k) \in Nat
    BY <1>1, CharacterNat DEF ReadOf
<1>9. ReadOf(word, word.enc) = x
    BY <1>1, <1>3, <1>4 DEF ReadOf
<1> QED
    BY <1>5, <1>7, <1>8, <1>9 DEF x, Answer!Base

\* From a place of a character the next place is one, and a word is there.
LEMMA PlaceAfter ==
    ASSUME NEW words \in Seq(WordSet), NEW at \in Places, IsPlace(words, at)
    PROVE  /\ After(words, at) \in Places /\ At(words, at) \in Nat
           /\ words[at[1]] \in WordSet
<1>1. words[at[1]] \in WordSet
    BY DEF IsPlace
<1>2. words[at[1]].enc \in 1..4
    BY <1>1 DEF WordSet
<1>3. at[1] \in Nat /\ at[2] \in Nat
    BY DEF Places
<1>4. After(words, at) \in Places
    BY <1>2, <1>3 DEF After, Places
<1>5. At(words, at) \in Nat
    BY <1>1, CharacterNat DEF At, IsPlace
<1> QED
    BY <1>1, <1>4, <1>5

\* An empty text carries nothing.
LEMMA CarriesNone ==
    ASSUME NEW words, NEW from \in Places, NEW to
    PROVE  Carries(words, <<>>, from, to) <=> from = to
<1>1. ASSUME from = to
      PROVE  Carries(words, <<>>, from, to)
  <2> DEFINE f == <<from>>
  <2>1. f \in Seq(Places) /\ Len(f) = Len(<<>>) + 1 /\ f[1] = from /\ f[Len(<<>>) + 1] = to
      BY <1>1
  <2>2. \A c \in 1..Len(<<>>) :
          IsPlace(words, f[c]) /\ <<>>[c] = At(words, f[c]) /\ f[c + 1] = After(words, f[c])
      OBVIOUS
  <2> HIDE DEF f
  <2>3. <<>> \in Seq(Nat)
      OBVIOUS
  <2> QED
      BY <2>1, <2>2, <2>3 DEF Carries
<1>2. ASSUME Carries(words, <<>>, from, to)
      PROVE  from = to
  <2>1. PICK f \in Seq(Places) : f[1] = from /\ f[Len(<<>>) + 1] = to
      BY <1>2 DEF Carries
  <2>2. Len(<<>>) + 1 = 1
      OBVIOUS
  <2> QED
      BY <2>1, <2>2
<1> QED
    BY <1>1, <1>2

\* A text grows by the character at its end.
LEMMA CarriesAppend ==
    ASSUME NEW words \in Seq(WordSet), NEW line, NEW from, NEW at \in Places,
           Carries(words, line, from, at), IsPlace(words, at)
    PROVE  Carries(words, Append(line, At(words, at)), from, After(words, at))
<1> DEFINE new == Append(line, At(words, at))
<1>1. line \in Seq(Nat) /\ At(words, at) \in Nat /\ After(words, at) \in Places
    BY PlaceAfter DEF Carries
<1>2. /\ new \in Seq(Nat) /\ Len(new) = Len(line) + 1 /\ Len(line) \in Nat
      /\ \A c \in 1..Len(line) : new[c] = line[c]
      /\ new[Len(line) + 1] = At(words, at)
    BY <1>1, AppendProperties
<1>3. PICK f \in Seq(Places) :
        /\ Len(f) = Len(line) + 1 /\ f[1] = from /\ f[Len(line) + 1] = at
        /\ \A c \in 1..Len(line) :
              IsPlace(words, f[c]) /\ line[c] = At(words, f[c]) /\ f[c + 1] = After(words, f[c])
    BY DEF Carries
<1> DEFINE g == Append(f, After(words, at))
<1>4. /\ g \in Seq(Places) /\ Len(g) = Len(f) + 1
      /\ \A c \in 1..Len(f) : g[c] = f[c]
      /\ g[Len(f) + 1] = After(words, at)
    BY <1>1, AppendProperties
<1> HIDE DEF new, g
<1>5. ASSUME NEW c \in 1..Len(new)
      PROVE  IsPlace(words, g[c]) /\ new[c] = At(words, g[c]) /\ g[c + 1] = After(words, g[c])
  <2>1. CASE c \in 1..Len(line)
    <3>1. c \in 1..Len(f) /\ c + 1 \in 1..Len(f)
        BY <2>1, <1>2, <1>3
    <3> QED
        BY <2>1, <3>1, <1>2, <1>3, <1>4
  <2>2. CASE c = Len(line) + 1
    <3>1. c \in 1..Len(f) /\ c = Len(f)
        BY <2>2, <1>2, <1>3
    <3>2. g[c] = at
        BY <2>2, <3>1, <1>3, <1>4
    <3> QED
        BY <2>2, <3>1, <3>2, <1>2, <1>4
  <2> QED
      BY <2>1, <2>2, <1>2
<1>6. g[1] = from /\ g[Len(new) + 1] = After(words, at) /\ Len(g) = Len(new) + 1
    BY <1>2, <1>3, <1>4
<1>7. Carries(words, new, from, After(words, at))
    BY <1>2, <1>4, <1>5, <1>6 DEF Carries
<1> QED
    BY <1>7 DEF new

\* The first character of a text is the one at its beginning.
LEMMA CarriesHead ==
    ASSUME NEW words \in Seq(WordSet), NEW line, NEW from \in Places, NEW to, line # <<>>,
           Carries(words, line, from, to)
    PROVE  /\ IsPlace(words, from) /\ Head(line) = At(words, from)
           /\ Carries(words, Tail(line), After(words, from), to)
<1> DEFINE new == Tail(line)
<1>1. line \in Seq(Nat)
    BY DEF Carries
<1>2. /\ new \in Seq(Nat) /\ Len(new) = Len(line) - 1 /\ Len(line) \in Nat \ {0}
      /\ \A c \in 1..Len(new) : new[c] = line[c + 1]
      /\ Head(line) = line[1]
    BY <1>1, HeadTailProperties
<1>3. PICK f \in Seq(Places) :
        /\ Len(f) = Len(line) + 1 /\ f[1] = from /\ f[Len(line) + 1] = to
        /\ \A c \in 1..Len(line) :
              IsPlace(words, f[c]) /\ line[c] = At(words, f[c]) /\ f[c + 1] = After(words, f[c])
    BY DEF Carries
<1>4. f # <<>>
    BY <1>2, <1>3
<1> DEFINE g == Tail(f)
<1>5. /\ g \in Seq(Places) /\ Len(g) = Len(f) - 1
      /\ \A c \in 1..Len(g) : g[c] = f[c + 1]
    BY <1>4, HeadTailProperties
<1>6. 1 \in 1..Len(line) /\ 1 + 1 = 2
    BY <1>2
<1>7. IsPlace(words, from) /\ Head(line) = At(words, from) /\ f[2] = After(words, from)
    BY <1>2, <1>3, <1>6
<1> HIDE DEF new, g
<1>8. ASSUME NEW c \in 1..Len(new)
      PROVE  IsPlace(words, g[c]) /\ new[c] = At(words, g[c]) /\ g[c + 1] = After(words, g[c])
  <2>1. c + 1 \in 1..Len(line) /\ c \in 1..Len(g) /\ c + 1 \in 1..Len(g)
      BY <1>2, <1>3, <1>5
  <2> QED
      BY <2>1, <1>2, <1>3, <1>5
<1>9. g[1] = After(words, from) /\ g[Len(new) + 1] = to /\ Len(g) = Len(new) + 1
  <2>1. 1 \in 1..Len(g) /\ Len(new) + 1 \in 1..Len(g) /\ Len(new) + 1 + 1 = Len(line) + 1
      BY <1>2, <1>3, <1>5
  <2> QED
      BY <2>1, <1>2, <1>3, <1>5, <1>6, <1>7
<1>10. Carries(words, new, After(words, from), to)
    BY <1>2, <1>5, <1>8, <1>9 DEF Carries
<1> QED
    BY <1>7, <1>10 DEF new

\* The characters of a word are the ones up to the next word.
LEMMA CarriesWord ==
    ASSUME NEW words \in Seq(WordSet), NEW n \in 1..Len(words)
    PROVE  Carries(words, Answer!Characters(words[n]), <<n, 1>>, <<n + 1, 1>>)
<1> DEFINE line == Answer!Characters(words[n])
           width == words[n].enc
           f == [c \in 1..width + 1 |-> IF c <= width THEN <<n, c>> ELSE <<n + 1, 1>>]
<1>0. words[n] \in WordSet
    OBVIOUS
<1>1. words[n] \in WordSet /\ width \in 1..4
    BY <1>0 DEF WordSet
<1>2. \A k \in 1..width : Answer!Character(words[n], k) \in Nat
    BY <1>1, CharacterNat
<1>3. /\ line \in Seq(Nat) /\ Len(line) = width
      /\ \A c \in 1..width : line[c] = Answer!Character(words[n], c)
  <2>1. line = [k \in 1..width |-> Answer!Character(words[n], k)]
      BY DEF Answer!Characters
  <2> DEFINE C(k) == Answer!Character(words[n], k)
  <2> HIDE DEF line, C, width
  <2>2. line = [k \in 1..width |-> C(k)] /\ \A k \in 1..width : C(k) \in Nat
      BY <2>1, <1>2 DEF C, width
  <2>3. line \in Seq(Nat) /\ Len(line) = width /\ \A c \in 1..width : line[c] = C(c)
      BY <2>2, <1>1, IsASeq
  <2> QED
      BY <2>3 DEF C
<1>4. f \in Seq(Places) /\ Len(f) = width + 1
  <2>1. \A c \in 1..width + 1 : (IF c <= width THEN <<n, c>> ELSE <<n + 1, 1>>) \in Places
      BY <1>1 DEF Places
  <2> HIDE DEF width
  <2> QED
      BY <2>1, <1>1
<1>5. (\A c \in 1..width : f[c] = <<n, c>>) /\ f[width + 1] = <<n + 1, 1>>
  <2> HIDE DEF width
  <2>1. \A c \in 1..width : c \in 1..width + 1 /\ c <= width
      BY <1>1
  <2>2. width + 1 \in 1..width + 1 /\ ~(width + 1 <= width)
      BY <1>1
  <2> QED
      BY <2>1, <2>2
<1> HIDE DEF f, line
<1>6. f[1] = <<n, 1>> /\ f[width + 1] = <<n + 1, 1>>
  <2>1. 1 \in 1..width
      BY <1>1
  <2> QED
      BY <2>1, <1>5
<1>7. ASSUME NEW c \in 1..width
      PROVE  IsPlace(words, f[c]) /\ line[c] = At(words, f[c]) /\ f[c + 1] = After(words, f[c])
  <2>1. f[c] = <<n, c>>
      BY <1>5
  <2>2. f[c + 1] = After(words, f[c])
    <3>1. CASE c < width
      <4>1. c + 1 \in 1..width
          BY <3>1, <1>1
      <4>2. f[c + 1] = <<n, c + 1>>
          BY <4>1, <1>5
      <4>3. After(words, <<n, c>>) = <<n, c + 1>>
          BY <3>1 DEF After
      <4> QED
          BY <2>1, <4>2, <4>3
    <3>2. CASE c = width
        BY <2>1, <3>2, <1>1, <1>5 DEF After
    <3> QED
        BY <3>1, <3>2, <1>1
  <2> QED
      BY <2>1, <2>2, <1>3 DEF IsPlace, At
<1>8. Carries(words, line, <<n, 1>>, <<n + 1, 1>>)
    BY <1>3, <1>4, <1>6, <1>7 DEF Carries
<1> QED
    BY <1>8 DEF line

AnswerLines == {Answer!Response(line) : line \in Seq(Nat)}

\* The places at which the lines begin and the next one will.
Chain(words, lines, begin) ==
    /\ begin \in Seq(Places) /\ Len(begin) = Len(lines) + 1
    /\ \A k \in 1..Len(lines) : Carries(words, Answer!Payload(lines[k]), begin[k], begin[k + 1])

\* The places after the next line, which ends before another one, is added to the lines.
Longer(words, lines, begin, at, more, longer) ==
    /\ Chain(words, more, longer)
    /\ \A k \in 1..Len(lines) + 1 : longer[k] = begin[k]
    /\ longer[Len(lines) + 1 + 1] = at

\* What is left of the words is the end of them.
Remaining(words, left) ==
    /\ words \in Seq(WordSet) /\ left \in Seq(WordSet) /\ Len(left) <= Len(words)
    /\ \A k \in 1..Len(left) : left[k] = words[Len(words) - Len(left) + k]

SenderInv ==
    /\ Remaining(input, data)
    /\ sent \in Seq(AnswerLines) /\ done \in BOOLEAN
    /\ done => data = <<>> /\ encorded = <<>> /\ buf = <<>>

HostInv ==
    /\ taken \in 0..Len(sent) /\ digit \in Nat
    /\ read \in Seq(Nat) /\ Len(read) <= Len(input)
    /\ Len(read) < Len(input) => /\ digit < input[Len(read) + 1].enc
                                 /\ partial = ReadOf(input[Len(read) + 1], digit)
    /\ Len(read) = Len(input) => digit = 0
    /\ \A n \in 1..Len(read) : read[n] = Answer!Limited(input[n])

Path(begin, at) ==
    /\ Chain(input, sent, begin) /\ at \in Places
    /\ Carries(input, buf, begin[Len(sent) + 1], at)
    /\ Carries(input, encorded, at, <<Len(input) - Len(data) + 1, 1>>)
    /\ Carries(input, rest, <<Len(read) + 1, digit + 1>>, begin[taken + 1])

AnswerInv ==
    /\ SenderInv /\ HostInv
    /\ \E begin \in Seq(Places), at \in Places : Path(begin, at)

\* A line is the block and its checksum.
LEMMA LinePayload ==
    ASSUME NEW line \in Seq(Nat)
    PROVE  /\ Answer!Payload(Answer!Response(line)) = line
           /\ Len(Answer!Response(line)) = Len(line) + 1
           /\ Answer!Response(line) \in AnswerLines
<1> DEFINE check == Answer!Zero + (Answer!Sum(line) % Answer!Base)
           all == Nat \cup {check}
           whole == Append(line, check)
<1>1. Answer!Response(line) = whole
    BY DEF Answer!Response
<1> HIDE DEF check
<1>2. line \in Seq(all) /\ check \in all
    BY SeqMonotonic
<1>3. /\ Len(whole) = Len(line) + 1 /\ Len(line) \in Nat
      /\ \A k \in 1..Len(line) : whole[k] = line[k]
    BY <1>2, AppendProperties
<1> HIDE DEF whole, all
<1>4. Answer!Payload(whole) = SubSeq(whole, 1, Len(line))
    BY <1>3 DEF Answer!Payload
<1> DEFINE payload == SubSeq(whole, 1, Len(line))
<1>5. /\ payload \in Seq(Nat) /\ Len(payload) = Len(line)
      /\ \A k \in 1..Len(line) : payload[k] = line[k]
  <2>1. \A k \in 1..Len(line) : whole[k] \in Nat
      BY <1>3
  <2>2. /\ payload \in Seq(Nat)
        /\ Len(payload) = IF 1 <= Len(line) THEN Len(line) - 1 + 1 ELSE 0
        /\ \A k \in 1..Len(line) - 1 + 1 : payload[k] = whole[1 + k - 1]
      BY <2>1, <1>3, SubSeqProperties
  <2>3. \A k \in 1..Len(line) : k \in 1..Len(line) - 1 + 1 /\ 1 + k - 1 = k
      BY <1>3
  <2> HIDE DEF payload
  <2> QED
      BY <2>2, <2>3, <1>3
<1>6. payload = line
  <2> HIDE DEF payload
  <2> QED
      BY <1>5, SeqEqual
<1> QED
    BY <1>1, <1>3, <1>4, <1>6 DEF AnswerLines

\* A host finds the checksum of a line right.
LEMMA LineChecked ==
    ASSUME NEW line \in AnswerLines
    PROVE  Answer!Checked(line)
<1>1. PICK block \in Seq(Nat) : line = Answer!Response(block)
    BY DEF AnswerLines
<1> QED
    BY <1>1, LinePayload DEF Answer!Checked

\* A block is sent.
LEMMA ChainAppend ==
    ASSUME NEW words, NEW lines \in Seq(AnswerLines), NEW begin, NEW line, NEW at \in Places,
           Chain(words, lines, begin), Carries(words, line, begin[Len(lines) + 1], at)
    PROVE  /\ Append(lines, Answer!Response(line)) \in Seq(AnswerLines)
           /\ Len(Append(lines, Answer!Response(line))) = Len(lines) + 1
           /\ \E longer \in Seq(Places) :
                 Longer(words, lines, begin, at, Append(lines, Answer!Response(line)), longer)
<1> DEFINE new == Append(lines, Answer!Response(line))
           longer == Append(begin, at)
<1>1. line \in Seq(Nat)
    BY DEF Carries
<1>2. Answer!Payload(Answer!Response(line)) = line /\ Answer!Response(line) \in AnswerLines
    BY <1>1, LinePayload
<1>3. /\ new \in Seq(AnswerLines) /\ Len(new) = Len(lines) + 1 /\ Len(lines) \in Nat
      /\ \A k \in 1..Len(lines) : new[k] = lines[k]
      /\ new[Len(lines) + 1] = Answer!Response(line)
    BY <1>2, AppendProperties
<1>4. /\ begin \in Seq(Places) /\ Len(begin) = Len(lines) + 1
      /\ \A k \in 1..Len(lines) : Carries(words, Answer!Payload(lines[k]), begin[k], begin[k + 1])
    BY DEF Chain
<1>5. /\ longer \in Seq(Places) /\ Len(longer) = Len(begin) + 1
      /\ \A k \in 1..Len(begin) : longer[k] = begin[k]
      /\ longer[Len(begin) + 1] = at
    BY <1>4, AppendProperties
<1> HIDE DEF new, longer
<1>6. ASSUME NEW k \in 1..Len(new)
      PROVE  Carries(words, Answer!Payload(new[k]), longer[k], longer[k + 1])
  <2>1. CASE k \in 1..Len(lines)
    <3>1. k \in 1..Len(begin) /\ k + 1 \in 1..Len(begin)
        BY <2>1, <1>3, <1>4
    <3>2. new[k] = lines[k] /\ longer[k] = begin[k] /\ longer[k + 1] = begin[k + 1]
        BY <2>1, <3>1, <1>3, <1>5
    <3> QED
        BY <2>1, <3>2, <1>4
  <2>2. CASE k = Len(lines) + 1
    <3>1. k \in 1..Len(begin) /\ k = Len(begin)
        BY <2>2, <1>3, <1>4
    <3>2. longer[k] = begin[Len(lines) + 1] /\ longer[k + 1] = at
        BY <2>2, <3>1, <1>5
    <3>3. Answer!Payload(new[k]) = line
        BY <2>2, <1>2, <1>3
    <3> QED
        BY <3>2, <3>3
  <2> QED
      BY <2>1, <2>2, <1>3
<1>7. Chain(words, new, longer)
    BY <1>3, <1>4, <1>5, <1>6 DEF Chain
<1>8. (\A k \in 1..Len(lines) + 1 : longer[k] = begin[k]) /\ longer[Len(lines) + 1 + 1] = at
    BY <1>4, <1>5
<1>9. \E more \in Seq(Places) :
        Longer(words, lines, begin, at, new, more)
    BY <1>5, <1>7, <1>8 DEF Longer
<1> QED
    BY <1>3, <1>9 DEF new

\* The sender takes the next word.
LEMMA AnswerEncode ==
    ASSUME AnswerInv, Answer!Encode
    PROVE  AnswerInv'
<1>1. /\ encorded = <<>> /\ data # <<>> /\ encorded' = Answer!Characters(Head(data))
      /\ data' = Tail(data)
      /\ UNCHANGED <<input, buf, sent, done, taken, rest, partial, digit, read>>
      /\ SenderInv /\ HostInv
    BY DEF Answer!Encode, Answer!receiver, AnswerInv
<1>2. PICK begin \in Seq(Places), at \in Places : Path(begin, at)
    BY DEF AnswerInv
<1> DEFINE n == Len(input) - Len(data) + 1
<1>3. /\ input \in Seq(WordSet) /\ data \in Seq(WordSet) /\ Len(data) <= Len(input)
      /\ \A k \in 1..Len(data) : data[k] = input[Len(input) - Len(data) + k]
    BY <1>1 DEF SenderInv, Remaining
<1>4. n \in 1..Len(input) /\ Head(data) = input[n] /\ n \in Nat
  <2>1. Len(data) \in Nat \ {0} /\ Len(input) \in Nat /\ Head(data) = data[1] /\ 1 \in 1..Len(data)
      BY <1>1, <1>3
  <2>2. n \in 1..Len(input)
      BY <2>1, <1>3
  <2> QED
      BY <2>1, <2>2, <1>3
<1>5. /\ Tail(data) \in Seq(WordSet) /\ Len(Tail(data)) = Len(data) - 1
      /\ \A k \in 1..Len(Tail(data)) : Tail(data)[k] = data[k + 1]
    BY <1>1, <1>3, HeadTailProperties
<1>6. Remaining(input, Tail(data))
  <2>1. ASSUME NEW k \in 1..Len(Tail(data))
        PROVE  Tail(data)[k] = input[Len(input) - Len(Tail(data)) + k]
    <3>1. k + 1 \in 1..Len(data) /\ Len(input) - Len(Tail(data)) + k = Len(input) - Len(data) + (k + 1)
        BY <1>3, <1>5
    <3> QED
        BY <3>1, <1>3, <1>5
  <2>2. Len(Tail(data)) <= Len(input)
      BY <1>3, <1>5
  <2> QED
      BY <2>1, <2>2, <1>3, <1>5 DEF Remaining
<1>7. ~done
    BY <1>1 DEF SenderInv
<1>8. SenderInv' /\ HostInv'
  <2>1. SenderInv'
      BY <1>1, <1>6, <1>7 DEF SenderInv
  <2>2. HostInv'
      BY <1>1 DEF HostInv
  <2> QED
      BY <2>1, <2>2
<1>9. at = <<n, 1>>
    BY <1>1, <1>2, CarriesNone DEF Path
<1>10. n + 1 = Len(input) - Len(Tail(data)) + 1
    BY <1>3, <1>5
<1>11. Carries(input, Answer!Characters(input[n]), <<n, 1>>, <<n + 1, 1>>)
    BY <1>3, <1>4, CarriesWord
<1>12. Path(begin, at)'
  <2>1. Carries(input, encorded', at, <<Len(input) - Len(data') + 1, 1>>)
      BY <1>1, <1>4, <1>9, <1>10, <1>11
  <2> QED
      BY <1>1, <1>2, <2>1 DEF Path
<1> QED
    BY <1>8, <1>12 DEF AnswerInv

\* The sender puts a character into the block, and sends the block when it is full.
LEMMA AnswerPut ==
    ASSUME AnswerInv, Answer!Put
    PROVE  AnswerInv'
<1>0. PICK line : line = Append(buf, Head(encorded))
    OBVIOUS
<1>1. /\ encorded # <<>> /\ encorded' = Tail(encorded)
      /\ \/ sent' = Append(sent, Answer!Response(line)) /\ buf' = <<>>
         \/ buf' = line /\ sent' = sent
      /\ UNCHANGED <<input, data, done, taken, rest, partial, digit, read>>
      /\ SenderInv /\ HostInv
    BY <1>0 DEF Answer!Put, Answer!receiver, AnswerInv
<1>2. PICK begin \in Seq(Places), at \in Places : Path(begin, at)
    BY DEF AnswerInv
<1>3. /\ input \in Seq(WordSet) /\ sent \in Seq(AnswerLines) /\ taken \in 0..Len(sent)
      /\ Len(sent) \in Nat
    BY <1>1 DEF SenderInv, HostInv, Remaining
<1> DEFINE last == <<Len(input) - Len(data) + 1, 1>>
<1>4. /\ Chain(input, sent, begin)
      /\ Carries(input, buf, begin[Len(sent) + 1], at)
      /\ Carries(input, encorded, at, last)
      /\ Carries(input, rest, <<Len(read) + 1, digit + 1>>, begin[taken + 1])
    BY <1>2 DEF Path
<1>5. /\ IsPlace(input, at) /\ Head(encorded) = At(input, at)
      /\ Carries(input, Tail(encorded), After(input, at), last)
    BY <1>1, <1>3, <1>4, CarriesHead
<1>6. PICK next \in Places : next = After(input, at)
    BY <1>3, <1>5, PlaceAfter
<1>7. Carries(input, line, begin[Len(sent) + 1], next)
    BY <1>0, <1>3, <1>4, <1>5, <1>6, CarriesAppend
<1>8. ~done
    BY <1>1 DEF SenderInv
<1>9. CASE sent' = Append(sent, Answer!Response(line)) /\ buf' = <<>>
  <2>0. PICK longer \in Seq(Places) :
          Longer(input, sent, begin, next, Append(sent, Answer!Response(line)), longer)
      BY <1>3, <1>4, <1>7, ChainAppend
  <2>1. /\ Chain(input, sent', longer) /\ sent' \in Seq(AnswerLines) /\ Len(sent') = Len(sent) + 1
        /\ \A k \in 1..Len(sent) + 1 : longer[k] = begin[k]
        /\ longer[Len(sent) + 1 + 1] = next
      BY <1>3, <1>4, <1>7, <1>9, <2>0, ChainAppend DEF Longer
  <2>a. taken + 1 \in 1..Len(sent) + 1 /\ Len(sent') + 1 = Len(sent) + 1 + 1
      BY <2>1, <1>3
  <2>2. longer[taken + 1] = begin[taken + 1] /\ longer[Len(sent') + 1] = next
      BY <2>1, <2>a
  <2>3. Carries(input, buf', longer[Len(sent') + 1], next)
      BY <1>6, <1>9, <2>2, CarriesNone
  <2>4. Path(longer, next)'
    <3>1. Carries(input, rest, <<Len(read) + 1, digit + 1>>, longer[taken + 1])
        BY <1>4, <2>2
    <3>2. (<<Len(input) - Len(data) + 1, 1>>)' = last
        BY <1>1
    <3>3. Carries(input, encorded', next, last)
        BY <1>1, <1>5, <1>6
    <3> QED
        BY <1>1, <1>6, <2>1, <2>3, <3>1, <3>2, <3>3 DEF Path
  <2>5. SenderInv'
      BY <1>1, <1>8, <2>1 DEF SenderInv
  <2>6. HostInv'
    <3>1. taken' \in 0..Len(sent')
        BY <1>1, <1>3, <2>1
    <3> QED
        BY <1>1, <3>1 DEF HostInv
  <2> QED
      BY <2>1, <2>4, <2>5, <2>6, <1>6 DEF AnswerInv
<1>10. CASE buf' = line /\ sent' = sent
  <2>1. Path(begin, next)'
    <3>1. (<<Len(input) - Len(data) + 1, 1>>)' = last
        BY <1>1
    <3>2. Carries(input, encorded', next, last)
        BY <1>1, <1>5, <1>6
    <3> QED
        BY <1>1, <1>4, <1>6, <1>7, <1>10, <3>1, <3>2 DEF Path
  <2>2. SenderInv' /\ HostInv'
      BY <1>1, <1>8, <1>10 DEF SenderInv, HostInv
  <2> QED
      BY <2>1, <2>2, <1>6 DEF AnswerInv
<1> QED
    BY <1>1, <1>9, <1>10

\* The sender sends what remains.
LEMMA AnswerFinish ==
    ASSUME AnswerInv, Answer!Finish
    PROVE  AnswerInv'
<1>1. /\ encorded = <<>> /\ data = <<>> /\ done' = TRUE
      /\ \/ sent' = Append(sent, Answer!Response(buf)) /\ buf' = <<>>
         \/ buf = <<>> /\ buf' = buf /\ sent' = sent
      /\ UNCHANGED <<input, data, encorded, taken, rest, partial, digit, read>>
      /\ SenderInv /\ HostInv
    BY DEF Answer!Finish, Answer!Remains, Answer!receiver, AnswerInv
<1>2. PICK begin \in Seq(Places), at \in Places : Path(begin, at)
    BY DEF AnswerInv
<1>3. /\ input \in Seq(WordSet) /\ sent \in Seq(AnswerLines) /\ taken \in 0..Len(sent)
      /\ Len(sent) \in Nat
    BY <1>1 DEF SenderInv, HostInv, Remaining
<1>4. /\ Chain(input, sent, begin)
      /\ Carries(input, buf, begin[Len(sent) + 1], at)
      /\ Carries(input, encorded, at, <<Len(input) - Len(data) + 1, 1>>)
      /\ Carries(input, rest, <<Len(read) + 1, digit + 1>>, begin[taken + 1])
    BY <1>2 DEF Path
<1>5. CASE sent' = Append(sent, Answer!Response(buf)) /\ buf' = <<>>
  <2>0. PICK longer \in Seq(Places) :
          Longer(input, sent, begin, at, Append(sent, Answer!Response(buf)), longer)
      BY <1>3, <1>4, ChainAppend
  <2>1. /\ Chain(input, sent', longer) /\ sent' \in Seq(AnswerLines) /\ Len(sent') = Len(sent) + 1
        /\ \A k \in 1..Len(sent) + 1 : longer[k] = begin[k]
        /\ longer[Len(sent) + 1 + 1] = at
      BY <1>3, <1>4, <1>5, <2>0, ChainAppend DEF Longer
  <2>a. taken + 1 \in 1..Len(sent) + 1 /\ Len(sent') + 1 = Len(sent) + 1 + 1
      BY <2>1, <1>3
  <2>2. longer[taken + 1] = begin[taken + 1] /\ longer[Len(sent') + 1] = at
      BY <2>1, <2>a
  <2>3. Carries(input, buf', longer[Len(sent') + 1], at)
      BY <1>5, <2>2, CarriesNone
  <2>4. Path(longer, at)'
    <3>1. Carries(input, rest, <<Len(read) + 1, digit + 1>>, longer[taken + 1])
        BY <1>4, <2>2
    <3> QED
        BY <1>1, <1>4, <2>1, <2>3, <3>1 DEF Path
  <2>5. SenderInv'
      BY <1>1, <1>5, <2>1 DEF SenderInv
  <2>6. HostInv'
    <3>1. taken' \in 0..Len(sent')
        BY <1>1, <1>3, <2>1
    <3> QED
        BY <1>1, <3>1 DEF HostInv
  <2> QED
      BY <2>1, <2>4, <2>5, <2>6 DEF AnswerInv
<1>6. CASE buf = <<>> /\ buf' = buf /\ sent' = sent
  <2>1. Path(begin, at)'
      BY <1>1, <1>2, <1>6 DEF Path
  <2>2. SenderInv' /\ HostInv'
      BY <1>1, <1>6 DEF SenderInv, HostInv
  <2> QED
      BY <2>1, <2>2 DEF AnswerInv
<1> QED
    BY <1>1, <1>5, <1>6

\* The host takes a line.
LEMMA AnswerTakeLine ==
    ASSUME AnswerInv, Answer!TakeLine
    PROVE  AnswerInv'
<1>1. /\ rest = <<>> /\ taken < Len(sent) /\ rest' = Answer!Payload(sent[taken + 1])
      /\ taken' = taken + 1
      /\ UNCHANGED <<input, data, encorded, buf, sent, done, partial, digit, read>>
      /\ SenderInv /\ HostInv
    BY DEF Answer!TakeLine, Answer!sender, AnswerInv
<1>2. PICK begin \in Seq(Places), at \in Places : Path(begin, at)
    BY DEF AnswerInv
<1>3. taken \in 0..Len(sent) /\ Len(sent) \in Nat /\ Len(read) \in Nat /\ digit \in Nat
    BY <1>1 DEF SenderInv, HostInv
<1>4. /\ Chain(input, sent, begin)
      /\ Carries(input, rest, <<Len(read) + 1, digit + 1>>, begin[taken + 1])
    BY <1>2 DEF Path
<1>5. <<Len(read) + 1, digit + 1>> = begin[taken + 1]
  <2>1. <<Len(read) + 1, digit + 1>> \in Places
      BY <1>3 DEF Places
  <2> QED
      BY <2>1, <1>1, <1>4, CarriesNone
<1>6. Carries(input, Answer!Payload(sent[taken + 1]), begin[taken + 1], begin[taken + 1 + 1])
  <2>1. taken + 1 \in 1..Len(sent)
      BY <1>1, <1>3
  <2> QED
      BY <2>1, <1>4 DEF Chain
<1>7. Path(begin, at)'
  <2>1. Carries(input, rest', <<Len(read) + 1, digit + 1>>, begin[taken' + 1])
      BY <1>1, <1>5, <1>6
  <2> QED
      BY <2>1, <1>1, <1>2 DEF Path
<1>8. SenderInv' /\ HostInv'
  <2>1. taken' \in 0..Len(sent')
      BY <1>1, <1>3
  <2> QED
      BY <2>1, <1>1 DEF SenderInv, HostInv
<1> QED
    BY <1>7, <1>8 DEF AnswerInv

\* The host reads a character.
LEMMA AnswerTakeCharacter ==
    ASSUME AnswerInv, Answer!TakeCharacter
    PROVE  AnswerInv'
<1> DEFINE number == partial * Answer!Base + (Head(rest) - Answer!Zero)
<1>1. /\ rest # <<>> /\ Len(read) < Len(input) /\ rest' = Tail(rest)
      /\ \/ /\ digit + 1 = input[Len(read) + 1].enc
            /\ read' = Append(read, number) /\ partial' = 0 /\ digit' = 0
         \/ /\ digit + 1 # input[Len(read) + 1].enc
            /\ partial' = number /\ digit' = digit + 1 /\ read' = read
      /\ UNCHANGED <<input, data, encorded, buf, sent, done, taken>>
      /\ SenderInv /\ HostInv
    BY DEF Answer!TakeCharacter, Answer!sender, AnswerInv
<1>2. PICK begin \in Seq(Places), at \in Places : Path(begin, at)
    BY DEF AnswerInv
<1>3. PICK n \in Nat : n = Len(read)
    BY <1>1 DEF HostInv
<1>4. PICK d \in Nat : d = digit
    BY <1>1 DEF HostInv
<1>5. /\ input \in Seq(WordSet) /\ n + 1 \in 1..Len(input) /\ Len(input) \in Nat
      /\ d < input[n + 1].enc /\ partial = ReadOf(input[n + 1], d)
      /\ read \in Seq(Nat)
      /\ \A m \in 1..n : read[m] = Answer!Limited(input[m])
  <2>1. input \in Seq(WordSet) /\ Len(input) \in Nat
      BY <1>1 DEF SenderInv, Remaining
  <2>2. n + 1 \in 1..Len(input)
      BY <2>1, <1>1, <1>3
  <2> QED
      BY <2>1, <2>2, <1>1, <1>3, <1>4 DEF HostInv
<1>6. PICK word \in WordSet : word = input[n + 1]
    BY <1>5
<1>7. word.enc \in 1..4 /\ d \in 0..word.enc - 1 /\ partial = ReadOf(word, d)
  <2>1. word.enc \in 1..4
      BY DEF WordSet
  <2>2. d < word.enc /\ partial = ReadOf(word, d)
      BY <1>5, <1>6
  <2> QED
      BY <2>1, <2>2
<1> DEFINE from == <<n + 1, d + 1>>
<1>8. from \in Places
    BY DEF Places
<1>9. Carries(input, rest, from, begin[taken + 1])
    BY <1>2, <1>3, <1>4 DEF Path
<1>10. /\ Head(rest) = At(input, from)
       /\ Carries(input, Tail(rest), After(input, from), begin[taken + 1])
    BY <1>1, <1>5, <1>8, <1>9, CarriesHead
<1>11. Head(rest) = Answer!Character(word, d + 1)
    BY <1>6, <1>10 DEF At
<1>12. number = ReadOf(word, d + 1) /\ ReadOf(word, word.enc) = Answer!Limited(word)
    BY <1>7, <1>11, ReadsOn
<1> HIDE DEF number
<1>13. SenderInv'
    BY <1>1 DEF SenderInv
<1>14. CASE /\ digit + 1 = input[Len(read) + 1].enc
            /\ read' = Append(read, number) /\ partial' = 0 /\ digit' = 0
  <2>1. d + 1 = word.enc
      BY <1>3, <1>4, <1>6, <1>14
  <2>2. number = Answer!Limited(word) /\ number \in Nat
      BY <2>1, <1>12, LimitedNat
  <2>3. /\ read' \in Seq(Nat) /\ Len(read') = n + 1
        /\ \A m \in 1..n : read'[m] = read[m]
        /\ read'[n + 1] = number
    <3>1. /\ Append(read, number) \in Seq(Nat) /\ Len(Append(read, number)) = Len(read) + 1
          /\ \A m \in 1..Len(read) : Append(read, number)[m] = read[m]
          /\ Append(read, number)[Len(read) + 1] = number
        BY <1>5, <2>2, AppendProperties
    <3> QED
        BY <3>1, <1>3, <1>14
  <2>4. \A m \in 1..n + 1 : read'[m] = Answer!Limited(input[m])
    <3>1. SUFFICES ASSUME NEW m \in 1..n + 1 PROVE read'[m] = Answer!Limited(input[m])
        OBVIOUS
    <3>2. CASE m \in 1..n
        BY <3>2, <2>3, <1>5
    <3>3. CASE m = n + 1
        BY <3>3, <2>2, <2>3, <1>6
    <3> QED
        BY <3>2, <3>3
  <2>5. Len(read') < Len(input) =>
          digit' < input[Len(read') + 1].enc /\ partial' = ReadOf(input[Len(read') + 1], digit')
    <3>1. SUFFICES ASSUME n + 1 < Len(input)
                   PROVE  0 < input[n + 1 + 1].enc /\ 0 = ReadOf(input[n + 1 + 1], 0)
        BY <2>3, <1>14
    <3>2. n + 1 + 1 \in 1..Len(input)
        BY <3>1, <1>5
    <3>3. input[n + 1 + 1] \in WordSet
        BY <3>2, <1>5
    <3> QED
        BY <3>3 DEF WordSet, ReadOf
  <2>6. HostInv'
    <3>1. Len(read') <= Len(input) /\ digit' \in Nat
        BY <2>3, <1>5, <1>14
    <3> QED
        BY <3>1, <2>3, <2>4, <2>5, <1>1, <1>14 DEF HostInv
  <2>7. After(input, from) = <<n + 1 + 1, 1>>
      BY <2>1, <1>6 DEF After
  <2>8. Path(begin, at)'
    <3>1. Carries(input, rest', <<Len(read') + 1, digit' + 1>>, begin[taken + 1])
      <4>1. <<Len(read') + 1, digit' + 1>> = <<n + 1 + 1, 1>>
          BY <2>3, <1>14
      <4>2. Carries(input, Tail(rest), <<n + 1 + 1, 1>>, begin[taken + 1])
          BY <2>7, <1>10
      <4> QED
          BY <4>1, <4>2, <1>1
    <3> QED
        BY <3>1, <1>1, <1>2 DEF Path
  <2> QED
      BY <2>6, <2>8, <1>13 DEF AnswerInv
<1>15. CASE /\ digit + 1 # input[Len(read) + 1].enc
            /\ partial' = number /\ digit' = digit + 1 /\ read' = read
  <2>1. d + 1 < word.enc
    <3>1. d + 1 # word.enc
        BY <1>3, <1>4, <1>6, <1>15
    <3> QED
        BY <3>1, <1>7
  <2>2. After(input, from) = <<n + 1, d + 1 + 1>>
      BY <2>1, <1>6 DEF After
  <2>3. HostInv'
    <3>1. digit' = d + 1 /\ digit' \in Nat /\ Len(read') = n
        BY <1>3, <1>4, <1>15
    <3>2. /\ digit' < input[Len(read') + 1].enc
          /\ partial' = ReadOf(input[Len(read') + 1], digit')
        BY <2>1, <3>1, <1>6, <1>12, <1>15
    <3>3. Len(read') # Len(input)
        BY <1>1, <1>15, <1>3, <1>5
    <3> QED
        BY <3>1, <3>2, <3>3, <1>1, <1>15 DEF HostInv
  <2>4. Path(begin, at)'
    <3>1. Carries(input, rest', <<Len(read') + 1, digit' + 1>>, begin[taken + 1])
      <4>1. <<Len(read') + 1, digit' + 1>> = <<n + 1, d + 1 + 1>>
          BY <1>3, <1>4, <1>15
      <4>2. Carries(input, Tail(rest), <<n + 1, d + 1 + 1>>, begin[taken + 1])
          BY <2>2, <1>10
      <4> QED
          BY <4>1, <4>2, <1>1
    <3> QED
        BY <3>1, <1>1, <1>2 DEF Path
  <2> QED
      BY <2>3, <2>4, <1>13 DEF AnswerInv
<1> QED
    BY <1>1, <1>14, <1>15

\* An answer as it begins.
LEMMA AnswerBegins ==
    Answer!Init => AnswerInv
<1> SUFFICES ASSUME Answer!Init PROVE AnswerInv
    OBVIOUS
<1>1. /\ input \in Inputs /\ data = input /\ encorded = <<>> /\ buf = <<>> /\ sent = <<>>
      /\ done = FALSE /\ taken = 0 /\ rest = <<>> /\ partial = 0 /\ digit = 0 /\ read = <<>>
    BY DEF Answer!Init
<1>2. input \in Seq(WordSet) /\ Len(input) \in Nat
  <2>1. input \in Seq(WordSet)
      BY <1>1, AnswerAssumption DEF AnswerAssumption, WordSet
  <2> QED
      BY <2>1
<1>3. SenderInv
  <2>1. Remaining(input, data)
    <3>1. Len(input) - Len(input) = 0
        BY <1>2
    <3>2. \A k \in 1..Len(input) : input[k] = input[Len(input) - Len(input) + k]
        BY <1>2, <3>1
    <3> QED
        BY <1>1, <1>2, <3>2 DEF Remaining
  <2>2. sent \in Seq(AnswerLines)
      BY <1>1
  <2> QED
      BY <1>1, <2>1, <2>2 DEF SenderInv
<1>4. HostInv
  <2>1. Len(sent) = 0 /\ Len(read) = 0 /\ read \in Seq(Nat)
      BY <1>1
  <2>2. 0 < Len(input) => 0 < input[0 + 1].enc /\ 0 = ReadOf(input[0 + 1], 0)
    <3>1. SUFFICES ASSUME 0 < Len(input)
                   PROVE  0 < input[1].enc /\ 0 = ReadOf(input[1], 0)
        OBVIOUS
    <3>2. input[1] \in WordSet
        BY <1>2, <3>1
    <3> QED
        BY <3>2 DEF WordSet, ReadOf
  <2>3. taken \in 0..Len(sent) /\ digit \in Nat /\ Len(read) <= Len(input)
      BY <1>1, <1>2, <2>1
  <2> QED
      BY <1>1, <2>1, <2>2, <2>3 DEF HostInv
<1>5. \E begin \in Seq(Places), at \in Places : Path(begin, at)
  <2>1. PICK at \in Places : at = <<1, 1>>
      BY DEF Places
  <2>2. PICK begin \in Seq(Places) : begin = <<at>>
    <3>1. <<at>> \in Seq(Places)
        OBVIOUS
    <3> QED
        BY <3>1
  <2>3. Len(begin) = 1 /\ begin[1] = at /\ Len(sent) = 0
      BY <2>2, <1>1
  <2>4. Chain(input, sent, begin)
      BY <2>3 DEF Chain
  <2>5. Carries(input, <<>>, at, at)
      BY CarriesNone
  <2>6. Len(input) - Len(data) + 1 = 1 /\ Len(read) + 1 = 1 /\ digit + 1 = 1 /\ taken + 1 = 1
        /\ Len(sent) + 1 = 1
      BY <1>1, <1>2
  <2>7. Path(begin, at)
      BY <2>1, <2>3, <2>4, <2>5, <2>6, <1>1 DEF Path
  <2> QED
      BY <2>7
<1> QED
    BY <1>3, <1>4, <1>5 DEF AnswerInv

\* An answer keeps the invariant, whatever the settings do.
LEMMA AnswerInvCorrect ==
    ConsoleSpec => []AnswerInv
<1>1. ConsoleInit => AnswerInv
    BY AnswerBegins DEF ConsoleInit
<1>2. AnswerInv /\ [ConsoleNext]_<<part, vars, answer>> => AnswerInv'
  <2> SUFFICES ASSUME AnswerInv, [ConsoleNext]_<<part, vars, answer>> PROVE AnswerInv'
      OBVIOUS
  <2>1. CASE Answer!Next
      BY <2>1, AnswerEncode, AnswerPut, AnswerFinish, AnswerTakeLine, AnswerTakeCharacter
      DEF Answer!Next
  <2>2. CASE UNCHANGED answer
    <3>1. /\ UNCHANGED <<input, data, encorded, buf, sent, done>>
          /\ UNCHANGED <<taken, rest, partial, digit, read>>
        BY <2>2 DEF answer
    <3>2. SenderInv' /\ HostInv'
        BY <3>1 DEF SenderInv, HostInv, AnswerInv
    <3>3. PICK begin \in Seq(Places), at \in Places : Path(begin, at)
        BY DEF AnswerInv
    <3>4. Path(begin, at)'
        BY <3>1, <3>3 DEF Path
    <3> QED
        BY <3>2, <3>4 DEF AnswerInv
  <2> QED
      BY <2>1, <2>2 DEF ConsoleNext
<1> QED
    BY <1>1, <1>2, PTL DEF ConsoleSpec

\* A host reads every word as it was, or as the largest number of its width, and nothing more: for
\* every answer, and blocks of any length.
THEOREM RoundTripCorrect ==
    ConsoleSpec => []RoundTrip
<1>1. AnswerInv => RoundTrip
  <2> SUFFICES ASSUME AnswerInv PROVE RoundTrip
      OBVIOUS
  <2>1. SenderInv /\ HostInv
      BY DEF AnswerInv
  <2>2. /\ input \in Seq(WordSet) /\ sent \in Seq(AnswerLines) /\ read \in Seq(Nat)
        /\ Len(input) \in Nat /\ Len(read) \in Nat /\ Len(read) <= Len(input)
      BY <2>1 DEF SenderInv, HostInv, Remaining
  <2>3. \A k \in DOMAIN sent : Answer!Checked(sent[k])
      BY <2>2, LineChecked
  <2>4. ASSUME NEW n \in DOMAIN read
        PROVE  read[n] = IF input[n].value <= Answer!Largest(input[n].enc)
                           THEN input[n].value ELSE Answer!Largest(input[n].enc)
    <3>1. n \in 1..Len(read) /\ n \in 1..Len(input)
        BY <2>2
    <3>2. PICK word \in WordSet : word = input[n]
        BY <3>1, <2>2
    <3>3. read[n] = Answer!Limited(word)
        BY <3>1, <3>2, <2>1 DEF HostInv
    <3>4. word.value \in Nat /\ word.enc \in 1..4
        BY <3>2 DEF WordSet
    <3>5. Answer!Limited(word) = IF word.value <= Answer!Largest(word.enc)
                                   THEN word.value ELSE Answer!Largest(word.enc)
      <4>1. CASE word.enc = 1
          BY <3>4, <4>1 DEF Answer!Limited, Answer!enc_mask, Answer!Largest
      <4>2. CASE word.enc = 2
          BY <3>4, <4>2 DEF Answer!Limited, Answer!enc_mask, Answer!Largest
      <4>3. CASE word.enc = 3
          BY <3>4, <4>3 DEF Answer!Limited, Answer!enc_mask, Answer!Largest
      <4>4. CASE word.enc = 4
          BY <3>4, <4>4 DEF Answer!Limited, Answer!enc_mask, Answer!Largest
      <4> QED
          BY <3>4, <4>1, <4>2, <4>3, <4>4
    <3> QED
        BY <3>2, <3>3, <3>5
  <2>5. ASSUME Answer!AllTaken
        PROVE  Len(read) = Len(input) /\ rest = <<>>
    <3>1. /\ done /\ taken = Len(sent) /\ (rest = <<>> \/ Len(read) = Len(input))
          /\ data = <<>> /\ encorded = <<>> /\ buf = <<>> /\ digit \in Nat
        BY <2>1, <2>5 DEF Answer!AllTaken, SenderInv, HostInv
    <3>2. PICK begin \in Seq(Places), at \in Places : Path(begin, at)
        BY DEF AnswerInv
    <3>3. /\ Carries(input, buf, begin[Len(sent) + 1], at)
          /\ Carries(input, encorded, at, <<Len(input) - Len(data) + 1, 1>>)
          /\ Carries(input, rest, <<Len(read) + 1, digit + 1>>, begin[taken + 1])
          /\ begin[Len(sent) + 1] \in Places
      <4>1. Len(begin) = Len(sent) + 1 /\ Len(sent) \in Nat
          BY <3>2, <2>2 DEF Path, Chain
      <4>2. Len(sent) + 1 \in 1..Len(begin)
          BY <4>1
      <4> QED
          BY <3>2, <4>2 DEF Path
    <3>4. Len(input) - Len(data) + 1 = Len(input) + 1
        BY <3>1, <2>2
    <3>5. begin[taken + 1] = <<Len(input) + 1, 1>>
        BY <3>1, <3>3, <3>4, CarriesNone
    <3>6. <<Len(read) + 1, digit + 1>> \in Places
        BY <3>1, <2>2 DEF Places
    <3>7. CASE rest = <<>>
      <4>1. <<Len(read) + 1, digit + 1>> = <<Len(input) + 1, 1>>
          BY <3>3, <3>5, <3>6, <3>7, CarriesNone
      <4>2. Len(read) + 1 = Len(input) + 1
          BY <4>1
      <4> QED
          BY <3>7, <4>2, <2>2
    <3>8. CASE rest # <<>>
      <4>1. IsPlace(input, <<Len(read) + 1, digit + 1>>)
          BY <3>3, <3>6, <3>8, <2>2, CarriesHead
      <4>2. Len(read) + 1 \in 1..Len(input)
          BY <4>1 DEF IsPlace
      <4> QED
          BY <4>2, <3>1, <3>8, <2>2
    <3> QED
        BY <3>7, <3>8
  <2> QED
      BY <2>3, <2>4, <2>5 DEF RoundTrip, Answer!RoundTrip
<1> QED
    BY <1>1, AnswerInvCorrect, PTL

\* The blocks: all are full, but for the one being filled and the last.
BlockInv ==
    /\ sent \in Seq(AnswerLines) /\ buf \in Seq(Nat) /\ done \in BOOLEAN
    /\ \A k \in 1..Len(sent) :
          Len(sent[k]) > 1 /\ (k < Len(sent) \/ ~done => Len(sent[k]) = BlockLen + 1)
    /\ ~done => Len(buf) < BlockLen

\* No line of the data is blank, and all but the last are full.
THEOREM BlocksCorrect ==
    ConsoleSpec => []BlocksWhole
<1>1. ConsoleInit => BlockInv
  <2> SUFFICES ASSUME ConsoleInit PROVE BlockInv
      OBVIOUS
  <2>1. sent = <<>> /\ buf = <<>> /\ done = FALSE
      BY DEF ConsoleInit, Answer!Init
  <2>2. BlockLen > 0
      BY AnswerAssumption DEF AnswerAssumption
  <2>3. Len(sent) = 0 /\ Len(buf) = 0 /\ sent \in Seq(AnswerLines) /\ buf \in Seq(Nat)
      BY <2>1
  <2>a. ASSUME NEW k \in 1..Len(sent) PROVE FALSE
      BY <2>3
  <2>b. Len(buf) < BlockLen
      BY <2>2, <2>3
  <2>c. done \in BOOLEAN
      BY <2>1
  <2>4. (\A k \in 1..Len(sent) : FALSE) /\ Len(buf) < BlockLen /\ done \in BOOLEAN
      BY <2>a, <2>b, <2>c
  <2> QED
      BY <2>3, <2>4 DEF BlockInv
<1>2. AnswerInv /\ AnswerInv' /\ BlockInv /\ [ConsoleNext]_<<part, vars, answer>> => BlockInv'
  <2> SUFFICES ASSUME AnswerInv, AnswerInv', BlockInv, [ConsoleNext]_<<part, vars, answer>>
               PROVE  BlockInv'
      OBVIOUS
  <2>0. BlockLen \in Nat /\ BlockLen > 0
      BY AnswerAssumption DEF AnswerAssumption
  <2>1. sent' \in Seq(AnswerLines) /\ buf' \in Seq(Nat) /\ done' \in BOOLEAN
    <3>1. SenderInv' /\ \E begin \in Seq(Places), at \in Places : Path(begin, at)'
        BY DEF AnswerInv
    <3> QED
        BY <3>1 DEF SenderInv, Path, Carries
  <2>2. CASE UNCHANGED <<sent, buf, done>>
      BY <2>1, <2>2 DEF BlockInv
  <2>3. ASSUME NEW line \in Seq(Nat), sent' = Append(sent, Answer!Response(line)), buf' = <<>>,
               Len(line) > 0, Len(line) = BlockLen \/ done', ~done
        PROVE  BlockInv'
    <3>1. /\ sent \in Seq(AnswerLines) /\ Len(Answer!Response(line)) = Len(line) + 1
          /\ Answer!Response(line) \in AnswerLines /\ Len(line) \in Nat
        BY LinePayload DEF BlockInv
    <3>2. /\ Len(sent') = Len(sent) + 1 /\ Len(sent) \in Nat
          /\ \A k \in 1..Len(sent) : sent'[k] = sent[k]
          /\ sent'[Len(sent) + 1] = Answer!Response(line)
        BY <2>3, <3>1, AppendProperties
    <3>3. ASSUME NEW k \in 1..Len(sent')
          PROVE  Len(sent'[k]) > 1 /\ (k < Len(sent') \/ ~done' => Len(sent'[k]) = BlockLen + 1)
      <4>1. CASE k \in 1..Len(sent)
        <5>1. Len(sent[k]) > 1 /\ Len(sent[k]) = BlockLen + 1
            BY <2>3, <4>1 DEF BlockInv
        <5> QED
            BY <5>1, <4>1, <3>2
      <4>2. CASE k = Len(sent) + 1
        <5>1. Len(sent'[k]) = Len(line) + 1
            BY <4>2, <3>1, <3>2
        <5>2. ~(k < Len(sent'))
            BY <4>2, <3>2
        <5> QED
            BY <5>1, <5>2, <2>3, <3>1
      <4> QED
          BY <4>1, <4>2, <3>2
    <3>4. Len(buf') = 0
        BY <2>3
    <3> QED
        BY <2>0, <2>1, <3>3, <3>4 DEF BlockInv
  <2>4. CASE Answer!Put
    <3>1. PICK line : line = Append(buf, Head(encorded))
        OBVIOUS
    <3>2. /\ encorded # <<>> /\ done' = done
          /\ IF Len(line) >= BlockLen
               THEN sent' = Append(sent, Answer!Response(line)) /\ buf' = <<>>
               ELSE buf' = line /\ sent' = sent
        BY <2>4, <3>1 DEF Answer!Put, Answer!Full
    <3>3. ~done /\ Len(buf) < BlockLen
        BY <3>2 DEF AnswerInv, SenderInv, BlockInv
    <3>4. Head(encorded) \in Nat
      <4>1. encorded \in Seq(Nat)
          BY DEF AnswerInv, Path, Carries
      <4> QED
          BY <4>1, <3>2, HeadTailProperties
    <3>5. line \in Seq(Nat) /\ Len(line) = Len(buf) + 1 /\ Len(buf) \in Nat /\ Len(line) \in Nat
        BY <3>1, <3>4, AppendProperties DEF BlockInv
    <3>6. CASE Len(line) >= BlockLen
      <4>1. Len(line) > 0 /\ Len(line) = BlockLen
          BY <3>3, <3>5, <3>6, <2>0
      <4> QED
          BY <4>1, <2>3, <3>2, <3>3, <3>5, <3>6
    <3>7. CASE ~(Len(line) >= BlockLen)
      <4>1. Len(buf') < BlockLen
          BY <3>2, <3>5, <3>7, <2>0
      <4>2. sent' = sent /\ done' = done
          BY <3>2, <3>7
      <4> QED
          BY <2>1, <4>1, <4>2 DEF BlockInv
    <3> QED
        BY <3>6, <3>7
  <2>5. CASE Answer!Finish
    <3>1. /\ ~done /\ done' = TRUE
          /\ \/ buf # <<>> /\ sent' = Append(sent, Answer!Response(buf)) /\ buf' = <<>>
             \/ sent' = sent
        BY <2>5 DEF Answer!Finish, Answer!Remains
    <3>2. CASE buf # <<>> /\ sent' = Append(sent, Answer!Response(buf)) /\ buf' = <<>>
      <4>1. buf \in Seq(Nat) /\ Len(buf) > 0
          BY <3>2 DEF BlockInv
      <4> QED
          BY <4>1, <3>1, <3>2, <2>3
    <3>3. CASE sent' = sent
        BY <2>1, <3>1, <3>3 DEF BlockInv
    <3> QED
        BY <3>1, <3>2, <3>3
  <2> QED
      BY <2>2, <2>4, <2>5 DEF ConsoleNext, Answer!Next, Answer!Encode, Answer!TakeLine,
        Answer!TakeCharacter, Answer!sender, answer
<1>3. BlockInv => BlocksWhole
    BY DEF BlockInv, BlocksWhole, Answer!BlocksWhole
<1> QED
    BY <1>1, <1>2, <1>3, AnswerInvCorrect, PTL DEF ConsoleSpec
=============================================================================
