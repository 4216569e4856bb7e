------------------------------- MODULE Settings -------------------------------
(***************************************************************************)
(* The settings commands $STH, $SDI, $SRE, $SFR and $SSN, from the line    *)
(* main() has assembled through scip2CommandAnalysis to the EEPROM, and    *)
(* what a boot reads back.                                                 *)
(*                                                                         *)
(* A setting is acknowledged first, then used, then written one byte at a  *)
(* time.  eeprom_write_byte only starts a write; eeprom_busy_wait before   *)
(* the next one waits for its end.  The power may go at any moment: a byte *)
(* that was being written then has its old or its new value.               *)
(*                                                                         *)
(* A line is a sequence of characters without NUL.  A command's name is    *)
(* one character here (no name in the table is a prefix of another).       *)
(***************************************************************************)
EXTENDS Integers, Sequences, FiniteSetsExt

CONSTANTS Lines,         \* the lines the host may send
          Capacity,      \* characters read_buffer holds before a NUL
          SERIALNO_LEN,
          Stale,         \* what memory holds that was never written
          Factory,       \* the settings a new board's EEPROM holds
          BoardFrt, BoardRes,    \* what a boot uses while frt is negative
          MaxCommands            \* bound: lines the host sends

SSN == 256  STH == 257  SDI == 258  SRE == 259  SFR == 260
Quote == 34

Byte == 256
Bytes == 0..Byte - 1
SettingNames == {"thresh", "dist", "res", "frt"}

ASSUME SettingsAssumption ==
    /\ Lines \subseteq Seq(Nat \ {0})
    /\ SERIALNO_LEN \in Nat \ {0, 1} /\ Capacity \in Nat
    /\ SERIALNO_LEN < Capacity
    /\ Stale \subseteq Bytes /\ Stale # {}
    /\ Factory \in [SettingNames -> Nat]
    /\ BoardFrt \in 0..127 /\ BoardRes \in 0..127
    /\ MaxCommands \in Nat

\* What follows a command's name are characters of one byte.
ASSUME TextAssumption == \A line \in Lines : \A k \in 2..Len(line) : line[k] < Byte

VARIABLES
    pc,                             \* where the main loop is
    read_buffer,
    name, arg, i,                   \* the command, its first argument, a loop's index
    eeprom, pending,                \* its cells, and the write in progress
    thresh, dist, res, frt, serialno,   \* the settings in use
    asked,                          \* each setting as it was last acknowledged
    quoted,                         \* the serial number as it was last acknowledged
    commands,                       \* lines received, at most MaxCommands
    torn                            \* settings whose writing the power cut short

ram == <<thresh, dist, res, frt, serialno>>
history == <<asked, quoted, torn>>
vars == <<pc, read_buffer, name, arg, i, eeprom, pending, ram, history, commands>>

SerialIndices == 0..SERIALNO_LEN - 1
Cells == {<<"thresh", 0>>, <<"dist", 0>>, <<"dist", 1>>, <<"res", 0>>, <<"frt", 0>>}
         \cup ({"serial"} \X SerialIndices)
Idle == [cell |-> <<"none", 0>>, value |-> 0]

-----------------------------------------------------------------------------
(* Conversions.                                                            *)

\* The lower byte of a value, and the upper one.
ByteOf(v, k) == (IF k = 0 THEN v ELSE v \div Byte) % Byte

\* int8_t
Signed(b) == IF b >= Byte \div 2 THEN b - Byte ELSE b

\* dist from its bytes.  Slip: the bytes are swapped.
WordSwapped(low, high) == high + Byte * low
Word(low, high) == low + Byte * high

\* The table: the setting of each numeric command and the digits it takes.
SettingOf(n) == CASE n = STH -> "thresh" [] n = SDI -> "dist" [] n = SRE -> "res" [] OTHER -> "frt"
Digits(n) == IF n = SDI THEN 4 ELSE 3

\* How many bytes of a setting are written.  Slip: one of dist's.
WidthOne(s) == 1
Width(s) == IF s = "dist" THEN 2 ELSE 1

\* arg[0]: decimal, whatever the characters are, at most so many of them; no setting has more
\* than four.
Argument(command, digits) ==
    LET With(value, k) == IF k <= digits /\ k < Len(command)
                          THEN 10 * value + (command[k + 1] - 48) ELSE value
    IN  With(With(With(With(0, 1), 2), 3), 4)

\* What a setting keeps of an argument.
Kept(s, v) ==
    CASE s = "thresh" -> v % Byte
      [] s = "dist" -> v % (Byte * Byte)
      [] OTHER -> Signed(v % Byte)

\* The string at the beginning of an array of characters.
String(f) ==
    LET ends == {k \in SerialIndices : f[k] = 0}
        end == IF ends = {} THEN SERIALNO_LEN ELSE CHOOSE k \in ends : \A j \in ends : k <= j
    IN  [k \in 1..end |-> f[k - 1]]

-----------------------------------------------------------------------------
(* The boot: the settings from the EEPROM.                                 *)

StoredFrt(e) == Signed(e[<<"frt", 0>>])

Stored(e, s) ==
    CASE s = "thresh" -> e[<<"thresh", 0>>]
      [] s = "dist" -> Word(e[<<"dist", 0>>], e[<<"dist", 1>>])
      [] s = "res" -> IF StoredFrt(e) < 0 THEN BoardRes ELSE Signed(e[<<"res", 0>>])
      [] OTHER -> IF StoredFrt(e) < 0 THEN BoardFrt ELSE StoredFrt(e)

StoredSerial(e) == [k \in SerialIndices |-> e[<<"serial", k>>]]

FactoryCells ==
    [c \in Cells |-> IF c[1] = "serial" THEN 0 ELSE ByteOf(Factory[c[1]], c[2])]

Init ==
    /\ pc = "poll" /\ name = 0 /\ arg = 0 /\ i = 0
    /\ \E b \in Stale : read_buffer = [k \in 0..Capacity |-> b]
    /\ eeprom = FactoryCells /\ pending = Idle
    /\ thresh = Stored(eeprom, "thresh") /\ dist = Stored(eeprom, "dist")
    /\ res = Stored(eeprom, "res") /\ frt = Stored(eeprom, "frt")
    /\ serialno = StoredSerial(eeprom)
    /\ asked = [s \in SettingNames |-> Kept(s, Factory[s])]
    /\ quoted = <<>> /\ torn = {} /\ commands = 0

-----------------------------------------------------------------------------
(* The main loop.                                                          *)

\* Characters beyond the capacity overwrite one another; the NUL replaces the last.
Command(line) == SubSeq(line, 1, IF Len(line) > Capacity THEN Capacity ELSE Len(line))

Assembled(command) ==
    [k \in 0..Capacity |-> IF k < Len(command) THEN command[k + 1]
                           ELSE IF k = Len(command) THEN 0 ELSE read_buffer[k]]

\* The text after the opening quote, as far as there is room for it.
TextOf(command) ==
    LET quotes == {k \in 3..Len(command) : command[k] = Quote}
        end == IF quotes = {} THEN Len(command) ELSE Min(quotes) - 1
    IN  SubSeq(command, 3, IF end < SERIALNO_LEN + 2 THEN end ELSE SERIALNO_LEN + 1)

IsSerial(command) == Len(command) > 1 /\ command[1] = SSN /\ command[2] = Quote
IsNumeric(command) == command # <<>> /\ command[1] \in {STH, SDI, SRE, SFR}

\* A complete line: the answer "03", and then the settings handler goes on.
Receive(line) ==
    /\ pc = "poll" /\ commands < MaxCommands
    /\ commands' = commands + 1
    /\ LET command == Command(line) IN
       /\ read_buffer' = Assembled(command)
       /\ i' = 0
       /\ \/ /\ IsNumeric(command)
             /\ LET s == SettingOf(command[1])
                    v == Argument(command, Digits(command[1])) IN
                /\ pc' = "use" /\ name' = command[1] /\ arg' = v
                /\ asked' = [asked EXCEPT ![s] = Kept(s, v)]
                /\ torn' = torn \ {s}
                /\ UNCHANGED quoted
          \/ /\ IsSerial(command)
             /\ pc' = "serial" /\ name' = SSN /\ arg' = 0
             /\ quoted' = TextOf(command) /\ torn' = torn \ {"serial"}
             /\ UNCHANGED asked
          \/ /\ ~IsNumeric(command) /\ ~IsSerial(command)
             /\ UNCHANGED <<pc, name, arg, history>>
    /\ UNCHANGED <<eeprom, pending, ram>>

\* Where a handler returns to; its locals end.
Returned == pc' = "poll" /\ name' = 0 /\ arg' = 0 /\ i' = 0

UseSetting ==
    /\ pc = "use" /\ pc' = "write"
    /\ thresh' = IF name = STH THEN Kept("thresh", arg) ELSE thresh
    /\ dist' = IF name = SDI THEN Kept("dist", arg) ELSE dist
    /\ res' = IF name = SRE THEN Kept("res", arg) ELSE res
    /\ frt' = IF name = SFR THEN Kept("frt", arg) ELSE frt
    /\ UNCHANGED <<read_buffer, name, arg, i, eeprom, pending, serialno, history, commands>>

\* eeprom_busy_wait and eeprom_write_byte.
StartWrite(s, k, v) == pending = Idle /\ pending' = [cell |-> <<s, k>>, value |-> v]

WriteSetting ==
    /\ pc = "write"
    /\ StartWrite(SettingOf(name), i, ByteOf(arg, i))
    /\ IF i + 1 = Width(SettingOf(name))
         THEN Returned
         ELSE i' = i + 1 /\ UNCHANGED <<pc, name, arg>>
    /\ UNCHANGED <<read_buffer, eeprom, ram, history, commands>>

\* The characters the serial number has room for.  Slip: none is kept for the NUL.
RoomAll == SERIALNO_LEN
Room == SERIALNO_LEN - 1

\* The closing quote.  Slip: it is one more character.
EndsTextNot(c) == FALSE
EndsText(c) == c = Quote

WriteSerial ==
    /\ pc = "serial"
    /\ LET c == read_buffer[i + 2] IN
       /\ StartWrite("serial", i, c % Byte)
       /\ i' = IF EndsText(c) THEN i ELSE i + 1
       /\ pc' = IF EndsText(c) \/ i + 1 = Room THEN "terminate" ELSE "serial"
    /\ UNCHANGED <<read_buffer, name, arg, eeprom, ram, history, commands>>

TerminateSerial ==
    /\ pc = "terminate"
    /\ StartWrite("serial", i, 0)
    /\ Returned
    /\ UNCHANGED <<read_buffer, eeprom, ram, history, commands>>

-----------------------------------------------------------------------------
(* The memory and the power.                                               *)

Written == [eeprom EXCEPT ![pending.cell] = pending.value]

WriteEnds ==
    /\ pending # Idle
    /\ eeprom' = Written /\ pending' = Idle
    /\ UNCHANGED <<pc, read_buffer, name, arg, i, ram, history, commands>>

\* What is being written when the power goes.
InProgress ==
    (IF pc = "poll" THEN {} ELSE {IF name = SSN THEN "serial" ELSE SettingOf(name)})
    \cup (IF pending = Idle THEN {} ELSE {pending.cell[1]})

PowerCycle ==
    /\ eeprom' \in {eeprom} \cup (IF pending = Idle THEN {} ELSE {Written})
    /\ pending' = Idle
    /\ Returned
    /\ \E b \in Stale : read_buffer' = [k \in 0..Capacity |-> b]
    /\ thresh' = Stored(eeprom', "thresh") /\ dist' = Stored(eeprom', "dist")
    /\ res' = Stored(eeprom', "res") /\ frt' = Stored(eeprom', "frt")
    /\ serialno' = StoredSerial(eeprom')
    /\ torn' = torn \cup InProgress
    /\ UNCHANGED <<asked, quoted, commands>>

Next == \/ \E line \in Lines : Receive(line)
        \/ UseSetting \/ WriteSetting \/ WriteSerial \/ TerminateSerial
        \/ WriteEnds \/ PowerCycle

Spec == Init /\ [][Next]_vars

-----------------------------------------------------------------------------
(* Properties.                                                             *)

\* The serial number is a terminated string in the EEPROM and in use at every moment, also
\* half overwritten after a loss of power: printing it in VV never runs over its end.
SerialTerminated ==
    eeprom[<<"serial", SERIALNO_LEN - 1>>] = 0 /\ serialno[SERIALNO_LEN - 1] = 0

\* Once a $SSN has been carried out, what the next boot reads is the text between the quotes
\* as far as there is room, whatever longer lines or numbers were there before it.
SerialIsQuoted ==
    pc = "poll" /\ pending = Idle /\ "serial" \notin torn
    => String(StoredSerial(eeprom)) = quoted

\* Between commands the threshold and the distance in use are the ones acknowledged last, also
\* after any number of boots, unless the power went while they were being written.
SettingsInUse ==
    pc = "poll" => /\ "thresh" \notin torn => thresh = asked["thresh"]
                   /\ "dist" \notin torn => dist = asked["dist"]

\* Once it is written a setting survives: the next boot reads the value acknowledged last; for
\* the resolution and the frontal index that is so when the frontal index is not negative.
SettingsSurvive ==
    pc = "poll" /\ pending = Idle
    => \A s \in SettingNames \ torn :
          s \in {"thresh", "dist"} \/ ("frt" \notin torn /\ ~(asked["frt"] < 0))
          => Stored(eeprom, s) = asked[s]

=============================================================================
