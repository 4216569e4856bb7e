------------------------------ MODULE Ymbumper ------------------------------
(***************************************************************************)
(* The firmware's main loop and SCIP command handlers (ymbumper.c).        *)
(*                                                                         *)
(* One pass of the loop takes at most one completed command line, runs its *)
(* handler, and then streams: in MD mode a window of MsPeriod counts of    *)
(* MsCnt closes and carries a scan every MDStep + 1 windows; in RAW mode   *)
(* every pass sends the raw values.  MsCnt is shared with the timer        *)
(* interrupt, which may run between any two steps of the loop, also inside *)
(* the loop's own increment (load, then store).                            *)
(*                                                                         *)
(* A request is a line as scip2CommandAnalysis hands it to a handler: the  *)
(* handler's name, the letter that picks a variant, and arg.  The parser   *)
(* initialises only the arguments it reaches, so after a truncated line    *)
(* the others hold whatever the stack held: any value may be in Requests.  *)
(* The settings, the sensor values, the encoding of scans and the USB      *)
(* transport have modules of their own (Settings, Sampler, ScipData, ...). *)
(***************************************************************************)
EXTENDS Integers

CONSTANTS amax,          \* the board's last sensor index
          array_offset,  \* the slot of Distance that holds sensor 0
          Slots,         \* the length of Raw, Data, Offset and Distance
          MsPeriod,      \* counts of MsCnt in a scan window
          MsMod,         \* MsCnt is kept modulo MsMod
          TicksPerPass,  \* bound: timer interrupts during one pass
          Requests       \* the lines the host may send

Word == 65536            \* the MD variables are uint16_t

ASSUME BoardAssumption ==
    /\ amax \in Nat /\ array_offset \in Nat /\ Slots \in Nat
    /\ array_offset + amax < Slots
    /\ amax < Word

ASSUME CounterAssumption ==
    /\ MsPeriod \in Nat \ {0} /\ MsMod \in Nat /\ MsPeriod < MsMod
    /\ TicksPerPass \in Nat

Letters == {"D", "S", "R", "E", "I"}

ASSUME RequestsAssumption ==
    \A r \in Requests :
        /\ r.name \in {"M", "G", "TM", "QT", "R", "$RW", "Status", "SS",
                       "Unimplemented", "Set", "Unknown"}
        /\ r.name \in {"M", "G"} => r.letter \in Letters
        /\ r.name = "R" => r.letter \in {"S", "T", "B"}
        /\ r.arg \in [1..5 -> Nat]

VARIABLES
    pc,                    \* where the main loop is
    Mode, RawMode,
    cMDEnc, MDEnc, INTEnc, \* the letter and the widths of the stream's words
    MDStart, MDEnd, MDCull,
    MDStep, iMDStep,
    MDNum, iMDNum,
    MsCnt,                 \* shared with the timer interrupt
    reg,                   \* the register of the loop's MsCnt ++
    passTicks,             \* timer interrupts in this pass, at most TicksPerPass
    reply,                 \* the answer this pass gave to a command
    scan                   \* the last scan streamed

request == <<cMDEnc, MDEnc, INTEnc, MDStart, MDEnd, MDCull, MDStep, MDNum>>
progress == <<iMDStep, iMDNum>>
vars == <<pc, Mode, RawMode, request, progress, MsCnt, reg, passTicks, reply, scan>>

Modes == {"STANDBY", "MD", "TM", "RAW"}
NoScan == [letter |-> "none", start |-> 0, end |-> 0, remain |-> 0, points |-> 0,
           dist |-> 0, int |-> 0]
Status(code) == [code |-> code, points |-> 0, dist |-> 0, int |-> 0]

-----------------------------------------------------------------------------
\* How many values ProcessDistance finds: one per full group of cull.
Points(start, end, cull) ==
    (end - start + 1) \div (IF cull = 0 THEN 1 ELSE cull)

\* Characters of a distance word and of an intensity word (0: none).
DistWidth(letter) == IF letter = "S" THEN 2 ELSE 3
IntWidth(letter) ==
    CASE letter = "R" -> 2 [] letter = "E" -> 3 [] letter = "I" -> 4 [] OTHER -> 0

\* The variants of ScipGet choose their words in a switch of their own.
GetWidths ==
    [D |-> <<3, 0>>, S |-> <<2, 0>>, R |-> <<3, 2>>, E |-> <<3, 3>>, I |-> <<3, 4>>]

\* Slip: the upper bound is not tested.
RangeStatusNoUpper(arg) == IF arg[1] > arg[2] THEN "05" ELSE "00"

\* The range test ScipMeasure and ScipGet share.  Arguments are unsigned.
RangeStatus(arg) ==
    IF arg[2] > amax THEN "04" ELSE IF arg[1] > arg[2] THEN "05" ELSE "00"

\* MsCnt ++ on a uint8_t.
Incremented(c) == (c + 1) % MsMod

-----------------------------------------------------------------------------
ResetMeasurement ==
    /\ cMDEnc' = "none" /\ MDEnc' = 0 /\ INTEnc' = 0
    /\ MDStart' = 0 /\ MDEnd' = 0 /\ MDCull' = 0
    /\ MDStep' = 0 /\ iMDStep' = 0 /\ MDNum' = 0 /\ iMDNum' = 0

Init ==
    /\ pc = "poll"
    /\ Mode = "STANDBY" /\ RawMode = 0
    /\ cMDEnc = "none" /\ MDEnc = 0 /\ INTEnc = 0
    /\ MDStart = 0 /\ MDEnd = 0 /\ MDCull = 0
    /\ MDStep = 0 /\ iMDStep = 0 /\ MDNum = 0 /\ iMDNum = 0
    /\ MsCnt = 0 /\ reg = 0 /\ passTicks = 0
    /\ reply = Status("none") /\ scan = NoScan

\* Where a handler returns to: the streaming half of the pass.
Return == pc = "poll" /\ pc' = "stream" /\ UNCHANGED <<MsCnt, reg, passTicks, scan>>

NoCommand ==
    /\ Return
    /\ reply' = Status("none")
    /\ UNCHANGED <<Mode, RawMode, request, progress>>

\* A new stream starts with a scan in the very next window.  Slip: the count
\* of the stream before is kept.
StartStreamKept(r) == iMDNum' = iMDNum /\ iMDStep' = r.arg[4] % Word
StartStream(r) == iMDNum' = 0 /\ iMDStep' = r.arg[4] % Word

ScipMeasure(r) ==
    /\ r.name = "M" /\ Return
    /\ reply' = Status(RangeStatus(r.arg))
    /\ IF RangeStatus(r.arg) = "00"
         THEN /\ cMDEnc' = r.letter
              /\ MDEnc' = DistWidth(r.letter)
              /\ INTEnc' = IntWidth(r.letter)
              /\ MDStart' = r.arg[1] % Word
              /\ MDEnd' = r.arg[2] % Word
              /\ MDCull' = r.arg[3] % Word
              /\ MDStep' = r.arg[4] % Word
              /\ MDNum' = r.arg[5] % Word
              /\ StartStream(r)
              /\ Mode' = "MD"
         ELSE UNCHANGED <<Mode, request, progress>>
    /\ UNCHANGED RawMode

ScipGet(r) ==
    /\ r.name = "G" /\ Return
    /\ reply' =
         IF RangeStatus(r.arg) = "00"
           THEN [code |-> "00",
                 points |-> Points(r.arg[1], r.arg[2], r.arg[3] % Word),
                 dist |-> GetWidths[r.letter][1], int |-> GetWidths[r.letter][2]]
           ELSE Status(RangeStatus(r.arg))
    /\ UNCHANGED <<Mode, RawMode, request, progress>>

ScipRW(r) ==
    /\ r.name = "$RW" /\ Return
    /\ IF r.arg[1] <= 1
         THEN reply' = Status("echo") /\ Mode' = "RAW" /\ RawMode' = r.arg[1]
         ELSE reply' = Status("0E") /\ UNCHANGED <<Mode, RawMode>>
    /\ UNCHANGED <<request, progress>>

ScipQT(r) ==
    /\ r.name = "QT" /\ Return
    /\ reply' = Status("00")
    /\ Mode' = "STANDBY"
    /\ UNCHANGED <<RawMode, request, progress>>

\* Time adjustment: TM0 enters, TM1 asks for the time, TM2 leaves.
ScipTM(r) ==
    /\ r.name = "TM" /\ Return
    /\ LET a == r.arg[1] IN
         IF Mode = "TM"
           THEN /\ reply' = Status(CASE a = 0 -> "02" [] a = 1 -> "time"
                                     [] a = 2 -> "00" [] OTHER -> "05")
                /\ Mode' = IF a = 2 THEN "STANDBY" ELSE Mode
           ELSE /\ reply' = Status(CASE a = 0 -> "00" [] a = 1 -> "04"
                                     [] a = 2 -> "03" [] OTHER -> "05")
                /\ Mode' = IF a = 0 THEN "TM" ELSE Mode
    /\ UNCHANGED <<RawMode, request, progress>>

\* RS and RT go to standby; RB arms the watchdog and spins.
ScipReset(r) ==
    /\ r.name = "R" /\ pc = "poll"
    /\ reply' = Status("00")
    /\ IF r.letter = "B"
         THEN pc' = "reboot" /\ UNCHANGED Mode
         ELSE pc' = "stream" /\ Mode' = "STANDBY"
    /\ UNCHANGED <<RawMode, request, progress, MsCnt, reg, passTicks, scan>>

\* Handlers that answer and leave the measurement alone.
FixedReply ==
    [Status |-> "00", SS |-> "04", Unimplemented |-> "03", Set |-> "03", Unknown |-> "0E"]

Answer(r) ==
    /\ r.name \in DOMAIN FixedReply /\ Return
    /\ reply' = Status(FixedReply[r.name])
    /\ UNCHANGED <<Mode, RawMode, request, progress>>

Command(r) ==
    \/ ScipMeasure(r)
    \/ ScipGet(r)
    \/ ScipRW(r)
    \/ ScipQT(r)
    \/ ScipTM(r)
    \/ ScipReset(r)
    \/ Answer(r)

-----------------------------------------------------------------------------
\* Slip: > for >=.
WindowOverLate == MsCnt > MsPeriod
WindowOver == MsCnt >= MsPeriod
InWindow == pc = "stream" /\ Mode = "MD" /\ WindowOver

\* Slip: =+ for +=, so that the count stays at one.
CountScanOnce == iMDNum' = IF MDNum # 0 THEN 1 ELSE iMDNum
CountScan == iMDNum' = IF MDNum # 0 THEN (iMDNum + 1) % Word ELSE iMDNum

\* Slip: > for >=.
LastScanLate == iMDNum' > MDNum /\ MDNum # 0
LastScan == iMDNum' >= MDNum /\ MDNum # 0

\* Slip: the window is not counted.
CountWindowNot == iMDStep' = iMDStep
CountWindow == iMDStep' = (iMDStep + 1) % Word

\* A window closes and carries a scan.  The count in its header is taken
\* before iMDNum is advanced; the last scan of a finite request ends MD mode.
SendScan ==
    /\ InWindow /\ iMDStep >= MDStep
    /\ iMDStep' = 0
    /\ scan' = [letter |-> cMDEnc, start |-> MDStart, end |-> MDEnd,
                remain |-> MDNum - iMDNum,
                points |-> Points(MDStart, MDEnd, MDCull),
                dist |-> MDEnc, int |-> INTEnc]
    /\ CountScan
    /\ Mode' = IF LastScan THEN "STANDBY" ELSE Mode
    /\ pc' = "sent"
    /\ UNCHANGED <<RawMode, request, MsCnt, reg, passTicks, reply>>

SkipWindow ==
    /\ InWindow /\ iMDStep < MDStep
    /\ CountWindow
    /\ pc' = "skipped"
    /\ UNCHANGED <<Mode, RawMode, request, iMDNum, MsCnt, reg, passTicks, reply, scan>>

StillCounting ==
    /\ pc = "stream" /\ Mode = "MD" /\ ~WindowOver
    /\ pc' = "load"
    /\ UNCHANGED <<Mode, RawMode, request, progress, MsCnt, reg, passTicks, reply, scan>>

ClearMsCnt ==
    /\ pc \in {"sent", "skipped"} /\ pc' = "load"
    /\ MsCnt' = 0
    /\ UNCHANGED <<Mode, RawMode, request, progress, reg, passTicks, reply, scan>>

LoadMsCnt ==
    /\ pc = "load" /\ pc' = "store"
    /\ reg' = MsCnt
    /\ UNCHANGED <<Mode, RawMode, request, progress, MsCnt, passTicks, reply, scan>>

EndPass == pc' = "poll" /\ passTicks' = 0

StoreMsCnt ==
    /\ pc = "store" /\ EndPass
    /\ MsCnt' = Incremented(reg)
    /\ reg' = 0
    /\ UNCHANGED <<Mode, RawMode, request, progress, reply, scan>>

\* Outside MD mode the pass ends here; RAW mode sends Raw or Data first.
NotMeasuring ==
    /\ pc = "stream" /\ Mode # "MD" /\ EndPass
    /\ UNCHANGED <<Mode, RawMode, request, progress, MsCnt, reg, reply, scan>>

\* TIMER0_COMPA, between any two steps of the main loop.
TimerInterrupt ==
    /\ passTicks < TicksPerPass
    /\ passTicks' = passTicks + 1
    /\ MsCnt' = Incremented(MsCnt)
    /\ UNCHANGED <<pc, Mode, RawMode, request, progress, reg, reply, scan>>

\* The watchdog restarts the program: main() and the C start-up code set
\* every variable of the program back.
WatchdogReset ==
    /\ pc = "reboot"
    /\ pc' = "poll" /\ Mode' = "STANDBY" /\ RawMode' = 0
    /\ ResetMeasurement
    /\ MsCnt' = 0 /\ reg' = 0 /\ passTicks' = 0
    /\ UNCHANGED <<reply, scan>>

MainLoop ==
    \/ NoCommand
    \/ SendScan
    \/ SkipWindow
    \/ StillCounting
    \/ ClearMsCnt
    \/ LoadMsCnt
    \/ StoreMsCnt
    \/ NotMeasuring
    \/ WatchdogReset

LoopStep == MainLoop \/ \E r \in Requests : Command(r)

Next == LoopStep \/ TimerInterrupt

Spec == Init /\ [][Next]_vars

-----------------------------------------------------------------------------
TypeOK ==
    /\ pc \in {"poll", "stream", "sent", "skipped", "load", "store", "reboot"}
    /\ Mode \in Modes /\ RawMode \in {0, 1}
    /\ cMDEnc \in Letters \cup {"none"} /\ MDEnc \in 0..3 /\ INTEnc \in 0..4
    /\ MDStart \in 0..Word - 1 /\ MDEnd \in 0..Word - 1 /\ MDCull \in 0..Word - 1
    /\ MDStep \in 0..Word - 1 /\ iMDStep \in 0..Word - 1
    /\ MDNum \in 0..Word - 1 /\ iMDNum \in 0..Word - 1
    /\ MsCnt \in 0..MsMod - 1 /\ reg \in 0..MsMod - 1
    /\ passTicks \in 0..TicksPerPass

-----------------------------------------------------------------------------
\* The values streamed are those of sensors: whatever the unparsed arguments
\* held, an accepted request names a range of the board's sensors
\* (ScipMeasure's two tests are on unsigned 32-bit values, the variables they
\* guard are 16-bit).
RequestInRange == Mode = "MD" => MDStart <= MDEnd /\ MDEnd <= amax

\* The loops of sendScipData and sendScipDataInt, which start at
\* Distance + array_offset and Raw + array_offset, stay inside the arrays for
\* a scan and for the answer to a G command.
SlotsInBounds ==
    /\ array_offset + scan.points <= Slots
    /\ array_offset + reply.points <= Slots

\* The counters of a stream in progress: a finite request owes at least one
\* scan, an endless one never counts, and the windows skipped do not exceed
\* the request.
StreamCounters ==
    Mode = "MD" =>
        /\ iMDStep <= MDStep
        /\ MDNum = 0 => iMDNum = 0
        /\ MDNum # 0 => iMDNum < MDNum

\* A measurement is the stream ScanStream promises: exactly MDNum scans, one
\* every MDStep + 1 windows, each announcing how many are owed, none after
\* the last and none after QT, RS, RT, TM0 or $RW.
Stream == INSTANCE ScanStream WITH
    Nums <- {r.arg[5] % Word : r \in Requests},
    Steps <- {r.arg[4] % Word : r \in Requests},
    active <- Mode = "MD",
    num <- MDNum, step <- MDStep,
    owed <- MDNum - iMDNum,
    gap <- MDStep - iMDStep,
    shown <- scan.remain

ImplementsStream == Stream!StreamSpec
=============================================================================
