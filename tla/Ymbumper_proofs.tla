-------------------------- MODULE Ymbumper_proofs --------------------------
(***************************************************************************)
(* Proofs about Ymbumper, and about Pacing, which observes it, for every   *)
(* board, window length, counter width and set of requests that satisfy    *)
(* the assumptions.                                                        *)
(***************************************************************************)
EXTENDS Pacing, TLAPS

\* Word stays opaque in the proofs: only these facts about it are used.
LEMMA WordNat == Word \in Nat /\ Word > 1
BY SMT DEF Word

\* A remainder is below its modulus, and small numbers are their own.
LEMMA ModBounded ==
    ASSUME NEW w \in Nat \ {0}, NEW x \in Nat
    PROVE  x % w \in 0..w - 1 /\ (x < w => x % w = x)
BY SMT

\* The same for the 16 bits of an MD variable.
LEMMA ModWord == \A x \in Nat : x % Word \in 0..Word - 1 /\ (x < Word => x % Word = x)
<1> TAKE x \in Nat
<1>1. Word \in Nat \ {0}
  BY WordNat
<1> QED
  BY <1>1, ModBounded

\* ProcessDistance finds at most one value per sensor of the range.
LEMMA PointsBounded ==
    ASSUME NEW s \in Nat, NEW e \in Nat, NEW c \in Nat, s <= e, e <= amax
    PROVE  Points(s, e, c) \in 0..amax + 1
<1> DEFINE n == e - s + 1
           g == IF c = 0 THEN 1 ELSE c
<1>1. n \in Nat /\ g \in Nat /\ g >= 1 /\ n <= amax + 1
  BY BoardAssumption
<1>2. n \div g \in Int /\ n \div g >= 0 /\ n \div g <= n
  BY <1>1
<1> QED
  BY <1>1, <1>2, BoardAssumption DEF Points

\* The inductive invariant: types, the ranges the range test established, the
\* stream counters, and the lengths of what has been sent.
SentBounded ==
    /\ scan.points \in 0..amax + 1
    /\ reply.points \in 0..amax + 1

IInv == TypeOK /\ RequestInRange /\ StreamCounters /\ SentBounded

\* The inductive invariant holds after power up.
LEMMA InitIInv == Init => IInv
<1> SUFFICES ASSUME Init PROVE IInv
  OBVIOUS
<1>. USE DEF Init
<1>1. TypeOK
  BY WordNat, BoardAssumption, CounterAssumption DEF TypeOK, Modes, Letters
<1>2. RequestInRange /\ StreamCounters
  BY DEF RequestInRange, StreamCounters
<1>3. SentBounded
  BY BoardAssumption DEF SentBounded, NoScan, Status
<1> QED
  BY <1>1, <1>2, <1>3 DEF IInv

\* What the assumption says of one request.
LEMMA RequestType ==
    ASSUME NEW r \in Requests
    PROVE  /\ r.arg[1] \in Nat /\ r.arg[2] \in Nat /\ r.arg[3] \in Nat
           /\ r.arg[4] \in Nat /\ r.arg[5] \in Nat
           /\ r.name = "M" => r.letter \in Letters
BY RequestsAssumption

\* Every step keeps the types.
LEMMA TypeStep == TypeOK /\ [Next]_vars => TypeOK'
<1> SUFFICES ASSUME TypeOK, [Next]_vars PROVE TypeOK'
  OBVIOUS
<1>. USE CounterAssumption DEF TypeOK, request, progress, Modes
<1>1. ASSUME NEW r \in Requests, Command(r) PROVE TypeOK'
  <2>1. CASE ScipMeasure(r)
    <3>1. CASE RangeStatus(r.arg) = "00"
      <4>1. Return /\ Mode' = "MD" /\ RawMode' = RawMode
        BY <2>1, <3>1 DEF ScipMeasure
      <4>2. MDStart' \in 0..Word - 1 /\ MDEnd' \in 0..Word - 1 /\ MDCull' \in 0..Word - 1
        BY <2>1, <3>1, RequestType, ModWord DEF ScipMeasure
      <4>3. MDStep' \in 0..Word - 1 /\ MDNum' \in 0..Word - 1
        BY <2>1, <3>1, RequestType, ModWord DEF ScipMeasure
      <4>4. iMDStep' \in 0..Word - 1 /\ iMDNum' \in 0..Word - 1
        BY <2>1, <3>1, RequestType, ModWord, WordNat DEF ScipMeasure, StartStream
      <4>5. cMDEnc' \in Letters /\ MDEnc' \in 0..3 /\ INTEnc' \in 0..4
        BY <2>1, <3>1, RequestType DEF ScipMeasure, DistWidth, IntWidth
      <4> QED
        BY <4>1, <4>2, <4>3, <4>4, <4>5 DEF Return
    <3>2. CASE RangeStatus(r.arg) # "00"
      BY <2>1, <3>2 DEF ScipMeasure, Return
    <3> QED
      BY <3>1, <3>2
  <2>2. CASE ScipGet(r)
    BY <2>2 DEF ScipGet, Return
  <2>3. CASE ScipRW(r)
    BY <2>3, RequestType DEF ScipRW, Return
  <2>4. CASE ScipQT(r)
    BY <2>4 DEF ScipQT, Return
  <2>5. CASE ScipTM(r)
    BY <2>5 DEF ScipTM, Return
  <2>6. CASE ScipReset(r)
    BY <2>6 DEF ScipReset
  <2>7. CASE Answer(r)
    BY <2>7 DEF Answer, Return
  <2> QED
    BY <1>1, <2>1, <2>2, <2>3, <2>4, <2>5, <2>6, <2>7 DEF Command
<1>2. CASE NoCommand
  BY <1>2 DEF NoCommand, Return
<1>3. CASE SendScan
  BY <1>3, ModWord, WordNat DEF SendScan, CountScan
<1>4. CASE SkipWindow
  BY <1>4, ModWord DEF SkipWindow, CountWindow
<1>5. CASE StillCounting
  BY <1>5 DEF StillCounting
<1>6. CASE ClearMsCnt
  BY <1>6 DEF ClearMsCnt
<1>7. CASE LoadMsCnt
  BY <1>7 DEF LoadMsCnt
<1>8. CASE StoreMsCnt
  BY <1>8 DEF StoreMsCnt, EndPass, Incremented
<1>9. CASE NotMeasuring
  BY <1>9 DEF NotMeasuring, EndPass
<1>10. CASE WatchdogReset
  BY <1>10, WordNat DEF WatchdogReset, ResetMeasurement
<1>11. CASE TimerInterrupt
  BY <1>11 DEF TimerInterrupt, Incremented
<1>12. CASE UNCHANGED vars
  BY <1>12 DEF vars
<1> QED
  BY <1>1, <1>2, <1>3, <1>4, <1>5, <1>6, <1>7, <1>8, <1>9, <1>10, <1>11, <1>12
  DEF Next, LoopStep, MainLoop

\* The types hold in every state.
LEMMA TypeInvariant == Spec => []TypeOK
<1>1. Init => TypeOK
  BY InitIInv DEF IInv
<1> QED
  BY <1>1, TypeStep, PTL DEF Spec

\* Only ScipMeasure, SendScan and a restart set the request or its counters;
\* every other step keeps them, but for the windows skipped, and never enters
\* MD mode.
LEMMA MeasurementKept ==
    ASSUME TypeOK, [Next]_vars, \A r \in Requests : ~ScipMeasure(r), ~SendScan,
           ~WatchdogReset
    PROVE  /\ UNCHANGED <<MDStart, MDEnd, MDNum, iMDNum, MDStep>>
           /\ Mode' = "MD" => Mode = "MD"
           /\ iMDStep' # iMDStep =>
                Mode' = "MD" /\ iMDStep < MDStep /\ iMDStep' = iMDStep + 1
<1>. USE DEF request, progress
<1>1. ASSUME NEW r \in Requests, Command(r)
      PROVE  /\ UNCHANGED <<MDStart, MDEnd, MDNum, iMDNum, MDStep, iMDStep>>
             /\ Mode' = "MD" => Mode = "MD"
  BY <1>1 DEF Command, ScipGet, ScipRW, ScipQT, ScipTM, ScipReset, Answer
<1>2. CASE SkipWindow
  <2>1. iMDStep + 1 \in Nat /\ iMDStep + 1 < Word
    BY <1>2, WordNat DEF SkipWindow, TypeOK
  <2>2. iMDStep' = iMDStep + 1
    BY <1>2, <2>1, ModWord DEF SkipWindow, CountWindow
  <2> QED
    BY <1>2, <2>2 DEF SkipWindow, InWindow
<1>3. CASE NoCommand \/ StillCounting \/ ClearMsCnt \/ LoadMsCnt \/ StoreMsCnt
           \/ NotMeasuring \/ TimerInterrupt \/ UNCHANGED vars
  BY <1>3 DEF NoCommand, StillCounting, ClearMsCnt, LoadMsCnt, StoreMsCnt, NotMeasuring,
     TimerInterrupt, vars
<1> QED
  BY <1>1, <1>2, <1>3 DEF Next, LoopStep, MainLoop

\* What an accepted measurement sets.
LEMMA Accepted ==
    ASSUME NEW r \in Requests, ScipMeasure(r), RangeStatus(r.arg) = "00"
    PROVE  /\ Mode' = "MD"
           /\ MDStart' <= MDEnd' /\ MDEnd' <= amax
           /\ MDNum' = r.arg[5] % Word /\ iMDNum' = 0
           /\ MDStep' = r.arg[4] % Word /\ iMDStep' = MDStep'
           /\ MDNum' \in Nat /\ MDStep' \in Nat
           /\ UNCHANGED scan
<1>1. r.arg[1] <= r.arg[2] /\ r.arg[2] <= amax /\ amax < Word
  BY RequestType, BoardAssumption DEF RangeStatus
<1>2. r.arg[1] < Word /\ r.arg[2] < Word
  BY <1>1, RequestType, WordNat, BoardAssumption
<1>3. MDStart' = r.arg[1] /\ MDEnd' = r.arg[2]
  BY <1>2, RequestType, ModWord DEF ScipMeasure
<1>4. MDNum' \in Nat /\ MDStep' \in Nat
  BY RequestType, ModWord, WordNat DEF ScipMeasure
<1> QED
  BY <1>1, <1>3, <1>4 DEF ScipMeasure, StartStream, Return

\* A measurement command that is refused changes nothing of the stream.
LEMMA Rejected ==
    ASSUME NEW r \in Requests, ScipMeasure(r), RangeStatus(r.arg) # "00"
    PROVE  UNCHANGED <<Mode, MDStart, MDEnd, MDNum, iMDNum, MDStep, iMDStep, scan>>
BY DEF ScipMeasure, Return, request, progress

\* What sending a scan does to the counters.
LEMMA Scanned ==
    ASSUME TypeOK, StreamCounters, SendScan
    PROVE  /\ Mode = "MD" /\ iMDStep = MDStep /\ iMDStep' = 0
           /\ UNCHANGED <<MDStart, MDEnd, MDNum, MDStep>>
           /\ iMDNum' = IF MDNum = 0 THEN iMDNum ELSE iMDNum + 1
           /\ Mode' = IF MDNum = 0 \/ iMDNum + 1 < MDNum THEN "MD" ELSE "STANDBY"
           /\ scan'.remain = MDNum - iMDNum
<1>1. Mode = "MD" /\ iMDStep >= MDStep /\ iMDStep' = 0
      /\ UNCHANGED <<MDStart, MDEnd, MDNum, MDStep>> /\ scan'.remain = MDNum - iMDNum
  BY DEF SendScan, InWindow, request
<1>2. iMDStep = MDStep
  BY <1>1, WordNat DEF StreamCounters, TypeOK
<1>3. iMDNum' = IF MDNum = 0 THEN iMDNum ELSE iMDNum + 1
  <2>1. MDNum # 0 => iMDNum + 1 \in Nat /\ iMDNum + 1 < Word
    BY <1>1, WordNat DEF StreamCounters, TypeOK
  <2> QED
    BY <2>1, ModWord DEF SendScan, CountScan
<1>4. Mode' = IF MDNum = 0 \/ iMDNum + 1 < MDNum THEN "MD" ELSE "STANDBY"
  BY <1>1, <1>3, WordNat DEF SendScan, LastScan, TypeOK
<1> QED
  BY <1>1, <1>2, <1>3, <1>4

\* Every step keeps the range on the board.
LEMMA RangeStep == TypeOK /\ StreamCounters /\ RequestInRange /\ [Next]_vars => RequestInRange'
<1> SUFFICES ASSUME TypeOK, StreamCounters, RequestInRange, [Next]_vars PROVE RequestInRange'
  OBVIOUS
<1>1. ASSUME NEW r \in Requests, ScipMeasure(r) PROVE RequestInRange'
  BY <1>1, Accepted, Rejected DEF RequestInRange
<1>2. CASE SendScan
  BY <1>2, Scanned DEF RequestInRange
<1>3. CASE (\A r \in Requests : ~ScipMeasure(r)) /\ ~SendScan /\ ~WatchdogReset
  BY <1>3, MeasurementKept DEF RequestInRange
<1>4. CASE WatchdogReset
  BY <1>4 DEF WatchdogReset, RequestInRange
<1> QED
  BY <1>1, <1>2, <1>3, <1>4

\* Every step keeps the counters of the stream within the request.
LEMMA CountersStep == TypeOK /\ StreamCounters /\ [Next]_vars => StreamCounters'
<1> SUFFICES ASSUME TypeOK, StreamCounters, [Next]_vars PROVE StreamCounters'
  OBVIOUS
<1>0. iMDStep \in Nat /\ MDStep \in Nat /\ iMDNum \in Nat /\ MDNum \in Nat
  BY WordNat DEF TypeOK
<1>1. ASSUME NEW r \in Requests, ScipMeasure(r) PROVE StreamCounters'
  BY <1>1, Accepted, Rejected DEF StreamCounters
<1>2. CASE SendScan
  BY <1>0, <1>2, Scanned DEF StreamCounters
<1>3. CASE (\A r \in Requests : ~ScipMeasure(r)) /\ ~SendScan /\ ~WatchdogReset
  BY <1>0, <1>3, MeasurementKept DEF StreamCounters
<1>4. CASE WatchdogReset
  BY <1>4 DEF WatchdogReset, StreamCounters
<1> QED
  BY <1>1, <1>2, <1>3, <1>4

\* ScipGet and SendScan alone decide how many words are sent.
LEMMA SentStep == TypeOK /\ RequestInRange /\ SentBounded /\ [Next]_vars => SentBounded'
<1> SUFFICES ASSUME TypeOK, RequestInRange, SentBounded, [Next]_vars PROVE SentBounded'
  OBVIOUS
<1>0. 0 \in 0..amax + 1
  BY BoardAssumption
<1>1. ASSUME NEW r \in Requests, ScipGet(r) PROVE SentBounded'
  <2>1. CASE RangeStatus(r.arg) = "00"
    <3>1. r.arg[1] <= r.arg[2] /\ r.arg[2] <= amax
      BY <2>1, RequestType, BoardAssumption DEF RangeStatus
    <3>2. r.arg[3] % Word \in Nat
      BY RequestType, ModWord, WordNat
    <3>3. Points(r.arg[1], r.arg[2], r.arg[3] % Word) \in 0..amax + 1
      BY <3>1, <3>2, RequestType, PointsBounded
    <3> QED
      BY <1>1, <2>1, <3>3 DEF ScipGet, SentBounded, Return
  <2>2. CASE RangeStatus(r.arg) # "00"
    BY <1>0, <1>1, <2>2 DEF ScipGet, SentBounded, Return, Status
  <2> QED
    BY <2>1, <2>2
<1>2. CASE SendScan
  <2>1. MDStart \in Nat /\ MDEnd \in Nat /\ MDCull \in Nat /\ MDStart <= MDEnd /\ MDEnd <= amax
    BY <1>2, WordNat DEF SendScan, InWindow, TypeOK, RequestInRange
  <2>2. Points(MDStart, MDEnd, MDCull) \in 0..amax + 1
    BY <2>1, PointsBounded
  <2> QED
    BY <1>2, <2>2 DEF SendScan, SentBounded
<1>3. ASSUME NEW r \in Requests, Command(r), ~ScipGet(r) PROVE SentBounded'
  BY <1>0, <1>3 DEF Command, ScipMeasure, ScipRW, ScipQT, ScipTM, ScipReset, Answer,
     Return, Status, SentBounded
<1>4. CASE NoCommand
  BY <1>0, <1>4 DEF NoCommand, Return, Status, SentBounded
<1>5. CASE SkipWindow \/ StillCounting \/ ClearMsCnt \/ LoadMsCnt \/ StoreMsCnt
           \/ NotMeasuring \/ WatchdogReset \/ TimerInterrupt \/ UNCHANGED vars
  BY <1>5 DEF SkipWindow, StillCounting, ClearMsCnt, LoadMsCnt, StoreMsCnt, NotMeasuring,
     WatchdogReset, TimerInterrupt, vars, SentBounded
<1> QED
  BY <1>1, <1>2, <1>3, <1>4, <1>5 DEF Next, LoopStep, MainLoop

\* The inductive invariant holds in every state of the main loop.
THEOREM Invariance == Spec => []IInv
<1>1. IInv /\ [Next]_vars => IInv'
  BY TypeStep, RangeStep, CountersStep, SentStep DEF IInv
<1> QED
  BY InitIInv, <1>1, PTL DEF Spec

\* Type correctness of the main loop's state, whatever the requests hold.
THEOREM TypeCorrect == Spec => []TypeOK
BY TypeInvariant

\* In MD mode the requested range lies on the board, and what is streamed or
\* answered stays inside the sensor arrays.
THEOREM RangeCorrect == Spec => [](RequestInRange /\ SlotsInBounds)
<1>1. IInv => RequestInRange /\ SlotsInBounds
  BY BoardAssumption DEF IInv, SentBounded, SlotsInBounds
<1> QED
  BY <1>1, Invariance, PTL

\* The counters of a stream in progress stay inside the request.
THEOREM CountersCorrect == Spec => []StreamCounters
BY Invariance, PTL DEF IInv

-----------------------------------------------------------------------------
\* After power up there is no stream.
LEMMA InitRefines == Init => Stream!StreamInit
BY DEF Init, NoScan, Stream!StreamInit

\* A step of the main loop is a step of the promised stream, or leaves it alone.
LEMMA StepRefines == IInv /\ [Next]_vars => [Stream!StreamNext]_(Stream!streamVars)
<1> SUFFICES ASSUME IInv, [Next]_vars, ~UNCHANGED Stream!streamVars
             PROVE  Stream!StreamNext
  OBVIOUS
<1>0. /\ TypeOK /\ StreamCounters
      /\ iMDStep \in Nat /\ MDStep \in Nat /\ iMDNum \in Nat /\ MDNum \in Nat
  BY WordNat DEF IInv, TypeOK
<1>1. ASSUME NEW r \in Requests, ScipMeasure(r) PROVE Stream!StreamNext
  <2>1. CASE RangeStatus(r.arg) = "00"
    <3>1. Stream!Accept(r.arg[5] % Word, r.arg[4] % Word)
      BY <1>1, <2>1, Accepted DEF Stream!Accept
    <3> QED
      BY <3>1 DEF Stream!StreamNext
  <2>2. CASE RangeStatus(r.arg) # "00"
    BY <1>1, <2>2, Rejected DEF Stream!streamVars
  <2> QED
    BY <2>1, <2>2
<1>2. CASE SendScan
  <2>1. Stream!Deliver
    BY <1>0, <1>2, Scanned DEF Stream!Deliver, StreamCounters
  <2> QED
    BY <2>1 DEF Stream!StreamNext
<1>3. CASE WatchdogReset
  BY <1>3 DEF WatchdogReset, ResetMeasurement, Stream!StreamNext, Stream!Restart
<1>4. CASE (\A r \in Requests : ~ScipMeasure(r)) /\ ~SendScan /\ ~WatchdogReset
  <2>1. UNCHANGED scan
    BY <1>4 DEF Next, LoopStep, MainLoop, Command, ScipGet, ScipRW, ScipQT, ScipTM, ScipReset, Answer,
       Return, NoCommand, SkipWindow, StillCounting, ClearMsCnt, LoadMsCnt, StoreMsCnt,
       NotMeasuring, TimerInterrupt, vars
  <2> QED
    BY <1>0, <1>4, <2>1, MeasurementKept
    DEF Stream!StreamNext, Stream!Skip, Stream!Stop, Stream!streamVars
<1> QED
  BY <1>1, <1>2, <1>3, <1>4

\* A measurement delivers exactly the scans its request promised.
THEOREM Refinement == Spec => ImplementsStream
BY InitRefines, StepRefines, Invariance, PTL DEF Spec, ImplementsStream, Stream!StreamSpec

-----------------------------------------------------------------------------
(* The windows.                                                            *)

\* What MsCnt is at least, in a window that has been found open: each of the passes since it began,
\* or since MsCnt wrapped, has added one.  Between the loop's load and its store the register
\* takes the counter's place.
OpenWindow ==
    /\ pc \in {"poll", "stream"} => passes <= MsCnt
    /\ pc = "load" => passes - 1 <= MsCnt
    /\ pc = "store" => passes - 1 <= reg

PaceInv ==
    /\ TypeOK
    /\ passes \in 0..MsPeriod
    /\ pc \in Closed => passes = 0
    /\ passes > 0 => OpenWindow

\* The loop's increment, and the interrupt's, of a counter that does not wrap.
LEMMA CountsOne ==
    ASSUME NEW c \in 0..MsMod - 1, c # MsMod - 1
    PROVE  Incremented(c) = c + 1
<1>1. c + 1 < MsMod /\ MsMod \in Nat \ {0} /\ c + 1 \in Nat
  BY CounterAssumption
<1> QED
  BY <1>1, ModBounded DEF Incremented

\* A step that leaves the counter alone and finds no window open or closed.
LEMMA PaceFrame ==
    ASSUME PaceInv, TypeOK', passes' \in {0, passes}, pc' \in Closed => passes' = 0,
           UNCHANGED <<MsCnt, reg, passTicks>>,
           \/ pc = pc'
           \/ pc = "poll" /\ pc' = "stream"
           \/ pc' = "reboot"
           \/ passes' = 0
    PROVE  PaceInv'
<1>1. CASE passes' = 0
  BY <1>1, CounterAssumption DEF PaceInv
<1>2. CASE passes' = passes /\ passes' # 0
  <2>1. passes > 0 /\ OpenWindow /\ pc' \notin Closed
    BY <1>2, CounterAssumption DEF PaceInv
  <2>2. OpenWindow'
    BY <1>2, <2>1 DEF OpenWindow
  <2> QED
    BY <1>2, <2>1, <2>2 DEF PaceInv
<1> QED
  BY <1>1, <1>2

\* What the history variable does in a step that is none of the window's.
LEMMA PassesKept ==
    ASSUME PaceInv, PacingNext, pc # "stream" \/ pc' # "load"
    PROVE  /\ passes' \in {0, passes}
           /\ pc' \in Closed \/ Mode' # "MD" \/ Wraps => passes' = 0
BY DEF PaceInv, PacingNext

\* A pass counts unless its window closes.
LEMMA PassesAre ==
    ASSUME PacingNext, Mode' = "MD", ~Wraps
    PROVE  /\ pc = "stream" /\ pc' = "load" => passes' = passes + 1
           /\ pc # "stream" \/ pc' # "load" => passes' = IF pc' \in Closed THEN 0 ELSE passes
BY DEF PacingNext, Closed

\* Commands pass the counter on to the streaming half of the pass.
LEMMA PaceCommand ==
    ASSUME PaceInv, TypeOK', PacingNext, NoCommand \/ (\E r \in Requests : Command(r))
    PROVE  PaceInv'
<1>1. /\ pc = "poll" /\ pc' \in {"stream", "reboot"}
      /\ UNCHANGED <<MsCnt, reg, passTicks>>
  <2>1. CASE NoCommand
    BY <2>1 DEF NoCommand, Return
  <2>2. ASSUME NEW r \in Requests, Command(r)
        PROVE  /\ pc = "poll" /\ pc' \in {"stream", "reboot"}
               /\ UNCHANGED <<MsCnt, reg, passTicks>>
    BY <2>2 DEF Command, ScipMeasure, ScipGet, ScipRW, ScipQT, ScipTM, ScipReset, Answer, Return
  <2> QED
    BY <2>1, <2>2
<1>2. passes' \in {0, passes}
  BY <1>1, PassesKept
<1> QED
  BY <1>1, <1>2, PaceFrame DEF Closed

\* Every step keeps the bounds.
LEMMA PaceStep == PaceInv /\ [PacingNext]_pacingVars => PaceInv'
<1> SUFFICES ASSUME PaceInv, [PacingNext]_pacingVars PROVE PaceInv'
  OBVIOUS
<1>0. TypeOK /\ TypeOK'
  BY TypeStep DEF PaceInv, PacingNext, pacingVars
<1>1. CASE UNCHANGED pacingVars
  BY <1>0, <1>1, PaceFrame DEF pacingVars, vars, PaceInv
<1> SUFFICES ASSUME PacingNext PROVE PaceInv'
  BY <1>1
<1>2. CASE NoCommand \/ (\E r \in Requests : Command(r))
  BY <1>0, <1>2, PaceCommand
<1>3. CASE SendScan \/ SkipWindow \/ WatchdogReset
  <2>1. passes' = 0
    BY <1>3, PassesKept DEF SendScan, SkipWindow, WatchdogReset, Closed
  <2> QED
    BY <1>0, <2>1, CounterAssumption DEF PaceInv
<1>4. CASE StillCounting
  <2>1. pc = "stream" /\ pc' = "load" /\ UNCHANGED <<MsCnt, reg, passTicks>> /\ MsCnt < MsPeriod
    BY <1>0, <1>4, CounterAssumption DEF StillCounting, WindowOver, TypeOK
  <2>2. ~Wraps /\ Mode' = "MD"
    BY <1>4, <2>1 DEF Wraps, TimerInterrupt, StoreMsCnt, StillCounting
  <2>3. passes' = passes + 1
    BY <2>1, <2>2, PassesAre
  <2>4. MsCnt \in Nat /\ passes \in Nat /\ passes <= MsCnt
    BY <1>0, <2>1, CounterAssumption DEF PaceInv, OpenWindow, TypeOK
  <2> QED
    BY <1>0, <2>1, <2>4, <2>3, CounterAssumption DEF PaceInv, OpenWindow, Closed
<1>5. CASE ClearMsCnt
  <2>1. passes = 0 /\ passes' \in {0, passes}
    BY <1>5, PassesKept DEF ClearMsCnt, PaceInv, Closed
  <2> QED
    BY <1>0, <2>1, CounterAssumption DEF PaceInv
<1>6. CASE LoadMsCnt
  <2>1. pc = "load" /\ pc' = "store" /\ reg' = MsCnt /\ UNCHANGED passTicks
    BY <1>6 DEF LoadMsCnt
  <2>2. passes' \in {0, passes}
    BY <2>1, PassesKept
  <2> QED
    BY <1>0, <2>1, <2>2, CounterAssumption DEF PaceInv, OpenWindow, Closed
<1>7. CASE StoreMsCnt
  <2>1. pc = "store" /\ pc' = "poll" /\ passTicks' = 0 /\ MsCnt' = Incremented(reg)
    BY <1>7 DEF StoreMsCnt, EndPass
  <2>2. passes' \in {0, passes}
    BY <2>1, PassesKept
  <2>3. CASE passes' = 0
    BY <1>0, <2>1, <2>3, CounterAssumption DEF PaceInv
  <2>4. CASE passes' # 0
    <3>1. reg # MsMod - 1 /\ passes' = passes
      BY <1>7, <2>1, <2>2, <2>4, PassesKept DEF Wraps
    <3>2. MsCnt' = reg + 1
      BY <1>0, <2>1, <3>1, CountsOne DEF TypeOK
    <3>3. reg \in Nat /\ passes \in Nat /\ passes - 1 <= reg /\ passes <= MsPeriod
      BY <1>0, <2>1, <2>4, <3>1, CounterAssumption DEF PaceInv, OpenWindow, TypeOK
    <3> QED
      BY <1>0, <2>1, <3>1, <3>2, <3>3, CounterAssumption DEF PaceInv, OpenWindow, Closed
  <2> QED
    BY <2>3, <2>4
<1>8. CASE NotMeasuring
  <2>1. Mode' # "MD" /\ pc' = "poll"
    BY <1>8 DEF NotMeasuring, EndPass
  <2>2. passes' = 0
    BY <2>1, PassesKept
  <2> QED
    BY <1>0, <2>2, CounterAssumption DEF PaceInv
<1>9. CASE TimerInterrupt
  <2>1. /\ passTicks < TicksPerPass /\ passTicks' = passTicks + 1
        /\ MsCnt' = Incremented(MsCnt) /\ UNCHANGED <<pc, reg>>
    BY <1>9 DEF TimerInterrupt
  <2>2. passes' \in {0, passes}
    BY <2>1, PassesKept
  <2>3. CASE passes' = 0
    BY <1>0, <2>3, CounterAssumption DEF PaceInv
  <2>4. CASE passes' # 0
    <3>1. MsCnt # MsMod - 1 /\ passes' = passes
      BY <1>9, <2>1, <2>2, <2>4, PassesKept DEF Wraps
    <3>2. MsCnt' = MsCnt + 1
      BY <1>0, <2>1, <3>1, CountsOne DEF TypeOK
    <3>3. MsCnt \in Nat /\ passes \in Nat /\ passes <= MsPeriod /\ OpenWindow
      BY <1>0, <2>4, <3>1, CounterAssumption DEF PaceInv, TypeOK
    <3> QED
      BY <1>0, <2>1, <2>4, <3>1, <3>2, <3>3, CounterAssumption DEF PaceInv, OpenWindow
  <2> QED
    BY <2>3, <2>4
<1> QED
  BY <1>2, <1>3, <1>4, <1>5, <1>6, <1>7, <1>8, <1>9 DEF PacingNext, Next, LoopStep, MainLoop

\* A window closes within MsPeriod passes of the loop from its beginning, or from the moment MsCnt
\* wrapped, however many interrupts come and whichever the loop's own increment loses.
THEOREM PacingCorrect == PacingSpec => []WindowNotLate
<1>1. PacingInit => PaceInv
  <2> SUFFICES ASSUME PacingInit PROVE PaceInv
    OBVIOUS
  <2>1. TypeOK
    BY InitIInv DEF PacingInit, IInv
  <2> QED
    BY <2>1, CounterAssumption DEF PacingInit, Init, PaceInv, Closed
<1>2. PaceInv => WindowNotLate
  BY CounterAssumption DEF PaceInv, WindowNotLate
<1> QED
  BY <1>1, <1>2, PaceStep, PTL DEF PacingSpec

-----------------------------------------------------------------------------
(* The progress of a measurement.                                          *)

\* Where the loop stands before its next test of the window.
Place == [stream |-> 1, poll |-> 2, store |-> 3, load |-> 4, sent |-> 5, skipped |-> 5, reboot |-> 0]

\* The scans, windows, and passes of the loop that a measurement has before it.
ScansLeft == MDNum - iMDNum
WindowsLeft == MDStep - iMDStep
PassesLeft == MsPeriod - passes

\* The next scan is nearer than it was.
Nearer ==
    \/ WindowsLeft' < WindowsLeft
    \/ WindowsLeft' = WindowsLeft /\ PassesLeft' < PassesLeft
    \/ WindowsLeft' = WindowsLeft /\ PassesLeft' = PassesLeft /\ Place[pc'] < Place[pc]

\* A request is accepted, in the place of the one before.
Requested == \E r \in Requests : ScipMeasure(r) /\ RangeStatus(r.arg) = "00"

\* Every step of the loop brings the next scan nearer, or sends it, and no interrupt puts it off,
\* but for the steps that wrap MsCnt.
ScansCome ==
    [][Mode = "MD" /\ Mode' = "MD" /\ ~Requested =>
         /\ SendScan /\ MDNum # 0 => ScansLeft' < ScansLeft
         /\ ~SendScan => ScansLeft' = ScansLeft
         /\ LoopStep /\ ~SendScan /\ ~Wraps => Nearer
         /\ ~LoopStep /\ ~Wraps => UNCHANGED <<WindowsLeft, PassesLeft, pc>>]_pacingVars

\* What is left is bounded.
ScansBounded ==
    Mode = "MD" => WindowsLeft \in Nat /\ PassesLeft \in Nat /\ (MDNum # 0 => ScansLeft \in Nat)

\* A step that changes nothing of a measurement but the place of the loop.
LEMMA PlaceNearer ==
    ASSUME UNCHANGED <<MDStep, iMDStep, passes>>, Place[pc'] < Place[pc]
    PROVE  Nearer
BY DEF Nearer, WindowsLeft, PassesLeft

\* A command that is no new request is a turn of the loop.
LEMMA CommandNearer ==
    ASSUME PacingNext, Mode' = "MD", UNCHANGED <<MDStep, iMDStep>>,
           NoCommand \/ (\E r \in Requests : Command(r)), ~Wraps
    PROVE  Nearer
<1>1. pc = "poll" /\ pc' \in {"stream", "reboot"}
  BY DEF NoCommand, Command, ScipMeasure, ScipGet, ScipRW, ScipQT, ScipTM, ScipReset, Answer, Return
<1>2. passes' = passes
  BY <1>1, PassesAre DEF Closed
<1>3. Place[pc'] < Place[pc]
  BY <1>1 DEF Place
<1> QED
  BY <1>2, <1>3, PlaceNearer

\* Every step of a measurement that goes on.
LEMMA ScansStep ==
    ASSUME TypeOK, StreamCounters, PaceInv, PacingNext, Mode = "MD", Mode' = "MD", ~Requested
    PROVE  /\ SendScan /\ MDNum # 0 => ScansLeft' < ScansLeft
           /\ ~SendScan => ScansLeft' = ScansLeft
           /\ LoopStep /\ ~SendScan /\ ~Wraps => Nearer
           /\ ~LoopStep /\ ~Wraps => UNCHANGED <<WindowsLeft, PassesLeft, pc>>
<1>0. /\ Next /\ iMDStep \in Nat /\ MDStep \in Nat /\ iMDNum \in Nat /\ MDNum \in Nat
      /\ passes \in Nat /\ MsPeriod \in Nat
  BY WordNat, CounterAssumption DEF PacingNext, TypeOK, PaceInv
<1>1. CASE SendScan
  <2>1. MDNum' = MDNum /\ (MDNum # 0 => iMDNum' = iMDNum + 1)
    BY <1>1, Scanned
  <2>2. MDNum # 0 => ScansLeft' = MDNum - (iMDNum + 1)
    BY <2>1 DEF ScansLeft
  <2>3. MDNum # 0 => ScansLeft' < ScansLeft
    BY <1>0, <2>2 DEF ScansLeft
  <2>4. LoopStep
    BY <1>1 DEF LoopStep, MainLoop
  <2> QED
    BY <1>1, <2>3, <2>4
<1>2. CASE \E r \in Requests : ScipMeasure(r)
  <2>1. PICK r \in Requests : ScipMeasure(r)
    BY <1>2
  <2>2. UNCHANGED <<MDNum, iMDNum, MDStep, iMDStep>>
    BY <2>1, Rejected DEF Requested
  <2>3. Command(r)
    BY <2>1 DEF Command
  <2>4. ~Wraps => Nearer
    BY <2>2, <2>3, CommandNearer
  <2>5. LoopStep /\ ~SendScan
    BY <2>1, <2>3 DEF LoopStep, ScipMeasure, Return, SendScan
  <2> QED
    BY <2>2, <2>4, <2>5 DEF ScansLeft
<1>3. CASE ~SendScan /\ ~(\E r \in Requests : ScipMeasure(r))
  <2>1. ~WatchdogReset
    BY DEF WatchdogReset
  <2>2. /\ UNCHANGED <<MDNum, iMDNum, MDStep>>
        /\ iMDStep' # iMDStep => iMDStep < MDStep /\ iMDStep' = iMDStep + 1
    BY <1>0, <1>3, <2>1, MeasurementKept
  <2>3. ScansLeft' = ScansLeft
    BY <2>2 DEF ScansLeft
  <2>4. CASE iMDStep' = iMDStep + 1
    <3>1. WindowsLeft' = MDStep - (iMDStep + 1)
      BY <2>2, <2>4 DEF WindowsLeft
    <3>2. WindowsLeft' < WindowsLeft
      BY <1>0, <3>1 DEF WindowsLeft
    <3>3. SkipWindow
      <4>1. iMDStep' # iMDStep
        BY <1>0, <2>4
      <4> QED
        BY <1>0, <1>3, <2>1, <4>1
        DEF Next, LoopStep, MainLoop, NoCommand, StillCounting, ClearMsCnt, LoadMsCnt, StoreMsCnt,
            NotMeasuring, TimerInterrupt, Command, ScipGet, ScipRW, ScipQT, ScipTM, ScipReset,
            Answer, progress
    <3> QED
      BY <1>3, <2>3, <3>2, <3>3 DEF Nearer, LoopStep, MainLoop
  <2>5. CASE iMDStep' = iMDStep
    <3>1. WindowsLeft' = WindowsLeft
      BY <2>2, <2>5 DEF WindowsLeft
    <3>2. CASE NoCommand \/ (\E r \in Requests : Command(r))
      <4>1. ~Wraps => Nearer
        BY <2>2, <2>5, <3>2, CommandNearer
      <4> QED
        BY <1>3, <2>3, <3>2, <4>1 DEF LoopStep, MainLoop
    <3>3. CASE StillCounting
      <4>0. ~Wraps
        BY <3>3 DEF Wraps, TimerInterrupt, StoreMsCnt, StillCounting
      <4>1. passes' = passes + 1
        BY <3>3, <4>0, PassesAre DEF StillCounting
      <4>2. PassesLeft' = MsPeriod - (passes + 1)
        BY <4>1 DEF PassesLeft
      <4>3. PassesLeft' < PassesLeft
        BY <1>0, <4>2 DEF PassesLeft
      <4> QED
        BY <1>3, <2>3, <3>1, <3>3, <4>3 DEF Nearer, LoopStep, MainLoop
    <3>4. CASE ClearMsCnt \/ LoadMsCnt \/ StoreMsCnt
      <4>1. /\ pc # "stream" /\ pc' \notin Closed /\ Place[pc'] < Place[pc]
        BY <3>4 DEF ClearMsCnt, LoadMsCnt, StoreMsCnt, EndPass, Closed, Place
      <4>2. ~Wraps => passes' = passes
        BY <4>1, PassesAre
      <4>3. ~Wraps => Nearer
        BY <2>2, <2>5, <4>1, <4>2, PlaceNearer
      <4> QED
        BY <1>3, <2>3, <3>4, <4>3 DEF LoopStep, MainLoop
    <3>5. CASE TimerInterrupt /\ ~LoopStep
      <4>1. pc' = pc
        BY <3>5 DEF TimerInterrupt
      <4>2. ~Wraps => passes' = passes
        BY <4>1, PassesAre DEF PaceInv
      <4>3. ~Wraps => PassesLeft' = PassesLeft
        BY <4>2 DEF PassesLeft
      <4> QED
        BY <1>3, <2>3, <3>1, <3>5, <4>1, <4>3
    <3>6. ~NotMeasuring /\ ~SkipWindow
      <4>1. ~NotMeasuring
        BY DEF NotMeasuring
      <4>2. ~SkipWindow
        <5>1. ASSUME SkipWindow PROVE iMDStep' = iMDStep + 1
          <6>1. iMDStep + 1 \in Nat /\ iMDStep + 1 < Word
            BY <5>1, WordNat DEF SkipWindow, TypeOK
          <6> QED
            BY <5>1, <6>1, ModWord DEF SkipWindow, CountWindow
        <5> QED
          BY <1>0, <2>5, <5>1
      <4> QED
        BY <4>1, <4>2
    <3> QED
      BY <1>0, <1>3, <2>1, <3>2, <3>3, <3>4, <3>5, <3>6 DEF Next, LoopStep, MainLoop
  <2> QED
    BY <2>2, <2>4, <2>5
<1> QED
  BY <1>1, <1>2, <1>3

\* As long as a request is not replaced or stopped each step of the main loop brings its next scan
\* nearer or sends it, each scan sent leaves a finite one with fewer, and no timer interrupt puts a
\* scan off: for every board, counter width and set of requests.
THEOREM ScansCorrect == PacingSpec => []ScansBounded /\ ScansCome
<1> DEFINE Inv == TypeOK /\ StreamCounters /\ PaceInv
<1>1. PacingInit => Inv
  <2> SUFFICES ASSUME PacingInit PROVE Inv
    OBVIOUS
  <2>1. TypeOK /\ StreamCounters
    BY InitIInv DEF PacingInit, IInv
  <2> QED
    BY <2>1, CounterAssumption DEF PacingInit, Init, PaceInv, Closed
<1>2. Inv /\ [PacingNext]_pacingVars => Inv'
  <2>1. [PacingNext]_pacingVars => [Next]_vars
    BY DEF PacingNext, pacingVars
  <2> QED
    BY <2>1, TypeStep, CountersStep, PaceStep
<1>3. Inv => ScansBounded
  <2> SUFFICES ASSUME Inv, Mode = "MD"
               PROVE  WindowsLeft \in Nat /\ PassesLeft \in Nat /\ (MDNum # 0 => ScansLeft \in Nat)
    BY DEF ScansBounded
  <2>1. /\ iMDStep \in Nat /\ MDStep \in Nat /\ iMDNum \in Nat /\ MDNum \in Nat
        /\ passes \in 0..MsPeriod /\ MsPeriod \in Nat
    BY WordNat, CounterAssumption DEF TypeOK, PaceInv
  <2> QED
    BY <2>1 DEF StreamCounters, WindowsLeft, PassesLeft, ScansLeft
<1>4. Inv /\ [PacingNext]_pacingVars =>
        [Mode = "MD" /\ Mode' = "MD" /\ ~Requested =>
           /\ SendScan /\ MDNum # 0 => ScansLeft' < ScansLeft
           /\ ~SendScan => ScansLeft' = ScansLeft
           /\ LoopStep /\ ~SendScan /\ ~Wraps => Nearer
           /\ ~LoopStep /\ ~Wraps => UNCHANGED <<WindowsLeft, PassesLeft, pc>>]_pacingVars
  BY ScansStep
<1> QED
  BY <1>1, <1>2, <1>3, <1>4, PTL DEF PacingSpec, ScansCome
=============================================================================
