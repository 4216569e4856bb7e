------------------------------ MODULE Sampler ------------------------------
(***************************************************************************)
(* The sensors: the free-running ADC, its interrupt (ADC_vect), and the RS *)
(* command's loop that clears what the interrupt computes.                 *)
(*                                                                         *)
(* A conversion locks its channel when it starts, which is when the one    *)
(* before it ends, so what the interrupt selects is converted after the    *)
(* conversion already running.  Sensor conversions alternate with          *)
(* conversions of the band gap.  The interrupt is served some time after   *)
(* a conversion ends, perhaps after the next has ended too.                *)
(*                                                                         *)
(* RS clears a sensor's 32-bit Offset byte by byte, in the order the       *)
(* compiler chose; the interrupt may come in between.                      *)
(***************************************************************************)
EXTENDS Integers

CONSTANTS Sensors,   \* sensors are 0..Sensors-1
          Scale,     \* 0x1000: Offset is kept in units of 1/Scale
          MaxRaw,    \* the largest result of a conversion
          Levels,    \* results a conversion of each channel may have
          thresh, dist,
          Cuts       \* the weights at which a clear of Offset may be cut in two

BandGap == Sensors            \* the reference's channel
Channels == 0..Sensors
Index == 0..Sensors - 1

ASSUME SensorAssumption ==
    /\ Sensors \in Nat \ {0} /\ thresh \in Nat /\ dist \in Nat \ {0}
    /\ MaxRaw \in Nat /\ Scale \in Nat \ {0} /\ MaxRaw <= Scale
    /\ Levels \in [Channels -> SUBSET (0..MaxRaw)]
    /\ Cuts \subseteq Nat \ {0}

VARIABLES
    ADMUX,      \* the channel selected
    converting, \* the channel of the running conversion
    channel, ADC, ADIF,   \* the last finished conversion, and its flag
    iScan, iScanRef,      \* iScanRef is an even-sized counter: its last bit
    Raw, Data, Offset, Distance,
    reset,      \* where RS is: step, sensor, and how Offset's clear is cut
    late,       \* the pending interrupt missed a conversion
    seen,       \* sensors sampled since their Offset was cleared
    low, high,  \* the extremes of those samples
    torn        \* sensors whose Offset an interrupt kept from being cleared

adc == <<ADMUX, converting, channel, ADC, ADIF, late>>
values == <<Raw, Data, Offset, Distance>>
history == <<seen, low, high, torn>>
vars == <<adc, iScan, iScanRef, values, reset, history>>

NoReset == [step |-> "none", i |-> 0, cut |-> 1, lowFirst |-> TRUE]

Init ==
    /\ ADMUX = 0 /\ converting = 0 /\ channel = 0 /\ ADC = 0 /\ ADIF = FALSE
    /\ iScan = 0 /\ iScanRef = 0
    /\ Raw = [i \in Index |-> 0] /\ Data = [i \in Index |-> 0]
    /\ Offset = [i \in Index |-> 0] /\ Distance = [i \in Index |-> 0]
    /\ reset = NoReset
    /\ late = FALSE /\ seen = {} /\ torn = {}
    /\ low = [i \in Index |-> 0] /\ high = [i \in Index |-> 0]

-----------------------------------------------------------------------------
(* The interrupt.                                                          *)

\* Slip: the baseline starts at nothing.
InitialNot(o, r) == o
Initial(o, r) == IF o = 0 THEN r * Scale ELSE o

\* Slips: the sample is added before the decay is taken; the average is not
\* scaled; the baseline is not updated.
FollowedLate(o, r) == (o + r) - ((o + r) \div Scale)
FollowedAtOnce(o, r) == r * Scale
FollowedNot(o, r) == o
Followed(o, r) == o - (o \div Scale) + r

Contact(d) == d > thresh

NextIndex == IF iScan + 1 = Sensors THEN 0 ELSE iScan + 1

\* The channel selected after a sensor's sample.  Slip: before iScan ++.
NextChannelEarly == iScan
NextChannel == NextIndex

NewOffset == Followed(Initial(Offset[iScan], ADC), ADC)
NewData == ADC - NewOffset \div Scale

\* The conversions of the band gap are not used.
BandGapInterrupt ==
    /\ ADIF /\ iScanRef = 0
    /\ ADIF' = FALSE /\ late' = FALSE
    /\ ADMUX' = BandGap
    /\ iScanRef' = 1
    /\ UNCHANGED <<converting, channel, ADC, iScan, values, reset, history>>

SensorInterrupt ==
    /\ ADIF /\ iScanRef = 1
    /\ ADIF' = FALSE /\ late' = FALSE
    /\ Raw' = [Raw EXCEPT ![iScan] = ADC]
    /\ Offset' = [Offset EXCEPT ![iScan] = NewOffset]
    /\ Data' = [Data EXCEPT ![iScan] = NewData]
    /\ Distance' = [Distance EXCEPT ![iScan] = IF Contact(NewData) THEN dist ELSE 0]
    /\ iScan' = NextIndex
    /\ ADMUX' = NextChannel
    /\ iScanRef' = 0
    /\ seen' = seen \cup {iScan}
    /\ low' = [low EXCEPT ![iScan] = IF iScan \in seen /\ @ < ADC THEN @ ELSE ADC]
    /\ high' = [high EXCEPT ![iScan] = IF iScan \in seen /\ @ > ADC THEN @ ELSE ADC]
    /\ UNCHANGED <<converting, channel, ADC, reset, torn>>

\* The converter finishes and starts again.
ConversionEnds ==
    /\ channel' = converting
    /\ ADC' \in Levels[converting]
    /\ converting' = ADMUX
    /\ ADIF' = TRUE /\ late' = ADIF
    /\ UNCHANGED <<ADMUX, iScan, iScanRef, values, reset, history>>

-----------------------------------------------------------------------------
(* RS, after its answer.                                                   *)

LowPart(o, cut) == o % cut
HighPart(o, cut) == o - (o % cut)

StartReset ==
    /\ reset.step = "none"
    /\ reset' = [NoReset EXCEPT !.step = "clear"]
    /\ UNCHANGED <<adc, iScan, iScanRef, values, history>>

\* The first bytes of Offset[i] are stored.
ClearSome(cut, lowFirst) ==
    LET i == reset.i
        left == IF lowFirst THEN HighPart(Offset[i], cut) ELSE LowPart(Offset[i], cut)
    IN  /\ reset.step = "clear"
        /\ Offset' = [Offset EXCEPT ![i] = left]
        /\ torn' = torn \cup {i}
        /\ reset' = [step |-> "clearing", i |-> i, cut |-> cut, lowFirst |-> lowFirst]
    /\ UNCHANGED <<adc, iScan, iScanRef, Raw, Data, Distance, seen, low, high>>

\* The other bytes.
ClearRest ==
    LET i == reset.i
        left == IF reset.lowFirst THEN LowPart(Offset[i], reset.cut)
                                  ELSE HighPart(Offset[i], reset.cut)
    IN  /\ reset.step = "clearing"
        /\ Offset' = [Offset EXCEPT ![i] = left]
        /\ seen' = seen \ {i}
        /\ torn' = IF left = 0 THEN torn \ {i} ELSE torn
        /\ reset' = [NoReset EXCEPT !.step = "values", !.i = i]
    /\ UNCHANGED <<adc, iScan, iScanRef, Raw, Data, Distance, low, high>>

ClearValues ==
    LET i == reset.i IN
    /\ reset.step = "values"
    /\ Data' = [Data EXCEPT ![i] = 0]
    /\ Raw' = [Raw EXCEPT ![i] = 0]
    /\ Distance' = [Distance EXCEPT ![i] = 0]
    /\ reset' = IF i + 1 \in Index THEN [NoReset EXCEPT !.step = "clear", !.i = i + 1]
                                   ELSE NoReset
    /\ UNCHANGED <<adc, iScan, iScanRef, Offset, history>>

Interrupt == BandGapInterrupt \/ SensorInterrupt

Next ==
    \/ Interrupt
    \/ ConversionEnds
    \/ StartReset
    \/ \E cut \in Cuts, lowFirst \in BOOLEAN : ClearSome(cut, lowFirst)
    \/ ClearRest
    \/ ClearValues

Spec == Init /\ [][Next]_vars

\* The converter runs freely, and its interrupt is served.
FairSpec == Spec /\ WF_vars(ConversionEnds) /\ SF_vars(Interrupt)

-----------------------------------------------------------------------------
TypeOK ==
    /\ ADMUX \in Channels /\ converting \in Channels /\ channel \in Channels
    /\ ADC \in 0..MaxRaw /\ ADIF \in BOOLEAN /\ late \in BOOLEAN
    /\ iScan \in Index /\ iScanRef \in {0, 1}
    /\ Raw \in [Index -> 0..MaxRaw]
    /\ Offset \in [Index -> Nat] /\ Data \in [Index -> Int]
    /\ Distance \in [Index -> {0, dist}]
    /\ reset \in [step : {"none", "clear", "clearing", "values"}, i : Index,
                  cut : Cuts \cup {1}, lowFirst : BOOLEAN]
    /\ seen \subseteq Index /\ torn \subseteq Index
    /\ low \in [Index -> 0..MaxRaw] /\ high \in [Index -> 0..MaxRaw]

\* The baseline stays between the extremes of the samples it was built from,
\* however they came and whenever RS ran: neither the truncating division nor
\* the order of decay and addition lets it creep out, so that it never
\* overflows either.
BaselineBetween ==
    \A i \in seen \ torn :
        low[i] * Scale <= Offset[i] /\ Offset[i] < (high[i] + 1) * Scale

\* A sensor whose samples vary by no more than thresh never reports a contact,
\* from its first sample after power up or RS on, unless RS and the interrupt
\* tore its Offset.
NoFalseContact ==
    \A i \in seen \ torn : high[i] - low[i] <= thresh => Distance[i] = 0

\* A sample that exceeds every sample before it by more than thresh + 1 is
\* reported at once.  (The baseline has moved by up to one when it is
\* compared.)  It takes a baseline above zero: Offset = 0 means unset to the
\* interrupt, which would take the contact for the baseline.
ContactSeen ==
    [][\A i \in seen \ torn :
         (SensorInterrupt /\ i = iScan /\ low[i] > 0 /\ ADC > high[i] + thresh + 1)
            => Distance'[i] = dist]_vars

\* A sensor's sample comes from its own channel, unless the interrupt itself
\* came late: one late interrupt spoils at most the sample it takes, and the
\* alternation with the band gap recovers.
RightChannel ==
    [][SensorInterrupt /\ ~late => channel = iScan]_vars

\* A contact that lasts is forgotten: while a sensor keeps one value its
\* baseline catches up, also from a torn one.
ContactForgotten ==
    \A i \in Index, r \in 1..MaxRaw :
        <>[](Raw[i] = r /\ reset.step = "none") => <>[](Data[i] = 0 /\ Distance[i] = 0)
=============================================================================
