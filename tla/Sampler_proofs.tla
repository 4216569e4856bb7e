--------------------------- MODULE Sampler_proofs ---------------------------
(***************************************************************************)
(* For every number of sensors, scale and threshold: the sampling of the   *)
(* sensors is right (Sampler).  The inductive invariant adds to the        *)
(* properties what the converter holds between two interrupts, and that a  *)
(* sensor not sampled since it was cleared has no baseline.                *)
(***************************************************************************)
EXTENDS Sampler, TLAPS

-----------------------------------------------------------------------------
(* Arithmetic.                                                             *)

\* What division and remainder of natural numbers give.
LEMMA DivMod ==
    ASSUME NEW x \in Nat, NEW m \in Nat \ {0}
    PROVE  /\ x \div m \in Nat /\ x % m \in Nat
           /\ (x \div m) * m <= x /\ x < (x \div m) * m + m
           /\ x % m <= x
BY SMT

\* Multiplication by a natural number keeps an order.
LEMMA TimesMonotone ==
    ASSUME NEW a \in Nat, NEW b \in Nat, NEW s \in Nat, a <= b
    PROVE  a * s <= b * s
<1>1. PICK c \in Nat : b = a + c
  <2>1. b - a \in Nat /\ b = a + (b - a)
    OBVIOUS
  <2> QED
    BY <2>1
<1>2. b * s = a * s + c * s
  BY <1>1
<1>3. c * s \in Nat /\ a * s \in Nat
  OBVIOUS
<1> QED
  BY <1>2, <1>3

\* The quotient of a number between l * s and (h + 1) * s lies between l and h.
LEMMA QuotientBetween ==
    ASSUME NEW o \in Nat, NEW s \in Nat \ {0}, NEW l \in Nat, NEW h \in Nat,
           l * s <= o, o < (h + 1) * s
    PROVE  l <= o \div s /\ o \div s <= h
<1> DEFINE q == o \div s
<1>1. q \in Nat /\ q * s <= o /\ o < (q + 1) * s
  BY DivMod
<1> HIDE DEF q
<1>2. l <= q
  <2> SUFFICES ASSUME q + 1 <= l PROVE FALSE
    BY <1>1
  <2>1. (q + 1) * s <= l * s
    BY <1>1, TimesMonotone
  <2> QED
    BY <1>1, <2>1
<1>3. q <= h
  <2> SUFFICES ASSUME h + 1 <= q PROVE FALSE
    BY <1>1
  <2>1. (h + 1) * s <= q * s
    BY <1>1, TimesMonotone
  <2> QED
    BY <1>1, <2>1
<1> QED
  BY <1>2, <1>3 DEF q

-----------------------------------------------------------------------------
(* One sample.                                                             *)

\* A baseline that is set up or follows a sample stays a natural number.
LEMMA FollowedType ==
    ASSUME NEW o \in Nat, NEW r \in Nat
    PROVE  Followed(o, r) \in Nat /\ Initial(o, r) \in Nat
<1>1. Scale \in Nat \ {0}
  BY SensorAssumption
<1>2. o \div Scale \in Nat /\ o \div Scale <= o
  <2>1. o \div Scale \in Nat /\ (o \div Scale) * Scale <= o
    BY <1>1, DivMod
  <2>2. 1 * (o \div Scale) <= Scale * (o \div Scale)
    BY <1>1, <2>1, TimesMonotone
  <2> QED
    BY <1>1, <2>1, <2>2
<1>3. r * Scale \in Nat
  BY <1>1
<1> QED
  BY <1>2, <1>3 DEF Followed, Initial

\* A sample between two bounds keeps the baseline between them.
LEMMA FollowedBetween ==
    ASSUME NEW o \in Nat, NEW r \in Nat, NEW l \in Nat, NEW h \in Nat,
           l <= r, r <= h, l * Scale <= o, o < (h + 1) * Scale
    PROVE  l * Scale <= Followed(o, r) /\ Followed(o, r) < (h + 1) * Scale
<1> DEFINE q == o \div Scale
           d == Scale - 1
<1>1. Scale \in Nat \ {0} /\ d \in Nat /\ Scale = d + 1
  BY SensorAssumption
<1>2. q \in Nat /\ l <= q /\ q <= h
  BY <1>1, QuotientBetween, DivMod
<1>3. q * Scale <= o /\ o < q * Scale + Scale
  BY <1>1, DivMod
<1>4. Followed(o, r) = o - q + r
  BY DEF Followed
<1> HIDE DEF q, d
<1>5. l * d <= q * d /\ q * d <= h * d
  BY <1>1, <1>2, TimesMonotone
<1>6. /\ q * Scale = q * d + q
      /\ l * Scale = l * d + l
      /\ (h + 1) * Scale = h * d + h + Scale
  BY <1>1, <1>2
<1>7. q * d \in Nat /\ l * d \in Nat /\ h * d \in Nat
  BY <1>1, <1>2
<1> QED
  BY <1>1, <1>2, <1>3, <1>4, <1>5, <1>6, <1>7

\* A baseline set up by a sample, or an old one, lies between bounds of both.
LEMMA InitialBetween ==
    ASSUME NEW o \in Nat, NEW r \in Nat, NEW l \in Nat, NEW h \in Nat,
           l <= r, r <= h,
           o = 0 \/ (l * Scale <= o /\ o < (h + 1) * Scale)
    PROVE  l * Scale <= Initial(o, r) /\ Initial(o, r) < (h + 1) * Scale
<1>1. Scale \in Nat \ {0}
  BY SensorAssumption
<1>2. CASE o # 0
  BY <1>2 DEF Initial
<1>3. CASE o = 0
  <2>1. Initial(o, r) = r * Scale
    BY <1>3 DEF Initial
  <2>2. l * Scale <= r * Scale /\ r * Scale <= h * Scale
    BY <1>1, TimesMonotone
  <2>3. (h + 1) * Scale = h * Scale + Scale /\ h * Scale \in Nat
    BY <1>1
  <2> QED
    BY <1>1, <2>1, <2>2, <2>3
<1> QED
  BY <1>2, <1>3

-----------------------------------------------------------------------------
(* Types.                                                                  *)

\* The parts into which a clear of Offset is cut are natural numbers.
LEMMA Parts ==
    ASSUME NEW o \in Nat, NEW cut \in Cuts \cup {1}
    PROVE  LowPart(o, cut) \in Nat /\ HighPart(o, cut) \in Nat
<1>1. cut \in Nat \ {0}
  BY SensorAssumption
<1>2. o % cut \in Nat /\ o % cut <= o
  BY <1>1, DivMod
<1> QED
  BY <1>2 DEF LowPart, HighPart

\* What an interrupt computes has its type.
LEMMA NewTypes ==
    ASSUME TypeOK
    PROVE  NewOffset \in Nat /\ NewData \in Int /\ NewOffset \div Scale \in Nat
<1>1. ADC \in Nat /\ Offset[iScan] \in Nat
  BY SensorAssumption DEF TypeOK
<1>2. NewOffset \in Nat
  BY <1>1, FollowedType DEF NewOffset
<1>3. NewOffset \div Scale \in Nat
  BY <1>2, SensorAssumption, DivMod
<1> QED
  BY <1>1, <1>2, <1>3 DEF NewData

\* The places RS can be at.
Resets == [step : {"none", "clear", "clearing", "values"}, i : Index,
           cut : Cuts \cup {1}, lowFirst : BOOLEAN]

\* RS at rest is one of its places.
LEMMA NoResetType == NoReset \in Resets
<1>1. 0 \in Index /\ 1 \in Cuts \cup {1} /\ TRUE \in BOOLEAN
  BY SensorAssumption DEF Index
<1> QED
  BY <1>1 DEF NoReset, Resets

\* The types hold after power up.
LEMMA TypeInit == Init => TypeOK
<1> SUFFICES ASSUME Init PROVE TypeOK
  OBVIOUS
<1>1. reset \in Resets
  BY NoResetType DEF Init
<1>2. 0 \in Index /\ 0 \in Channels /\ 0 \in 0..MaxRaw
  BY SensorAssumption DEF Index, Channels
<1>3. ADIF \in BOOLEAN /\ late \in BOOLEAN
  BY DEF Init
<1> QED
  BY <1>1, <1>2, <1>3 DEF Init, TypeOK, Resets

\* Every step keeps the types.
LEMMA TypeStep == TypeOK /\ [Next]_vars => TypeOK'
<1> SUFFICES ASSUME TypeOK, [Next]_vars PROVE TypeOK'
  OBVIOUS
<1> USE SensorAssumption
<1>1. CASE BandGapInterrupt
  <2>1. BandGap \in Channels
    BY DEF BandGap, Channels
  <2>2. /\ ADMUX' \in Channels /\ iScanRef' \in {0, 1}
        /\ ADIF' \in BOOLEAN /\ late' \in BOOLEAN
    BY <1>1, <2>1 DEF BandGapInterrupt
  <2> QED
    BY <1>1, <2>2 DEF TypeOK, BandGapInterrupt, values, history
<1>2. CASE SensorInterrupt
  <2>1. NextIndex \in Index /\ NextIndex \in Channels
    BY DEF TypeOK, NextIndex, Index, Channels
  <2>2. Offset' \in [Index -> Nat] /\ Data' \in [Index -> Int]
    BY <1>2, NewTypes DEF TypeOK, SensorInterrupt
  <2>3. Raw' \in [Index -> 0..MaxRaw] /\ Distance' \in [Index -> {0, dist}]
    BY <1>2 DEF TypeOK, SensorInterrupt
  <2>4. low' \in [Index -> 0..MaxRaw] /\ high' \in [Index -> 0..MaxRaw]
    BY <1>2 DEF TypeOK, SensorInterrupt
  <2> QED
    BY <1>2, <2>1, <2>2, <2>3, <2>4 DEF TypeOK, SensorInterrupt, NextChannel
<1>3. CASE ConversionEnds
  <2>1. ADC' \in 0..MaxRaw
    BY <1>3 DEF TypeOK, ConversionEnds
  <2> QED
    BY <1>3, <2>1 DEF TypeOK, ConversionEnds, values, history
<1>4. CASE StartReset
  <2>1. reset' \in Resets
    <3>1. reset' = [step |-> "clear", i |-> 0, cut |-> 1, lowFirst |-> TRUE]
      BY <1>4 DEF StartReset, NoReset
    <3>2. 0 \in Index /\ 1 \in Cuts \cup {1} /\ TRUE \in BOOLEAN
      BY DEF Index
    <3> QED
      BY <3>1, <3>2 DEF Resets
  <2> QED
    BY <1>4, <2>1 DEF TypeOK, StartReset, Resets, adc, values, history
<1>5. ASSUME NEW cut \in Cuts, NEW lowFirst \in BOOLEAN, ClearSome(cut, lowFirst)
      PROVE  TypeOK'
  <2>1. Offset' \in [Index -> Nat]
    BY <1>5, Parts DEF TypeOK, ClearSome
  <2> QED
    BY <1>5, <2>1 DEF TypeOK, ClearSome, adc
<1>6. CASE ClearRest
  <2>1. Offset' \in [Index -> Nat]
    BY <1>6, Parts DEF TypeOK, ClearRest
  <2> QED
    BY <1>6, <2>1 DEF TypeOK, ClearRest, NoReset, adc
<1>7. CASE ClearValues
  <2>1. /\ Raw' \in [Index -> 0..MaxRaw] /\ Data' \in [Index -> Int]
        /\ Distance' \in [Index -> {0, dist}]
    BY <1>7 DEF TypeOK, ClearValues
  <2>2. 0 \in Index
    BY DEF Index
  <2> QED
    BY <1>7, <2>1, <2>2 DEF TypeOK, ClearValues, NoReset, adc, history
<1>8. CASE UNCHANGED vars
  BY <1>8 DEF TypeOK, vars, adc, values, history
<1> QED
  BY <1>1, <1>2, <1>3, <1>4, <1>5, <1>6, <1>7, <1>8 DEF Next, Interrupt

\* Every variable of the sampling keeps its type: no baseline is negative and no
\* index leaves the arrays (ADC_vect and RS).
THEOREM TypeCorrect == Spec => []TypeOK
BY TypeInit, TypeStep, PTL DEF Spec

-----------------------------------------------------------------------------
(* The channel of a sample.                                                *)

\* What the converter holds.  The interrupt's next selection is for the
\* conversion after the running one.
Pipeline ==
    /\ iScanRef = 0 => ADMUX = iScan
    /\ iScanRef = 0 /\ ADIF => converting = iScan
    /\ iScanRef = 1 /\ ~ADIF => converting = iScan
    /\ iScanRef = 1 /\ ADIF /\ ~late => channel = iScan

\* The interrupt and the converter keep the pipeline of channels, late or not.
LEMMA PipelineStep == TypeOK /\ Pipeline /\ [Next]_vars => Pipeline'
<1> SUFFICES ASSUME TypeOK, Pipeline, [Next]_vars PROVE Pipeline'
  OBVIOUS
<1>1. CASE BandGapInterrupt
  BY <1>1 DEF Pipeline, BandGapInterrupt
<1>2. CASE SensorInterrupt
  BY <1>2 DEF Pipeline, SensorInterrupt, NextChannel
<1>3. CASE ConversionEnds
  BY <1>3 DEF Pipeline, ConversionEnds, TypeOK
<1>4. CASE UNCHANGED <<adc, iScan, iScanRef>>
  BY <1>4 DEF Pipeline, adc
<1> QED
  BY <1>1, <1>2, <1>3, <1>4
  DEF Next, Interrupt, StartReset, ClearSome, ClearRest, ClearValues, vars

\* ADC_vect stores a sensor's sample under the sensor it was converted from,
\* unless the interrupt missed a conversion.
THEOREM ChannelCorrect == Spec => RightChannel
<1>1. Init => Pipeline
  BY DEF Init, Pipeline
<1>2. TypeOK /\ Pipeline /\ [Next]_vars => [SensorInterrupt /\ ~late => channel = iScan]_vars
  BY DEF Pipeline, SensorInterrupt
<1> QED
  BY <1>1, <1>2, PipelineStep, TypeCorrect, PTL DEF Spec, RightChannel

-----------------------------------------------------------------------------
(* The baseline.                                                           *)

\* A sensor that was not sampled since its Offset was cleared has none, and a
\* clear under way counts as torn.
Unset ==
    /\ \A i \in Index \ (seen \cup torn) : Offset[i] = 0
    /\ reset.step = "clearing" => reset.i \in torn

Baselines == TypeOK /\ Unset /\ BaselineBetween

\* The sample an interrupt takes, and the baseline it computes.
LEMMA Sample ==
    ASSUME Baselines, SensorInterrupt, iScan \notin torn
    PROVE  /\ low'[iScan] \in Nat /\ high'[iScan] \in Nat
           /\ low'[iScan] <= ADC /\ ADC <= high'[iScan]
           /\ low'[iScan] * Scale <= NewOffset
           /\ NewOffset < (high'[iScan] + 1) * Scale
<1> DEFINE o == Offset[iScan]
           l == low'[iScan]
           h == high'[iScan]
<1>1. /\ o \in Nat /\ ADC \in Nat /\ l \in Nat /\ h \in Nat /\ iScan \in Index
      /\ l <= ADC /\ ADC <= h
  BY SensorAssumption DEF Baselines, TypeOK, SensorInterrupt
<1>2. o = 0 \/ (l * Scale <= o /\ o < (h + 1) * Scale)
  <2>1. CASE iScan \notin seen
    BY <1>1, <2>1 DEF Baselines, Unset
  <2>2. CASE iScan \in seen
    <3>1. /\ low[iScan] \in Nat /\ high[iScan] \in Nat
          /\ l <= low[iScan] /\ high[iScan] <= h
      BY <1>1, <2>2, SensorAssumption DEF Baselines, TypeOK, SensorInterrupt
    <3>2. low[iScan] * Scale <= o /\ o < (high[iScan] + 1) * Scale
      BY <2>2 DEF Baselines, BaselineBetween
    <3>3. l * Scale <= low[iScan] * Scale /\ (high[iScan] + 1) * Scale <= (h + 1) * Scale
      BY <1>1, <3>1, SensorAssumption, TimesMonotone
    <3>4. /\ l * Scale \in Nat /\ low[iScan] * Scale \in Nat
          /\ (high[iScan] + 1) * Scale \in Nat /\ (h + 1) * Scale \in Nat
      BY <1>1, <3>1, SensorAssumption
    <3> HIDE DEF l, h, o
    <3> QED
      BY <1>1, <3>2, <3>3, <3>4
  <2> QED
    BY <2>1, <2>2
<1> HIDE DEF l, h, o
<1>3. l * Scale <= Initial(o, ADC) /\ Initial(o, ADC) < (h + 1) * Scale
  BY <1>1, <1>2, InitialBetween
<1>4. l * Scale <= Followed(Initial(o, ADC), ADC) /\ Followed(Initial(o, ADC), ADC) < (h + 1) * Scale
  BY <1>1, <1>3, FollowedBetween, FollowedType
<1> QED
  BY <1>1, <1>4 DEF NewOffset, l, h, o

\* After power up no baseline is set up.
LEMMA BaselinesInit == Init => Baselines
BY TypeInit DEF Init, Baselines, Unset, BaselineBetween, NoReset

\* A sample keeps a whole baseline between its bounds, and RS marks what it tears.
LEMMA BaselinesStep == Baselines /\ [Next]_vars => Baselines'
<1> SUFFICES ASSUME Baselines, [Next]_vars PROVE Unset' /\ BaselineBetween'
  BY TypeStep DEF Baselines
<1>1. CASE SensorInterrupt
  <2>1. Unset'
    BY <1>1 DEF Baselines, TypeOK, Unset, SensorInterrupt
  <2>2. ASSUME NEW i \in (seen \ torn)' PROVE (low[i] * Scale <= Offset[i] /\ Offset[i] < (high[i] + 1) * Scale)'
    <3>1. CASE i = iScan
      <4>1. Offset'[i] = NewOffset /\ iScan \notin torn
        BY <1>1, <2>2, <3>1 DEF Baselines, TypeOK, SensorInterrupt
      <4> QED
        BY <1>1, <3>1, <4>1, Sample
    <3>2. CASE i # iScan
      <4>1. i \in seen \ torn
        BY <1>1, <2>2, <3>2 DEF SensorInterrupt
      <4>2. Offset'[i] = Offset[i] /\ low'[i] = low[i] /\ high'[i] = high[i]
        BY <1>1, <3>2, <4>1 DEF Baselines, TypeOK, SensorInterrupt
      <4>3. low[i] * Scale <= Offset[i] /\ Offset[i] < (high[i] + 1) * Scale
        BY <4>1 DEF Baselines, BaselineBetween
      <4> QED
        BY <4>2, <4>3
    <3> QED
      BY <3>1, <3>2
  <2> QED
    BY <2>1, <2>2 DEF BaselineBetween
<1>2. ASSUME NEW cut \in Cuts, NEW lowFirst \in BOOLEAN, ClearSome(cut, lowFirst)
      PROVE  Unset' /\ BaselineBetween'
  BY <1>2 DEF Baselines, TypeOK, Unset, BaselineBetween, ClearSome
<1>3. CASE ClearRest
  <2>1. reset.i \in Index
    BY DEF Baselines, TypeOK
  <2>2. \A i \in Index \ {reset.i} : Offset'[i] = Offset[i]
    BY <1>3 DEF Baselines, TypeOK, ClearRest
  <2>3. reset.i \notin torn' => Offset'[reset.i] = 0
    BY <1>3, <2>1 DEF Baselines, TypeOK, Unset, ClearRest
  <2>4. /\ seen' = seen \ {reset.i} /\ torn \ {reset.i} \subseteq torn'
        /\ low' = low /\ high' = high /\ torn \subseteq torn' \cup {reset.i}
        /\ reset'.step # "clearing"
    BY <1>3 DEF ClearRest, NoReset
  <2>5. Unset'
    BY <2>2, <2>3, <2>4 DEF Baselines, Unset
  <2>6. BaselineBetween'
    BY <2>2, <2>4 DEF Baselines, TypeOK, BaselineBetween
  <2> QED
    BY <2>5, <2>6
<1>4. CASE UNCHANGED <<Offset, history>> /\ (reset' = reset \/ reset'.step # "clearing")
  BY <1>4 DEF Baselines, Unset, BaselineBetween, history
<1>5. ASSUME StartReset \/ ClearValues PROVE UNCHANGED <<Offset, history>> /\ reset'.step # "clearing"
  <2>1. NoReset.step = "none"
    BY DEF NoReset
  <2>2. \A j : [NoReset EXCEPT !.step = "clear"].step = "clear"
               /\ [NoReset EXCEPT !.step = "clear", !.i = j].step = "clear"
    BY DEF NoReset
  <2>3. CASE StartReset
    BY <2>2, <2>3 DEF StartReset, values
  <2>4. CASE ClearValues
    BY <2>1, <2>2, <2>4 DEF ClearValues
  <2> QED
    BY <1>5, <2>3, <2>4
<1>6. ASSUME BandGapInterrupt \/ ConversionEnds \/ UNCHANGED vars
      PROVE  UNCHANGED <<Offset, history>> /\ reset' = reset
  BY <1>6 DEF BandGapInterrupt, ConversionEnds, vars, values
<1> QED
  BY <1>1, <1>2, <1>3, <1>4, <1>5, <1>6 DEF Next, Interrupt

\* Every baseline that was not torn stays between its samples.
LEMMA BaselinesInvariant == Spec => []Baselines
BY BaselinesInit, BaselinesStep, PTL DEF Spec

\* The baseline never leaves the range of the samples it was built from, for
\* any scale not smaller than the largest sample.
THEOREM BaselineCorrect == Spec => []BaselineBetween
BY BaselinesInvariant, PTL DEF Baselines

-----------------------------------------------------------------------------
(* Contacts.                                                               *)

\* What a sample of a whole baseline is compared with.
LEMMA SampleData ==
    ASSUME Baselines, SensorInterrupt, iScan \notin torn
    PROVE  NewData \in Int /\ NewData <= high'[iScan] - low'[iScan]
<1>1. /\ low'[iScan] \in Nat /\ high'[iScan] \in Nat /\ NewOffset \in Nat /\ ADC \in Nat
      /\ low'[iScan] <= NewOffset \div Scale /\ ADC <= high'[iScan]
  <2>1. NewOffset \in Nat /\ ADC \in Nat
    BY NewTypes, SensorAssumption DEF Baselines, TypeOK
  <2> QED
    BY <2>1, Sample, QuotientBetween, SensorAssumption
<1>2. NewOffset \div Scale \in Nat /\ NewData \in Int
  BY NewTypes DEF Baselines
<1> QED
  BY <1>1, <1>2 DEF NewData

\* A sample within thresh of those before it clears the contact.
LEMMA NoFalseContactStep ==
    Baselines /\ NoFalseContact /\ [Next]_vars => NoFalseContact'
<1> SUFFICES ASSUME Baselines, NoFalseContact, [Next]_vars,
                    NEW i \in (seen \ torn)', (high[i] - low[i] <= thresh)'
             PROVE  (Distance[i] = 0)'
  BY DEF NoFalseContact
<1>1. CASE SensorInterrupt
  <2>1. CASE i = iScan
    <3>1. iScan \notin torn /\ iScan \in Index
      BY <1>1, <2>1 DEF Baselines, TypeOK, SensorInterrupt
    <3>2. /\ NewData \in Int /\ NewData <= high'[iScan] - low'[iScan]
          /\ low'[iScan] \in Nat /\ high'[iScan] \in Nat
      BY <1>1, <3>1, SampleData, Sample
    <3>3. ~Contact(NewData)
      BY <2>1, <3>2, SensorAssumption DEF Contact
    <3> QED
      BY <1>1, <2>1, <3>1, <3>3 DEF Baselines, TypeOK, SensorInterrupt
  <2>2. CASE i # iScan
    <3>1. i \in seen \ torn
      BY <1>1, <2>2 DEF SensorInterrupt
    <3>2. Distance'[i] = Distance[i] /\ low'[i] = low[i] /\ high'[i] = high[i]
      BY <1>1, <2>2, <3>1 DEF Baselines, TypeOK, SensorInterrupt
    <3> QED
      BY <3>1, <3>2 DEF NoFalseContact
  <2> QED
    BY <2>1, <2>2
<1>2. CASE ClearValues
  <2>1. i \in seen \ torn /\ low' = low /\ high' = high
    BY <1>2 DEF ClearValues, history
  <2>2. Distance'[i] = 0 \/ Distance'[i] = Distance[i]
    BY <1>2, <2>1 DEF Baselines, TypeOK, ClearValues
  <2> QED
    BY <2>1, <2>2 DEF NoFalseContact
<1>3. ASSUME NEW cut \in Cuts, NEW lowFirst \in BOOLEAN, ClearSome(cut, lowFirst)
      PROVE  (Distance[i] = 0)'
  BY <1>3 DEF NoFalseContact, ClearSome
<1>4. CASE ClearRest
  <2>1. i \in seen \ torn /\ low' = low /\ high' = high /\ Distance' = Distance
    BY <1>4 DEF ClearRest
  <2> QED
    BY <2>1 DEF NoFalseContact
<1>5. CASE UNCHANGED <<values, history>>
  BY <1>5 DEF NoFalseContact, values, history
<1> QED
  BY <1>1, <1>2, <1>3, <1>4, <1>5
  DEF Next, Interrupt, BandGapInterrupt, ConversionEnds, StartReset, vars

\* Samples that vary by no more than thresh are never reported as a contact,
\* for every scale, threshold and number of sensors.
THEOREM NoFalseContactCorrect == Spec => []NoFalseContact
<1>1. Init => NoFalseContact
  BY DEF Init, NoFalseContact
<1> QED
  BY <1>1, NoFalseContactStep, BaselinesInvariant, PTL DEF Spec

\* A sample beyond all those before it moves the baseline by less than one.
LEMMA FollowedBelow ==
    ASSUME NEW o \in Nat, NEW r \in 0..MaxRaw, NEW h \in Nat, o < (h + 1) * Scale
    PROVE  Followed(o, r) \in Nat /\ Followed(o, r) \div Scale <= h + 1
<1> DEFINE q == o \div Scale
           d == Scale - 1
<1>1. Scale \in Nat \ {0} /\ d \in Nat /\ Scale = d + 1 /\ r \in Nat /\ r <= Scale
  BY SensorAssumption
<1>2. q \in Nat /\ q <= h /\ o < q * Scale + Scale
  <2>1. 0 * Scale <= o
    BY <1>1
  <2> QED
    BY <1>1, <2>1, QuotientBetween, DivMod
<1>3. Followed(o, r) = o - q + r /\ Followed(o, r) \in Nat
  BY <1>1, FollowedType DEF Followed
<1> HIDE DEF q, d
<1>4. q * d <= h * d /\ q * d \in Nat /\ h * d \in Nat
  BY <1>1, <1>2, TimesMonotone
<1>5. q * Scale = q * d + q /\ (h + 1 + 1) * Scale = h * d + h + Scale + Scale
  BY <1>1, <1>2
<1>6. Followed(o, r) < (h + 1 + 1) * Scale /\ 0 * Scale <= Followed(o, r)
  BY <1>1, <1>2, <1>3, <1>4, <1>5
<1>7. PICK k \in Nat : k = h + 1
  OBVIOUS
<1>8. 0 * Scale <= Followed(o, r) /\ Followed(o, r) < (k + 1) * Scale
  BY <1>6, <1>7
<1>9. Followed(o, r) \div Scale <= k
  BY <1>1, <1>3, <1>8, QuotientBetween
<1> QED
  BY <1>3, <1>7, <1>9

\* The sample of one interrupt, compared with the baseline it moves.
LEMMA ContactSeenStep ==
    Baselines /\ [Next]_vars =>
      [\A i \in seen \ torn :
         (SensorInterrupt /\ i = iScan /\ low[i] > 0 /\ ADC > high[i] + thresh + 1)
            => Distance'[i] = dist]_vars
<1> SUFFICES ASSUME Baselines, SensorInterrupt, iScan \in seen \ torn,
                    low[iScan] > 0, ADC > high[iScan] + thresh + 1
             PROVE  Distance'[iScan] = dist
  OBVIOUS
<1> DEFINE o == Offset[iScan]
<1>1. /\ o \in Nat /\ ADC \in 0..MaxRaw /\ low[iScan] \in Nat \ {0} /\ high[iScan] \in Nat
      /\ iScan \in Index
  BY SensorAssumption DEF Baselines, TypeOK
<1>2. low[iScan] * Scale <= o /\ o < (high[iScan] + 1) * Scale
  BY DEF Baselines, BaselineBetween
<1>3. o # 0
  <2>1. 1 * Scale <= low[iScan] * Scale
    BY <1>1, SensorAssumption, TimesMonotone
  <2>2. low[iScan] * Scale \in Nat
    BY <1>1, SensorAssumption
  <2> HIDE DEF o
  <2> QED
    BY <1>1, <1>2, <2>1, <2>2, SensorAssumption
<1>4. NewOffset = Followed(o, ADC)
  <2>1. Initial(o, ADC) = o
    BY <1>3 DEF Initial
  <2> QED
    BY <2>1 DEF NewOffset
<1>5. NewOffset \in Nat /\ NewOffset \div Scale <= high[iScan] + 1
  BY <1>1, <1>2, <1>4, FollowedBelow
<1>6. NewOffset \div Scale \in Nat /\ NewData \in Int
  BY NewTypes DEF Baselines
<1>7. Contact(NewData)
  BY <1>1, <1>5, <1>6, SensorAssumption DEF Contact, NewData
<1> QED
  BY <1>1, <1>7 DEF Baselines, TypeOK, SensorInterrupt

\* A sample beyond every earlier one by more than thresh + 1 is reported in the
\* same interrupt.
THEOREM ContactSeenCorrect == Spec => ContactSeen
BY ContactSeenStep, BaselinesInvariant, PTL DEF Spec, ContactSeen

-----------------------------------------------------------------------------
(* Contacts that last.                                                     *)

\* How far a baseline is from those that a sample is compared with as equal.
Away(o, r) ==
    IF o < r * Scale THEN r * Scale - o
    ELSE IF o < (r + 1) * Scale THEN 0 ELSE o + 1 - (r + 1) * Scale

\* Each sample brings its sensor's baseline nearer, and one that is there shows no contact.
BaselineApproaches ==
    [][SensorInterrupt =>
         /\ Away(Offset'[iScan], ADC) < Away(Offset[iScan], ADC) \/ Away(Offset'[iScan], ADC) = 0
         /\ Away(Offset'[iScan], ADC) = 0 => Data'[iScan] = 0 /\ Distance'[iScan] = 0]_vars

\* Nothing moves a baseline but its own samples and RS.
OwnBaseline ==
    [][\A i \in Index : Offset'[i] # Offset[i] =>
         \/ SensorInterrupt /\ iScan = i
         \/ reset.step \in {"clear", "clearing"} /\ reset.i = i]_vars

\* A baseline is there if the sample divides out.
LEMMA AwayFrom ==
    ASSUME NEW o \in Nat, NEW r \in Nat
    PROVE  /\ Away(o, r) \in Nat
           /\ Away(o, r) = 0 <=> (r * Scale <= o /\ o < (r + 1) * Scale)
           /\ Away(o, r) = 0 => o \div Scale = r
<1>1. Scale \in Nat \ {0}
  BY SensorAssumption
<1>2. r * Scale \in Nat /\ (r + 1) * Scale \in Nat
  BY <1>1
<1>3. Away(o, r) \in Nat /\ (Away(o, r) = 0 <=> (r * Scale <= o /\ o < (r + 1) * Scale))
  BY <1>2 DEF Away
<1>4. ASSUME Away(o, r) = 0 PROVE o \div Scale = r
  <2>1. r <= o \div Scale /\ o \div Scale <= r
    BY <1>1, <1>3, <1>4, QuotientBetween
  <2>2. o \div Scale \in Nat
    BY <1>1, DivMod
  <2> QED
    BY <2>1, <2>2
<1> QED
  BY <1>3, <1>4

\* A sample brings a baseline nearer, and never past it.
LEMMA FollowedApproaches ==
    ASSUME NEW o \in Nat, NEW r \in 0..MaxRaw
    PROVE  Away(Followed(o, r), r) < Away(o, r) \/ Away(Followed(o, r), r) = 0
<1> DEFINE q == o \div Scale
           d == Scale - 1
           f == Followed(o, r)
<1>1. Scale \in Nat \ {0} /\ d \in Nat /\ Scale = d + 1 /\ r \in Nat /\ r <= Scale
  BY SensorAssumption
<1>2. q \in Nat /\ q * Scale <= o /\ o < q * Scale + Scale
  BY <1>1, DivMod
<1>3. f = o - q + r /\ f \in Nat
  BY <1>1, FollowedType DEF Followed
<1>4. Away(o, r) \in Nat /\ Away(f, r) \in Nat
  BY <1>1, <1>3, AwayFrom
<1>5. /\ q * Scale = q * d + q /\ r * Scale = r * d + r /\ (r + 1) * Scale = r * d + r + Scale
      /\ q * d \in Nat /\ r * d \in Nat
  BY <1>1, <1>2
<1>6. CASE q = r
  <2>1. r * Scale <= f /\ f < (r + 1) * Scale
    BY <1>1, <1>2, <1>3, <1>5, <1>6
  <2> QED
    BY <1>1, <1>3, <2>1, AwayFrom
<1>7. CASE q < r
  <2>1. (q + 1) * d <= r * d /\ (q + 1) * d = q * d + d
    BY <1>1, <1>2, <1>7, TimesMonotone
  <2>2. o < r * Scale /\ o < f /\ f < (r + 1) * Scale
    BY <1>1, <1>2, <1>3, <1>5, <1>7, <2>1
  <2>3. Away(o, r) = r * Scale - o
    BY <2>2 DEF Away
  <2>4. Away(f, r) = r * Scale - f \/ Away(f, r) = 0
    BY <2>2 DEF Away
  <2>5. Away(f, r) < Away(o, r) \/ Away(f, r) = 0
    <3> HIDE DEF q, d, f
    <3> QED
      BY <1>1, <1>3, <1>5, <2>2, <2>3, <2>4
  <2> QED
    BY <2>5
<1>8. CASE q > r
  <2>1. (r + 1) * d <= q * d /\ (r + 1) * d = r * d + d
    BY <1>1, <1>2, <1>8, TimesMonotone
  <2>2. o >= (r + 1) * Scale /\ f < o /\ f >= r * Scale
    BY <1>1, <1>2, <1>3, <1>5, <1>8, <2>1
  <2>3. ~(o < r * Scale) /\ ~(o < (r + 1) * Scale) /\ ~(f < r * Scale)
    BY <1>1, <1>3, <1>5, <2>2
  <2>4. Away(o, r) = o + 1 - (r + 1) * Scale
    BY <2>3 DEF Away
  <2>5. Away(f, r) = 0 \/ Away(f, r) = f + 1 - (r + 1) * Scale
    BY <2>3 DEF Away
  <2>6. Away(f, r) < Away(o, r) \/ Away(f, r) = 0
    <3> HIDE DEF q, d, f
    <3> QED
      BY <1>1, <1>3, <1>5, <2>2, <2>4, <2>5
  <2> QED
    BY <2>6
<1> QED
  BY <1>1, <1>2, <1>6, <1>7, <1>8

\* What one interrupt does to the baseline and to the contact.
LEMMA ApproachStep ==
    ASSUME TypeOK, SensorInterrupt
    PROVE  /\ Away(Offset'[iScan], ADC) < Away(Offset[iScan], ADC) \/ Away(Offset'[iScan], ADC) = 0
           /\ Away(Offset'[iScan], ADC) = 0 => Data'[iScan] = 0 /\ Distance'[iScan] = 0
<1> DEFINE o == Offset[iScan]
<1>1. o \in Nat /\ ADC \in 0..MaxRaw /\ ADC \in Nat /\ iScan \in Index /\ NewOffset \in Nat
  BY NewTypes, SensorAssumption DEF TypeOK
<1>2. /\ Offset'[iScan] = NewOffset /\ Data'[iScan] = NewData
      /\ Distance'[iScan] = IF Contact(NewData) THEN dist ELSE 0
  BY <1>1 DEF TypeOK, SensorInterrupt
<1>3. Away(NewOffset, ADC) < Away(o, ADC) \/ Away(NewOffset, ADC) = 0
  <2>1. CASE o # 0
    <3>1. NewOffset = Followed(o, ADC)
      BY <2>1 DEF NewOffset, Initial
    <3> QED
      BY <1>1, <3>1, FollowedApproaches
  <2>2. CASE o = 0
    <3>1. NewOffset = Followed(ADC * Scale, ADC)
      BY <2>2 DEF NewOffset, Initial
    <3>2. ADC * Scale \in Nat /\ Scale \in Nat \ {0} /\ (ADC + 1) * Scale = ADC * Scale + Scale
      BY <1>1, SensorAssumption
    <3>3. Away(ADC * Scale, ADC) = 0
      BY <1>1, <3>2, AwayFrom
    <3>4. Away(NewOffset, ADC) \in Nat
      BY <1>1, AwayFrom
    <3>5. Away(NewOffset, ADC) < 0 \/ Away(NewOffset, ADC) = 0
      BY <1>1, <3>1, <3>2, <3>3, FollowedApproaches
    <3> QED
      BY <3>4, <3>5
  <2> QED
    BY <2>1, <2>2
<1>4. ASSUME Away(NewOffset, ADC) = 0 PROVE NewData = 0 /\ ~Contact(NewData)
  <2>1. NewOffset \div Scale = ADC
    BY <1>1, <1>4, AwayFrom
  <2>2. NewData = 0
    BY <1>1, <2>1 DEF NewData
  <2> QED
    BY <2>2, SensorAssumption DEF Contact
<1> QED
  BY <1>2, <1>3, <1>4

\* Each Offset is written by the interrupt of its sensor and by RS.
LEMMA OwnStep ==
    ASSUME TypeOK, [Next]_vars, NEW i \in Index, Offset'[i] # Offset[i]
    PROVE  \/ SensorInterrupt /\ iScan = i
           \/ reset.step \in {"clear", "clearing"} /\ reset.i = i
<1>1. Offset' # Offset
  OBVIOUS
<1>2. CASE SensorInterrupt
  BY <1>2 DEF TypeOK, SensorInterrupt
<1>3. ASSUME NEW cut \in Cuts, NEW lowFirst \in BOOLEAN, ClearSome(cut, lowFirst)
      PROVE  reset.step = "clear" /\ reset.i = i
  BY <1>3 DEF TypeOK, ClearSome
<1>4. CASE ClearRest
  BY <1>4 DEF TypeOK, ClearRest
<1> QED
  BY <1>1, <1>2, <1>3, <1>4
  DEF Next, Interrupt, BandGapInterrupt, ConversionEnds, StartReset, ClearValues, vars, values

\* A contact that lasts is forgotten: whatever the baseline was, also one that RS tore, every
\* sample brings it nearer and none past it, nothing else moves it but RS, and once it is there the
\* sensor shows no contact; for every scale, number of sensors and threshold.
THEOREM ForgettingCorrect == Spec => BaselineApproaches /\ OwnBaseline
<1>1. TypeOK /\ [Next]_vars =>
        [SensorInterrupt =>
           /\ Away(Offset'[iScan], ADC) < Away(Offset[iScan], ADC) \/ Away(Offset'[iScan], ADC) = 0
           /\ Away(Offset'[iScan], ADC) = 0 => Data'[iScan] = 0 /\ Distance'[iScan] = 0]_vars
  BY ApproachStep
<1>2. TypeOK /\ [Next]_vars =>
        [\A i \in Index : Offset'[i] # Offset[i] =>
           \/ SensorInterrupt /\ iScan = i
           \/ reset.step \in {"clear", "clearing"} /\ reset.i = i]_vars
  BY OwnStep
<1> QED
  BY <1>1, <1>2, TypeCorrect, PTL DEF Spec, BaselineApproaches, OwnBaseline
=============================================================================
