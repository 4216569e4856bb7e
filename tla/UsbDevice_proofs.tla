--------------------------- MODULE UsbDevice_proofs ---------------------------
(***************************************************************************)
(* What the two USB interrupts keep, for every set of requests the host    *)
(* may send and every depth to which the controller's interrupt nests.     *)
(***************************************************************************)
EXTENDS UsbDevice, TLAPS

-----------------------------------------------------------------------------
(* The interrupts in progress.                                             *)

Frames == [at : Places, loaded : SUBSET Causes]

NestingTypes == gen \in Seq(Frames)

\* Where the innermost GEN is.
Place == IF gen = <<>> THEN "main" ELSE Top.at

\* The tables lead from places to places.
LEMMA Tables ==
    /\ \A place \in DOMAIN After : After[place] \in Places
    /\ DOMAIN Cleared \subseteq DOMAIN After /\ DOMAIN Disabled \subseteq DOMAIN After
    /\ DOMAIN Enabled \subseteq DOMAIN After /\ DOMAIN Frozen \subseteq DOMAIN After
    /\ DOMAIN Stored \subseteq DOMAIN After
    BY DEF After, Places, Tests, Cleared, Disabled, Enabled, Frozen, Stored

\* A step forward of the innermost GEN leaves those it interrupted where they are.
LEMMA GoStep ==
    ASSUME NestingTypes, gen # <<>>, NEW next \in Places, Go(next)
    PROVE  /\ NestingTypes' /\ Len(gen') = Len(gen) /\ Place' = next
           /\ Top'.loaded = Loaded(next, flags', enabled')
           /\ \A k \in 1..(Len(gen) - 1) : gen'[k] = gen[k]
<1> DEFINE frame == [at |-> next, loaded |-> Loaded(next, flags', enabled')]
<1>1. frame \in Frames
    BY DEF Loaded, Frames
<1>2. Len(gen) \in Nat \ {0}
    BY DEF NestingTypes
<1>3. gen' = [gen EXCEPT ![Len(gen)] = frame]
    BY DEF Go
<1> HIDE DEF frame
<1>4. gen' \in Seq(Frames) /\ Len(gen') = Len(gen) /\ gen'[Len(gen')] = frame
      /\ \A k \in 1..(Len(gen) - 1) : gen'[k] = gen[k]
    BY <1>1, <1>2, <1>3 DEF NestingTypes
<1>5. gen' # <<>> /\ Top' = frame
    BY <1>2, <1>4 DEF Top
<1> QED
    BY <1>4, <1>5 DEF NestingTypes, Place, frame

\* A return leaves the interrupted ones where they are.
LEMMA ReturnStep ==
    ASSUME NestingTypes, gen # <<>>, Return
    PROVE  /\ NestingTypes' /\ Len(gen') = Len(gen) - 1
           /\ \A k \in 1..(Len(gen) - 1) : gen'[k] = gen[k]
<1>1. Len(gen) \in Nat \ {0}
    BY DEF NestingTypes
<1>2. gen' = [k \in 1..(Len(gen) - 1) |-> gen[k]]
    BY DEF Return, Front
<1> QED
    BY <1>1, <1>2 DEF NestingTypes

\* A GEN that begins is at its first test.
LEMMA EnterStep ==
    ASSUME NestingTypes, EnterGEN
    PROVE  /\ NestingTypes' /\ Len(gen') = Len(gen) + 1 /\ Place' = "vbus"
           /\ \A k \in 1..Len(gen) : gen'[k] = gen[k]
<1> DEFINE frame == [at |-> "vbus", loaded |-> {}]
<1>1. frame \in Frames
    BY DEF Frames, Places, Tests
<1>2. gen' = Append(gen, frame)
    BY DEF EnterGEN
<1> HIDE DEF frame
<1>3. gen' \in Seq(Frames) /\ Len(gen') = Len(gen) + 1 /\ gen'[Len(gen')] = frame
      /\ \A k \in 1..Len(gen) : gen'[k] = gen[k]
    BY <1>1, <1>2 DEF NestingTypes
<1>4. gen' # <<>> /\ Top' = frame
    BY <1>3 DEF Top, NestingTypes
<1> QED
    BY <1>3, <1>4 DEF NestingTypes, Place, frame

\* Every step of GEN but its beginning goes on to a place, or returns.
LEMMA GenMoves ==
    ASSUME GenStep
    PROVE  /\ com = "none" /\ gen # <<>>
           /\ Return \/ (\E next \in Places : Go(next))
<1>1. com = "none" /\ gen # <<>>
    BY DEF GenStep, VbusTest, SuspendTest, WakeupTest, ResetTest, ClearCause, DisableCause,
           EnableCause, SetClock, StoreState, ReadNumber, StoreNumber, ClearEndpoints,
           ConfigureControl, At, In
<1>2. CASE VbusTest \/ SuspendTest \/ WakeupTest \/ ResetTest \/ ReadNumber \/ ConfigureControl
  <2>1. /\ {"suspend", "wakeup", "reset"} \subseteq Places
        /\ {"suspendClear", "unfreeze", "resetClear", "configured", "addressed"} \subseteq Places
      BY DEF Places, Tests, After
  <2>2. \/ Return
        \/ Go("suspend") \/ Go("wakeup") \/ Go("reset")
        \/ Go("suspendClear") \/ Go("unfreeze") \/ Go("resetClear")
        \/ Go("configured") \/ Go("addressed")
      BY <1>2 DEF VbusTest, SuspendTest, WakeupTest, ResetTest, ReadNumber, ConfigureControl
  <2> HIDE DEF Places
  <2> QED
      BY <1>1, <2>1, <2>2
<1>3. CASE ClearCause \/ DisableCause \/ EnableCause \/ SetClock \/ StoreState \/ StoreNumber
           \/ ClearEndpoints
  <2>1. Top.at \in DOMAIN After /\ Go(After[Top.at])
    <3>1. CASE ClearCause \/ DisableCause \/ EnableCause \/ SetClock \/ StoreState
        BY <3>1, Tables DEF ClearCause, DisableCause, EnableCause, SetClock, StoreState, In, Step
    <3>2. CASE StoreNumber \/ ClearEndpoints
      <4>1. Top.at \in {"number", "clearEndpoints"} /\ Step
          BY <3>2 DEF StoreNumber, ClearEndpoints, In
      <4> QED
          BY <4>1 DEF After, Step
    <3> QED
        BY <1>3, <3>1, <3>2
  <2> QED
      BY <1>1, <2>1, Tables
<1> QED
    BY <1>1, <1>2, <1>3 DEF GenStep

\* Nobody else moves a GEN.
LEMMA GenStays == [Next]_vars => GEN \/ UNCHANGED gen
<1> SUFFICES ASSUME [Next]_vars, ~GEN PROVE UNCHANGED gen
    OBVIOUS
<1>1. CASE COM
    BY <1>1 DEF COM, EnterCOM, DeviceTask, ProcessControlRequest, StreamTurn, StatusOUT, DataOUT,
                StatusIN, SetAddress, LeaveTask, LeaveCOM, comFrame
<1>2. CASE Host
    BY <1>2 DEF Host, VbusChanges, BusSuspend, BusActivity, BusReset, HostSetup, HostOut, HostIn,
                hostFrame
<1> QED
    BY <1>1, <1>2 DEF Next, Firmware, Select, vars

\* The stack of interrupted GENs.
LEMMA NestingStep == NestingTypes /\ [Next]_vars => NestingTypes'
<1> SUFFICES ASSUME NestingTypes, [Next]_vars PROVE NestingTypes'
    OBVIOUS
<1>1. CASE GenStep
    BY <1>1, GenMoves, GoStep, ReturnStep
<1>2. CASE UNCHANGED gen
    BY <1>2 DEF NestingTypes
<1> QED
    BY <1>1, <1>2, EnterStep, GenStays DEF GEN

\* While no body is disturbed, only the innermost GEN is in one, and COM interrupts none.
Shape ==
    ~crossed => /\ \A k \in 1..(Len(gen) - 1) : gen[k].at \in Tests
                /\ com # "none" => Place \in Tests \cup {"main"}

\* An interrupt that comes at another place disturbs it.
LEMMA ShapeStep == NestingTypes /\ Shape /\ [Next]_vars => Shape'
<1> SUFFICES ASSUME NestingTypes, Shape, [Next]_vars, ~crossed' PROVE Shape'
    BY DEF Shape
<1> DEFINE Below == \A k \in 1..(Len(gen) - 1) : gen[k].at \in Tests
<1>1. Len(gen) \in Nat
    BY DEF NestingTypes
<1>2. CASE EnterGEN
  <2>1. ~crossed /\ ~Disturbed
      BY <1>2 DEF EnterGEN
  <2>2. \A k \in 1..Len(gen) : gen[k].at \in Tests
      BY <1>1, <2>1 DEF Shape, Disturbed, Top
  <2>3. Len(gen') = Len(gen) + 1 /\ \A k \in 1..Len(gen) : gen'[k] = gen[k]
      BY <1>2, EnterStep
  <2>4. com' = "none"
      BY <1>2 DEF EnterGEN, genFrame
  <2> QED
      BY <1>1, <2>2, <2>3, <2>4 DEF Shape
<1>3. CASE GenStep
  <2>1. com' = "none"
      BY <1>3, GenMoves DEF GenStep, VbusTest, SuspendTest, WakeupTest, ResetTest, ClearCause,
                            DisableCause, EnableCause, SetClock, StoreState, ReadNumber,
                            StoreNumber, ClearEndpoints, ConfigureControl, genFrame, testFrame
  <2>2. /\ gen # <<>> /\ Len(gen') \in {Len(gen), Len(gen) - 1}
        /\ \A k \in 1..(Len(gen) - 1) : gen'[k] = gen[k]
      BY <1>3, GenMoves, GoStep, ReturnStep
  <2>3. ~crossed \/ Len(gen) = 1
    <3>1. CASE ResetTest
      <4>1. Len(gen) # 0
          BY <2>2 DEF NestingTypes
      <4>2. crossed /\ Len(gen) > 1 => crossed'
        <5> DEFINE inside == Len(gen) > 1
        <5>1. UNCHANGED crossed \/ crossed' = (crossed /\ inside)
            BY <3>1 DEF ResetTest
        <5> HIDE DEF inside
        <5>2. crossed /\ inside => crossed'
            BY <5>1
        <5> QED
            BY <5>2 DEF inside
      <4>3. Len(gen) = 1 \/ Len(gen) > 1
          BY <1>1, <4>1
      <4> QED
          BY <4>2, <4>3, Zenon
    <3>2. CASE ~ResetTest
        BY <1>3, <3>2 DEF GenStep, VbusTest, SuspendTest, WakeupTest, ClearCause,
                          DisableCause, EnableCause, SetClock, StoreState, ReadNumber,
                          StoreNumber, ClearEndpoints, ConfigureControl
    <3> QED
        BY <3>1, <3>2
  <2>4. Below
    <3>1. CASE ~crossed
        BY <3>1 DEF Shape
    <3>2. CASE Len(gen) = 1
        BY <3>2
    <3> QED
        BY <2>3, <3>1, <3>2
  <2> QED
      BY <1>1, <2>1, <2>2, <2>4 DEF Shape
<1>4. CASE EnterCOM
  <2>1. ~crossed /\ ~Disturbed /\ gen' = gen
      BY <1>4 DEF EnterCOM
  <2> QED
      BY <2>1 DEF Shape, Disturbed, Place, Top
<1>5. CASE ~GEN /\ ~EnterCOM
  <2>1. UNCHANGED <<gen, crossed>>
      BY <1>5, GenStays DEF Next, Firmware, COM, DeviceTask, ProcessControlRequest, StreamTurn,
             StatusOUT, DataOUT, StatusIN, SetAddress, LeaveTask, LeaveCOM, Select, Host,
             VbusChanges, BusSuspend, BusActivity, BusReset, HostSetup, HostOut, HostIn, vars,
             comFrame, hostFrame, main
  <2>2. com' # "none" => com # "none"
      BY <1>5 DEF Next, Firmware, COM, DeviceTask, ProcessControlRequest, StreamTurn,
             StatusOUT, DataOUT, StatusIN, SetAddress, LeaveTask, LeaveCOM, Select, Host,
             VbusChanges, BusSuspend, BusActivity, BusReset, HostSetup, HostOut, HostIn, vars,
             comFrame, hostFrame, main
  <2> QED
      BY <2>1, <2>2 DEF Shape, Place, Top
<1> QED
    BY <1>2, <1>3, <1>4, <1>5 DEF GEN

\* After a return the GEN that goes on is at a test, or main() or COM goes on.
LEMMA ReturnPlace ==
    ASSUME NestingTypes, Shape, ~crossed, gen # <<>>, Return
    PROVE  Place' \in Tests \cup {"main"}
<1>1. Len(gen') = Len(gen) - 1 /\ \A k \in 1..(Len(gen) - 1) : gen'[k] = gen[k]
    BY ReturnStep
<1>2. gen' \in Seq(Frames) /\ Len(gen) \in Nat
    BY ReturnStep DEF NestingTypes
<1>3. \A k \in 1..Len(gen') : gen'[k].at \in Tests
    BY <1>1, <1>2 DEF Shape
<1> QED
    BY <1>2, <1>3 DEF Place, Top

-----------------------------------------------------------------------------
(* The clock and its interrupts.                                           *)

S == "SUSPEND" \in enabled
W == "WAKEUP" \in enabled

\* What is enabled, and whether the clock runs, at each place of the bodies.
ClockInv ==
    ~crossed =>
        /\ Place \in Tests \cup {"main"} => (S <=> ~W) /\ (frozen => W)
        /\ Place \in {"suspendClear", "suspendDisable"} => S /\ ~W /\ ~frozen
        /\ Place = "suspendEnable" => ~S /\ ~W
        /\ Place \in {"freeze", "suspended", "unfreeze", "clearEndpoints", "configureControl"} => ~S /\ W
        /\ Place \in {"wakeupClear", "wakeupDisable"} => ~S /\ W /\ ~frozen
        /\ Place = "wakeupEnable" => ~S /\ ~W /\ ~frozen
        /\ Place \in {"rebuild", "configured", "addressed"} => S /\ ~W /\ ~frozen
        /\ Place = "resetEnable" => ~S
        /\ Place \in DOMAIN Disabled \cup DOMAIN Enabled => Top.loaded = enabled \cap Causes

\* Where a step of GEN goes.
LEMMA Goes ==
    ASSUME NestingTypes, gen # <<>>, NEW next \in Places, Go(next)
    PROVE  Place' = next /\ (next \in DOMAIN Disabled \cup DOMAIN Enabled
                              => Top'.loaded = enabled' \cap Causes)
<1>1. Place' = next /\ Top'.loaded = Loaded(next, flags', enabled')
    BY GoStep
<1>2. \A place \in DOMAIN Disabled \cup DOMAIN Enabled : place \notin DOMAIN Cleared
    BY DEF Cleared, Disabled, Enabled
<1> QED
    BY <1>1, <1>2 DEF Loaded

\* A body of GEN passes through its places in order.
LEMMA Follows ==
    /\ After.suspendClear = "suspendDisable" /\ After.suspendDisable = "suspendEnable"
    /\ After.suspendEnable = "freeze" /\ After.freeze = "suspended" /\ After.suspended = "wakeup"
    /\ After.unfreeze = "wakeupClear" /\ After.wakeupClear = "wakeupDisable"
    /\ After.wakeupDisable = "wakeupEnable" /\ After.wakeupEnable = "rebuild"
    /\ After.configured = "reset" /\ After.addressed = "reset"
    /\ After.resetClear = "default" /\ After.default = "number" /\ After.number = "resetForget"
    /\ After.resetForget = "resetDisable" /\ After.resetDisable = "resetEnable"
    /\ After.resetEnable = "clearEndpoints" /\ After.clearEndpoints = "configureControl"
    BY DEF After

\* A step of a body that has no branch.
LEMMA Steps ==
    ASSUME NestingTypes, NEW places \in SUBSET DOMAIN After, In(places), Step
    PROVE  /\ gen # <<>> /\ Place = Top.at /\ Place \in places /\ Place' = After[Place]
           /\ Place' \in DOMAIN Disabled \cup DOMAIN Enabled => Top'.loaded = enabled' \cap Causes
<1>1. gen # <<>> /\ Place = Top.at /\ Place \in places /\ After[Place] \in Places
    BY Tables DEF In, Place
<1>2. Go(After[Place])
    BY <1>1 DEF Step
<1> QED
    BY <1>1, <1>2, Goes

\* The suspension's, the wake-up's and the reset's stores each keep it on their way.
LEMMA ClockStep == NestingTypes /\ Shape /\ ClockInv /\ [Next]_vars => ClockInv'
<1> SUFFICES ASSUME NestingTypes, Shape, ClockInv, [Next]_vars, ~crossed' PROVE ClockInv'
    BY DEF ClockInv
<1> USE DEF S, W
<1>1. CASE EnterGEN
  <2>1. ~crossed /\ ~Disturbed /\ Place' = "vbus" /\ UNCHANGED <<enabled, frozen>>
      BY <1>1, EnterStep DEF EnterGEN, irq
  <2>2. Place \in Tests \cup {"main"}
      BY <2>1 DEF Disturbed, Place
  <2> QED
      BY <2>1, <2>2 DEF ClockInv, Tests, Disabled, Enabled
<1>2. CASE VbusTest \/ SuspendTest \/ WakeupTest \/ ReadNumber
  <2>1. ~crossed /\ gen # <<>> /\ Place = Top.at /\ UNCHANGED <<enabled, frozen>>
      BY <1>2 DEF VbusTest, SuspendTest, WakeupTest, ReadNumber, testFrame, irq, At, Place
  <2>2. CASE VbusTest
    <3>1. Place = "vbus" /\ Place' = "suspend"
      <4>1. "suspend" \in Places
          BY DEF Places, Tests
      <4> QED
          BY <2>1, <2>2, <4>1, Goes DEF VbusTest, At
    <3> QED
        BY <2>1, <3>1 DEF ClockInv, Tests, Disabled, Enabled
  <2>3. CASE SuspendTest
    <3>1. Place = "suspend" /\ (Go("wakeup") \/ (S /\ Go("suspendClear")))
        BY <2>1, <2>3 DEF SuspendTest, At, Occurred
    <3>2. {"wakeup", "suspendClear"} \subseteq Places
        BY DEF Places, Tests, After
    <3>3. Place' = "wakeup" \/ (S /\ Place' = "suspendClear")
        BY <2>1, <3>1, <3>2, Goes
    <3> QED
        BY <2>1, <3>1, <3>3 DEF ClockInv, Tests, Disabled, Enabled
  <2>4. CASE WakeupTest
    <3>1. Place = "wakeup" /\ (Go("reset") \/ (W /\ Go("unfreeze")))
        BY <2>1, <2>4 DEF WakeupTest, At, Occurred
    <3>2. {"reset", "unfreeze"} \subseteq Places
        BY DEF Places, Tests, After
    <3>3. Place' = "reset" \/ (W /\ Place' = "unfreeze")
        BY <2>1, <3>1, <3>2, Goes
    <3> QED
        BY <2>1, <3>1, <3>3 DEF ClockInv, Tests, Disabled, Enabled
  <2>5. CASE ReadNumber
    <3>1. Place = "rebuild" /\ Place' \in {"configured", "addressed"}
      <4>1. {"configured", "addressed"} \subseteq Places
          BY DEF Places, After
      <4> QED
          BY <2>1, <2>5, <4>1, Goes DEF ReadNumber, At
    <3> QED
        BY <2>1, <3>1 DEF ClockInv, Tests, Disabled, Enabled
  <2> QED
      BY <1>2, <2>2, <2>3, <2>4, <2>5
<1>3. CASE ResetTest
  <2>1. gen # <<>> /\ Place = "reset" /\ UNCHANGED <<enabled, frozen>>
      BY <1>3 DEF ResetTest, testFrame, irq, At, Place
  <2>2. CASE Occurred("EORST")
    <3>1. Place' = "resetClear"
      <4>1. "resetClear" \in Places
          BY DEF Places, After
      <4> QED
          BY <1>3, <2>1, <2>2, <4>1, Goes DEF ResetTest
    <3> QED
        BY <3>1 DEF ClockInv, Tests, Disabled, Enabled
  <2>3. CASE ~Occurred("EORST")
    <3>1. ~crossed /\ Place' \in Tests \cup {"main"}
        BY <1>3, <2>1, <2>3, ReturnPlace DEF ResetTest
    <3> QED
        BY <2>1, <3>1 DEF ClockInv, Tests, Disabled, Enabled
  <2> QED
      BY <2>2, <2>3
<1>4. CASE ClearCause
  <2>1. ~crossed /\ UNCHANGED <<enabled, frozen>>
      BY <1>4 DEF ClearCause
  <2>2. Place \in DOMAIN Cleared /\ Place' = After[Place]
        /\ (Place' \in DOMAIN Disabled \cup DOMAIN Enabled => Top'.loaded = enabled' \cap Causes)
      BY <1>4, Steps, Tables DEF ClearCause
  <2>3. \/ Place = "suspendClear" /\ Place' = "suspendDisable"
        \/ Place = "wakeupClear" /\ Place' = "wakeupDisable"
        \/ Place = "resetClear" /\ Place' = "default"
        \/ Place = "resetForget" /\ Place' = "resetDisable"
      BY <2>2, Follows DEF Cleared
  <2> QED
      BY <2>1, <2>2, <2>3 DEF ClockInv, Tests
<1>5. CASE DisableCause
  <2>1. ~crossed /\ UNCHANGED frozen /\ enabled' = (enabled \ Causes) \cup (Top.loaded \ {Disabled[Top.at]})
      BY <1>5 DEF DisableCause
  <2>2. Place = Top.at /\ Place \in DOMAIN Disabled /\ Place' = After[Place]
        /\ (Place' \in DOMAIN Disabled \cup DOMAIN Enabled => Top'.loaded = enabled' \cap Causes)
      BY <1>5, Steps, Tables DEF DisableCause
  <2>3. \/ Place = "suspendDisable" /\ Place' = "suspendEnable" /\ Disabled[Place] = "SUSPEND"
        \/ Place = "wakeupDisable" /\ Place' = "wakeupEnable" /\ Disabled[Place] = "WAKEUP"
        \/ Place = "resetDisable" /\ Place' = "resetEnable" /\ Disabled[Place] = "SUSPEND"
      BY <2>2, Follows DEF Disabled
  <2>4. enabled' = enabled \ {Disabled[Place]}
    <3>1. Top.loaded = enabled \cap Causes
        BY <2>1, <2>2 DEF ClockInv
    <3>2. Disabled[Place] \in Causes
        BY <2>3 DEF Causes
    <3> QED
        BY <2>1, <2>2, <3>1, <3>2
  <2> QED
      BY <2>1, <2>2, <2>3, <2>4 DEF ClockInv, Tests
<1>6. CASE EnableCause
  <2>1. ~crossed /\ UNCHANGED frozen /\ enabled' = (enabled \ Causes) \cup Top.loaded \cup {Enabled[Top.at]}
      BY <1>6 DEF EnableCause
  <2>2. Place = Top.at /\ Place \in DOMAIN Enabled /\ Place' = After[Place]
      BY <1>6, Steps, Tables DEF EnableCause
  <2>3. \/ Place = "suspendEnable" /\ Place' = "freeze" /\ Enabled[Place] = "WAKEUP"
        \/ Place = "wakeupEnable" /\ Place' = "rebuild" /\ Enabled[Place] = "SUSPEND"
        \/ Place = "resetEnable" /\ Place' = "clearEndpoints" /\ Enabled[Place] = "WAKEUP"
      BY <2>2, Follows DEF Enabled
  <2>4. enabled' = enabled \cup {Enabled[Place]}
      BY <2>1, <2>2 DEF ClockInv
  <2> QED
      BY <2>1, <2>3, <2>4 DEF ClockInv, Tests, Disabled, Enabled
<1>7. CASE SetClock
  <2>1. ~crossed /\ UNCHANGED enabled /\ frozen' = Frozen[Top.at]
      BY <1>7 DEF SetClock
  <2>2. Place = Top.at /\ Place \in DOMAIN Frozen /\ Place' = After[Place]
      BY <1>7, Steps, Tables DEF SetClock
  <2>3. \/ Place = "freeze" /\ Place' = "suspended"
        \/ Place = "unfreeze" /\ Place' = "wakeupClear" /\ Frozen[Place] = FALSE
      BY <2>2, Follows DEF Frozen
  <2> QED
      BY <2>1, <2>2, <2>3 DEF ClockInv, Tests, Disabled, Enabled
<1>8. CASE StoreState
  <2>1. ~crossed /\ UNCHANGED <<enabled, frozen>>
      BY <1>8 DEF StoreState, irq
  <2>2. Place \in DOMAIN Stored /\ Place' = After[Place]
      BY <1>8, Steps, Tables DEF StoreState
  <2>3. \/ Place = "suspended" /\ Place' = "wakeup"
        \/ Place \in {"configured", "addressed"} /\ Place' = "reset"
        \/ Place = "default" /\ Place' = "number"
      BY <2>2, Follows DEF Stored
  <2> QED
      BY <2>1, <2>3 DEF ClockInv, Tests, Disabled, Enabled
<1>9. CASE StoreNumber \/ ClearEndpoints
  <2>1. ~crossed /\ UNCHANGED <<enabled, frozen>>
      BY <1>9 DEF StoreNumber, ClearEndpoints, irq
  <2>2. \/ Place = "number" /\ Place' = "resetForget"
        \/ Place = "clearEndpoints" /\ Place' = "configureControl"
    <3>1. {"number"} \subseteq DOMAIN After /\ {"clearEndpoints"} \subseteq DOMAIN After
        BY DEF After
    <3> QED
        BY <1>9, <3>1, Steps, Follows DEF StoreNumber, ClearEndpoints
  <2> QED
      BY <2>1, <2>2 DEF ClockInv, Tests, Disabled, Enabled
<1>10. CASE ConfigureControl
  <2>1. ~crossed /\ UNCHANGED <<enabled, frozen>> /\ gen # <<>> /\ Place = "configureControl"
      BY <1>10 DEF ConfigureControl, irq, At, Place
  <2>2. Place' \in Tests \cup {"main"}
      BY <1>10, <2>1, ReturnPlace DEF ConfigureControl
  <2> QED
      BY <2>1, <2>2 DEF ClockInv, Tests, Disabled, Enabled
<1>11. CASE ~GEN
  <2>1. UNCHANGED <<gen, enabled, frozen>>
    <3>1. CASE COM
        BY <3>1 DEF COM, EnterCOM, DeviceTask, ProcessControlRequest, StreamTurn, StatusOUT,
                    DataOUT, StatusIN, SetAddress, LeaveTask, LeaveCOM, comFrame, irq
    <3>2. CASE Host
        BY <3>2 DEF Host, VbusChanges, BusSuspend, BusActivity, BusReset, HostSetup, HostOut, HostIn,
                    hostFrame
    <3> QED
        BY <1>11, <3>1, <3>2 DEF Next, Firmware, Select, vars, irq
  <2>2. ~crossed
      BY <1>11 DEF Next, Firmware, COM, EnterCOM, DeviceTask, ProcessControlRequest, StreamTurn,
             StatusOUT, DataOUT, StatusIN, SetAddress, LeaveTask, LeaveCOM, Select, Host,
             VbusChanges, BusSuspend, BusActivity, BusReset, HostSetup, HostOut, HostIn, vars,
             comFrame, hostFrame, main
  <2> QED
      BY <2>1, <2>2 DEF ClockInv, Place, Top
<1> QED
    BY <1>1, <1>2, <1>3, <1>4, <1>5, <1>6, <1>7, <1>8, <1>9, <1>10, <1>11 DEF GEN, GenStep

\* At the beginning no GEN is in progress.
LEMMA ShapeInit == Init => NestingTypes /\ Shape /\ ClockInv
    BY DEF Init, NestingTypes, Shape, ClockInv, Place, Tests, S, W, Disabled, Enabled

\* Of suspension and wake-up exactly one is enabled, the wake-up while the clock is frozen, for
\* every depth of nesting, as long as no body is disturbed.
THEOREM FrozenCorrect == Spec => []FrozenCanWake
<1>1. Shape /\ ClockInv => FrozenCanWake
    BY DEF ClockInv, FrozenCanWake, Undisturbed, Disturbed, Place, S, W
<1> QED
    BY <1>1, ShapeInit, NestingStep, ShapeStep, ClockStep, PTL DEF Spec

-----------------------------------------------------------------------------
(* The endpoint selection.                                                 *)

\* What main() selected, or a reset of the endpoints, is selected, or kept by the COM that
\* interrupted it.
SelectionInv ==
    /\ com = "none" => UENUM = selected
    /\ com # "none" => prevISR = selected

\* The interrupts' own selections, and main()'s, are the only ones.
LEMMA SelectionStep == SelectionInv /\ [Next]_vars => SelectionInv'
<1> SUFFICES ASSUME SelectionInv, [Next]_vars PROVE SelectionInv'
    OBVIOUS
<1>1. CASE GEN
  <2>1. com = "none" /\ com' = "none"
      BY <1>1 DEF GEN, EnterGEN, GenStep, VbusTest, SuspendTest, WakeupTest, ResetTest, ClearCause,
                  DisableCause, EnableCause, SetClock, StoreState, ReadNumber, StoreNumber,
                  ClearEndpoints, ConfigureControl, At, In, genFrame, testFrame
  <2>2. UNCHANGED <<UENUM, selected>> \/ UENUM' = selected'
      BY <1>1 DEF GEN, EnterGEN, GenStep, VbusTest, SuspendTest, WakeupTest, ResetTest, ClearCause,
                  DisableCause, EnableCause, SetClock, StoreState, ReadNumber, StoreNumber,
                  ClearEndpoints, ConfigureControl, testFrame
  <2> QED
      BY <2>1, <2>2 DEF SelectionInv
<1>2. CASE EnterCOM
    BY <1>2 DEF EnterCOM, CurrentEndpoint, SelectionInv
<1>3. CASE LeaveCOM
    BY <1>3 DEF LeaveCOM, comFrame, main, SelectionInv
<1>4. CASE DeviceTask \/ StreamTurn \/ StatusOUT \/ DataOUT \/ StatusIN \/ SetAddress \/ LeaveTask
           \/ (\E r \in Requests : ProcessControlRequest(r))
  <2>1. com # "none" /\ UNCHANGED <<prevISR, selected>>
      BY <1>4 DEF DeviceTask, ProcessControlRequest, StreamTurn, StatusOUT, DataOUT, StatusIN,
                  SetAddress, LeaveTask, comFrame, comLocals, prevs, main
  <2>2. com' # "none"
      BY <1>4 DEF DeviceTask, ProcessControlRequest, FirstWait, StreamTurn, StatusOUT, DataOUT,
                  StatusIN, SetAddress, LeaveTask, Finish, GoOn
  <2> QED
      BY <2>1, <2>2 DEF SelectionInv
<1>5. ASSUME NEW e \in MainEndpoints, Select(e) PROVE SelectionInv'
    BY <1>5 DEF Select, SelectionInv
<1>6. CASE Host
    BY <1>6 DEF Host, VbusChanges, BusSuspend, BusActivity, BusReset, HostSetup, HostOut, HostIn,
                hostFrame, comLocals, main, SelectionInv
<1>7. CASE UNCHANGED vars
    BY <1>7 DEF vars, comLocals, main, SelectionInv
<1> QED
    BY <1>1, <1>2, <1>3, <1>4, <1>5, <1>6, <1>7 DEF Next, Firmware, COM

\* However the two interrupts nest, main() finds the endpoint it selected, or endpoint 0 after a
\* reset of the endpoints.
THEOREM SelectionCorrect == Spec => []MainOnItsEndpoint
<1>1. Init => SelectionInv
    BY DEF Init, SelectionInv
<1>2. SelectionInv => MainOnItsEndpoint
    BY DEF SelectionInv, MainOnItsEndpoint
<1> QED
    BY <1>1, <1>2, SelectionStep, PTL DEF Spec

-----------------------------------------------------------------------------
(* The configuration.                                                      *)

\* A SET_CONFIGURATION has stored its number but not yet configured the endpoints.
Configuring == com = "statusIN" /\ USB_ControlRequest.kind = "SetConfiguration"

ResetPending == "EORST" \in flags

\* Outside that stage, and without a reset that waits or has begun, the number, the state and the
\* endpoints agree: the number is what a wake-up rebuilds the state from.
Agree ==
    /\ USB_ConfigurationNumber # 0 => Bulk \subseteq endpoints
    /\ USB_DeviceState = "Configured" => USB_ConfigurationNumber # 0

Cleaned == {"resetForget", "resetDisable", "resetEnable", "clearEndpoints", "configureControl"}

ConfigInv ==
    ~crossed =>
        /\ ~ResetPending /\ ~Configuring /\ Place \notin {"resetClear", "default", "number"} => Agree
        /\ Place \in Cleaned => USB_ConfigurationNumber = 0
        /\ Place \in Cleaned \cup {"number"} => USB_DeviceState # "Configured"
        /\ Place = "configured" => USB_ConfigurationNumber # 0

\* Only a request for the line coding waits for data.
DataInv == com = "dataOUT" => USB_ControlRequest.kind = "SetLineEncoding"

\* GEN stores nothing of the control transfer.
LEMMA GenLeavesCOM ==
    ASSUME GEN
    PROVE  com = "none" /\ com' = "none" /\ UNCHANGED <<USB_ControlRequest, left, status, UDADDR>>
    BY DEF GEN, EnterGEN, GenStep, VbusTest, SuspendTest, WakeupTest, ResetTest, ClearCause,
           DisableCause, EnableCause, SetClock, StoreState, ReadNumber, StoreNumber,
           ClearEndpoints, ConfigureControl, At, In, genFrame, testFrame, comLocals

\* The wait for data begins with the request and ends before the next.
LEMMA DataStep == DataInv /\ [Next]_vars => DataInv'
<1> SUFFICES ASSUME DataInv, [Next]_vars PROVE DataInv'
    OBVIOUS
<1> USE DEF DataInv
<1>1. CASE GEN
    BY <1>1, GenLeavesCOM
<1>2. ASSUME NEW r \in Requests, ProcessControlRequest(r) PROVE DataInv'
  <2>1. \/ com' = FirstWait(r) /\ USB_ControlRequest' = r
        \/ com' = "leave"
      BY <1>2 DEF ProcessControlRequest, Finish
  <2> QED
      BY <2>1 DEF FirstWait
<1>3. CASE EnterCOM \/ DeviceTask \/ StreamTurn \/ StatusOUT \/ DataOUT \/ StatusIN \/ SetAddress
           \/ LeaveTask \/ LeaveCOM
  <2>1. com' # "dataOUT"
      BY <1>3 DEF EnterCOM, DeviceTask, StreamTurn, StatusOUT, DataOUT, StatusIN, SetAddress,
                  LeaveTask, LeaveCOM, Finish, GoOn
  <2> QED
      BY <2>1
<1>4. CASE Host
    BY <1>4 DEF Host, VbusChanges, BusSuspend, BusActivity, BusReset, HostSetup, HostOut, HostIn,
                hostFrame, comLocals
<1> QED
    BY <1>1, <1>2, <1>3, <1>4 DEF Next, Firmware, COM, Select, vars, comLocals

\* An action that touches none of the configuration, and lets no GEN return.
LEMMA ConfigFrame ==
    ASSUME ConfigInv, ~crossed, UNCHANGED <<device, endpoints, flags, com, USB_ControlRequest, gen>>
    PROVE  ConfigInv'
    BY DEF device, ConfigInv, Agree, ResetPending, Configuring, Place, Top

\* GEN rebuilds the state from the number, and a reset clears both.
LEMMA ConfigGEN == NestingTypes /\ Shape /\ ConfigInv /\ GEN => ConfigInv'
<1> SUFFICES ASSUME NestingTypes, Shape, ConfigInv, GEN, ~crossed' PROVE ConfigInv'
    BY DEF ConfigInv
<1>0. ~Configuring /\ ~Configuring'
    BY GenLeavesCOM DEF Configuring
<1> USE DEF Agree, ResetPending
<1>1. CASE EnterGEN
  <2>1. ~crossed /\ ~Disturbed /\ Place' = "vbus" /\ UNCHANGED <<flags, device, endpoints>>
      BY <1>1, EnterStep DEF EnterGEN, irq
  <2>2. Place \in Tests \cup {"main"}
      BY <2>1 DEF Disturbed, Place
  <2> QED
      BY <1>0, <2>1, <2>2 DEF ConfigInv, Tests, Cleaned, device
<1>2. CASE VbusTest
  <2>1. ~crossed /\ Place = "vbus" /\ Place' = "suspend"
    <3>1. "suspend" \in Places
        BY DEF Places, Tests
    <3> QED
        BY <1>2, <3>1, Goes DEF VbusTest, At, Place
  <2>2. /\ UNCHANGED <<USB_ConfigurationNumber, endpoints>> /\ ("EORST" \in flags' <=> "EORST" \in flags)
        /\ USB_DeviceState' = "Configured" => USB_DeviceState = "Configured"
      BY <1>2 DEF VbusTest
  <2> QED
      BY <1>0, <2>1, <2>2 DEF ConfigInv, Cleaned
<1>3. CASE SuspendTest \/ WakeupTest
  <2>1. ~crossed /\ Place \in {"suspend", "wakeup"} /\ UNCHANGED <<flags, device, endpoints>>
      BY <1>3 DEF SuspendTest, WakeupTest, testFrame, irq, At, Place
  <2>2. Place' \in {"suspendClear", "wakeup", "unfreeze", "reset"}
    <3>1. {"suspendClear", "wakeup", "unfreeze", "reset"} \subseteq Places
        BY DEF Places, Tests, After
    <3> QED
        BY <1>3, <3>1, Goes DEF SuspendTest, WakeupTest, At
  <2> QED
      BY <1>0, <2>1, <2>2 DEF ConfigInv, Cleaned, device
<1>4. CASE ReadNumber
  <2>1. ~crossed /\ Place = "rebuild" /\ UNCHANGED <<flags, device, endpoints>>
      BY <1>4 DEF ReadNumber, testFrame, irq, At, Place
  <2>2. \/ Place' = "configured" /\ USB_ConfigurationNumber # 0
        \/ Place' = "addressed"
    <3>1. {"configured", "addressed"} \subseteq Places
        BY DEF Places, After
    <3> QED
        BY <1>4, <3>1, Goes DEF ReadNumber, At
  <2> QED
      BY <1>0, <2>1, <2>2 DEF ConfigInv, Cleaned, device
<1>5. CASE ResetTest
  <2>1. gen # <<>> /\ Place = "reset" /\ UNCHANGED <<flags, device, endpoints>>
      BY <1>5 DEF ResetTest, testFrame, irq, At, Place
  <2>2. CASE Occurred("EORST")
    <3>1. Place' = "resetClear"
      <4>1. "resetClear" \in Places
          BY DEF Places, After
      <4> QED
          BY <1>5, <2>1, <2>2, <4>1, Goes DEF ResetTest
    <3> QED
        BY <3>1 DEF ConfigInv, Cleaned
  <2>3. CASE ~Occurred("EORST")
    <3>1. ~crossed /\ Place' \in Tests \cup {"main"}
        BY <1>5, <2>1, <2>3, ReturnPlace DEF ResetTest
    <3> QED
        BY <1>0, <2>1, <3>1 DEF ConfigInv, Tests, Cleaned, device
  <2> QED
      BY <2>2, <2>3
<1>6. CASE ClearCause
  <2>1. ~crossed /\ UNCHANGED <<device, endpoints>> /\ "EORST" \notin flags \ Top.loaded
        /\ flags' = flags \ ((Causes \ Top.loaded) \cup {Cleared[Top.at]})
      BY <1>6 DEF ClearCause
  <2>2. Place = Top.at /\ Place \in DOMAIN Cleared /\ Place' = After[Place]
      BY <1>6, Steps, Tables DEF ClearCause
  <2>3. \/ Place = "suspendClear" /\ Place' = "suspendDisable" /\ Cleared[Place] = "SUSPEND"
        \/ Place = "wakeupClear" /\ Place' = "wakeupDisable" /\ Cleared[Place] = "WAKEUP"
        \/ Place = "resetClear" /\ Place' = "default"
        \/ Place = "resetForget" /\ Place' = "resetDisable"
      BY <2>2, Follows DEF Cleared
  <2>4. Place # "resetClear" /\ Place # "resetForget" /\ "EORST" \in flags => "EORST" \in flags'
      BY <2>1, <2>2, <2>3
  <2> QED
      BY <1>0, <2>1, <2>3, <2>4 DEF ConfigInv, Cleaned, device
<1>7. CASE DisableCause \/ EnableCause \/ SetClock
  <2>1. ~crossed /\ UNCHANGED <<flags, device, endpoints>>
      BY <1>7 DEF DisableCause, EnableCause, SetClock
  <2>2. /\ Place \in DOMAIN Disabled \cup DOMAIN Enabled \cup DOMAIN Frozen
        /\ Place' = After[Place]
      BY <1>7, Steps, Tables DEF DisableCause, EnableCause, SetClock
  <2>3. /\ Place \notin {"resetClear", "default", "number"}
        /\ Place' \notin {"resetClear", "default", "number", "configured"}
        /\ Place' \in Cleaned => Place \in Cleaned
      BY <2>2, Follows DEF Disabled, Enabled, Frozen, Cleaned
  <2> QED
      BY <1>0, <2>1, <2>3 DEF ConfigInv, device
<1>8. CASE StoreState
  <2>1. ~crossed /\ UNCHANGED <<flags, USB_ConfigurationNumber, endpoints>>
        /\ USB_DeviceState' = Stored[Top.at]
      BY <1>8 DEF StoreState, irq
  <2>2. Place = Top.at /\ Place \in DOMAIN Stored /\ Place' = After[Place]
      BY <1>8, Steps, Tables DEF StoreState
  <2>3. \/ Place = "suspended" /\ Place' = "wakeup" /\ Stored[Place] = "Suspended"
        \/ Place = "configured" /\ Place' = "reset" /\ Stored[Place] = "Configured"
        \/ Place = "addressed" /\ Place' = "reset" /\ Stored[Place] = "Addressed"
        \/ Place = "default" /\ Place' = "number" /\ Stored[Place] = "Default"
      BY <2>2, Follows DEF Stored
  <2> QED
      BY <1>0, <2>1, <2>2, <2>3 DEF ConfigInv, Cleaned
<1>9. CASE StoreNumber
  <2>1. ~crossed /\ UNCHANGED <<flags, USB_DeviceState, endpoints>> /\ USB_ConfigurationNumber' = 0
      BY <1>9 DEF StoreNumber, irq, Unconfigured
  <2>2. Place = "number" /\ Place' = "resetForget"
    <3>1. {"number"} \subseteq DOMAIN After
        BY DEF After
    <3> QED
        BY <1>9, <3>1, Steps, Follows DEF StoreNumber
  <2> QED
      BY <1>0, <2>1, <2>2 DEF ConfigInv, Cleaned
<1>10. CASE ClearEndpoints
  <2>1. ~crossed /\ UNCHANGED <<flags, device>>
      BY <1>10 DEF ClearEndpoints, irq
  <2>2. Place = "clearEndpoints" /\ Place' = "configureControl"
    <3>1. {"clearEndpoints"} \subseteq DOMAIN After
        BY DEF After
    <3> QED
        BY <1>10, <3>1, Steps, Follows DEF ClearEndpoints
  <2> QED
      BY <1>0, <2>1, <2>2 DEF ConfigInv, Cleaned, device
<1>11. CASE ConfigureControl
  <2>1. ~crossed /\ UNCHANGED <<flags, device>> /\ gen # <<>> /\ Place = "configureControl"
      BY <1>11 DEF ConfigureControl, irq, At, Place
  <2>2. Place' \in Tests \cup {"main"}
      BY <1>11, <2>1, ReturnPlace DEF ConfigureControl
  <2> QED
      BY <1>0, <2>1, <2>2 DEF ConfigInv, Cleaned, Tests, device
<1> QED
    BY <1>1, <1>2, <1>3, <1>4, <1>5, <1>6, <1>7, <1>8, <1>9, <1>10, <1>11 DEF GEN, GenStep

\* COM changes the number only on its way to the stage, and leaves the stage by configuring.
LEMMA ConfigCOM == Shape /\ DataInv /\ ConfigInv /\ COM => ConfigInv'
<1> SUFFICES ASSUME Shape, DataInv, ConfigInv, COM, ~crossed' PROVE ConfigInv'
    BY DEF ConfigInv
<1>0. ~crossed /\ UNCHANGED <<gen, flags>>
  <2>1. CASE EnterCOM
      BY <2>1 DEF EnterCOM, irq
  <2>2. CASE ~EnterCOM
    <3>1. UNCHANGED <<gen, flags, crossed>>
        BY <2>2 DEF COM, DeviceTask, ProcessControlRequest, StreamTurn, StatusOUT, DataOUT,
                    StatusIN, SetAddress, LeaveTask, LeaveCOM, comFrame, main, irq
    <3> QED
        BY <3>1
  <2> QED
      BY <2>1, <2>2
<1>1. CASE EnterCOM
  <2>1. UNCHANGED <<device, endpoints>> /\ ~Configuring /\ ~Configuring'
      BY <1>1 DEF EnterCOM, Configuring
  <2> QED
      BY <1>0, <2>1 DEF ConfigInv, Agree, ResetPending, Place, Top, device
<1>2. CASE ~EnterCOM
  <2>0. Place \in Tests \cup {"main"} /\ Place' = Place
    <3>1. com # "none"
        BY <1>2 DEF COM, DeviceTask, ProcessControlRequest, StreamTurn, StatusOUT, DataOUT,
                    StatusIN, SetAddress, LeaveTask, LeaveCOM
    <3> QED
        BY <1>0, <3>1 DEF Shape, Place, Top
  <2>1. SUFFICES (~ResetPending /\ ~Configuring => Agree) => (~ResetPending' /\ ~Configuring' => Agree')
      BY <1>0, <2>0 DEF ConfigInv, Cleaned, Tests
  <2> USE DEF Agree, ResetPending, Configuring
  <2>2. ASSUME NEW r \in Requests, ProcessControlRequest(r)
        PROVE  (~ResetPending /\ ~Configuring => Agree) => (~ResetPending' /\ ~Configuring' => Agree')
    <3>1. UNCHANGED <<USB_DeviceState, endpoints>> /\ com = "request"
        BY <2>2 DEF ProcessControlRequest
    <3>2. \/ UNCHANGED USB_ConfigurationNumber
          \/ USB_ControlRequest' = r /\ r.kind = "SetConfiguration" /\ com' = "statusIN"
        BY <2>2 DEF ProcessControlRequest, FirstWait
    <3> QED
        BY <1>0, <3>1, <3>2
  <2>3. CASE DeviceTask \/ StreamTurn \/ StatusOUT \/ DataOUT \/ LeaveTask \/ LeaveCOM
    <3>1. UNCHANGED <<device, endpoints>>
        BY <2>3 DEF DeviceTask, StreamTurn, StatusOUT, DataOUT, LeaveTask, LeaveCOM
    <3>2. ~Configuring
        BY <2>3 DEF DeviceTask, StreamTurn, StatusOUT, DataOUT, LeaveTask, LeaveCOM
    <3> QED
        BY <1>0, <3>1, <3>2 DEF device
  <2>4. CASE StatusIN
    <3>1. UNCHANGED USB_ConfigurationNumber
        BY <2>4 DEF StatusIN
    <3>2. CASE USB_ControlRequest.kind = "SetConfiguration"
      <4>1. Bulk \subseteq endpoints'
            /\ (USB_DeviceState' = "Configured" => USB_ConfigurationNumber # 0)
          BY <2>4, <3>2 DEF StatusIN, Configure
      <4> QED
          BY <3>1, <4>1
    <3>3. CASE USB_ControlRequest.kind # "SetConfiguration"
      <4>1. UNCHANGED <<USB_DeviceState, endpoints>>
          BY <2>4, <3>3 DEF StatusIN
      <4> QED
          BY <1>0, <3>1, <3>3, <4>1
    <3> QED
        BY <3>2, <3>3
  <2>5. CASE SetAddress
    <3>1. /\ com = "acked" /\ UNCHANGED <<USB_ConfigurationNumber, endpoints>>
          /\ USB_DeviceState' = "Configured" => USB_DeviceState = "Configured"
        BY <2>5 DEF SetAddress
    <3> QED
        BY <1>0, <3>1
  <2> QED
      BY <1>2, <2>2, <2>3, <2>4, <2>5 DEF COM
<1> QED
    BY <1>1, <1>2

\* The host changes none of it but by a reset, which waits from then on.
LEMMA ConfigHost == ConfigInv /\ Host => ConfigInv'
<1> SUFFICES ASSUME ConfigInv, Host, ~crossed' PROVE ConfigInv'
    BY DEF ConfigInv
<1>1. ~crossed /\ UNCHANGED <<gen, com, USB_ControlRequest, device>>
    BY DEF Host, VbusChanges, BusSuspend, BusActivity, BusReset, HostSetup, HostOut, HostIn,
           hostFrame, main, comLocals
<1>2. \/ "EORST" \in flags'
      \/ endpoints' = endpoints /\ ("EORST" \in flags' <=> "EORST" \in flags)
    BY DEF Host, VbusChanges, BusSuspend, BusActivity, BusReset, HostSetup, HostOut, HostIn
<1> QED
    BY <1>1, <1>2 DEF ConfigInv, Agree, ResetPending, Configuring, Place, Top, device

\* Between requests the state Configured means a configuration and its endpoints, whatever
\* suspensions, wake-ups, disconnections and resets came before, one GEN inside another, as long
\* as no body is disturbed.
THEOREM ConfigurationCorrect == Spec => []ConfiguredHasEndpoints
<1>1. Init => ConfigInv /\ DataInv
    BY DEF Init, ConfigInv, DataInv, Agree, Configuring, Place, Cleaned
<1>2. NestingTypes /\ Shape /\ DataInv /\ ConfigInv /\ [Next]_vars => ConfigInv'
  <2> SUFFICES ASSUME NestingTypes, Shape, DataInv, ConfigInv, [Next]_vars PROVE ConfigInv'
      OBVIOUS
  <2>1. ASSUME NEW e \in MainEndpoints, Select(e) PROVE ConfigInv'
    <3>1. CASE crossed
        BY <2>1, <3>1 DEF Select, ConfigInv
    <3>2. CASE ~crossed
        BY <2>1, <3>2, ConfigFrame DEF Select, irq, comLocals
    <3> QED
        BY <3>1, <3>2
  <2>2. CASE UNCHANGED vars
    <3>1. CASE crossed
        BY <2>2, <3>1 DEF vars, main, ConfigInv
    <3>2. CASE ~crossed
        BY <2>2, <3>2, ConfigFrame DEF vars, irq, comLocals
    <3> QED
        BY <3>1, <3>2
  <2> QED
      BY <2>1, <2>2, ConfigGEN, ConfigCOM, ConfigHost DEF Next, Firmware
<1>3. Shape /\ ConfigInv => ConfiguredHasEndpoints
  <2> SUFFICES ASSUME ConfigInv, USB_DeviceState = "Configured", "EORST" \notin flags,
                      com = "none", ~crossed, ~Disturbed
               PROVE  USB_ConfigurationNumber # 0 /\ Bulk \subseteq endpoints
      BY DEF ConfiguredHasEndpoints, Undisturbed
  <2>1. Place \in Tests \cup {"main"}
      BY DEF Disturbed, Place
  <2> QED
      BY <2>1 DEF ConfigInv, Agree, ResetPending, Configuring, Tests
<1> QED
    BY <1>1, <1>2, <1>3, ShapeInit, NestingStep, ShapeStep, DataStep, PTL DEF Spec

-----------------------------------------------------------------------------
(* The address.                                                            *)

\* Between the status stage of SET_ADDRESS and the write of the register, a bank that is free
\* again was taken by the host, or freed by the SETUP or the reset that ended the transfer.
AddressInv ==
    /\ status \in {"none", "sent", "taken", "aborted"}
    /\ com = "acked" => status # "none" /\ (in => status # "sent")

\* The bank is taken and given back together with what status remembers of it.
LEMMA AddressStep == AddressInv /\ [Next]_vars => AddressInv'
<1> SUFFICES ASSUME AddressInv, [Next]_vars PROVE AddressInv'
    OBVIOUS
<1> USE DEF AddressInv, ep0, comLocals, hostFrame
<1>1. CASE GEN
  <2>1. com = "none" /\ com' = "none" /\ status' = status
      BY <1>1, GenLeavesCOM
  <2> QED
      BY <2>1
<1>2. CASE StatusIN
    BY <1>2 DEF StatusIN
<1>3. CASE LeaveCOM
    BY <1>3 DEF LeaveCOM
<1>4. CASE EnterCOM \/ DeviceTask \/ StreamTurn \/ StatusOUT \/ DataOUT \/ SetAddress \/ LeaveTask
           \/ (\E r \in Requests : ProcessControlRequest(r))
  <2>1. status' = status
      BY <1>4 DEF EnterCOM, DeviceTask, ProcessControlRequest, StreamTurn, StatusOUT, DataOUT,
                  SetAddress, LeaveTask
  <2>2. com' # "acked"
      BY <1>4 DEF EnterCOM, DeviceTask, ProcessControlRequest, FirstWait, StreamTurn, StatusOUT,
                  DataOUT, SetAddress, LeaveTask, Finish, GoOn
  <2> QED
      BY <2>1, <2>2
<1>5. ASSUME NEW e \in MainEndpoints, Select(e) PROVE AddressInv'
    BY <1>5 DEF Select
<1>6. CASE VbusChanges \/ BusSuspend \/ BusActivity \/ HostOut
    BY <1>6 DEF VbusChanges, BusSuspend, BusActivity, HostOut
<1>7. CASE BusReset
    BY <1>7 DEF BusReset, Aborted
<1>8. CASE HostSetup
    BY <1>8 DEF HostSetup, Aborted
<1>9. CASE HostIn
    BY <1>9 DEF HostIn
<1>10. CASE UNCHANGED vars
    BY <1>10 DEF vars
<1> QED
    BY <1>1, <1>2, <1>3, <1>4, <1>5, <1>6, <1>7, <1>8, <1>9, <1>10
    DEF Next, Firmware, COM, Host

\* Only USB_Device_SetAddress writes an address other than 0, once the bank is free.
LEMMA AddressWrite == AddressInv /\ [Next]_vars => (UDADDR' \notin {0, UDADDR} => status \in {"taken", "aborted"})
<1> SUFFICES ASSUME AddressInv, [Next]_vars, UDADDR' \notin {0, UDADDR}
             PROVE  status \in {"taken", "aborted"}
    OBVIOUS
<1>1. CASE SetAddress
    BY <1>1 DEF SetAddress, Acked, AddressInv
<1>2. CASE GEN
    BY <1>2, GenLeavesCOM
<1>3. CASE EnterCOM \/ DeviceTask \/ StreamTurn \/ StatusOUT \/ DataOUT \/ StatusIN \/ LeaveTask
           \/ LeaveCOM \/ (\E r \in Requests : ProcessControlRequest(r))
    BY <1>3 DEF EnterCOM, DeviceTask, ProcessControlRequest, StreamTurn, StatusOUT, DataOUT,
                StatusIN, LeaveTask, LeaveCOM
<1>4. ASSUME NEW e \in MainEndpoints, Select(e) PROVE status \in {"taken", "aborted"}
    BY <1>4 DEF Select
<1>5. CASE Host
    BY <1>5 DEF Host, VbusChanges, BusSuspend, BusActivity, BusReset, HostSetup, HostOut, HostIn
<1>6. CASE UNCHANGED vars
    BY <1>6 DEF vars
<1> QED
    BY <1>1, <1>2, <1>3, <1>4, <1>5, <1>6 DEF Next, Firmware, COM

\* The device never answers to a new address before the host has the status stage of
\* SET_ADDRESS, which is still sent to the old one, or has given the transfer up.
THEOREM AddressCorrect == Spec => AddressAfterStatus
<1>1. Init => AddressInv
    BY DEF Init, AddressInv
<1> QED
    BY <1>1, AddressStep, AddressWrite, PTL DEF Spec, AddressAfterStatus

-----------------------------------------------------------------------------
(* The control endpoint's requests.                                        *)

\* COM's two saved selections agree, and it leaves with the selection it came with.
SavedInv ==
    /\ com \in {"task", "exit"} => UENUM = prevISR
    /\ com \in {"request", "stream", "statusOUT", "dataOUT", "statusIN", "acked", "leave"}
       => prevTask = prevISR

\* Every selection COM makes is between a save and a restoration.
LEMMA SavedStep == SavedInv /\ [Next]_vars => SavedInv'
<1> SUFFICES ASSUME SavedInv, [Next]_vars PROVE SavedInv'
    OBVIOUS
<1> USE DEF SavedInv, comLocals, hostFrame
<1>1. CASE GEN
  <2>1. com = "none" /\ com' = "none"
      BY <1>1, GenLeavesCOM
  <2> QED
      BY <2>1
<1>2. CASE EnterCOM
    BY <1>2 DEF EnterCOM, CurrentEndpoint
<1>3. CASE DeviceTask
    BY <1>3 DEF DeviceTask, CurrentEndpoint
<1>4. CASE StreamTurn \/ StatusOUT \/ DataOUT \/ StatusIN \/ SetAddress
           \/ (\E r \in Requests : ProcessControlRequest(r))
  <2>1. UNCHANGED <<prevTask, prevISR>>
      BY <1>4 DEF prevs, ProcessControlRequest, StreamTurn, StatusOUT, DataOUT, StatusIN, SetAddress
  <2>2. com' \in {"stream", "statusOUT", "dataOUT", "statusIN", "acked", "leave"}
      BY <1>4 DEF ProcessControlRequest, FirstWait, StreamTurn, StatusOUT, DataOUT, StatusIN,
                  SetAddress, Finish, GoOn
  <2>3. com \in {"request", "stream", "statusOUT", "dataOUT", "statusIN", "acked"}
      BY <1>4 DEF ProcessControlRequest, StreamTurn, StatusOUT, DataOUT, StatusIN, SetAddress
  <2> QED
      BY <2>1, <2>2, <2>3
<1>5. CASE LeaveTask
    BY <1>5 DEF LeaveTask
<1>6. CASE LeaveCOM
    BY <1>6 DEF LeaveCOM
<1>7. ASSUME NEW e \in MainEndpoints, Select(e) PROVE SavedInv'
    BY <1>7 DEF Select
<1>8. CASE Host
    BY <1>8 DEF Host, VbusChanges, BusSuspend, BusActivity, BusReset, HostSetup, HostOut, HostIn
<1>9. CASE UNCHANGED vars
    BY <1>9 DEF vars
<1> QED
    BY <1>1, <1>2, <1>3, <1>4, <1>5, <1>6, <1>7, <1>8, <1>9 DEF Next, Firmware, COM

\* The ways in which a request can disappear in one step.
LEMMA SetupLoss ==
    ASSUME SavedInv, [Next]_vars, setup, ~setup'
    PROVE  \/ com \in {"request", "leave"} \/ At("clearEndpoints") \/ "EORST" \in flags'
           \/ com = "exit" /\ prevISR = 0
<1> USE DEF ep0, hostFrame
<1>1. CASE GEN
  <2>1. ClearEndpoints
      BY <1>1 DEF GEN, EnterGEN, GenStep, VbusTest, SuspendTest, WakeupTest, ResetTest, ClearCause,
                  DisableCause, EnableCause, SetClock, StoreState, ReadNumber, StoreNumber,
                  ConfigureControl, testFrame
  <2> QED
      BY <2>1 DEF ClearEndpoints, In, At
<1>2. CASE LeaveCOM
    BY <1>2 DEF LeaveCOM, ClearsSETUP, SavedInv
<1>3. CASE EnterCOM \/ DeviceTask \/ StreamTurn \/ StatusOUT \/ DataOUT \/ StatusIN \/ SetAddress
           \/ LeaveTask \/ (\E r \in Requests : ProcessControlRequest(r))
    BY <1>3 DEF EnterCOM, DeviceTask, ProcessControlRequest, StreamTurn, StatusOUT, DataOUT,
                StatusIN, SetAddress, LeaveTask
<1>4. ASSUME NEW e \in MainEndpoints, Select(e) PROVE FALSE
    BY <1>4 DEF Select
<1>5. CASE VbusChanges \/ BusSuspend \/ BusActivity \/ HostSetup \/ HostOut \/ HostIn
    BY <1>5 DEF VbusChanges, BusSuspend, BusActivity, HostSetup, HostOut, HostIn
<1>6. CASE BusReset
    BY <1>6 DEF BusReset
<1>7. CASE UNCHANGED vars
    BY <1>7 DEF vars
<1> QED
    BY <1>1, <1>2, <1>3, <1>4, <1>5, <1>6, <1>7 DEF Next, Firmware, COM, Host

\* An accepted request is processed, stalled, reset or replaced, and not lost in between,
\* however the interrupts come, as long as main() has a bulk endpoint selected.
THEOREM SetupCorrect == Spec => UnreadSetupKept
<1>1. Init => SavedInv
    BY DEF Init, SavedInv
<1>2. SavedInv /\ [Next]_vars
      => (setup /\ ~setup'
          => \/ com \in {"request", "leave"} \/ At("clearEndpoints") \/ "EORST" \in flags'
             \/ com = "exit" /\ prevISR = 0)
    BY SetupLoss
<1> QED
    BY <1>1, <1>2, SavedStep, PTL DEF Spec, UnreadSetupKept

-----------------------------------------------------------------------------
(* Types.                                                                  *)

Flags == {"VBUS"} \cup Causes

States == {"Unattached", "Powered", "Default", "Addressed", "Configured", "Suspended"}

BusTypes ==
    /\ vbus \in BOOLEAN /\ frozen \in BOOLEAN /\ I \in BOOLEAN
    /\ flags \subseteq Flags /\ enabled \subseteq Flags
    /\ crossed \in BOOLEAN

StateTypes ==
    /\ USB_DeviceState \in States
    /\ USB_ConfigurationNumber \in 0..1
    /\ UDADDR \in Nat
    /\ endpoints \subseteq {0, 2} \cup Bulk
    /\ status \in {"none", "sent", "taken", "aborted"}

\* A descriptor is sent only while packets of it are left.
ControlTypes ==
    /\ USB_ControlRequest \in Requests \cup {None} /\ setup \in BOOLEAN
    /\ out \in BOOLEAN /\ in \in BOOLEAN
    /\ left \in Nat
    /\ com = "stream" => left # 0
    /\ com \in {"none", "task", "request", "stream", "statusOUT", "dataOUT", "statusIN", "acked",
                "leave", "exit"}

SelectionTypes ==
    /\ UENUM \in Selections /\ prevISR \in Selections /\ prevTask \in Selections
    /\ selected \in Selections

\* The flags of the bus and of the processor, and the causes.
LEMMA BusStep == BusTypes /\ NestingTypes /\ [Next]_vars => BusTypes'
<1> SUFFICES ASSUME BusTypes, NestingTypes, [Next]_vars PROVE BusTypes'
    OBVIOUS
<1> USE DEF irq, device, ep0, comLocals, main, comFrame, hostFrame
<1>1. vbus' \in BOOLEAN
  <2>1. UNCHANGED vbus \/ vbus' = ~vbus
    <3>1. CASE GEN
        BY <3>1 DEF GEN, EnterGEN, GenStep, VbusTest, SuspendTest, WakeupTest, ResetTest, ClearCause,
               DisableCause, EnableCause, SetClock, StoreState, ReadNumber, StoreNumber,
               ClearEndpoints, ConfigureControl, genFrame, testFrame
    <3>2. CASE ~GEN
        BY <3>2 DEF Next, Firmware, COM, EnterCOM, DeviceTask, ProcessControlRequest, StreamTurn,
               StatusOUT, DataOUT, StatusIN, SetAddress, LeaveTask, LeaveCOM, Select, Host,
               VbusChanges, BusSuspend, BusActivity, BusReset, HostSetup, HostOut, HostIn, vars
    <3> QED
        BY <3>1, <3>2
  <2> QED
      BY <2>1, Zenon DEF BusTypes
<1>2. I' \in BOOLEAN
  <2>1. UNCHANGED I \/ I' = TRUE \/ I' = FALSE
    <3>1. CASE VbusTest \/ StoreState
      <4> DEFINE suspended == Top.at = "suspended"
      <4>1. UNCHANGED I \/ I' = (I \/ ~vbus) \/ I' = (I \/ suspended)
          BY <3>1 DEF VbusTest, StoreState
      <4> HIDE DEF suspended
      <4> QED
          BY <4>1, Zenon DEF BusTypes
    <3>2. CASE GEN /\ ~VbusTest /\ ~StoreState
        BY <3>2 DEF GEN, EnterGEN, GenStep, SuspendTest, WakeupTest, ResetTest, ClearCause,
               DisableCause, EnableCause, SetClock, ReadNumber, StoreNumber,
               ClearEndpoints, ConfigureControl, Return
    <3>3. CASE ~GEN
        BY <3>3 DEF Next, Firmware, COM, EnterCOM, DeviceTask, ProcessControlRequest, StreamTurn,
               StatusOUT, DataOUT, StatusIN, SetAddress, LeaveTask, LeaveCOM, Select, Host,
               VbusChanges, BusSuspend, BusActivity, BusReset, HostSetup, HostOut, HostIn, vars
    <3> QED
        BY <3>1, <3>2, <3>3 DEF GEN, GenStep
  <2> QED
      BY <2>1 DEF BusTypes
<1>3. crossed' \in BOOLEAN
  <2> DEFINE lost == "EORST" \in flags \ Top.loaded
             inside == Len(gen) > 1
  <2>1. \/ UNCHANGED crossed \/ crossed' = (crossed \/ Disturbed)
        \/ crossed' = (crossed /\ inside) \/ crossed' = (crossed \/ lost)
    <3>1. CASE GEN
        BY <3>1 DEF GEN, EnterGEN, GenStep, VbusTest, SuspendTest, WakeupTest, ResetTest, ClearCause,
               DisableCause, EnableCause, SetClock, StoreState, ReadNumber, StoreNumber,
               ClearEndpoints, ConfigureControl
    <3>2. CASE ~GEN
        BY <3>2 DEF Next, Firmware, COM, EnterCOM, DeviceTask, ProcessControlRequest, StreamTurn,
               StatusOUT, DataOUT, StatusIN, SetAddress, LeaveTask, LeaveCOM, Select, Host,
               VbusChanges, BusSuspend, BusActivity, BusReset, HostSetup, HostOut, HostIn, vars
    <3> QED
        BY <3>1, <3>2
  <2> HIDE DEF lost, inside
  <2> QED
      BY <2>1, Zenon DEF BusTypes
<1>4. flags' \subseteq Flags
  <2>1. flags' \subseteq flags \/ flags' \subseteq flags \cup {"VBUS", "SUSPEND", "WAKEUP", "EORST"}
    <3>1. CASE GEN
        BY <3>1 DEF GEN, EnterGEN, GenStep, VbusTest, SuspendTest, WakeupTest, ResetTest, ClearCause,
               DisableCause, EnableCause, SetClock, StoreState, ReadNumber, StoreNumber,
               ClearEndpoints, ConfigureControl, testFrame
    <3>2. CASE ~GEN
        BY <3>2 DEF Next, Firmware, COM, EnterCOM, DeviceTask, ProcessControlRequest, StreamTurn,
               StatusOUT, DataOUT, StatusIN, SetAddress, LeaveTask, LeaveCOM, Select, Host,
               VbusChanges, BusSuspend, BusActivity, BusReset, HostSetup, HostOut, HostIn, vars
    <3> QED
        BY <3>1, <3>2
  <2> QED
      BY <2>1 DEF BusTypes, Flags, Causes
<1>5. frozen' \in BOOLEAN
  <2>1. UNCHANGED frozen \/ SetClock
    <3>1. CASE GEN
        BY <3>1 DEF GEN, EnterGEN, GenStep, VbusTest, SuspendTest, WakeupTest, ResetTest, ClearCause,
               DisableCause, EnableCause, StoreState, ReadNumber, StoreNumber,
               ClearEndpoints, ConfigureControl, testFrame
    <3>2. CASE ~GEN
        BY <3>2 DEF Next, Firmware, COM, EnterCOM, DeviceTask, ProcessControlRequest, StreamTurn,
               StatusOUT, DataOUT, StatusIN, SetAddress, LeaveTask, LeaveCOM, Select, Host,
               VbusChanges, BusSuspend, BusActivity, BusReset, HostSetup, HostOut, HostIn, vars
    <3> QED
        BY <3>1, <3>2
  <2>2. \A place \in DOMAIN Frozen : Frozen[place] \in BOOLEAN
    <3>1. DOMAIN Frozen = {"freeze", "unfreeze"}
        BY DEF Frozen
    <3>2. Frozen["freeze"] = TRUE /\ Frozen["unfreeze"] = FALSE
        BY DEF Frozen
    <3> QED
        BY <3>1, <3>2, Zenon
  <2> QED
      BY <2>1, <2>2 DEF SetClock, In, BusTypes
<1>6. enabled' \subseteq Flags
  <2>1. UNCHANGED enabled \/ DisableCause \/ EnableCause
    <3>1. CASE GEN
        BY <3>1 DEF GEN, EnterGEN, GenStep, VbusTest, SuspendTest, WakeupTest, ResetTest, ClearCause,
               SetClock, StoreState, ReadNumber, StoreNumber,
               ClearEndpoints, ConfigureControl, testFrame
    <3>2. CASE ~GEN
        BY <3>2 DEF Next, Firmware, COM, EnterCOM, DeviceTask, ProcessControlRequest, StreamTurn,
               StatusOUT, DataOUT, StatusIN, SetAddress, LeaveTask, LeaveCOM, Select, Host,
               VbusChanges, BusSuspend, BusActivity, BusReset, HostSetup, HostOut, HostIn, vars
    <3> QED
        BY <3>1, <3>2
  <2>2. \A place \in DOMAIN Enabled : Enabled[place] \in Causes
      BY DEF Enabled, Causes
  <2>3. gen # <<>> => Top.loaded \subseteq Causes
    <3>1. gen # <<>> => Top \in Frames
        BY DEF NestingTypes, Top
    <3> QED
        BY <3>1 DEF Frames
  <2>4. CASE DisableCause
      BY <2>3, <2>4 DEF DisableCause, In, BusTypes, Flags
  <2>5. CASE EnableCause
      BY <2>2, <2>3, <2>5 DEF EnableCause, In, BusTypes, Flags
  <2> QED
      BY <2>1, <2>4, <2>5 DEF BusTypes
<1> QED
    BY <1>1, <1>2, <1>3, <1>4, <1>5, <1>6 DEF BusTypes

\* The state of the device.
LEMMA StateStep == StateTypes /\ ControlTypes /\ [Next]_vars => StateTypes'
<1> SUFFICES ASSUME StateTypes, ControlTypes, [Next]_vars PROVE StateTypes'
    OBVIOUS
<1> USE DEF irq, device, ep0, comLocals, prevs, main, comFrame, hostFrame, States
<1>1. CASE GEN
  <2>1. UNCHANGED <<UDADDR, status>>
      BY <1>1, GenLeavesCOM
  <2>2. USB_DeviceState' \in States
    <3>1. CASE StoreState
      <4>1. \A place \in DOMAIN Stored : Stored[place] \in States
          BY DEF Stored
      <4> QED
          BY <3>1, <4>1 DEF StoreState, In
    <3>2. CASE ~StoreState
        BY <1>1, <3>2 DEF GEN, EnterGEN, GenStep, VbusTest, SuspendTest, WakeupTest, ResetTest,
             ClearCause, DisableCause, EnableCause, SetClock, ReadNumber, StoreNumber,
             ClearEndpoints, ConfigureControl, testFrame, StateTypes
    <3> QED
        BY <3>1, <3>2
  <2>3. /\ UNCHANGED endpoints \/ endpoints' = {} \/ endpoints' = endpoints \cup {0}
        /\ UNCHANGED USB_ConfigurationNumber \/ USB_ConfigurationNumber' = 0
      BY <1>1 DEF GEN, EnterGEN, GenStep, VbusTest, SuspendTest, WakeupTest, ResetTest, ClearCause,
               DisableCause, EnableCause, SetClock, StoreState, ReadNumber, StoreNumber,
               ClearEndpoints, ConfigureControl, testFrame, Unconfigured
  <2>4. endpoints' \subseteq {0, 2} \cup Bulk
      BY <2>3 DEF StateTypes
  <2>5. USB_ConfigurationNumber' \in 0..1
      BY <2>3 DEF StateTypes
  <2> QED
      BY <2>1, <2>2, <2>4, <2>5 DEF StateTypes
<1>2. ASSUME NEW r \in Requests, ProcessControlRequest(r) PROVE StateTypes'
  <2>1. r.kind = "SetConfiguration" /\ Handled(r) => r.value \in 0..1
      BY UsbAssumption DEF UsbAssumption, Handled
  <2>2. USB_ConfigurationNumber' \in 0..1
      BY <1>2, <2>1 DEF ProcessControlRequest, StateTypes
  <2> QED
      BY <1>2, <2>2 DEF ProcessControlRequest, StateTypes
<1>3. CASE SetAddress
  <2>1. USB_ControlRequest.value \in Nat
      BY UsbAssumption DEF UsbAssumption, ControlTypes, None
  <2> QED
      BY <1>3, <2>1 DEF SetAddress, StateTypes
<1>4. CASE StatusIN
    BY <1>4 DEF StatusIN, Configure, StateTypes
<1>5. CASE EnterCOM \/ DeviceTask \/ StreamTurn \/ StatusOUT \/ DataOUT \/ LeaveTask \/ LeaveCOM
    BY <1>5 DEF EnterCOM, DeviceTask, StreamTurn, StatusOUT, DataOUT, LeaveTask, LeaveCOM, StateTypes
<1>6. ASSUME NEW e \in MainEndpoints, Select(e) PROVE StateTypes'
    BY <1>6 DEF Select, StateTypes
<1>7. CASE Host
  <2>1. UNCHANGED device /\ (UDADDR' = UDADDR \/ UDADDR' = 0)
        /\ (endpoints' = endpoints \/ endpoints' = endpoints \cap {0})
      BY <1>7 DEF Host, VbusChanges, BusSuspend, BusActivity, BusReset, HostSetup, HostOut, HostIn
  <2>2. status' = status \/ status' \in {"aborted", "taken"}
      BY <1>7 DEF Host, VbusChanges, BusSuspend, BusActivity, BusReset, HostSetup, HostOut, HostIn,
                  Aborted
  <2>3. endpoints' \subseteq {0, 2} \cup Bulk
      BY <2>1 DEF StateTypes
  <2>4. UDADDR' \in Nat /\ status' \in {"none", "sent", "taken", "aborted"}
      BY <2>1, <2>2 DEF StateTypes
  <2> QED
      BY <2>1, <2>3, <2>4 DEF StateTypes
<1>8. CASE UNCHANGED vars
    BY <1>8 DEF vars, StateTypes
<1> QED
    BY <1>1, <1>2, <1>3, <1>4, <1>5, <1>6, <1>7, <1>8 DEF Next, Firmware, COM

\* The control transfer.
LEMMA ControlStep == ControlTypes /\ [Next]_vars => ControlTypes'
<1> SUFFICES ASSUME ControlTypes, [Next]_vars PROVE ControlTypes'
    OBVIOUS
<1> USE DEF irq, device, ep0, comLocals, prevs, main, comFrame, hostFrame
<1>1. CASE GEN
  <2>1. com' = "none" /\ UNCHANGED <<USB_ControlRequest, left>>
      BY <1>1, GenLeavesCOM
  <2>2. /\ UNCHANGED setup \/ setup' = FALSE
        /\ UNCHANGED out \/ out' = FALSE
        /\ UNCHANGED in \/ in' = FALSE \/ in' = TRUE
      BY <1>1 DEF GEN, EnterGEN, GenStep, VbusTest, SuspendTest, WakeupTest, ResetTest, ClearCause,
               DisableCause, EnableCause, SetClock, StoreState, ReadNumber, StoreNumber,
               ClearEndpoints, ConfigureControl, testFrame
  <2> HIDE DEF None
  <2> QED
      BY <2>1, <2>2 DEF ControlTypes
<1>2. ASSUME NEW r \in Requests, ProcessControlRequest(r) PROVE ControlTypes'
  <2>1. r.value \in Nat
      BY UsbAssumption DEF UsbAssumption
  <2>2. CASE Handled(r)
    <3>1. /\ com' = FirstWait(r) /\ left' = IF r.kind = "GetDescriptor" THEN r.value ELSE 0
          /\ out' = out /\ setup' = FALSE /\ USB_ControlRequest' = r
        BY <1>2, <2>2 DEF ProcessControlRequest
    <3>2. left' \in Nat /\ (com' = "stream" => left' # 0)
        BY <2>1, <3>1 DEF FirstWait
    <3>3. com' \in {"stream", "statusOUT", "dataOUT", "statusIN"}
        BY <3>1 DEF FirstWait
    <3>4. in' \in BOOLEAN
        BY <1>2, <2>2 DEF ProcessControlRequest
    <3> HIDE DEF None
    <3> QED
        BY <3>1, <3>2, <3>3, <3>4 DEF ControlTypes
  <2>3. CASE ~Handled(r)
      BY <1>2, <2>3 DEF ProcessControlRequest, Finish, ControlTypes
  <2> QED
      BY <2>2, <2>3
<1>3. CASE StreamTurn
  <2>1. /\ com = "stream" /\ com' \in {"stream", "statusOUT", "leave"}
        /\ UNCHANGED USB_ControlRequest \/ USB_ControlRequest' = None
        /\ UNCHANGED setup
        /\ (out' = out \/ out' = FALSE) /\ (in' = in \/ in' = FALSE)
      BY <1>3 DEF StreamTurn, Finish, GoOn
  <2>2. \/ left' = left /\ com' # "stream"
        \/ left' = 0 /\ com' # "stream"
        \/ left' = left - 1 /\ (com' = "stream" => left # 1)
      BY <1>3 DEF StreamTurn, Finish, GoOn
  <2>3. left' \in Nat /\ (com' = "stream" => left' # 0)
    <3>1. left \in Nat /\ left # 0
        BY <2>1 DEF ControlTypes
    <3> QED
        BY <2>2, <3>1
  <2>4. USB_ControlRequest' \in Requests \cup {None}
      BY <2>1 DEF ControlTypes
  <2> HIDE DEF None
  <2> QED
      BY <2>1, <2>3, <2>4 DEF ControlTypes
<1>4. CASE EnterCOM \/ DeviceTask
    BY <1>4 DEF EnterCOM, DeviceTask, ControlTypes
<1>5. CASE StatusOUT \/ DataOUT \/ StatusIN \/ SetAddress
  <2>1. /\ UNCHANGED USB_ControlRequest \/ USB_ControlRequest' = None
        /\ UNCHANGED left \/ left' = 0
        /\ com' \in {"statusIN", "acked", "leave"} /\ UNCHANGED setup
        /\ UNCHANGED out \/ out' = FALSE
        /\ UNCHANGED in \/ in' = FALSE
      BY <1>5 DEF StatusOUT, DataOUT, StatusIN, SetAddress, Finish, GoOn
  <2> HIDE DEF None
  <2>2. USB_ControlRequest' \in Requests \cup {None} /\ left' \in Nat
      BY <2>1 DEF ControlTypes
  <2>3. setup' \in BOOLEAN /\ out' \in BOOLEAN /\ in' \in BOOLEAN
      BY <2>1 DEF ControlTypes
  <2> QED
      BY <2>1, <2>2, <2>3 DEF ControlTypes
<1>6. CASE LeaveTask \/ LeaveCOM
  <2> DEFINE unselected == UENUM # 0
  <2>1. /\ com' \in {"exit", "none"} /\ UNCHANGED <<left, out, in>>
        /\ UNCHANGED USB_ControlRequest
        /\ setup' = (setup /\ unselected) \/ setup' = (setup /\ ~ClearsSETUP)
      BY <1>6 DEF LeaveTask, LeaveCOM
  <2> HIDE DEF unselected
  <2>2. setup' \in BOOLEAN
      BY <2>1, Zenon
  <2> HIDE DEF None
  <2> QED
      BY <2>1, <2>2 DEF ControlTypes
<1>7. ASSUME NEW e \in MainEndpoints, Select(e) PROVE ControlTypes'
    BY <1>7 DEF Select, ControlTypes
<1>8. CASE Host
  <2>1. UNCHANGED <<USB_ControlRequest, left, com>>
      BY <1>8 DEF Host, VbusChanges, BusSuspend, BusActivity, BusReset, HostSetup, HostOut, HostIn
  <2>2. /\ setup' = setup \/ setup' = TRUE \/ setup' = FALSE
        /\ out' = out \/ out' = TRUE \/ out' = FALSE
      BY <1>8 DEF Host, VbusChanges, BusSuspend, BusActivity, BusReset, HostSetup, HostOut, HostIn
  <2>3. in' \in BOOLEAN
    <3>1. CASE BusReset
        BY <3>1 DEF BusReset
    <3>2. CASE ~BusReset
        BY <1>8, <3>2 DEF Host, VbusChanges, BusSuspend, BusActivity, HostSetup, HostOut, HostIn,
                          ControlTypes
    <3> QED
        BY <3>1, <3>2
  <2> HIDE DEF None
  <2> QED
      BY <2>1, <2>2, <2>3 DEF ControlTypes
<1>9. CASE UNCHANGED vars
    BY <1>9 DEF vars, ControlTypes
<1> QED
    BY <1>1, <1>2, <1>3, <1>4, <1>5, <1>6, <1>7, <1>8, <1>9 DEF Next, Firmware, COM

\* The selection and its copies.
LEMMA EndpointStep == SelectionTypes /\ [Next]_vars => SelectionTypes'
<1> SUFFICES ASSUME SelectionTypes, [Next]_vars PROVE SelectionTypes'
    OBVIOUS
<1> USE DEF irq, device, ep0, comLocals, prevs, main, comFrame, hostFrame, Selections, SelectionTypes
<1>1. CASE GEN
  <2>1. /\ UNCHANGED <<prevISR, prevTask>>
        /\ \/ UNCHANGED <<UENUM, selected>>
           \/ UENUM' = LastEndpoint /\ selected' = LastEndpoint
           \/ UENUM' = 0 /\ selected' = 0
      BY <1>1 DEF GEN, EnterGEN, GenStep, VbusTest, SuspendTest, WakeupTest, ResetTest, ClearCause,
               DisableCause, EnableCause, SetClock, StoreState, ReadNumber, StoreNumber,
               ClearEndpoints, ConfigureControl, genFrame, testFrame
  <2> QED
      BY <2>1
<1>2. CASE COM
    BY <1>2 DEF COM, EnterCOM, CurrentEndpoint, DeviceTask, ProcessControlRequest, StreamTurn,
                StatusOUT, DataOUT, StatusIN, Configure, Bulk, SetAddress, LeaveTask, LeaveCOM
<1>3. ASSUME NEW e \in MainEndpoints, Select(e) PROVE SelectionTypes'
    BY <1>3, UsbAssumption DEF Select, UsbAssumption
<1>4. CASE Host
    BY <1>4 DEF Host, VbusChanges, BusSuspend, BusActivity, BusReset, HostSetup, HostOut, HostIn
<1>5. CASE UNCHANGED vars
    BY <1>5 DEF vars
<1> QED
    BY <1>1, <1>2, <1>3, <1>4, <1>5 DEF Next, Firmware

\* Whatever the host asks and however the interrupts nest, states, endpoints and requests are
\* ones there are, and no packet is sent of a descriptor that has ended.
THEOREM TypeCorrect == Spec => []TypeOK
<1>1. Init => BusTypes /\ StateTypes /\ ControlTypes /\ SelectionTypes
  <2>1. Init => BusTypes
      BY DEF Init, BusTypes, Flags, Causes
  <2>2. Init => StateTypes
      BY DEF Init, StateTypes, States
  <2>3. Init => ControlTypes
    <3> SUFFICES ASSUME Init PROVE ControlTypes
        OBVIOUS
    <3>1. /\ USB_ControlRequest = None /\ setup = FALSE /\ out = FALSE /\ in = FALSE
          /\ left = 0 /\ com = "none"
        BY DEF Init
    <3> HIDE DEF None
    <3> QED
        BY <3>1 DEF ControlTypes
  <2>4. Init => SelectionTypes
      BY DEF Init, SelectionTypes, Selections
  <2> QED
      BY <2>1, <2>2, <2>3, <2>4
<1>2. BusTypes /\ StateTypes /\ ControlTypes /\ SelectionTypes /\ NestingTypes => TypeOK
  <2> SUFFICES ASSUME BusTypes, StateTypes, ControlTypes, SelectionTypes, NestingTypes
               PROVE  TypeOK
      OBVIOUS
  <2>1. /\ vbus \in BOOLEAN /\ frozen \in BOOLEAN /\ I \in BOOLEAN /\ crossed \in BOOLEAN
        /\ setup \in BOOLEAN /\ out \in BOOLEAN /\ in \in BOOLEAN
      BY DEF BusTypes, ControlTypes
  <2>2. flags \subseteq {"VBUS", "SUSPEND", "WAKEUP", "EORST"}
        /\ enabled \subseteq {"VBUS", "SUSPEND", "WAKEUP", "EORST"}
      BY DEF BusTypes, Flags, Causes
  <2>3. UENUM \in Selections /\ prevISR \in Selections /\ prevTask \in Selections
        /\ selected \in Selections
      BY DEF SelectionTypes
  <2>4. /\ USB_DeviceState \in {"Unattached", "Powered", "Default", "Addressed", "Configured", "Suspended"}
        /\ USB_ConfigurationNumber \in 0..1 /\ UDADDR \in Nat
        /\ endpoints \subseteq {0, 2} \cup Bulk
        /\ status \in {"none", "sent", "taken", "aborted"}
      BY DEF StateTypes, States
  <2>5. /\ USB_ControlRequest \in Requests \cup {None} /\ left \in Nat
        /\ com \in {"none", "task", "request", "stream", "statusOUT", "dataOUT", "statusIN",
                    "acked", "leave", "exit"}
      BY DEF ControlTypes
  <2>6. gen \in Seq([at : Places, loaded : SUBSET Causes])
      BY DEF NestingTypes, Frames
  <2> HIDE DEF None, Bulk
  <2> QED
      BY <2>1, <2>2, <2>3, <2>4, <2>5, <2>6 DEF TypeOK
<1> QED
    BY <1>1, <1>2, ShapeInit, BusStep, StateStep, ControlStep, EndpointStep, NestingStep, PTL DEF Spec

=============================================================================
