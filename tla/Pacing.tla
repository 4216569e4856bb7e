------------------------------- MODULE Pacing -------------------------------
(***************************************************************************)
(* When scan windows close.  Ymbumper with two history variables that      *)
(* observe it: the timer interrupts and the passes of the main loop since  *)
(* MsCnt was last cleared.                                                 *)
(*                                                                         *)
(* MsCnt is a uint8_t.  A pass of the loop may wait for the host as long   *)
(* as a timeout lasts, so that any number of interrupts may fall into one  *)
(* pass and MsCnt may begin again from zero with the window still open.    *)
(***************************************************************************)
EXTENDS Ymbumper

VARIABLES ticks,   \* timer interrupts since the last window, at most MsPeriod
          passes   \* MD passes since then, or since MsCnt last wrapped, that
                   \* found the window still open

pacingVars == <<vars, ticks, passes>>

Closed == {"sent", "skipped"}   \* a window has just closed

\* MsCnt begins again from zero, by the interrupt or by the loop.
Wraps ==
    \/ TimerInterrupt /\ MsCnt = MsMod - 1
    \/ StoreMsCnt /\ reg = MsMod - 1

PacingInit == Init /\ ticks = MsPeriod /\ passes = 0

PacingNext ==
    /\ Next
    /\ ticks' = CASE pc \in Closed /\ pc' = "load" -> 0
                  [] passTicks' > passTicks /\ ticks < MsPeriod -> ticks + 1
                  [] OTHER -> ticks
    /\ passes' = CASE pc = "stream" /\ pc' = "load" -> passes + 1
                   [] pc' \in Closed \/ Mode' # "MD" \/ Wraps -> 0
                   [] OTHER -> passes

PacingSpec == PacingInit /\ [][PacingNext]_pacingVars

\* The loop never stops taking steps; neither the host nor the timer is fair.
FairPacingSpec == PacingSpec /\ WF_vars(LoopStep)

\* A window closes after at most MsPeriod passes from its beginning, or from
\* the moment MsCnt wrapped: the interrupt, or its increment between the loop's
\* load and store of MsCnt, may be lost, but the loop adds one in every pass.
WindowNotLate == passes <= MsPeriod

\* "SCAN:6000", scans per minute, in the answer to PP: a window lasts MsPeriod
\* timer interrupts of one millisecond.
WindowNotEarly == [][pc = "stream" /\ pc' \in Closed => ticks >= MsPeriod]_pacingVars

\* While MD mode lasts scans keep coming, whatever the host sends and however
\* the timer interrupts, unless MsCnt wraps again and again.
KeepsSending ==
    <>[][~Wraps]_pacingVars => []<>(Mode # "MD" \/ pc = "sent")

\* A finite stream that has begun does not go on for ever: it ends, is
\* stopped, or a new request starts over with iMDNum = 0.
FiniteEnds ==
    <>[][~Wraps]_pacingVars => []<>(Mode # "MD" \/ MDNum = 0 \/ iMDNum = 0)
=============================================================================
