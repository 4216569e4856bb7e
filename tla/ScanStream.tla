----------------------------- MODULE ScanStream -----------------------------
(***************************************************************************)
(* What a measurement command (MD, MS, MR, ME, MI) promises the host.      *)
(*                                                                         *)
(* An accepted request asks for num scans (0: scan until told to stop),    *)
(* one every step + 1 scan windows.  The stream then delivers the scans    *)
(* one by one, each carrying the number of scans still owed when it was    *)
(* built, and ends by itself after the last one.  The host may stop the    *)
(* stream or replace the request at any moment.  Ymbumper implements this  *)
(* module.                                                                 *)
(***************************************************************************)
EXTENDS Integers

CONSTANTS Nums,        \* the scan counts a request may ask for
          Steps        \* the numbers of windows it may skip between scans

VARIABLES active,      \* a stream is being delivered
          num, step,   \* the request
          owed,        \* scans of a finite request not yet delivered
          gap,         \* windows to let pass before the next scan
          shown        \* the count carried by the last scan delivered

streamVars == <<active, num, step, owed, gap, shown>>

StreamInit ==
    /\ active = FALSE
    /\ num = 0 /\ step = 0 /\ owed = 0 /\ gap = 0 /\ shown = 0

\* A request is accepted; it replaces a stream in progress.
Accept(n, s) ==
    /\ active' = TRUE
    /\ num' = n /\ step' = s
    /\ owed' = n /\ gap' = 0
    /\ UNCHANGED shown

\* A window closes and carries a scan; a finite stream ends with its last.
Deliver ==
    /\ active /\ gap = 0
    /\ shown' = owed
    /\ owed' = IF num = 0 THEN 0 ELSE owed - 1
    /\ active' = (num = 0 \/ owed > 1)
    /\ gap' = step
    /\ UNCHANGED <<num, step>>

\* A window closes without a scan.
Skip ==
    /\ active /\ gap > 0
    /\ gap' = gap - 1
    /\ UNCHANGED <<active, num, step, owed, shown>>

\* The host stops the stream.
Stop ==
    /\ active' = FALSE
    /\ UNCHANGED <<num, step, owed, gap, shown>>

\* The device restarts and forgets the request.
Restart ==
    /\ active' = FALSE
    /\ num' = 0 /\ step' = 0 /\ owed' = 0 /\ gap' = 0
    /\ UNCHANGED shown

StreamNext ==
    \/ \E n \in Nums, s \in Steps : Accept(n, s)
    \/ Deliver
    \/ Skip
    \/ Stop
    \/ Restart

StreamSpec == StreamInit /\ [][StreamNext]_streamVars
=============================================================================
