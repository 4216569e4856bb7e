------------------------------ MODULE MCPacing ------------------------------
(***************************************************************************)
(* Requests for model checking the main loop: every handler, every letter, *)
(* the boundaries of the range test, and arguments a truncated line leaves *)
(* uninitialised (beyond 16 bits, so that they wrap).                      *)
(***************************************************************************)
EXTENDS Pacing

Line(name, letter, arg) == [name |-> name, letter |-> letter, arg |-> arg]
Short(name, a) == Line(name, "none", <<a, 0, 0, 0, 0>>)

Measures ==
    { Line("M", "D", <<0, amax, 1, 0, 2>>),             \* two scans of everything
      Line("M", "S", <<1, 2, 0, 1, 0>>),                \* endless, every second window
      Line("M", "R", <<amax, amax, Word + 2, Word + 1, Word + 1>>),
      Line("M", "E", <<0, amax + 4, 1, 0, 1>>),         \* beyond the last sensor
      Line("M", "I", <<2, 1, 1, 0, 1>>),                \* an empty range
      Line("M", "I", <<Word, 1, 1, 0, 1>>) }

Gets ==
    { Line("G", "D", <<0, amax, 0, 0, 0>>),
      Line("G", "S", <<0, amax, 1, 0, 0>>),
      Line("G", "R", <<1, amax, 2, 0, 0>>),
      Line("G", "E", <<2, 1, 1, 0, 0>>),
      Line("G", "I", <<0, amax + 1, 1, 0, 0>>),
      Line("G", "I", <<1, 1, 0, 0, 0>>) }

Controls ==
    { Short("QT", 0), Short("TM", 0), Short("TM", 1), Short("TM", 2), Short("TM", 3),
      Short("$RW", 0), Short("$RW", 1), Short("$RW", 2), Short("Unknown", 0),
      Short("Status", 0), Short("SS", 0), Short("Unimplemented", 0), Short("Set", 0),
      Line("R", "S", <<0, 0, 0, 0, 0>>), Line("R", "B", <<0, 0, 0, 0, 0>>) }

AllRequests == Measures \cup Gets \cup Controls

\* The requests that start, stop and restart a measurement.
PacedRequests == {Line("M", "D", <<0, amax, 1, 0, 0>>), Line("M", "S", <<0, 0, 1, 1, 0>>),
                  Short("QT", 0)}
=============================================================================
