----------------------------- MODULE MCConsole -----------------------------
(* The two ends of the command line: the settings that commands change, in *)
(* some behaviours, and the encoding of what answers hold, in the others.  *)
EXTENDS Settings

CONSTANTS Inputs, BlockLen

VARIABLES part, input, data, encorded, buf, sent, done, taken, rest, partial, digit, read

\* Words have one to four characters, and a block has room for one.
ASSUME AnswerAssumption ==
    /\ BlockLen \in Nat \ {0}
    /\ \A words \in Inputs : words \in Seq([value : Nat, enc : 1..4])

Answer == INSTANCE ScipData

answer == <<input, data, encorded, buf, sent, done, taken, rest, partial, digit, read>>

ConsoleInit ==
    /\ part \in {"settings", "answer"}
    /\ Init /\ Answer!Init
    /\ part = "settings" => input = <<>>
    /\ part = "answer" => read_buffer = [k \in 0..Capacity |-> 0]

ConsoleNext ==
    \/ part = "settings" /\ Next /\ UNCHANGED <<part, answer>>
    \/ part = "answer" /\ Answer!Next /\ UNCHANGED <<part, vars>>

ConsoleSpec == ConsoleInit /\ [][ConsoleNext]_<<part, vars, answer>>

-----------------------------------------------------------------------------
\* No line of the data of an answer is blank, and all but the last are full.
BlocksWhole == Answer!BlocksWhole
\* A host reads every word as it was, or as the largest number of its width.
RoundTrip == Answer!RoundTrip

-----------------------------------------------------------------------------
(* Lines of every form and a serial number of four bytes; up to three      *)
(* words around the limits of each width, in blocks of five characters, so *)
(* that words are split everywhere.                                        *)

D(n) == n + 48
MCLines == {<<>>, <<STH>>, <<STH, D(3), D(0), D(0)>>,
            <<SDI, D(0), D(3), D(0), D(0), D(0)>>, <<SDI, D(7)>>,
            <<SRE, D(4)>>, <<SFR, D(2)>>, <<SFR, D(2), D(0), D(0)>>,
            <<SSN, Quote, 97, 98, Quote>>, <<SSN, Quote, 99, 99, 99, 99, 99>>,
            <<SSN, Quote, 98>>, <<SSN, 97>>}
MCFactory == [thresh |-> 12, dist |-> 10, res |-> 255, frt |-> 255]

Words == [value : {0, 4095, 4096}, enc : {2}]
         \cup [value : {1, 70000, 262143, 262144}, enc : {3}]
         \cup [value : {16777215, 16777216}, enc : {4}]
MCInputs == UNION {[1..n -> Words] : n \in 0..3}
=============================================================================
