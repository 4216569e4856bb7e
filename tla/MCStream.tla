------------------------------ MODULE MCStream ------------------------------
(* Sessions for model checking Stream: each direction long enough to fill    *)
(* both banks and the one after them, and the other beside it; and a short  *)
(* one of each with an endpoint halted and cleared in the middle of it.     *)
EXTENDS Stream

Session(o, i, b, h) == [out |-> o, in |-> i, blocking |-> b, halts |-> h]

BothDirections == {Session(0, 6, {}, 0), Session(2, 1, BOOLEAN, 0),
                   Session(0, 3, {}, 2), Session(2, 0, {FALSE}, 2)}
Reading == {Session(3, 0, {FALSE}, 0)}
Sending == {Session(0, 6, {}, 0)}
=============================================================================
