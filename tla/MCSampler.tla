----------------------------- MODULE MCSampler -----------------------------
(* Inputs for model checking Sampler: one sensor whose input moves, and one *)
(* that rests, so that the other channels are told apart.                   *)
EXTENDS Sampler

MovingAndResting == [c \in Channels |-> IF c = 0 THEN {1, 2, 4} ELSE {1}]
=============================================================================
