------------------------------- MODULE MCUsb -------------------------------
(* UsbDevice for TLC: one request of each kind that takes a path of its own. *)
EXTENDS UsbDevice

MCRequests == {[kind |-> "SetAddress", value |-> 1],
               [kind |-> "SetConfiguration", value |-> 1],
               [kind |-> "GetDescriptor", value |-> 1],
               [kind |-> "SetLineEncoding", value |-> 0],
               [kind |-> "SetConfiguration", value |-> 2]}

\* Bound: once a body of GEN has been disturbed, no interrupt begins between the stores of
\* another before a reset sets everything anew.
DisturbedOnce == crossed /\ Disturbed => Len(gen') <= Len(gen) /\ (com = "none" => com' = "none")

=============================================================================
