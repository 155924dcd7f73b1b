---------------------------- MODULE MCHalWrapper ----------------------------
(* HalWrapper over a HAL that has two handles for each port. *)
EXTENDS HalWrapper

OwnHandles == [p \in Ports |-> {"h", "i"} \X {p}]
=============================================================================
