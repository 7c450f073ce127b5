----------------------------- MODULE MCVMPool -----------------------------
(***************************************************************************)
(* VMPool with an agent pool of two SKUs.  The VMs of b stay outside the   *)
(* shorter instance: its count can be asked for, and is never reached.     *)
(***************************************************************************)
EXTENDS VMPool

MCVM == {"a1"}
MCVM3 == {"a1", "a2", "b1"}
MCSkuOf == [v \in VM |-> IF v = "b1" THEN "b" ELSE "a"]

=============================================================================
