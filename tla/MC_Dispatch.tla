---------------------------- MODULE MC_Dispatch ----------------------------
(* Small instances of Dispatch for TLC, with the inductive invariant. *)
EXTENDS DispatchInv

CONSTANTS p, s, a, r1

MC_Requests == {r1}

=============================================================================
