------------------------------ MODULE MC_Cache -------------------------------
(* Small instances of Cache for TLC. *)
EXTENDS Cache

CONSTANTS p1, p2

MC_Projects == {p1, p2}

=============================================================================
