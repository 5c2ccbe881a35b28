----------------------------- MODULE MC_Config ------------------------------
(* Small instances of Config for TLC. *)
EXTENDS Config, TLC

CONSTANTS s1, s2, s3

MC_Services == {s1, s2, s3}

\* The services are interchangeable: no property names one of them.
MC_Symmetry == Permutations(MC_Services)

=============================================================================
