-------------------------------- MODULE MCJdi --------------------------------
(***************************************************************************)
(* JdiSession for TLC: MCJdi_<run>.cfg gives the constants of each run.    *)
(***************************************************************************)
EXTENDS JdiProperties

\* The threads of the debuggee are interchangeable (safety runs only).
Symmetry == Permutations(Threads)
=============================================================================
