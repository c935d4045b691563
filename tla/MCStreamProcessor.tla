-------------------------- MODULE MCStreamProcessor --------------------------
(***************************************************************************)
(* A TLC instance of StreamProcessor.                                      *)
(***************************************************************************)
EXTENDS StreamProcessor

\* Video begins at the instant 0, which the code takes for an unset offset; both
\* tracks have a frame at the instant 3.
Instants == [audio |-> {1, 3}, video |-> {0, 2, 3}]
===============================================================================
