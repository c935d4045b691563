------------------------------ MODULE MCFlvMuxer ------------------------------
(***************************************************************************)
(* A TLC instance of FlvMuxer.                                             *)
(***************************************************************************)
EXTENDS FlvMuxer

\* Both tracks have a frame whose time does not fit into 24 bits of milliseconds.
Instants == [audio |-> {16777300}, video |-> {5, 16777300}]
===============================================================================
