--------------------------- MODULE MCBatchV2Client ---------------------------
(***************************************************************************)
(* TLC instances of BatchV2Client: the streams are model values.           *)
(***************************************************************************)
EXTENDS BatchV2Client

CONSTANTS a, b
===============================================================================
