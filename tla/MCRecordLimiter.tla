---------------------------- MODULE MCRecordLimiter ----------------------------
(***************************************************************************)
(* TLC instance of RecordLimiter: the requests are model values.           *)
(***************************************************************************)
EXTENDS RecordLimiter

CONSTANTS a1, b1, b2
===============================================================================
