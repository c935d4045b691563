------------------------------ MODULE MCMediaRing ------------------------------
(***************************************************************************)
(* TLC instances of MediaRing: the subscription modes of the readers.      *)
(***************************************************************************)
EXTENDS MediaRing, TLC

CONSTANTS r1, r2

RecordOnly == {[r \in Readers |-> "RECORD"]}
AllModes == {r1 :> "REAL" @@ r2 :> "RECORD", r1 :> "BUFFER" @@ r2 :> "WAITKEY"}
===============================================================================
