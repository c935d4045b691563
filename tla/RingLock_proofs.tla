----------------------------- MODULE RingLock_proofs -----------------------------
(***************************************************************************)
(* The lock protocol of the media ring is safe for any number of slots and *)
(* readers: proofs of the invariants of RingLock by the inductive          *)
(* invariant LockInv.                                                      *)
(***************************************************************************)
EXTENDS RingLock, TLAPS

(* The inductive invariant holds initially: NewRingWriter holds exactly its slot. *)
LEMMA LockInvInit == Init => LockInv
<1> SUFFICES ASSUME Init PROVE LockInv
  OBVIOUS
<1>1. TypeOK
  <2>1. rlocked \in [Slots -> SUBSET Readers] BY DEF Init
  <2>2. stopped \in BOOLEAN /\ fatal \in BOOLEAN BY DEF Init
  <2>3. /\ cur \in Slots /\ completed \in Slots /\ wlocked \subseteq Slots
        /\ status \in Int /\ writer \in WriterPC /\ disposer \in DisposerPC
    BY DEF Init, WriterPC, DisposerPC
  <2> QED BY <2>1, <2>2, <2>3 DEF TypeOK
<1> QED BY <1>1 DEF Init, LockInv, StepUnderWay, BetweenSteps, CompletedApart, Alive

(***************************************************************************)
(* Every step of the writer (the phases of RingWriter.Step and the call    *)
(* around it) keeps the inductive invariant.                               *)
(***************************************************************************)
LEMMA WriterKeepsLockInv == LockInv /\ WriterStep => LockInv'
<1> SUFFICES ASSUME LockInv, WriterStep PROVE LockInv'
  OBVIOUS
<1> USE DEF LockInv, TypeOK, StepUnderWay, BetweenSteps, CompletedApart, Alive,
            WriterPC, DisposerPC
<1>1. CASE Fill BY <1>1 DEF Fill
<1>2. CASE Enter BY <1>2 DEF Enter
<1>3. ASSUME NEW s \in Slots, Claim(s) PROVE LockInv'
  BY <1>3 DEF Claim
<1>4. CASE Exit BY <1>4 DEF Exit
<1>5. CASE ReleaseCompleted BY <1>5 DEF ReleaseCompleted, Unlock
<1>6. CASE UnlockBoth BY <1>6 DEF UnlockBoth, Unlock
<1>7. CASE UnlockValue BY <1>7 DEF UnlockValue, Unlock
<1> QED BY <1>1, <1>2, <1>3, <1>4, <1>5, <1>6, <1>7 DEF WriterStep

(* Stop and the two halves of Dispose keep the inductive invariant. *)
LEMMA DisposerKeepsLockInv ==
    LockInv /\ (Stop \/ Dispose \/ DisposeUnlock) => LockInv'
<1> SUFFICES ASSUME LockInv, Stop \/ Dispose \/ DisposeUnlock PROVE LockInv'
  OBVIOUS
<1> USE DEF LockInv, TypeOK, StepUnderWay, BetweenSteps, CompletedApart, Alive,
            WriterPC, DisposerPC
<1>1. CASE Stop BY <1>1 DEF Stop
<1>2. CASE Dispose BY <1>2 DEF Dispose
<1>3. CASE DisposeUnlock BY <1>3 DEF DisposeUnlock, Unlock
<1> QED BY <1>1, <1>2, <1>3

(* Readers take and leave read locks only. *)
LEMMA ReaderKeepsLockInv ==
    ASSUME NEW r \in Readers, NEW s \in Slots, LockInv, RLock(r, s) \/ RUnlock(r, s)
    PROVE  LockInv'
BY DEF LockInv, TypeOK, StepUnderWay, BetweenSteps, CompletedApart, Alive,
       WriterPC, DisposerPC, RLock, RUnlock

LEMMA StutterKeepsLockInv == LockInv /\ UNCHANGED vars => LockInv'
BY DEF LockInv, TypeOK, StepUnderWay, BetweenSteps, CompletedApart, Alive, vars

(* LockInv is an invariant of the protocol. *)
THEOREM LockInvariant == Spec => []LockInv
<1>1. LockInv /\ [Next]_vars => LockInv'
  BY WriterKeepsLockInv, DisposerKeepsLockInv, ReaderKeepsLockInv, StutterKeepsLockInv
     DEF Next
<1> QED BY <1>1, LockInvInit, PTL DEF Spec

(* Type correctness of the lock protocol (ring-writer.go:207-351). *)
THEOREM TypeCorrect == Spec => []TypeOK
<1>1. LockInv => TypeOK BY DEF LockInv
<1> QED BY <1>1, LockInvariant, PTL

(***************************************************************************)
(* No Unlock of an unlocked RWMutex in any interleaving of Step with       *)
(* Dispose (ring-writer.go:328-348 and 160-162).                           *)
(***************************************************************************)
THEOREM LocksReleasedOnce == Spec => []NoDoubleUnlock
<1>1. LockInv => NoDoubleUnlock BY DEF LockInv, NoDoubleUnlock
<1> QED BY <1>1, LockInvariant, PTL

(***************************************************************************)
(* After the writer has left and Dispose is through, no slot stays         *)
(* write-locked, so no reader is blocked for ever (ring-writer.go:337-342). *)
(***************************************************************************)
THEOREM NoLockLeftBehind == Spec => []NoOrphanLock
<1>1. LockInv => NoOrphanLock BY DEF LockInv, NoOrphanLock, BetweenSteps
<1> QED BY <1>1, LockInvariant, PTL

(***************************************************************************)
(* As long as the publisher lives, the slot it writes is write-locked and  *)
(* at most the slot it is publishing is locked besides.                    *)
(***************************************************************************)
THEOREM WritesUnderLock == Spec => []WriterHoldsCur
<1>1. LockInv => WriterHoldsCur
  BY DEF LockInv, WriterHoldsCur, StepUnderWay, BetweenSteps, TypeOK, WriterPC,
         DisposerPC, Alive
<1> QED BY <1>1, LockInvariant, PTL
===============================================================================
