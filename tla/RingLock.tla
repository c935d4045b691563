-------------------------------- MODULE RingLock --------------------------------
(***************************************************************************)
(* The locking protocol of the media ring (pkg/ring-writer.go): which slot *)
(* the writer holds, how Step moves that hold to the next slot, and how    *)
(* RingWriter.status arbitrates a Step with a Dispose from another         *)
(* goroutine.  It abstracts from the order of the slots, their frames and  *)
(* the growth of the ring: Step may claim any slot that is free.  MediaRing *)
(* is the detailed specification and implements this one.                  *)
(*                                                                         *)
(* A ring is disposed once: AVTracks.Dispose clears the track under its    *)
(* mutex, and takeOver, PreDispose and Dispose all go through it, after    *)
(* the publisher's context has been cancelled.                             *)
(***************************************************************************)
EXTENDS Integers, FiniteSets

CONSTANTS
    Slots,      \* ring nodes (util.Ring[AVFrame])
    Readers     \* ring readers

ASSUME SomeSlot == Slots # {}

VARIABLES
    cur,        \* rb.Ring, the slot being written
    completed,  \* the local variable of Step: the slot that Step publishes
    wlocked,    \* the slots whose RWMutex is write-locked
    rlocked,    \* per slot, the readers that called RLock (waiting or holding)
    status,     \* RingWriter.status
    writer,     \* where the writing goroutine is
    disposer,   \* where the disposing goroutine is
    stopped,    \* the publisher's context is cancelled (p.Err() # nil)
    fatal       \* an Unlock of an unlocked RWMutex: the Go runtime aborts

vars == <<cur, completed, wlocked, rlocked, status, writer, disposer, stopped, fatal>>

WriterPC == {"fill", "step", "claim", "exit", "ready", "unlockBoth", "unlockValue",
             "unlockOne", "gone"}
DisposerPC == {"idle", "unlock", "done"}

Init ==
    /\ cur \in Slots                \* NewRingWriter write-locks the first slot
    /\ completed = cur
    /\ wlocked = {cur}
    /\ rlocked = [s \in Slots |-> {}]
    /\ status = 0
    /\ writer = "fill"
    /\ disposer = "idle"
    /\ stopped = FALSE
    /\ fatal = FALSE

(* sync.RWMutex.Unlock. *)
Unlock(s) ==
    /\ wlocked' = wlocked \ {s}
    /\ fatal' = (fatal \/ s \notin wlocked)

(* nextVideo, nextAudio: a filled frame goes to Step unless the publisher has stopped. *)
Fill ==
    /\ writer = "fill"
    /\ writer' = IF stopped THEN "gone" ELSE "step"
    /\ UNCHANGED <<cur, completed, wlocked, rlocked, status, disposer, stopped, fatal>>

(* Step enters with status.Add(1) == 1; otherwise it returns without normal. *)
Enter ==
    /\ writer = "step"
    /\ status' = status + 1
    /\ writer' = IF status + 1 = 1 THEN "claim" ELSE "gone"
    /\ UNCHANGED <<cur, completed, wlocked, rlocked, disposer, stopped, fatal>>

(* StartWrite of the next slot: TryLock, so no reader and no writer is on it. *)
Claim(s) ==
    /\ writer = "claim"
    /\ s \notin wlocked /\ rlocked[s] = {}
    /\ wlocked' = wlocked \cup {s}
    /\ completed' = cur
    /\ cur' = s
    /\ writer' = "exit"
    /\ UNCHANGED <<rlocked, status, disposer, stopped, fatal>>

(* Mutant of Exit: a Dispose that came in between goes unnoticed. *)
ExitUnaware ==
    /\ writer = "exit"
    /\ status' = status - 1
    /\ writer' = "ready"
    /\ UNCHANGED <<cur, completed, wlocked, rlocked, disposer, stopped, fatal>>

(* status.Add(-1) at the end of Step tells whether a Dispose came in between. *)
Exit ==
    /\ writer = "exit"
    /\ status' = status - 1
    /\ writer' = CASE status - 1 = 0  -> "ready"
                   [] status - 1 = -1 -> "unlockBoth"
                   [] OTHER           -> "unlockOne"
    /\ UNCHANGED <<cur, completed, wlocked, rlocked, disposer, stopped, fatal>>

(* Mutant of ReleaseCompleted: the slot being written is unlocked, not the completed one. *)
ReleaseCurrent ==
    /\ writer \in {"ready", "unlockOne"}
    /\ Unlock(cur)
    /\ writer' = "fill"
    /\ UNCHANGED <<cur, completed, rlocked, status, disposer, stopped>>

(* completed.Ready(); the default branch (a second Dispose) only unlocks as well. *)
ReleaseCompleted ==
    /\ writer \in {"ready", "unlockOne"}
    /\ Unlock(completed)
    /\ writer' = "fill"
    /\ UNCHANGED <<cur, completed, rlocked, status, disposer, stopped>>

(* Mutant of UnlockBoth: the newly claimed slot stays locked. *)
UnlockCompletedOnly ==
    /\ writer = "unlockBoth"
    /\ Unlock(completed)
    /\ writer' = "fill"
    /\ UNCHANGED <<cur, completed, rlocked, status, disposer, stopped>>

(* The Step that a Dispose raced releases both of its slots. *)
UnlockBoth ==
    /\ writer = "unlockBoth"
    /\ Unlock(completed)
    /\ writer' = "unlockValue"
    /\ UNCHANGED <<cur, completed, rlocked, status, disposer, stopped>>

UnlockValue ==
    /\ writer = "unlockValue"
    /\ Unlock(cur)
    /\ writer' = "fill"
    /\ UNCHANGED <<cur, completed, rlocked, status, disposer, stopped>>

(* The publisher stops: its context is cancelled before its tracks are disposed. *)
Stop ==
    /\ ~stopped
    /\ stopped' = TRUE
    /\ UNCHANGED <<cur, completed, wlocked, rlocked, status, writer, disposer, fatal>>

(* Mutant of Dispose: it unlocks whatever status.Add returns. *)
DisposeAlwaysUnlocks ==
    /\ stopped /\ disposer = "idle"
    /\ status' = status - 1
    /\ disposer' = "unlock"
    /\ UNCHANGED <<cur, completed, wlocked, rlocked, writer, stopped, fatal>>

(* RingWriter.Dispose: status.Add(-1) == -1 means that no Step is under way. *)
Dispose ==
    /\ stopped /\ disposer = "idle"
    /\ status' = status - 1
    /\ disposer' = IF status - 1 = -1 THEN "unlock" ELSE "done"
    /\ UNCHANGED <<cur, completed, wlocked, rlocked, writer, stopped, fatal>>

DisposeUnlock ==
    /\ disposer = "unlock"
    /\ Unlock(cur)
    /\ disposer' = "done"
    /\ UNCHANGED <<cur, completed, rlocked, status, writer, stopped>>

(* RingReader.StartRead calls RLock, which blocks while the slot is write-locked. *)
RLock(r, s) ==
    /\ r \notin rlocked[s]
    /\ rlocked' = [rlocked EXCEPT ![s] = @ \cup {r}]
    /\ UNCHANGED <<cur, completed, wlocked, status, writer, disposer, stopped, fatal>>

(* RingReader.StopRead: only a reader whose RLock has returned gets here. *)
RUnlock(r, s) ==
    /\ r \in rlocked[s] /\ s \notin wlocked
    /\ rlocked' = [rlocked EXCEPT ![s] = @ \ {r}]
    /\ UNCHANGED <<cur, completed, wlocked, status, writer, disposer, stopped, fatal>>

WriterStep ==
    \/ Fill \/ Enter \/ Exit \/ ReleaseCompleted \/ UnlockBoth \/ UnlockValue
    \/ \E s \in Slots : Claim(s)

Next ==
    \/ WriterStep
    \/ Stop \/ Dispose \/ DisposeUnlock
    \/ \E r \in Readers, s \in Slots : RLock(r, s) \/ RUnlock(r, s)

Spec == Init /\ [][Next]_vars

-------------------------------------------------------------------------------
(* Every variable keeps its type (RingWriter, RWMutex). *)
TypeOK ==
    /\ cur \in Slots
    /\ completed \in Slots
    /\ wlocked \subseteq Slots
    /\ rlocked \in [Slots -> SUBSET Readers]
    /\ status \in Int
    /\ writer \in WriterPC
    /\ disposer \in DisposerPC
    /\ stopped \in BOOLEAN
    /\ fatal \in BOOLEAN

(***************************************************************************)
(* No Unlock of an unlocked RWMutex, whatever the order of Step and        *)
(* Dispose: the three outcomes of status.Add(-1) at the end of Step        *)
(* release every lock exactly once.                                        *)
(***************************************************************************)
NoDoubleUnlock == ~fatal

(***************************************************************************)
(* Nobody stays blocked behind a dead writer: when the writing goroutine   *)
(* has left and the Dispose is through, no slot is write-locked, so every  *)
(* RLock returns ("readers blocked on RLock(Value) deadlock forever" is    *)
(* what ring-writer.go:340 wants to exclude).                              *)
(***************************************************************************)
NoOrphanLock ==
    writer = "gone" /\ disposer = "done" => wlocked = {}

(***************************************************************************)
(* While the publisher is alive the slot being written is locked and only  *)
(* it (and, inside Step, the slot being published), so no reader can look  *)
(* at a half-written frame and every published frame is readable.          *)
(***************************************************************************)
WriterHoldsCur ==
    ~stopped => cur \in wlocked /\ wlocked \subseteq {cur, completed}

(***************************************************************************)
(* The inductive invariant: for every combination of what the writer and   *)
(* the disposer have done, the value of status and the slots that are      *)
(* write-locked.  A Dispose is "raced" when it found a Step under way and  *)
(* left the locks to it.                                                   *)
(***************************************************************************)
Alive == disposer = "idle"

StepUnderWay ==
    /\ writer \in {"claim", "exit"} =>
          /\ status = IF Alive THEN 1 ELSE 0
          /\ disposer \in {"idle", "done"}
          /\ wlocked = IF writer = "claim" THEN {cur} ELSE {cur, completed}
    /\ writer = "ready" =>
          /\ status = IF Alive THEN 0 ELSE -1
          /\ wlocked = IF disposer = "done" THEN {completed} ELSE {cur, completed}
    /\ writer = "unlockBoth" => disposer = "done" /\ status = -1 /\ wlocked = {cur, completed}
    /\ writer = "unlockValue" => disposer = "done" /\ status = -1 /\ wlocked = {cur}
    /\ writer # "unlockOne"

BetweenSteps ==
    /\ writer \in {"fill", "step"} =>
          /\ status = IF Alive THEN 0 ELSE -1
          /\ wlocked = IF disposer = "done" THEN {} ELSE {cur}
    /\ writer = "gone" =>
          /\ wlocked = IF disposer = "done" THEN {} ELSE {cur}
          /\ Alive => status = 0

CompletedApart ==
    writer \in {"exit", "ready", "unlockBoth"} => completed # cur

LockInv ==
    /\ TypeOK
    /\ StepUnderWay
    /\ BetweenSteps
    /\ CompletedApart
    /\ ~Alive => stopped
    /\ writer = "gone" => stopped
    /\ ~fatal
===============================================================================
