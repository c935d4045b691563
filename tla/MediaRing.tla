-------------------------------- MODULE MediaRing --------------------------------
(***************************************************************************)
(* The ring buffer that carries one track from a publisher to its          *)
(* subscribers: RingWriter.Step and Dispose (pkg/ring-writer.go), the      *)
(* slots' DataFrame (pkg/avframe.go) and the readers (pkg/ring-reader.go,  *)
(* pkg/av_reader.go).                                                      *)
(*                                                                         *)
(* The writing goroutine, the goroutine that disposes the track and each   *)
(* reader are separate processes.  They share the slots, their RWMutex,    *)
(* the discard flag, LastValue, the IDR list and the links of the ring.    *)
(* Frames are one tick apart, so that a frame's timestamp is its sequence  *)
(* number; a recycled frame has timestamp 0.                               *)
(***************************************************************************)
EXTENDS Integers, Sequences, FiniteSets, FiniteSetsExt, Functions

CONSTANTS
    Slots,          \* ring nodes
    Readers,        \* subscribers' readers of this track
    Modes,          \* what Subscribe.SubMode may be, reader by reader
    MinSize,        \* SizeRange[0]
    MaxSize,        \* SizeRange[1]
    Chunk,          \* by how much the ring grows and shrinks (5 in the code)
    ReduceVol,      \* quiet steps before the ring shrinks (50 in the code)
    BufferTime,     \* BufferRange[0], in frames
    SeqMod,         \* the modulus of the sequence numbers (2^32 in the code)
    MaxSeq,         \* bound on the frames written
    None,           \* no slot: the nil pointer
    KeySeqs         \* the frames among them that may be key frames

ASSUME MinSizeOK ==
    MinSize \in Nat \ (0 .. 2) /\ IsFiniteSet(Slots) /\ Cardinality(Slots) > MinSize
ASSUME BoundsGiven ==
    /\ Chunk \in Nat \ {0} /\ ReduceVol \in Nat /\ MaxSize \in Nat
    /\ BufferTime \in Nat /\ SeqMod \in Nat \ {0} /\ MaxSeq \in Nat
ASSUME NoneIsNoSlot == None \notin Slots
ASSUME ModesGiven == Modes \subseteq [Readers -> {"REAL", "RECORD", "BUFFER", "WAITKEY"}]

VARIABLES
    ring,           \* the slots from rb.Ring (the one being written) onwards
    pool,           \* rb.pool
    frame,          \* per slot: Sequence, Timestamp, IDR, payload present, Ready
    discard,        \* per slot: DataFrame.discard
    wlocked,        \* the write-locked slots
    rlocked,        \* per slot, the readers that called RLock
    idrs,           \* IDRingList
    lastValue,      \* rb.LastValue
    reduceVol,      \* rb.reduceVol
    buffered,       \* rb.BufferRange[1]
    status,         \* rb.status
    writer,         \* where the writing goroutine is
    completed,      \* the local variable of Step
    disposer,       \* where the disposing goroutine is
    stopped,        \* p.Err() # nil
    panicked,       \* panic("RingWriter.Step")
    fatal,          \* an Unlock of an unlocked RWMutex: the Go runtime aborts
    reader          \* per reader: its place in the code, its SubMode and its AVRingReader

slotVars == <<frame, discard>>
lockVars == <<wlocked, rlocked>>
listVars == <<ring, pool, idrs, reduceVol, buffered>>
writerVars == <<status, writer, completed, lastValue>>
disposerVars == <<disposer, stopped>>
vars == <<listVars, slotVars, lockVars, writerVars, disposerVars, panicked, fatal,
          reader>>

Elems(q) == {q[i] : i \in DOMAIN q}
Prefix(q, n) == SubSeq(q, 1, IF n < Len(q) THEN n ELSE Len(q))
Suffix(q, n) == SubSeq(q, n + 1, Len(q))

(* The elements of q at the positions in I, in their order. *)
At(q, I) ==
    [j \in 1 .. Cardinality(I) |-> q[CHOOSE i \in I : Cardinality({k \in I : k <= i}) = j]]

Value == ring[1]
Size == Len(ring)
Back == idrs[Len(idrs)]

(***************************************************************************)
(* Ring.Next of any node: the next of its ring; a node taken out of every  *)
(* ring is its own successor.                                              *)
(***************************************************************************)
Succ(q, s) ==
    LET i == CHOOSE j \in DOMAIN q : q[j] = s
    IN  q[(i % Len(q)) + 1]

NextOf(s) ==
    CASE s \in Elems(ring) -> Succ(ring, s)
      [] s \in Elems(pool) -> Succ(pool, s)
      [] OTHER             -> s

(* A node that nothing refers to any more is garbage, and may serve as a new one. *)
Garbage ==
    Slots \ (Elems(ring) \cup Elems(pool) \cup Elems(idrs) \cup {lastValue, completed}
             \cup {reader[r].slot : r \in Readers} \cup {reader[r].target : r \in Readers})

NewNode == [seq |-> 0, ts |-> 0, idr |-> FALSE, mem |-> FALSE, ready |-> FALSE]

(* AVFrame.Reset recycles the payload and clears the key-frame flag and the timestamps. *)
Reset(f) == [f EXCEPT !.ts = 0, !.idr = FALSE, !.mem = FALSE]

(* DataFrame.StartWrite succeeds: not discarded, and TryLock finds no reader or writer. *)
CanStartWrite(s) == ~discard[s] /\ s \notin wlocked /\ rlocked[s] = {}

Init ==
    /\ ring = CHOOSE q \in [1 .. MinSize -> Slots] :
                 \A i, j \in 1 .. MinSize : q[i] = q[j] => i = j
    /\ pool = <<>>
    /\ frame = [s \in Slots |-> NewNode]
    /\ discard = [s \in Slots |-> FALSE]
    /\ wlocked = {Value}
    /\ rlocked = [s \in Slots |-> {}]
    /\ idrs = <<>>
    /\ lastValue = Value
    /\ reduceVol = 0
    /\ buffered = 0
    /\ status = 0
    /\ writer = "fill"
    /\ completed = Value
    /\ disposer = "idle"
    /\ stopped = FALSE
    /\ panicked = FALSE
    /\ fatal = FALSE
    /\ \E mode \in Modes :
         reader = [r \in Readers |->
                    [mode |-> mode[r], pc |-> "init", state |-> "INIT", slot |-> None, target |-> None,
                     direct |-> FALSE, firstSeq |-> 0, last |-> -1]]

-------------------------------------------------------------------------------
(* The writing goroutine. *)

(***************************************************************************)
(* nextVideo: the frame in Value is complete.  A stopped publisher resets  *)
(* it and returns; otherwise it goes to Step.  A frame that is dropped at  *)
(* a higher Speed (ErrSkip) or that fails checkCodecChange is reset too,   *)
(* and the next one goes into the same slot: seen from here, nothing       *)
(* happened.  The entry that a key frame puts into the list of the audio   *)
(* track belongs to another ring.                                          *)
(***************************************************************************)
Fill ==
    /\ writer = "fill"
    /\ \/ /\ ~stopped
          /\ frame[Value].seq < MaxSeq
          /\ Len(pool) + Cardinality(Garbage) > Chunk      \* bound: the nodes that Step may add
          /\ \E key \in IF frame[Value].seq \in KeySeqs THEN BOOLEAN ELSE {FALSE} :
                frame' = [frame EXCEPT ![Value].ts = frame[Value].seq,
                                       ![Value].idr = key, ![Value].mem = TRUE]
          /\ writer' = "step"
       \/ /\ stopped
          /\ frame' = [frame EXCEPT ![Value] = Reset(@)]
          /\ writer' = "gone"
    /\ UNCHANGED <<listVars, discard, lockVars, status, completed, lastValue, disposerVars,
                   panicked, fatal, reader>>

DurationFrom(s) == frame[Value].ts - frame[s].ts

(* The IDR list after PushIDR and after the removal of the stale entries at its head. *)
PushIDR == IF frame[Value].idr THEN Append(idrs, Value) ELSE idrs

DropStale(list) ==
    IF list = <<>> THEN list
    ELSE Suffix(list, Max({k \in 0 .. Len(list) - 1 :
                              \A j \in 1 .. k : DurationFrom(list[j + 1]) > BufferTime}))

(***************************************************************************)
(* glow: n nodes go in after Value.  They are new nodes followed by the    *)
(* whole pool, or they come out of the pool, where Unlink begins with the  *)
(* node behind rb.pool.                                                    *)
(***************************************************************************)
NewNodes(n) ==
    CHOOSE q \in [1 .. n -> Garbage] : \A i, j \in 1 .. n : q[i] = q[j] => i = j

GlowItems(n) ==
    IF n > Len(pool)
    THEN NewNodes(n - Len(pool)) \o pool
    ELSE Prefix(Append(Tail(pool), Head(pool)), n)

(* Mutant of PoolAfterGlow: the nodes taken stay in the pool. *)
PoolKept(n) == pool

PoolAfterGlow(n) ==
    IF n >= Len(pool) THEN <<>> ELSE <<Head(pool)>> \o Suffix(pool, n + 1)

(* Mutant of glow: the new nodes are linked in before Value, so that next stays what it was. *)
GlowBehind(n) ==
    /\ ring' = ring \o GlowItems(n)
    /\ pool' = PoolAfterGlow(n)
    /\ UNCHANGED slotVars

glow(n) ==
    /\ LET items == GlowItems(n)
           new   == Elems(items) \ Elems(pool)
       IN  /\ ring' = <<Value>> \o items \o Tail(ring)
           /\ frame' = [s \in Slots |-> IF s \in new THEN NewNode ELSE frame[s]]
           /\ discard' = [s \in Slots |-> discard[s] /\ s \notin new]
    /\ pool' = PoolAfterGlow(n)

(* reduce: the n nodes after Value leave the ring; those in use are discarded. *)
reduce(n) ==
    LET out  == SubSeq(ring, 2, n + 1)
        free == {i \in 1 .. n : CanStartWrite(out[i])}
        busy == {s \in Elems(out) : ~CanStartWrite(s)}
    IN  /\ ring' = <<Value>> \o Suffix(ring, n + 1)
        /\ pool' = Prefix(pool, 1) \o At(out, free) \o Suffix(pool, 1)
        /\ frame' = [s \in Slots |-> IF s \in Elems(out) THEN Reset(frame[s]) ELSE frame[s]]
        /\ discard' = [s \in Slots |-> discard[s] \/ s \in busy]

Keep == UNCHANGED <<ring, pool, slotVars>>

(***************************************************************************)
(* The first part of Step keeps the IDR list and the size of the ring: it  *)
(* grows rather than overwrite a key frame that is still needed, and       *)
(* shrinks after ReduceVol steps in which the oldest key frame was far.    *)
(* (The branch "remove old idr" is dead: DropStale has just removed what   *)
(* it would remove.)                                                       *)
(***************************************************************************)
Resize ==
    /\ writer = "step"
    /\ LET list  == DropStale(PushIDR)
           old   == list[1]
           next  == ring[2]
           near  == Elems(SubSeq(ring, 2, IF Chunk < Size THEN Chunk + 1 ELSE Size))
           only  == list # <<>> /\ next = list[Len(list)]
           first == list # <<>> /\ ~only /\ next = old
           spare == list # <<>> /\ ~only /\ ~first /\ DurationFrom(old) > BufferTime
           shrinkable == old \notin near /\ Size > MinSize + Chunk
       IN  /\ idrs' = list
           /\ buffered' = IF list # <<>> THEN DurationFrom(old) ELSE buffered
           /\ \/ /\ first \/ (only /\ Size < MaxSize)
                 /\ glow(Chunk)
                 /\ UNCHANGED reduceVol
              \/ /\ spare /\ shrinkable /\ reduceVol >= ReduceVol
                 /\ reduce(Chunk)
                 /\ reduceVol' = 0
              \/ /\ spare /\ ~(shrinkable /\ reduceVol >= ReduceVol)
                 /\ Keep
                 /\ reduceVol' = IF shrinkable THEN reduceVol + 1 ELSE 0
              \/ /\ ~first /\ ~spare /\ ~(only /\ Size < MaxSize)
                 /\ Keep
                 /\ UNCHANGED reduceVol
    /\ writer' = "enter"
    /\ UNCHANGED <<lockVars, status, completed, lastValue, disposerVars, panicked, fatal, reader>>

(* status.Add(1): the Step of a disposed ring returns an error, and nextVideo resets Value. *)
Enter ==
    /\ writer = "enter"
    /\ status' = status + 1
    /\ IF status + 1 = 1
       THEN writer' = "claim" /\ UNCHANGED frame
       ELSE writer' = "gone" /\ frame' = [frame EXCEPT ![Value] = Reset(@)]
    /\ UNCHANGED <<listVars, discard, lockVars, completed, lastValue, disposerVars, panicked,
                   fatal, reader>>

nextSeq == (frame[Value].seq + 1) % SeqMod

(* Mutant of Claim: LastValue is set before Ready, the order of BUG-024. *)
ClaimPublishesFirst ==
    /\ writer = "claim"
    /\ CanStartWrite(ring[2])
    /\ frame' = [frame EXCEPT ![ring[2]] = [Reset(@) EXCEPT !.seq = nextSeq, !.ready = FALSE]]
    /\ wlocked' = wlocked \cup {ring[2]}
    /\ ring' = Append(Tail(ring), Value)
    /\ completed' = Value
    /\ lastValue' = Value
    /\ writer' = "exit"
    /\ UNCHANGED <<pool, idrs, reduceVol, buffered, discard, rlocked, status, disposerVars,
                   panicked, fatal, reader>>

(* Mutant of Claim: a reader on the next slot does not matter. *)
ClaimUnderReader ==
    /\ writer = "claim"
    /\ ring[2] \notin wlocked
    /\ frame' = [frame EXCEPT ![ring[2]] = [Reset(@) EXCEPT !.seq = nextSeq, !.ready = FALSE]]
    /\ wlocked' = IF rlocked[ring[2]] = {} THEN wlocked \cup {ring[2]} ELSE wlocked
    /\ ring' = Append(Tail(ring), Value)
    /\ completed' = Value
    /\ writer' = "exit"
    /\ UNCHANGED <<pool, idrs, reduceVol, buffered, discard, rlocked, status, lastValue,
                   disposerVars, panicked, fatal, reader>>

(* The next slot is free: it is locked and reset, and becomes Value. *)
Claim ==
    /\ writer = "claim"
    /\ CanStartWrite(ring[2])
    /\ frame' = [frame EXCEPT ![ring[2]] = [Reset(@) EXCEPT !.seq = nextSeq, !.ready = FALSE]]
    /\ wlocked' = wlocked \cup {ring[2]}
    /\ ring' = Append(Tail(ring), Value)
    /\ completed' = Value
    /\ writer' = "exit"
    /\ UNCHANGED <<pool, idrs, reduceVol, buffered, discard, rlocked, status, lastValue,
                   disposerVars, panicked, fatal, reader>>

(***************************************************************************)
(* A reader is still on the next slot (or it is discarded already): the    *)
(* slot is thrown out of the ring and a node of the pool, or a new one,    *)
(* takes its place; if that one cannot be locked, Step panics.             *)
(***************************************************************************)
Refill ==
    /\ writer = "claim"
    /\ ~CanStartWrite(ring[2])
    /\ LET lost == ring[2]
           node == GlowItems(1)[1]
           isNew == pool = <<>>
           free == isNew \/ CanStartWrite(node)
           base == IF isNew THEN NewNode ELSE frame[node]
       IN  /\ frame' = [frame EXCEPT ![lost] = Reset(@),
                                     ![node] = [base EXCEPT !.seq = nextSeq, !.ready = FALSE]]
           /\ discard' = [discard EXCEPT ![lost] = TRUE, ![node] = ~free]
           /\ ring' = <<node>> \o Suffix(ring, 2) \o <<Value>>
           /\ pool' = PoolAfterGlow(1)
           /\ wlocked' = IF free THEN wlocked \cup {node} ELSE wlocked
           /\ writer' = IF free THEN "exit" ELSE "gone"
           /\ panicked' = ~free
    /\ completed' = Value
    /\ UNCHANGED <<idrs, reduceVol, buffered, rlocked, status, lastValue, disposerVars, fatal,
                   reader>>

(* Mutant of Exit: a Dispose that came in between goes unnoticed. *)
ExitUnaware ==
    /\ writer = "exit"
    /\ status' = status - 1
    /\ writer' = "ready"
    /\ UNCHANGED <<listVars, slotVars, lockVars, completed, lastValue, disposerVars, panicked,
                   fatal, reader>>

Exit ==
    /\ writer = "exit"
    /\ status' = status - 1
    /\ writer' = CASE status - 1 = 0  -> "ready"
                   [] status - 1 = -1 -> "unlockBoth"
                   [] OTHER           -> "unlockOne"
    /\ UNCHANGED <<listVars, slotVars, lockVars, completed, lastValue, disposerVars, panicked,
                   fatal, reader>>

(* sync.RWMutex.Unlock. *)
Unlock(s) ==
    /\ wlocked' = wlocked \ {s}
    /\ fatal' = (fatal \/ s \notin wlocked)
    /\ UNCHANGED rlocked

(* completed.Ready() first, then LastValue (BUG-024). *)
Ready ==
    /\ writer = "ready"
    /\ Unlock(completed)
    /\ frame' = [frame EXCEPT ![completed].ready = TRUE]
    /\ writer' = "publish"
    /\ UNCHANGED <<listVars, discard, status, completed, lastValue, disposerVars, panicked, reader>>

Publish ==
    /\ writer = "publish"
    /\ lastValue' = completed
    /\ writer' = "fill"
    /\ UNCHANGED <<listVars, slotVars, lockVars, status, completed, disposerVars, panicked, fatal,
                   reader>>

(* Mutant of UnlockBoth: only the completed slot is released. *)
UnlockCompletedOnly ==
    /\ writer \in {"unlockBoth", "unlockOne"}
    /\ Unlock(completed)
    /\ writer' = "fill"
    /\ UNCHANGED <<listVars, slotVars, status, completed, lastValue, disposerVars, panicked, reader>>

(* A Dispose came during the Step: both slots are released. *)
UnlockBoth ==
    /\ writer \in {"unlockBoth", "unlockOne"}
    /\ Unlock(completed)
    /\ writer' = IF writer = "unlockBoth" THEN "unlockValue" ELSE "fill"
    /\ UNCHANGED <<listVars, slotVars, status, completed, lastValue, disposerVars, panicked, reader>>

UnlockValue ==
    /\ writer = "unlockValue"
    /\ Unlock(Value)
    /\ writer' = "fill"
    /\ UNCHANGED <<listVars, slotVars, status, completed, lastValue, disposerVars, panicked, reader>>

-------------------------------------------------------------------------------
(* The disposing goroutine: the publisher stops, then its tracks are disposed. *)

Stop ==
    /\ ~stopped
    /\ stopped' = TRUE
    /\ UNCHANGED <<listVars, slotVars, lockVars, writerVars, disposer, panicked, fatal, reader>>

Dispose ==
    /\ stopped /\ disposer = "idle"
    /\ status' = status - 1
    /\ disposer' = IF status - 1 = -1 THEN "unlock" ELSE "discard"
    /\ UNCHANGED <<listVars, slotVars, lockVars, writer, completed, lastValue, stopped, panicked,
                   fatal, reader>>

DisposeUnlock ==
    /\ disposer = "unlock"
    /\ Unlock(Value)
    /\ disposer' = "discard"
    /\ UNCHANGED <<listVars, slotVars, writerVars, stopped, panicked, reader>>

(* Ring.Do(Discard): every node of the ring, whether a reader is on it or not. *)
DisposeDiscard ==
    /\ disposer = "discard"
    /\ discard' = [s \in Slots |-> discard[s] \/ s \in Elems(ring)]
    /\ frame' = [s \in Slots |-> IF s \in Elems(ring) THEN Reset(frame[s]) ELSE frame[s]]
    /\ disposer' = "done"
    /\ UNCHANGED <<listVars, lockVars, writerVars, stopped, panicked, fatal, reader>>

-------------------------------------------------------------------------------
(* The readers. *)

WriterUnchanged == UNCHANGED <<listVars, slotVars, wlocked, writerVars, disposerVars, panicked, fatal>>

(* The track is ready from its first key frame on (t.Ready(nil) in nextVideo). *)
TrackReady == idrs # <<>> \/ frame[Value].idr

(* GetHistoryIDR: the newest key frame that is at least BufferTime old. *)
HistoryIDR ==
    LET aged == {i \in DOMAIN idrs : frame[lastValue].ts - frame[idrs[i]].ts >= BufferTime}
    IN  IF aged = {} THEN Back ELSE idrs[Max(aged)]

(***************************************************************************)
(* The first ReadFrame of a reader: where each SubMode starts.  In BUFFER  *)
(* mode it begins once enough is buffered; the key frame and the slot      *)
(* looked up before that wait count only if the list is still empty after  *)
(* it, and then there was nothing to wait for.                             *)
(***************************************************************************)
InitRead(r) ==
    /\ reader[r].pc = "init"
    /\ TrackReady
    /\ reader[r].mode = "BUFFER" => buffered >= BufferTime
    /\ LET idr == idrs # <<>>
           start == CASE reader[r].mode = "WAITKEY" \/ ~idr -> Value
                      [] reader[r].mode = "BUFFER" /\ idr   -> HistoryIDR
                      [] OTHER                              -> Back
           state == CASE reader[r].mode = "REAL" /\ idr -> "FIRST"
                      [] reader[r].mode = "WAITKEY" /\ ~(idr /\ Value = Back) -> "WAITKEY"
                      [] OTHER -> "NORMAL"
       IN  reader' = [reader EXCEPT ![r].pc = "check", ![r].target = start,
                                    ![r].state = state, ![r].direct = TRUE]
    /\ UNCHANGED rlocked
    /\ WriterUnchanged

(* StartRead: the discard flag first, then RLock, which waits for the writer. *)
StartReadCheck(r) ==
    /\ reader[r].pc = "check"
    /\ reader' = [reader EXCEPT ![r].slot = reader[r].target,
                                ![r].pc = IF discard[reader[r].target] THEN "done" ELSE "lock"]
    /\ UNCHANGED rlocked
    /\ WriterUnchanged

StartReadLock(r) ==
    /\ reader[r].pc = "lock"
    /\ rlocked' = [rlocked EXCEPT ![reader[r].slot] = @ \cup {r}]
    /\ reader' = [reader EXCEPT ![r].pc = "blocked"]
    /\ WriterUnchanged

(* The jump thresholds of a publisher at normal, medium and high Speed, which may change     *)
(* between two reads.                                                                        *)
JumpThresholds == {Size \div 2, (Size * 3) \div 4, (Size * 7) \div 8}

(* Mutant of TooSlow: the reader jumps to a key frame older than the one it has read. *)
TooSlowAnyIDR(r, f, jumpThreshold) ==
    /\ ~reader[r].direct
    /\ reader[r].state = "NORMAL" /\ reader[r].mode # "BUFFER"
    /\ (frame[lastValue].seq - f.seq) % SeqMod > jumpThreshold
    /\ idrs # <<>>

(* readFrame: a reader that is further behind than the threshold jumps to the last key frame. *)
TooSlow(r, f, jumpThreshold) ==
    /\ ~reader[r].direct
    /\ reader[r].state = "NORMAL" /\ reader[r].mode # "BUFFER"
    /\ (frame[lastValue].seq - f.seq) % SeqMod > jumpThreshold
    /\ idrs # <<>> /\ frame[Back].seq > f.seq

Acquire(r) ==
    /\ reader[r].pc = "blocked" /\ reader[r].slot \notin wlocked
    /\ \E jumpThreshold \in JumpThresholds :
         LET f == frame[reader[r].slot]
             first == reader[r].last = -1
             slow == TooSlow(r, f, jumpThreshold)
             seeking == reader[r].state = "WAITKEY" /\ ~first /\ ~f.idr
         IN  \/ /\ slow
                /\ reader' = [reader EXCEPT ![r].pc = "stop", ![r].target = Back,
                                            ![r].direct = TRUE]
             \/ /\ ~slow /\ seeking                         \* keeps looking for a key frame
                /\ reader' = [reader EXCEPT ![r].pc = "hold"]
             \/ /\ ~slow /\ ~seeking
                /\ reader' = [reader EXCEPT ![r].pc = "hold", ![r].last = f.seq,
                                 ![r].firstSeq = IF first THEN f.seq ELSE @,
                                 ![r].state = IF @ = "WAITKEY" /\ ~first THEN "NORMAL" ELSE @]
    /\ UNCHANGED rlocked
    /\ WriterUnchanged

(* The next ReadFrame picks its slot while it still holds the current one. *)
NextFrame(r) ==
    /\ reader[r].pc = "hold"
    /\ LET catchUp == reader[r].state = "FIRST" /\ idrs # <<>>
                      /\ frame[Back].seq # reader[r].firstSeq
       IN  reader' = [reader EXCEPT ![r].pc = "stop",
                         ![r].target = IF catchUp THEN Back ELSE NextOf(reader[r].slot),
                         ![r].direct = catchUp,
                         ![r].state = IF catchUp THEN "NORMAL" ELSE @]
    /\ UNCHANGED rlocked
    /\ WriterUnchanged

(* Read: StopRead releases the old slot, StartRead looks at the discard flag of the new one. *)
StopRead(r) ==
    /\ reader[r].pc = "stop"
    /\ rlocked' = [rlocked EXCEPT ![reader[r].slot] = @ \ {r}]
    /\ reader' = [reader EXCEPT ![r].slot = reader[r].target,
                                ![r].pc = IF discard[reader[r].target] THEN "done" ELSE "lock"]
    /\ WriterUnchanged

(* The subscriber leaves: clearReader. *)
Leave(r) ==
    /\ reader[r].pc = "hold"
    /\ rlocked' = [rlocked EXCEPT ![reader[r].slot] = @ \ {r}]
    /\ reader' = [reader EXCEPT ![r].pc = "done"]
    /\ WriterUnchanged

-------------------------------------------------------------------------------
WriterStep ==
    \/ Fill \/ Resize \/ Enter \/ Claim \/ Refill \/ Exit \/ Ready \/ Publish
    \/ UnlockBoth \/ UnlockValue

DisposerStep == Dispose \/ DisposeUnlock \/ DisposeDiscard

ReaderStep(r) ==
    \/ InitRead(r) \/ StartReadCheck(r) \/ StartReadLock(r) \/ Acquire(r)
    \/ NextFrame(r) \/ StopRead(r)

Next ==
    \/ WriterStep
    \/ Stop
    \/ DisposerStep
    \/ \E r \in Readers : ReaderStep(r) \/ Leave(r)

Spec == Init /\ [][Next]_vars

(***************************************************************************)
(* A goroutine that is inside Step, or that finds the publisher stopped,   *)
(* runs on; a Dispose that has been called finishes; a reader with work to *)
(* do does it.  No frame need ever arrive, and no publisher need stop.     *)
(***************************************************************************)
Fairness ==
    /\ WF_vars((writer # "fill" \/ stopped) /\ WriterStep)
    /\ WF_vars(DisposerStep)
    /\ \A r \in Readers : WF_vars(reader[r].pc # "init" /\ ReaderStep(r))

FairSpec == Spec /\ Fairness

-------------------------------------------------------------------------------
Frame == [seq : 0 .. SeqMod - 1, ts : Nat, idr : BOOLEAN, mem : BOOLEAN, ready : BOOLEAN]

Reader == [mode : {"REAL", "RECORD", "BUFFER", "WAITKEY"},
           pc : {"init", "check", "lock", "blocked", "hold", "stop", "done"},
           state : {"INIT", "FIRST", "NORMAL", "WAITKEY"},
           slot : Slots \cup {None}, target : Slots \cup {None},
           direct : BOOLEAN, firstSeq : Nat, last : Nat \cup {-1}]

(* Every variable keeps its type; status stays within what one Step and one Dispose add up to. *)
TypeOK ==
    /\ ring \in Seq(Slots) /\ pool \in Seq(Slots) /\ idrs \in Seq(Slots)
    /\ frame \in [Slots -> Frame]
    /\ discard \in [Slots -> BOOLEAN]
    /\ wlocked \subseteq Slots
    /\ rlocked \in [Slots -> SUBSET Readers]
    /\ lastValue \in Slots /\ completed \in Slots
    /\ reduceVol \in 0 .. ReduceVol
    /\ buffered \in Int
    /\ status \in -2 .. 2
    /\ writer \in {"fill", "step", "enter", "claim", "exit", "ready", "publish",
                   "unlockBoth", "unlockValue", "unlockOne", "gone"}
    /\ disposer \in {"idle", "unlock", "discard", "done"}
    /\ stopped \in BOOLEAN /\ panicked \in BOOLEAN /\ fatal \in BOOLEAN
    /\ reader \in [Readers -> Reader]

-------------------------------------------------------------------------------
(***************************************************************************)
(* The locking protocol: MediaRing implements RingLock, where the frames,  *)
(* the order of the slots and the growth of the ring do not exist.  What   *)
(* is proved of RingLock for any number of slots and readers thus holds of *)
(* Step, Dispose and the readers.                                          *)
(***************************************************************************)
Lock == INSTANCE RingLock WITH
    cur      <- Value,
    writer   <- IF writer = "enter" THEN "step"
                ELSE IF writer = "publish" THEN "fill" ELSE writer,
    disposer <- IF disposer = "discard" THEN "done" ELSE disposer

RefinesLock == Lock!Spec

(***************************************************************************)
(* The ring and the pool stay two separate cycles of distinct nodes, and   *)
(* the ring never has fewer than SizeRange[0] of them, through glow,       *)
(* reduce and the exchange of a node that a reader is on.                  *)
(***************************************************************************)
RingShape ==
    /\ IsInjective(ring) /\ IsInjective(pool)
    /\ Elems(ring) \cap Elems(pool) = {}
    /\ Len(ring) >= MinSize

(***************************************************************************)
(* The IDR list is a list of key frames: what GetIDR returns to a new      *)
(* subscriber is a node of the ring, and it still holds its key frame, for *)
(* as long as the publisher lives ("do not remove only idr",               *)
(* ring-writer.go:230).  Step grows the ring to keep it so.  This is said  *)
(* of a ring below SizeRange[1] that has not shrunk: at its maximum Step   *)
(* overwrites the only key frame, and reduce may take a listed one out.    *)
(***************************************************************************)
KeyFramesKept ==
    ~stopped => \A s \in Elems(idrs) : s \in Elems(ring) /\ frame[s].idr

(***************************************************************************)
(* LastValue is a frame with a WriteTime (BUG-024, ring-writer.go:265): a  *)
(* LastValue that Ready has not stamped makes CheckTimeout kill the stream. *)
(***************************************************************************)
LastValueReady == frame[Value].seq > 1 => frame[lastValue].ready

(* Step always gets the node that it refills the ring with: panic("RingWriter.Step"). *)
NoPanic == ~panicked

(***************************************************************************)
(* A frame that a reader holds under RLock keeps its payload: "Discard()   *)
(* is safe to call with active readers" (ring-writer.go:166).              *)
(***************************************************************************)
StablePayload == \A r \in Readers : reader[r].pc = "hold" => frame[reader[r].slot].mem

(* A reader's RLock has returned and ReadFrame delivers, on a ring nobody disposes. *)
Delivered(r) == reader[r].pc = "blocked" /\ reader'[r].pc = "hold" /\ disposer = "idle"

(***************************************************************************)
(* What a reader gets is a finished frame, complete and stamped, unless    *)
(* the writer has thrown the node out of the ring between the reader's     *)
(* look at the discard flag and its RLock (ring-reader.go:15-18).          *)
(***************************************************************************)
WholeFrames ==
    [][\A r \in Readers : Delivered(r)
          => \/ frame[reader[r].slot].mem /\ frame[reader[r].slot].ready
             \/ discard[reader[r].slot]]_vars

(***************************************************************************)
(* A reader never sees a frame twice or goes back in the stream, however   *)
(* far the writer overtakes it and whether or not it jumps to a key frame  *)
(* because it is too slow, as long as the ring only grows.  (After a       *)
(* reduce, a reader whose node has gone to the pool reads the nodes there  *)
(* over again; and REAL mode is an exception: JumpsAhead.)                 *)
(***************************************************************************)
ForwardOnly ==
    [][\A r \in Readers : Delivered(r) /\ reader[r].mode # "REAL"
          => frame[reader[r].slot].seq > reader[r].last]_vars

(***************************************************************************)
(* The jump of the REAL mode goes to a key frame that the reader has not   *)
(* had yet: it "waits for the publisher's next key frame after the first   *)
(* screen, then jumps to that frame" (pkg/config/types.go:106).            *)
(***************************************************************************)
JumpsAhead ==
    [][\A r \in Readers :
          reader[r].state = "FIRST" /\ reader[r].pc = "hold" /\ reader'[r].state = "NORMAL"
          => frame[reader'[r].target].seq > reader[r].last]_vars

(***************************************************************************)
(* No reader stays blocked on a publisher that has stopped: whoever waits  *)
(* in RLock gets on, through a Dispose before, during or after a Step,     *)
(* unless Step has panicked (NoPanic).                                     *)
(***************************************************************************)
ReadersFreed ==
    \A r \in Readers :
        stopped /\ reader[r].pc = "blocked" ~> reader[r].pc # "blocked" \/ panicked


-------------------------------------------------------------------------------
(* The inductive invariant behind RingShape, LastValueReady and RefinesLock. *)

(* A reader holds RLock on its slot, or waits for it, and on no other; one whose   *)
(* RLock has returned is not on a slot that is written.                            *)
Holding == {"blocked", "hold", "stop"}

ReadersPlaced ==
    \A r \in Readers :
       /\ reader[r].pc # "init" => reader[r].target \in Slots
       /\ reader[r].pc \notin {"init", "check"} => reader[r].slot \in Slots
       /\ \A s \in Slots : r \in rlocked[s] <=> reader[r].slot = s /\ reader[r].pc \in Holding
       /\ reader[r].pc \in {"hold", "stop"} => reader[r].slot \notin wlocked

(* A Step under way finds the nodes that it still needs. *)
NodesLeft ==
    /\ writer = "step" => Len(pool) + Cardinality(Garbage) > Chunk
    /\ writer \in {"enter", "claim"} => Len(pool) + Cardinality(Garbage) > 0

(* Up to a panic the locks are as in RingLock; a panic ends the writing goroutine  *)
(* in the middle of a Step.                                                        *)
LocksKept ==
    /\ ~panicked => Lock!LockInv
    /\ writer = "gone" => status \in -1 .. 1
    /\ panicked => writer = "gone" /\ status = IF disposer = "idle" THEN 1 ELSE 0

(* Between two Steps LastValue is the node before Value; the node that a Step      *)
(* claims is another one.                                                          *)
LastKnown ==
    \/ lastValue = ring[Size] /\ frame[lastValue].ready
    \/ lastValue = Value /\ frame[Value].seq = 0

LastPlaced ==
    /\ writer \in {"step", "enter", "claim"} => LastKnown
    /\ writer = "fill" => stopped \/ LastKnown
    /\ writer \in {"exit", "ready", "publish"} => completed = ring[Size]
    /\ writer = "publish" => frame[completed].ready
    /\ LastValueReady

RingInv == TypeOK /\ RingShape /\ ReadersPlaced /\ NodesLeft /\ LocksKept /\ LastPlaced

===============================================================================
