------------------------ MODULE StreamProcessor_proofs ------------------------
(***************************************************************************)
(* The merge of the push page is right for any frames the encoders deliver *)
(* in any order: proofs of the invariants of StreamProcessor by the        *)
(* inductive invariant MergeInv.                                           *)
(***************************************************************************)
EXTENDS StreamProcessor, FiniteSetTheorems, SequenceTheorems, WellFoundedInduction,
        NaturalsInduction, TLAPS

(***************************************************************************)
(* Numbers, sets and sequences.                                            *)
(***************************************************************************)
(* A non-empty set of natural numbers has a least element. *)
LEMMA LeastElement ==
    ASSUME NEW S, S \subseteq Nat, S # {}
    PROVE  \E i \in S : \A j \in S : i <= j
<1> DEFINE R == OpToRel(<, Nat)
<1>1. IsWellFoundedOn(R, Nat) BY NatLessThanWellFounded
<1>2. \E i \in S : \A j \in S : ~ (<<j, i>> \in R) 
  <2> HIDE DEF R
  <2> QED BY <1>1, WFMin
<1>3. PICK i \in S : \A j \in S : ~ (<<j, i>> \in R) BY <1>2
<1>4. \A j \in S : ~ (j < i) BY <1>3 DEF OpToRel
<1> QED BY <1>4

LEMMA ChunkFields ==
    ASSUME NEW c \in Chunk
    PROVE  /\ c.kind \in {"SE", "frame"} /\ c.track \in Tracks /\ c.timestamp \in Nat
           /\ c.frame \in Nat
BY DEF Chunk

(* The loop over a queue takes the chunks at its head that are due, and the
   first one it leaves is not. *)
LEMMA DueCountSpec ==
    ASSUME NEW q \in Seq(Chunk), NEW ts \in Nat
    PROVE  /\ DueCount(q, ts) \in 0 .. Len(q)
           /\ \A i \in 1 .. DueCount(q, ts) : q[i].timestamp <= ts
           /\ DueCount(q, ts) < Len(q) => q[DueCount(q, ts) + 1].timestamp > ts
<1> DEFINE late == {i \in 1 .. Len(q) : q[i].timestamp > ts}
           n == DueCount(q, ts)
<1>0. Len(q) \in Nat /\ \A i \in 1 .. Len(q) : q[i].timestamp \in Nat
  <2>1. \A i \in 1 .. Len(q) : q[i] \in Chunk OBVIOUS
  <2> QED BY <2>1, ChunkFields
<1>1. CASE late = {}
  <2>1. n = Len(q) BY <1>1 DEF DueCount
  <2> QED BY <1>0, <1>1, <2>1
<1>2. CASE late # {}
  <2>1. \E i \in late : \A j \in late : i <= j 
    <3>1. late \subseteq Nat BY <1>0
    <3> HIDE DEF late
    <3> QED BY <1>2, <3>1, LeastElement
  <2>2. PICK k \in late : k = (CHOOSE i \in late : \A j \in late : i <= j) 
                          /\ \A j \in late : k <= j
    BY <2>1
  <2>3. n = k - 1 BY <1>2, <2>2 DEF DueCount
  <2> HIDE DEF n
  <2>4. k \in 1 .. Len(q) /\ q[k].timestamp > ts BY <2>2
  <2>5. n \in 0 .. Len(q) /\ n + 1 = k BY <2>3, <2>4, <1>0
  <2>6. ASSUME NEW i \in 1 .. n PROVE q[i].timestamp <= ts
    <3>1. i \in 1 .. Len(q) /\ i < k /\ k \in Nat BY <2>5, <1>0, <2>4
    <3>2. ~ (k <= i) BY <3>1
    <3>3. i \notin late BY <2>2, <3>2
    <3> QED BY <3>1, <3>3, <1>0
  <2> QED BY <2>4, <2>5, <2>6 DEF n
<1> QED BY <1>1, <1>2

(* With more than one track configured both are. *)
LEMMA OneOrBoth == Cardinality(Tracks) # 1 => Tracks = Media
<1>1. Tracks \subseteq Media /\ Tracks # {} BY StreamProcessorAssumption
<1>2. Cardinality({"audio"}) = 1 /\ Cardinality({"video"}) = 1 BY FS_Singleton
<1>3. Tracks = {"audio"} \/ Tracks = {"video"} \/ Tracks = Media BY <1>1 DEF Media
<1> QED BY <1>2, <1>3

LEMMA TracksFinite == IsFiniteSet(Tracks)
<1>1. Media = {"audio"} \cup {"video"} BY DEF Media
<1>2. IsFiniteSet({"audio"}) BY FS_Singleton
<1>3. IsFiniteSet({"audio"} \cup {"video"}) BY <1>2, FS_AddElement
<1> QED BY <1>1, <1>3, FS_Subset, StreamProcessorAssumption

(* A concatenation, by index. *)
LEMMA ConcatAt ==
    ASSUME NEW s \in Seq(Chunk), NEW x \in Seq(Chunk)
    PROVE  /\ s \o x \in Seq(Chunk)
           /\ DOMAIN (s \o x) = 1 .. Len(s) + Len(x) /\ Len(s \o x) = Len(s) + Len(x)
           /\ \A i \in DOMAIN s : i \in DOMAIN (s \o x) /\ (s \o x)[i] = s[i]
           /\ \A i \in DOMAIN x : Len(s) + i \in DOMAIN (s \o x) /\ (s \o x)[Len(s) + i] = x[i]
           /\ \A i \in DOMAIN (s \o x) :
                 \/ i \in DOMAIN s /\ (s \o x)[i] = s[i]
                 \/ i - Len(s) \in DOMAIN x /\ (s \o x)[i] = x[i - Len(s)]
OBVIOUS

(* The rest of a queue after the loop, by index. *)
LEMMA CutAt ==
    ASSUME NEW q \in Seq(Chunk), NEW n \in 0 .. Len(q)
    PROVE  /\ SubSeq(q, 1, n) \in Seq(Chunk) /\ Len(SubSeq(q, 1, n)) = n
           /\ \A i \in 1 .. n : SubSeq(q, 1, n)[i] = q[i]
           /\ SubSeq(q, n + 1, Len(q)) \in Seq(Chunk)
           /\ Len(SubSeq(q, n + 1, Len(q))) = Len(q) - n
           /\ \A i \in 1 .. Len(q) - n : SubSeq(q, n + 1, Len(q))[i] = q[n + i]
<1>0. Len(q) \in Nat /\ n \in Nat /\ n <= Len(q) /\ \A i \in 1 .. Len(q) : q[i] \in Chunk OBVIOUS
<1>1. /\ SubSeq(q, 1, n) \in Seq(Chunk) /\ Len(SubSeq(q, 1, n)) = n
      /\ \A i \in 1 .. n : SubSeq(q, 1, n)[i] = q[i]
  BY <1>0
<1> DEFINE b == SubSeq(q, n + 1, Len(q))
<1>2. \A i \in n + 1 .. Len(q) : q[i] \in Chunk BY <1>0
<1>3. n + 1 \in Int /\ Len(q) \in Int BY <1>0
<1>4. /\ b \in Seq(Chunk)
      /\ Len(b) = IF n + 1 <= Len(q) THEN Len(q) - (n + 1) + 1 ELSE 0
      /\ \A i \in 1 .. Len(q) - (n + 1) + 1 : b[i] = q[n + 1 + i - 1]
  BY <1>2, <1>3, SubSeqProperties
<1> HIDE DEF b
<1>5. Len(b) = Len(q) - n BY <1>0, <1>4
<1>6. ASSUME NEW i \in 1 .. Len(q) - n PROVE b[i] = q[n + i]
  <2>1. i \in 1 .. Len(q) - (n + 1) + 1 /\ n + 1 + i - 1 = n + i BY <1>0
  <2>2. b[i] = q[n + 1 + i - 1] BY <1>4, <2>1
  <2> QED BY <2>1, <2>2
<1> QED BY <1>1, <1>4, <1>5, <1>6 DEF b

-------------------------------------------------------------------------------
(***************************************************************************)
(* What is appended to the published chunks.                               *)
(***************************************************************************)
(* Chunks other than frames of t change nothing for t. *)
LEMMA FirstFramesSkip ==
    ASSUME NEW s \in Seq(Chunk), NEW x \in Seq(Chunk), NEW t, NEW k \in Nat,
           FirstFrames(s, t, k), \A i \in DOMAIN x : ~ IsFrameOf(x[i], t)
    PROVE  FirstFrames(s \o x, t, k)
<1> DEFINE z == s \o x
<1>1. /\ z \in Seq(Chunk)
      /\ \A i \in DOMAIN s : i \in DOMAIN z /\ z[i] = s[i]
      /\ \A i \in DOMAIN x : Len(s) + i \in DOMAIN z /\ z[Len(s) + i] = x[i]
      /\ \A i \in DOMAIN z :
            \/ i \in DOMAIN s /\ z[i] = s[i]
            \/ i - Len(s) \in DOMAIN x /\ z[i] = x[i - Len(s)]
  BY ConcatAt
<1> HIDE DEF z
<1>4. ASSUME NEW i \in DOMAIN z, IsFrameOf(z[i], t) PROVE i \in DOMAIN s /\ z[i] = s[i]
  BY <1>1, <1>4
<1>5. \A i \in DOMAIN z : IsFrameOf(z[i], t) => z[i].frame \in 1 .. k
  BY <1>4 DEF FirstFrames
<1>6. \A n \in 1 .. k : \E i \in DOMAIN z : IsFrameOf(z[i], t) /\ z[i].frame = n
  BY <1>1 DEF FirstFrames
<1>7. \A i, j \in DOMAIN z : i < j /\ IsFrameOf(z[i], t) /\ IsFrameOf(z[j], t)
                             => z[i].frame < z[j].frame
  BY <1>4 DEF FirstFrames
<1> QED BY <1>5, <1>6, <1>7 DEF FirstFrames, z

(* The next n frames of t extend what is published of t. *)
LEMMA FirstFramesExtend ==
    ASSUME NEW s \in Seq(Chunk), NEW x \in Seq(Chunk), NEW t, NEW k \in Nat,
           FirstFrames(s, t, k),
           \A i \in DOMAIN x : IsFrameOf(x[i], t) /\ x[i].frame = k + i
    PROVE  FirstFrames(s \o x, t, k + Len(x))
<1> DEFINE z == s \o x
<1>1. /\ z \in Seq(Chunk)
      /\ \A i \in DOMAIN s : i \in DOMAIN z /\ z[i] = s[i]
      /\ \A i \in DOMAIN x : Len(s) + i \in DOMAIN z /\ z[Len(s) + i] = x[i]
      /\ \A i \in DOMAIN z :
            \/ i \in DOMAIN s /\ z[i] = s[i]
            \/ i - Len(s) \in DOMAIN x /\ z[i] = x[i - Len(s)]
  BY ConcatAt
<1> HIDE DEF z
<1>2. \A i \in DOMAIN z : i \in Nat BY <1>1
<1>3. Len(s) \in Nat /\ Len(x) \in Nat /\ DOMAIN s = 1 .. Len(s) /\ DOMAIN x = 1 .. Len(x) OBVIOUS
<1>5. ASSUME NEW i \in DOMAIN z, IsFrameOf(z[i], t) PROVE z[i].frame \in 1 .. k + Len(x)
  <2>1. CASE i \in DOMAIN s /\ z[i] = s[i]
    <3>1. z[i].frame \in 1 .. k BY <1>5, <2>1 DEF FirstFrames
    <3> QED BY <3>1, <1>3
  <2>2. CASE i - Len(s) \in DOMAIN x /\ z[i] = x[i - Len(s)]
    <3>1. z[i].frame = k + (i - Len(s)) BY <2>2
    <3> QED BY <3>1, <2>2, <1>3, <1>2
  <2> QED BY <1>1, <2>1, <2>2
<1>6. ASSUME NEW n \in 1 .. k + Len(x)
      PROVE  \E i \in DOMAIN z : IsFrameOf(z[i], t) /\ z[i].frame = n
  <2>1. CASE n <= k
    <3>1. n \in 1 .. k BY <2>1
    <3> QED BY <3>1, <1>1 DEF FirstFrames
  <2>2. CASE n > k
    <3>1. n - k \in DOMAIN x /\ k + (n - k) = n BY <2>2, <1>3
    <3>2. IsFrameOf(x[n - k], t) /\ x[n - k].frame = n BY <3>1
    <3>3. Len(s) + (n - k) \in DOMAIN z /\ z[Len(s) + (n - k)] = x[n - k] BY <3>1, <1>1
    <3> QED BY <3>2, <3>3
  <2> QED BY <2>1, <2>2
<1>7. ASSUME NEW i \in DOMAIN z, NEW j \in DOMAIN z, i < j,
             IsFrameOf(z[i], t), IsFrameOf(z[j], t)
      PROVE  z[i].frame < z[j].frame
  <2>1. CASE i \in DOMAIN s /\ z[i] = s[i] /\ j \in DOMAIN s /\ z[j] = s[j]
    BY <2>1, <1>7 DEF FirstFrames
  <2>2. CASE i \in DOMAIN s /\ z[i] = s[i] /\ j - Len(s) \in DOMAIN x /\ z[j] = x[j - Len(s)]
    <3>1. z[i].frame \in 1 .. k BY <1>7, <2>2 DEF FirstFrames
    <3>2. z[j].frame = k + (j - Len(s)) BY <2>2
    <3> QED BY <3>1, <3>2, <2>2, <1>3, <1>2
  <2>3. CASE /\ i - Len(s) \in DOMAIN x /\ z[i] = x[i - Len(s)]
             /\ j - Len(s) \in DOMAIN x /\ z[j] = x[j - Len(s)]
    <3>1. z[i].frame = k + (i - Len(s)) /\ z[j].frame = k + (j - Len(s)) BY <2>3
    <3> QED BY <3>1, <1>7, <1>3, <1>2
  <2>4. ~ (i - Len(s) \in DOMAIN x /\ j \in DOMAIN s) BY <1>7, <1>3, <1>2
  <2> QED BY <1>1, <2>1, <2>2, <2>3, <2>4
<1> QED BY <1>5, <1>6, <1>7 DEF FirstFrames, z

(* Chunks that are in order and not earlier than any published frame. *)
LEMMA SortedExtend ==
    ASSUME NEW s \in Seq(Chunk), NEW x \in Seq(Chunk), Sorted(s), Sorted(x),
           \A i \in DOMAIN s, j \in DOMAIN x :
              s[i].kind = "frame" /\ x[j].kind = "frame" => s[i].timestamp <= x[j].timestamp
    PROVE  Sorted(s \o x)
<1> DEFINE z == s \o x
<1>1. /\ z \in Seq(Chunk)
      /\ \A i \in DOMAIN s : i \in DOMAIN z /\ z[i] = s[i]
      /\ \A i \in DOMAIN x : Len(s) + i \in DOMAIN z /\ z[Len(s) + i] = x[i]
      /\ \A i \in DOMAIN z :
            \/ i \in DOMAIN s /\ z[i] = s[i]
            \/ i - Len(s) \in DOMAIN x /\ z[i] = x[i - Len(s)]
  BY ConcatAt
<1> HIDE DEF z
<1>2. \A i \in DOMAIN z : i \in Nat BY <1>1
<1>3. Len(s) \in Nat /\ DOMAIN s = 1 .. Len(s) /\ DOMAIN x = 1 .. Len(x) /\ Len(x) \in Nat OBVIOUS
<1>5. ASSUME NEW i \in DOMAIN z, NEW j \in DOMAIN z, i < j,
             z[i].kind = "frame", z[j].kind = "frame"
      PROVE  z[i].timestamp <= z[j].timestamp
  <2>1. CASE i \in DOMAIN s /\ z[i] = s[i] /\ j \in DOMAIN s /\ z[j] = s[j]
    BY <2>1, <1>5 DEF Sorted
  <2>2. CASE i \in DOMAIN s /\ z[i] = s[i] /\ j - Len(s) \in DOMAIN x /\ z[j] = x[j - Len(s)]
    BY <2>2, <1>5
  <2>3. CASE /\ i - Len(s) \in DOMAIN x /\ z[i] = x[i - Len(s)]
             /\ j - Len(s) \in DOMAIN x /\ z[j] = x[j - Len(s)]
    <3>1. i - Len(s) < j - Len(s) BY <1>5, <1>2, <1>3
    <3> QED BY <3>1, <2>3, <1>5 DEF Sorted
  <2>4. ~ (i - Len(s) \in DOMAIN x /\ j \in DOMAIN s) BY <1>5, <1>3, <1>2
  <2> QED BY <1>1, <2>1, <2>2, <2>3, <2>4
<1> QED BY <1>5 DEF Sorted, z

-------------------------------------------------------------------------------
(***************************************************************************)
(* What the handlers of one chunk do.                                      *)
(***************************************************************************)
MergeState ==
    [queue : [Tracks -> Seq(Chunk)], ready : [Tracks -> BOOLEAN], emitted : Seq(Chunk)]

LEMMA MergeFields ==
    ASSUME NEW m \in MergeState
    PROVE  /\ m.queue \in [Tracks -> Seq(Chunk)] /\ m.ready \in [Tracks -> BOOLEAN]
           /\ m.emitted \in Seq(Chunk)
BY DEF MergeState

LEMMA MergeTyped ==
    ASSUME TypeOK
    PROVE  /\ Merge \in MergeState
           /\ Merge.queue = [t \in Tracks |-> track[t].queue]
           /\ Merge.ready = ready /\ Merge.emitted = emitted
<1>1. \A t \in Tracks : track[t].queue \in Seq(Chunk) BY DEF TypeOK
<1>2. [t \in Tracks |-> track[t].queue] \in [Tracks -> Seq(Chunk)] BY <1>1
<1> QED BY <1>2 DEF TypeOK, Merge, MergeState

LEMMA PublishEffect ==
    ASSUME NEW m \in MergeState, NEW cs \in Seq(Chunk)
    PROVE  /\ publishChunk(m, cs) \in MergeState
           /\ publishChunk(m, cs).queue = m.queue
           /\ publishChunk(m, cs).ready = m.ready
           /\ publishChunk(m, cs).emitted = m.emitted \o cs
<1>1. m.emitted \o cs \in Seq(Chunk) BY MergeFields, ConcatAt
<1> QED BY <1>1 DEF publishChunk, MergeState

LEMMA EnqueueEffect ==
    ASSUME NEW m \in MergeState, NEW c \in Chunk
    PROVE  /\ enqueue(m, c) \in MergeState
           /\ enqueue(m, c).queue = [m.queue EXCEPT ![c.track] = Append(@, c)]
           /\ enqueue(m, c).ready = m.ready
           /\ enqueue(m, c).emitted = m.emitted
<1>1. c.track \in Tracks BY ChunkFields
<1>2. Append(m.queue[c.track], c) \in Seq(Chunk) BY <1>1, MergeFields
<1>3. [m.queue EXCEPT ![c.track] = Append(@, c)] \in [Tracks -> Seq(Chunk)]
  BY <1>1, <1>2, MergeFields
<1> QED BY <1>3 DEF enqueue, MergeState

Drained(m, t, ts) ==
    LET q == m.queue[t]
        n == DueCount(q, ts)
        p == PublishDue(m, t, ts)
    IN  /\ p.queue = [m.queue EXCEPT ![t] = SubSeq(q, n + 1, Len(q))]
        /\ p.ready = m.ready
        /\ p.emitted = m.emitted \o SubSeq(q, 1, n)

LEMMA PublishDueEffect ==
    ASSUME NEW m \in MergeState, NEW t \in Tracks, NEW ts \in Nat
    PROVE  PublishDue(m, t, ts) \in MergeState /\ Drained(m, t, ts)
<1> DEFINE q == m.queue[t]
           n == DueCount(q, ts)
           m1 == [m EXCEPT !.queue[t] = SubSeq(@, n + 1, Len(@))]
<1>1. q \in Seq(Chunk) BY MergeFields
<1>2. n \in 0 .. Len(q) BY <1>1, DueCountSpec
<1>3. SubSeq(q, 1, n) \in Seq(Chunk) /\ SubSeq(q, n + 1, Len(q)) \in Seq(Chunk)
  BY <1>1, <1>2, CutAt
<1>4. [m.queue EXCEPT ![t] = SubSeq(q, n + 1, Len(q))] \in [Tracks -> Seq(Chunk)]
  <2> HIDE DEF n
  <2> QED BY <1>3, MergeFields
<1>5. /\ m1 \in MergeState
      /\ m1.queue = [m.queue EXCEPT ![t] = SubSeq(q, n + 1, Len(q))]
      /\ m1.ready = m.ready /\ m1.emitted = m.emitted
  <2> HIDE DEF n
  <2> QED BY <1>4 DEF MergeState
<1>6. PublishDue(m, t, ts) = publishChunk(m1, SubSeq(q, 1, n)) BY DEF PublishDue
<1> HIDE DEF m1, n, q
<1>7. /\ PublishDue(m, t, ts) \in MergeState
      /\ PublishDue(m, t, ts).queue = m1.queue
      /\ PublishDue(m, t, ts).ready = m1.ready
      /\ PublishDue(m, t, ts).emitted = m1.emitted \o SubSeq(q, 1, n)
  <2>1. PICK cs \in Seq(Chunk) : cs = SubSeq(q, 1, n) BY <1>3
  <2>2. /\ publishChunk(m1, cs) \in MergeState
        /\ publishChunk(m1, cs).queue = m1.queue
        /\ publishChunk(m1, cs).ready = m1.ready
        /\ publishChunk(m1, cs).emitted = m1.emitted \o cs
    BY <1>5, PublishEffect
  <2> QED BY <2>1, <2>2, <1>6, Zenon
<1>8. /\ PublishDue(m, t, ts) \in MergeState
      /\ PublishDue(m, t, ts).queue = [m.queue EXCEPT ![t] = SubSeq(q, n + 1, Len(q))]
      /\ PublishDue(m, t, ts).ready = m.ready
      /\ PublishDue(m, t, ts).emitted = m.emitted \o SubSeq(q, 1, n)
  BY <1>5, <1>7
<1> QED BY <1>8, Zenon DEF n, q, Drained

LEMMA ReadyEffect ==
    ASSUME NEW m \in MergeState, NEW t \in Tracks
    PROVE  /\ setConfigReady(m, t) \in MergeState
           /\ setConfigReady(m, t).queue = m.queue
           /\ setConfigReady(m, t).ready = [m.ready EXCEPT ![t] = TRUE]
           /\ setConfigReady(m, t).emitted = m.emitted
<1>1. [m.ready EXCEPT ![t] = TRUE] \in [Tracks -> BOOLEAN] BY MergeFields
<1> QED BY <1>1 DEF setConfigReady, MergeState

LEMMA OtherTrack ==
    ASSUME NEW t \in Tracks, Cardinality(Tracks) # 1
    PROVE  /\ Other(t) \in Tracks /\ Other(t) # t /\ Other(Other(t)) = t
           /\ \A u \in Tracks : u = t \/ u = Other(t)
           /\ "audio" \in Tracks /\ "video" \in Tracks
BY OneOrBoth DEF Media, Other

LEMMA HandleTyped ==
    ASSUME NEW m \in MergeState, NEW c \in Chunk
    PROVE  handleTrackChunk(m, c) \in MergeState
<1>1. c.track \in Tracks /\ c.timestamp \in Nat /\ <<c>> \in Seq(Chunk) BY ChunkFields
<1>2. publishChunk(m, <<c>>) \in MergeState BY <1>1, PublishEffect
<1>3. CASE Cardinality(Tracks) # 1
  <2>1. publishChunk(setConfigReady(m, c.track), <<c>>) \in MergeState
    BY <1>1, PublishEffect, ReadyEffect
  <2> DEFINE p == PublishDue(m, Other(c.track), c.timestamp)
  <2>2. p \in MergeState BY <1>1, <1>3, OtherTrack, PublishDueEffect
  <2> HIDE DEF p
  <2>3. /\ publishChunk(p, <<c>>) \in MergeState /\ enqueue(p, c) \in MergeState
        /\ enqueue(m, c) \in MergeState
    BY <1>1, <2>2, PublishEffect, EnqueueEffect
  <2>4. MergeChunk(m, c) \in MergeState BY <2>3 DEF MergeChunk, p
  <2> QED BY <1>2, <2>1, <2>4 DEF handleTrackChunk, processAudioChunk, processVideoChunk
<1> QED BY <1>2, <1>3 DEF handleTrackChunk

-------------------------------------------------------------------------------
(***************************************************************************)
(* Types.                                                                  *)
(***************************************************************************)
LEMMA EncoderFields ==
    ASSUME TypeOK, NEW t \in Tracks
    PROVE  /\ encoder[t].fed \in Seq(RawFrame) /\ encoder[t].done \in Nat
           /\ Len(encoder[t].fed) \in Nat /\ encoder[t].done <= Len(encoder[t].fed)
           /\ \A i \in 1 .. Len(encoder[t].fed) :
                 /\ encoder[t].fed[i].ts \in Nat /\ encoder[t].fed[i].era \in Nat
                 /\ encoder[t].fed[i].key \in BOOLEAN
<1>1. /\ encoder[t].fed \in Seq(RawFrame) /\ encoder[t].done \in Nat
      /\ encoder[t].done <= Len(encoder[t].fed)
  BY DEF TypeOK
<1>2. \A i \in 1 .. Len(encoder[t].fed) : encoder[t].fed[i] \in RawFrame BY <1>1
<1>3. \A r \in RawFrame : r.ts \in Nat /\ r.era \in Nat /\ r.key \in BOOLEAN BY DEF RawFrame
<1> QED BY <1>1, <1>2, <1>3

LEMMA TrackFields ==
    ASSUME TypeOK, NEW t \in Tracks
    PROVE  /\ track[t].queue \in Seq(Chunk) /\ track[t].lastTimestamp \in Nat
           /\ track[t].decoderConfig \in BOOLEAN
           /\ Len(track[t].queue) \in Nat
BY DEF TypeOK

LEMMA HeaderTyped ==
    ASSUME TypeOK, NEW t \in Tracks
    PROVE  /\ SequenceHeader(t) \in Chunk /\ SequenceHeader(t).kind = "SE"
           /\ SequenceHeader(t).track = t
BY DEF TypeOK, SequenceHeader, Chunk

LEMMA FrameTyped ==
    ASSUME TypeOK, NEW t \in Tracks, NEW i \in 1 .. Len(encoder[t].fed), NEW ts \in Nat
    PROVE  /\ Frame(t, i, ts) \in Chunk /\ Frame(t, i, ts).kind = "frame"
           /\ Frame(t, i, ts).track = t /\ Frame(t, i, ts).timestamp = ts
           /\ Frame(t, i, ts).frame = i
<1>1. i \in Nat /\ encoder[t].fed[i].key \in BOOLEAN /\ encoder[t].fed[i].era \in Nat
  BY EncoderFields
<1> QED BY <1>1 DEF Frame, Chunk

(* One output of an encoder: its place, its timestamp and the state of the
   merge after it. *)
LEMMA OutputStep ==
    ASSUME TypeOK, NEW t \in Tracks, handleOutput(t)
    PROVE  LET i == encoder[t].done + 1
               raw == encoder[t].fed[i].ts
               ts == calculateTimestamp(raw)
           IN  /\ i \in 1 .. Len(encoder[t].fed) /\ raw \in Nat /\ ts \in Nat
               /\ OffsetFor(raw) \in Nat /\ ts = Clip(raw, OffsetFor(raw))
               /\ Frame(t, i, ts) \in Chunk
               /\ offset' = OffsetFor(raw)
               /\ encoder' = [encoder EXCEPT ![t].done = i]
               /\ UNCHANGED <<state, frameCount, clock, calls, era>>
               /\ \E described \in BOOLEAN :
                    LET m1 == IF described /\ ~ track[t].decoderConfig
                              THEN handleTrackChunk(Merge, SequenceHeader(t)) ELSE Merge
                        m2 == handleTrackChunk(m1, Frame(t, i, ts))
                    IN  /\ encoder[t].done = 0 => described
                        /\ m1 \in MergeState /\ m2 \in MergeState
                        /\ track' = [u \in Tracks |->
                             [decoderConfig |-> track[u].decoderConfig \/ (u = t /\ described),
                              queue |-> m2.queue[u],
                              lastTimestamp |-> IF u = t THEN ts ELSE track[u].lastTimestamp]]
                        /\ ready' = m2.ready /\ emitted' = m2.emitted
<1> DEFINE i == encoder[t].done + 1
           raw == encoder[t].fed[i].ts
           ts == calculateTimestamp(raw)
<1>1. i \in 1 .. Len(encoder[t].fed)
  <2>1. encoder[t].done < Len(encoder[t].fed) BY DEF handleOutput
  <2> QED BY <2>1, EncoderFields
<1>2. raw \in Nat BY <1>1, EncoderFields
<1>3. OffsetFor(raw) \in Nat /\ ts \in Nat /\ ts = Clip(raw, OffsetFor(raw))
  <2>1. offset \in Nat BY DEF TypeOK
  <2> HIDE DEF raw
  <2> QED BY <1>2, <2>1 DEF OffsetFor, calculateTimestamp, Clip
<1>4. Frame(t, i, ts) \in Chunk
  <2> HIDE DEF i, ts
  <2> QED BY <1>1, <1>3, FrameTyped
<1>5. /\ offset' = OffsetFor(raw) /\ encoder' = [encoder EXCEPT ![t].done = i]
      /\ UNCHANGED <<state, frameCount, clock, calls, era>>
  BY DEF handleOutput
<1> DEFINE m1(d) == IF d /\ ~ track[t].decoderConfig
                    THEN handleTrackChunk(Merge, SequenceHeader(t)) ELSE Merge
           m2(d) == handleTrackChunk(m1(d), Frame(t, i, ts))
<1>6. PICK described \in BOOLEAN :
        /\ encoder[t].done = 0 => described
        /\ track' = [u \in Tracks |->
             [decoderConfig |-> track[u].decoderConfig \/ (u = t /\ described),
              queue |-> m2(described).queue[u],
              lastTimestamp |-> IF u = t THEN ts ELSE track[u].lastTimestamp]]
        /\ ready' = m2(described).ready /\ emitted' = m2(described).emitted
  <2>1. \A d \in (IF encoder[t].done = 0 THEN {TRUE} ELSE BOOLEAN) :
           d \in BOOLEAN /\ (encoder[t].done = 0 => d)
    OBVIOUS
  <2> QED BY <2>1, Zenon DEF handleOutput
<1>7. m1(described) \in MergeState
  BY MergeTyped, HeaderTyped, HandleTyped
<1>8. m2(described) \in MergeState
  <2> HIDE DEF m1, i, ts
  <2> QED BY <1>4, <1>7, HandleTyped DEF m2
<1> QED BY <1>1, <1>2, <1>3, <1>4, <1>5, <1>6, <1>7, <1>8, Zenon

LEMMA TypeInit == Init => TypeOK
<1> SUFFICES ASSUME Init PROVE TypeOK OBVIOUS
<1>1. encoder \in [Tracks -> [fed : Seq(RawFrame), done : Nat]]
      /\ \A t \in Tracks : encoder[t].done <= Len(encoder[t].fed)
  BY DEF Init
<1>2. track \in [Tracks -> [decoderConfig : BOOLEAN, queue : Seq(Chunk), lastTimestamp : Nat]]
  BY DEF Init, NewTrack
<1>3. calls \in [{"pause", "stop"} -> [stage : {"none", "audio", "video"}, upto : Nat]]
  BY DEF Init, Idle
<1>4. emitted \in Seq(Chunk) /\ clock \in [Media -> Nat] /\ ready \in [Tracks -> BOOLEAN]
  BY DEF Init
<1> QED BY <1>1, <1>2, <1>3, <1>4 DEF Init, TypeOK

LEMMA CaptureTyped ==
    ASSUME TypeOK, NEW t \in Media, NEW ts \in Times[t], addTrackChunk(t, ts)
    PROVE  TypeOK'
<1>1. ts \in Nat BY StreamProcessorAssumption
<1>2. clock' \in [Media -> Nat] BY <1>1 DEF addTrackChunk, TypeOK
<1>3. UNCHANGED <<state, track, ready, offset, calls, emitted, era>> BY DEF addTrackChunk
<1>4. CASE state = "recording" /\ t \in Tracks
  <2> DEFINE r == [ts |-> ts, era |-> era, key |-> t = "audio" \/ KeyFrameDue]
  <2>1. r \in RawFrame
    <3>1. (t = "audio" \/ KeyFrameDue) \in BOOLEAN OBVIOUS
    <3> HIDE DEF KeyFrameDue
    <3>2. era \in Nat BY DEF TypeOK
    <3> QED BY <1>1, <3>1, <3>2 DEF RawFrame
  <2>2. encoder' = [encoder EXCEPT ![t].fed = Append(@, r)] BY <1>4 DEF addTrackChunk
  <2> HIDE DEF r
  <2>3. /\ encoder[t].fed \in Seq(RawFrame) /\ Append(encoder[t].fed, r) \in Seq(RawFrame)
        /\ Len(Append(encoder[t].fed, r)) = Len(encoder[t].fed) + 1
    BY <2>1, <1>4, EncoderFields
  <2>4. encoder' \in [Tracks -> [fed : Seq(RawFrame), done : Nat]]
    <3>1. PICK x : x = [encoder[t] EXCEPT !.fed = Append(@, r)] OBVIOUS
    <3>2. /\ encoder \in [Tracks -> [fed : Seq(RawFrame), done : Nat]]
          /\ encoder[t] \in [fed : Seq(RawFrame), done : Nat]
      BY <1>4 DEF TypeOK
    <3>3. x \in [fed : Seq(RawFrame), done : Nat] BY <3>1, <3>2, <2>3
    <3>4. encoder' = [encoder EXCEPT ![t] = x] BY <2>2, <3>1
    <3> QED BY <3>2, <3>3, <3>4
  <2>5. ASSUME NEW u \in Tracks PROVE encoder'[u].done <= Len(encoder'[u].fed)
    <3>1. encoder[u].done <= Len(encoder[u].fed) /\ encoder[u].done \in Nat
          /\ Len(encoder[u].fed) \in Nat
      BY EncoderFields
    <3>2. CASE u = t
      <4>1. encoder'[u].done = encoder[u].done /\ encoder'[u].fed = Append(encoder[t].fed, r)
        BY <2>2, <3>2 DEF TypeOK
      <4> QED BY <4>1, <3>1, <3>2, <2>3
    <3>3. CASE u # t
      <4>1. encoder'[u] = encoder[u] BY <2>2, <3>3 DEF TypeOK
      <4> QED BY <4>1, <3>1
    <3> QED BY <3>2, <3>3
  <2>6. frameCount' \in Nat BY <1>4 DEF addTrackChunk, TypeOK
  <2> QED BY <1>2, <1>3, <2>4, <2>5, <2>6 DEF TypeOK
<1>5. CASE ~ (state = "recording" /\ t \in Tracks)
  <2>1. UNCHANGED <<encoder, frameCount>> BY <1>5 DEF addTrackChunk
  <2> QED BY <1>2, <1>3, <2>1 DEF TypeOK
<1> QED BY <1>4, <1>5

LEMMA OutputTyped ==
    ASSUME TypeOK, NEW t \in Tracks, handleOutput(t)
    PROVE  TypeOK'
<1> DEFINE i == encoder[t].done + 1
           ts == calculateTimestamp(encoder[t].fed[i].ts)
<1>1. /\ i \in 1 .. Len(encoder[t].fed) /\ ts \in Nat /\ offset' \in Nat
      /\ encoder' = [encoder EXCEPT ![t].done = i]
      /\ UNCHANGED <<state, frameCount, clock, calls, era>>
  BY OutputStep
<1> DEFINE m1(d) == IF d /\ ~ track[t].decoderConfig
                    THEN handleTrackChunk(Merge, SequenceHeader(t)) ELSE Merge
           m2(d) == handleTrackChunk(m1(d), Frame(t, i, ts))
<1>2. PICK d \in BOOLEAN :
        /\ m2(d) \in MergeState
        /\ track' = [u \in Tracks |->
             [decoderConfig |-> track[u].decoderConfig \/ (u = t /\ d),
              queue |-> m2(d).queue[u],
              lastTimestamp |-> IF u = t THEN ts ELSE track[u].lastTimestamp]]
        /\ ready' = m2(d).ready /\ emitted' = m2(d).emitted
  BY OutputStep, Zenon
<1> HIDE DEF m2
<1> HIDE DEF i, ts
<1>3. encoder' \in [Tracks -> [fed : Seq(RawFrame), done : Nat]]
  BY <1>1 DEF TypeOK
<1>4. ASSUME NEW u \in Tracks PROVE encoder'[u].done <= Len(encoder'[u].fed)
  <2>1. encoder[u].done <= Len(encoder[u].fed) BY DEF TypeOK
  <2>2. CASE u = t
    <3>1. encoder'[u].done = i /\ encoder'[u].fed = encoder[t].fed BY <1>1, <2>2 DEF TypeOK
    <3> QED BY <3>1, <1>1, EncoderFields
  <2>3. CASE u # t
    <3>1. encoder'[u] = encoder[u] BY <1>1, <2>3 DEF TypeOK
    <3> QED BY <3>1, <2>1
  <2> QED BY <2>2, <2>3
<1>5. track' \in [Tracks -> [decoderConfig : BOOLEAN, queue : Seq(Chunk), lastTimestamp : Nat]]
  <2>1. ASSUME NEW u \in Tracks
        PROVE  /\ (track[u].decoderConfig \/ (u = t /\ d)) \in BOOLEAN
               /\ m2(d).queue[u] \in Seq(Chunk)
               /\ (IF u = t THEN ts ELSE track[u].lastTimestamp) \in Nat
    BY <1>1, <1>2, MergeFields, TrackFields
  <2> QED BY <1>2, <2>1
<1>6. ready' \in [Tracks -> BOOLEAN] /\ emitted' \in Seq(Chunk) BY <1>2, MergeFields
<1> QED BY <1>1, <1>3, <1>4, <1>5, <1>6 DEF TypeOK

(* The calls, and the end of a flush. *)
ControlStep ==
    \/ start \/ resume \/ pause \/ stop \/ PauseEnds
    \/ \E k \in {"pause", "stop"} : flush(k)

LEMMA ControlTyped ==
    ASSUME TypeOK, ControlStep
    PROVE  TypeOK' /\ UNCHANGED <<encoder, track, ready, offset, frameCount, clock, emitted, era>>
<1>1. UNCHANGED <<encoder, track, ready, offset, frameCount, clock, emitted, era>>
  BY DEF ControlStep, start, resume, pause, stop, BeginFlush, flush, PauseEnds
<1>2. state' \in {"inactive", "recording", "paused"}
  BY DEF ControlStep, start, resume, pause, stop, BeginFlush, flush, PauseEnds, TypeOK
<1>3. \A m \in Media : Fed(m) \in Nat BY EncoderFields DEF Fed
<1>4. calls' \in [{"pause", "stop"} -> [stage : {"none", "audio", "video"}, upto : Nat]]
  <2>1. CASE start \/ resume BY <2>1 DEF start, resume, TypeOK
  <2>2. CASE pause \/ stop BY <2>2, <1>3 DEF pause, stop, BeginFlush, TypeOK, Media
  <2>3. CASE PauseEnds BY <2>3 DEF PauseEnds, Idle, TypeOK
  <2>4. CASE \E k \in {"pause", "stop"} : flush(k) BY <2>4, <1>3 DEF flush, TypeOK, Media
  <2> QED BY <2>1, <2>2, <2>3, <2>4 DEF ControlStep
<1> QED BY <1>1, <1>2, <1>4 DEF TypeOK

LEMMA StopTyped == ASSUME TypeOK, StopEnds PROVE TypeOK' /\ era' > 0
<1>1. track' \in [Tracks -> [decoderConfig : BOOLEAN, queue : Seq(Chunk), lastTimestamp : Nat]]
  <2>1. track' = [t \in Tracks |-> [track[t] EXCEPT !.decoderConfig = FALSE]]
    BY DEF StopEnds, reset
  <2>2. ASSUME NEW t \in Tracks
        PROVE  [track[t] EXCEPT !.decoderConfig = FALSE]
                 \in [decoderConfig : BOOLEAN, queue : Seq(Chunk), lastTimestamp : Nat]
    <3>1. track[t] \in [decoderConfig : BOOLEAN, queue : Seq(Chunk), lastTimestamp : Nat]
      BY DEF TypeOK
    <3> QED BY <3>1
  <2> QED BY <2>1, <2>2
<1>2. calls' \in [{"pause", "stop"} -> [stage : {"none", "audio", "video"}, upto : Nat]]
  BY DEF TypeOK, StopEnds, Idle
<1>3. ready' \in [Tracks -> BOOLEAN] BY DEF StopEnds, reset
<1> QED BY <1>1, <1>2, <1>3 DEF TypeOK, StopEnds, reset

-------------------------------------------------------------------------------
(***************************************************************************)
(* The published chunks as a ledger: the first pub[t] frames of each track *)
(* t, with the timestamps at[t], in order.                                 *)
(***************************************************************************)
Ledger(e, pub, at) ==
    /\ e \in Seq(Chunk)
    /\ Sorted(e)
    /\ \A u \in Tracks :
         /\ FirstFrames(e, u, pub[u])
         /\ \A i \in DOMAIN e : IsFrameOf(e[i], u) => e[i].timestamp = at[u][e[i].frame]

(* A sequence header does not count. *)
LEMMA LedgerHeader ==
    ASSUME NEW e, NEW pub \in [Tracks -> Nat], NEW at, Ledger(e, pub, at),
           NEW c \in Chunk, c.kind = "SE"
    PROVE  Ledger(e \o <<c>>, pub, at)
<1> DEFINE x == <<c>>
<1>1. x \in Seq(Chunk) /\ DOMAIN x = {1} /\ x[1] = c OBVIOUS
<1>2. e \in Seq(Chunk) /\ Sorted(e) BY DEF Ledger
<1>3. \A u \in Tracks : \A i \in DOMAIN x : ~ IsFrameOf(x[i], u) BY <1>1 DEF IsFrameOf
<1>4. Sorted(e \o x)
  <2>1. Sorted(x) BY <1>1 DEF Sorted
  <2>2. \A i \in DOMAIN x : x[i].kind # "frame" BY <1>1
  <2> HIDE DEF x
  <2> QED BY <1>1, <1>2, <2>1, <2>2, SortedExtend
<1>5. ASSUME NEW u \in Tracks PROVE FirstFrames(e \o x, u, pub[u])
  <2>1. FirstFrames(e, u, pub[u]) /\ pub[u] \in Nat BY DEF Ledger
  <2> HIDE DEF x
  <2> QED BY <1>1, <1>2, <1>3, <2>1, FirstFramesSkip
<1>6. ASSUME NEW u \in Tracks, NEW i \in DOMAIN (e \o x), IsFrameOf((e \o x)[i], u)
      PROVE  (e \o x)[i].timestamp = at[u][(e \o x)[i].frame]
  <2>1. i \in DOMAIN e /\ (e \o x)[i] = e[i]
    <3> HIDE DEF x
    <3> QED BY <1>1, <1>2, <1>3, <1>6, ConcatAt
  <2>2. IsFrameOf(e[i], u) BY <1>6, <2>1
  <2>3. e[i].timestamp = at[u][e[i].frame] BY <2>1, <2>2 DEF Ledger
  <2> QED BY <2>1, <2>3
<1>7. e \o x \in Seq(Chunk) BY <1>1, <1>2, ConcatAt
<1> QED BY <1>4, <1>5, <1>6, <1>7 DEF Ledger

LEMMA LeTrans == \A a, b, c, d \in Nat : a <= b /\ b <= c /\ c <= d => a <= d
OBVIOUS

StampTable == [Tracks -> [Nat -> Nat]]

LEMMA StampNatural ==
    ASSUME NEW at \in StampTable, NEW u \in Tracks, NEW n \in Nat PROVE at[u][n] \in Nat
BY DEF StampTable

(* The timestamps of each track do not fall, up to its last raw frame. *)
Monotone(at, len) ==
    \A u \in Tracks : \A a, b \in 1 .. len[u] : a <= b => at[u][a] <= at[u][b]

(* x is a run of the frames of t after the first k. *)
RunOf(x, t, k, at) ==
    \A i \in DOMAIN x :
       IsFrameOf(x[i], t) /\ x[i].frame = k + i /\ x[i].timestamp = at[t][k + i]

(* Nothing published of another track is later than ts. *)
OthersUpTo(t, pub, at, ts) ==
    \A u \in Tracks : u # t /\ pub[u] > 0 => at[u][pub[u]] <= ts

LEMMA RunSorted ==
    ASSUME NEW at \in StampTable, NEW len \in [Tracks -> Nat], Monotone(at, len),
           NEW t \in Tracks, NEW k \in Nat, NEW x \in Seq(Chunk), k + Len(x) <= len[t],
           RunOf(x, t, k, at)
    PROVE  Sorted(x)
<1>1. Len(x) \in Nat /\ DOMAIN x = 1 .. Len(x) /\ len[t] \in Nat OBVIOUS
<1>2. ASSUME NEW i \in DOMAIN x, NEW j \in DOMAIN x, i < j
      PROVE  x[i].timestamp <= x[j].timestamp
  <2>1. k + i \in 1 .. len[t] /\ k + j \in 1 .. len[t] /\ k + i <= k + j
    BY <1>1, <1>2
  <2>2. at[t][k + i] <= at[t][k + j] BY <2>1 DEF Monotone
  <2> QED BY <2>2 DEF RunOf
<1> QED BY <1>2 DEF Sorted

(* The next frames of one track, none of them before a frame of the other. *)
LEMMA LedgerRun ==
    ASSUME NEW e, NEW pub \in [Tracks -> Nat], NEW at \in StampTable,
           Ledger(e, pub, at),
           NEW len \in [Tracks -> Nat], Monotone(at, len),
           \A u \in Tracks : pub[u] <= len[u],
           NEW t \in Tracks, NEW x \in Seq(Chunk), pub[t] + Len(x) <= len[t],
           RunOf(x, t, pub[t], at),
           Len(x) > 0 => OthersUpTo(t, pub, at, at[t][pub[t] + 1])
    PROVE  Ledger(e \o x, [pub EXCEPT ![t] = @ + Len(x)], at)
<1>1. e \in Seq(Chunk) /\ Sorted(e) BY DEF Ledger
<1>2. Len(x) \in Nat /\ DOMAIN x = 1 .. Len(x) /\ \A u \in Tracks : pub[u] \in Nat /\ len[u] \in Nat
  OBVIOUS
<1>3. Sorted(x) BY <1>2, RunSorted
<1>4. ASSUME NEW i \in DOMAIN e, NEW j \in DOMAIN x, e[i].kind = "frame"
      PROVE  e[i].timestamp <= x[j].timestamp
  <2>1. PICK u \in Tracks : u = e[i].track BY <1>1, ChunkFields
  <2>2. IsFrameOf(e[i], u) BY <1>4, <2>1 DEF IsFrameOf
  <2>3. PICK f \in 1 .. pub[u] : f = e[i].frame /\ e[i].timestamp = at[u][f]
    <3>1. e[i].frame \in 1 .. pub[u] BY <2>2 DEF Ledger, FirstFrames
    <3>2. e[i].timestamp = at[u][e[i].frame] BY <2>2 DEF Ledger
    <3> QED BY <3>1, <3>2
  <2>4. x[j].timestamp = at[t][pub[t] + j] BY DEF RunOf
  <2>5. /\ pub[t] + 1 \in 1 .. len[t] /\ pub[t] + j \in 1 .. len[t] /\ pub[t] + 1 <= pub[t] + j
        /\ f \in 1 .. len[u] /\ pub[u] \in 1 .. len[u] /\ f <= pub[u] /\ Len(x) > 0 /\ pub[u] > 0
    BY <1>2, <2>3
  <2>6. at[u][f] <= at[u][pub[u]] /\ at[t][pub[t] + 1] <= at[t][pub[t] + j]
    BY <2>5 DEF Monotone
  <2>7. CASE u = t
    <3>1. f <= pub[t] + j BY <2>7, <2>5, <2>3, <1>2
    <3>2. at[t][f] <= at[t][pub[t] + j] BY <3>1, <2>5, <2>7 DEF Monotone
    <3> QED BY <3>2, <2>3, <2>4, <2>7
  <2>8. CASE u # t
    <3>1. at[u][pub[u]] <= at[t][pub[t] + 1] BY <2>5, <2>8 DEF OthersUpTo
    <3>3. /\ at[u][f] \in Nat /\ at[u][pub[u]] \in Nat /\ at[t][pub[t] + 1] \in Nat
          /\ at[t][pub[t] + j] \in Nat
      <4>1. f \in Nat /\ pub[u] \in Nat /\ pub[t] + 1 \in Nat /\ pub[t] + j \in Nat
        BY <2>5, <1>2
      <4> QED BY <4>1, StampNatural
    <3>4. at[u][f] <= at[t][pub[t] + j]
      <4>1. PICK a \in Nat, b \in Nat, c \in Nat, d \in Nat :
              /\ a = at[u][f] /\ b = at[u][pub[u]]
              /\ c = at[t][pub[t] + 1] /\ d = at[t][pub[t] + j]
        BY <3>3, Zenon
      <4>2. a <= b /\ b <= c /\ c <= d BY <4>1, <3>1, <2>6, Zenon
      <4>3. a <= d BY <4>2
      <4> QED BY <4>1, <4>3, Zenon
    <3> QED BY <3>4, <2>3, <2>4
  <2> QED BY <2>7, <2>8
<1>5. Sorted(e \o x) BY <1>1, <1>3, <1>4, SortedExtend
<1>6. ASSUME NEW u \in Tracks
      PROVE  FirstFrames(e \o x, u, [pub EXCEPT ![t] = @ + Len(x)][u])
  <2>1. FirstFrames(e, u, pub[u]) BY DEF Ledger
  <2>2. CASE u = t
    <3>1. \A i \in DOMAIN x : IsFrameOf(x[i], t) /\ x[i].frame = pub[t] + i BY DEF RunOf
    <3>2. FirstFrames(e \o x, t, pub[t] + Len(x))
      BY <1>1, <1>2, <2>1, <2>2, <3>1, FirstFramesExtend
    <3> QED BY <3>2, <2>2
  <2>3. CASE u # t
    <3>1. \A i \in DOMAIN x : ~ IsFrameOf(x[i], u) BY <2>3 DEF IsFrameOf, RunOf
    <3>2. FirstFrames(e \o x, u, pub[u]) BY <1>1, <1>2, <2>1, <3>1, FirstFramesSkip
    <3> QED BY <3>2, <2>3
  <2> QED BY <2>2, <2>3
<1>7. ASSUME NEW u \in Tracks, NEW i \in DOMAIN (e \o x), IsFrameOf((e \o x)[i], u)
      PROVE  (e \o x)[i].timestamp = at[u][(e \o x)[i].frame]
  <2>1. CASE i \in DOMAIN e /\ (e \o x)[i] = e[i]
    <3>1. e[i].timestamp = at[u][e[i].frame] BY <1>7, <2>1 DEF Ledger
    <3> QED BY <3>1, <2>1
  <2>2. CASE i - Len(e) \in DOMAIN x /\ (e \o x)[i] = x[i - Len(e)]
    <3>1. u = t BY <1>7, <2>2 DEF IsFrameOf, RunOf
    <3> QED BY <3>1, <2>2 DEF RunOf
  <2>3. \/ i \in DOMAIN e /\ (e \o x)[i] = e[i]
        \/ i - Len(e) \in DOMAIN x /\ (e \o x)[i] = x[i - Len(e)]
    BY <1>1, ConcatAt
  <2> QED BY <2>1, <2>2, <2>3
<1>8. e \o x \in Seq(Chunk) BY <1>1, ConcatAt
<1> QED BY <1>5, <1>6, <1>7, <1>8 DEF Ledger

-------------------------------------------------------------------------------
(***************************************************************************)
(* One output of an encoder in the first recording.                        *)
(***************************************************************************)
Lens == [u \in Tracks |-> Len(encoder[u].fed)]

Pub == [u \in Tracks |-> Published(u)]

(* The timestamps by the offset after the output. *)
OutStamps ==
    [u \in Tracks |-> [n \in Nat |->
        IF n \in 1 .. Len(encoder[u].fed) THEN Clip(encoder[u].fed[n].ts, offset') ELSE 0]]

OutputTs(t) == calculateTimestamp(encoder[t].fed[encoder[t].done + 1].ts)

LEMMA ClipNatural ==
    ASSUME NEW a \in Nat, NEW b \in Nat, NEW o \in Nat
    PROVE  Clip(a, o) \in Nat /\ (a <= b => Clip(a, o) <= Clip(b, o)) /\ Clip(0, o) = 0
BY DEF Clip

LEMMA OutStampAt ==
    ASSUME NEW u \in Tracks, NEW n \in 1 .. Len(encoder[u].fed)
    PROVE  OutStamps[u][n] = Clip(encoder[u].fed[n].ts, offset')
BY DEF OutStamps

(* The new table of timestamps is increasing and agrees with the old one on
   what was put out before: offsetTimestamp changes only from 0, and then
   every timestamp so far was 0. *)
LEMMA OutputStamps ==
    ASSUME MergeInv, era = 0, NEW t \in Tracks, handleOutput(t)
    PROVE  /\ OutStamps \in StampTable
           /\ Lens \in [Tracks -> Nat]
           /\ Monotone(OutStamps, Lens)
           /\ \A u \in Tracks : \A n \in 1 .. encoder[u].done : OutStamps[u][n] = Stamp(u, n)
           /\ OutStamps[t][encoder[t].done + 1] = OutputTs(t)
           /\ OffsetSettled'
<1> DEFINE i == encoder[t].done + 1
           raw == encoder[t].fed[i].ts
<1>0. TypeOK /\ FedInOrder /\ OffsetSettled BY DEF MergeInv
<1>1. /\ i \in 1 .. Len(encoder[t].fed) /\ raw \in Nat /\ OutputTs(t) = Clip(raw, OffsetFor(raw))
      /\ offset' = OffsetFor(raw) /\ OffsetFor(raw) \in Nat
      /\ encoder' = [encoder EXCEPT ![t].done = i]
  BY <1>0, OutputStep DEF OutputTs
<1>2. offset \in Nat /\ offset' \in Nat BY <1>0, <1>1 DEF TypeOK
<1>3. \A u \in Tracks : /\ Len(encoder[u].fed) \in Nat /\ encoder[u].done \in Nat
                       /\ encoder[u].done <= Len(encoder[u].fed)
  BY <1>0, EncoderFields
<1>4. \A u \in Tracks : \A n \in 1 .. Len(encoder[u].fed) : encoder[u].fed[n].ts \in Nat
  BY <1>0, EncoderFields
<1>5. ASSUME NEW u \in Tracks, NEW n \in 1 .. encoder[u].done
      PROVE  OutStamps[u][n] = Stamp(u, n)
  <2>1. n \in 1 .. Len(encoder[u].fed) BY <1>3
  <2>2. OutStamps[u][n] = Clip(encoder[u].fed[n].ts, offset') BY <2>1, OutStampAt
  <2>3. CASE offset = 0
    <3>1. encoder[u].fed[n].ts = 0 BY <1>0, <2>3 DEF OffsetSettled
    <3> QED BY <3>1, <2>2, <1>2, ClipNatural DEF Stamp
  <2>4. CASE offset # 0
    <3>1. offset' = offset BY <1>1, <2>4 DEF OffsetFor
    <3> QED BY <3>1, <2>2 DEF Stamp
  <2> QED BY <2>3, <2>4
<1>6. OutStamps[t][i] = OutputTs(t) BY <1>1, OutStampAt
<1>7. OutStamps \in StampTable
  <2>1. ASSUME NEW u \in Tracks, NEW n \in Nat
        PROVE  (IF n \in 1 .. Len(encoder[u].fed) THEN Clip(encoder[u].fed[n].ts, offset') ELSE 0)
                 \in Nat
    BY <1>2, <1>4, ClipNatural
  <2> QED BY <2>1 DEF OutStamps, StampTable
<1>8. Lens \in [Tracks -> Nat] BY <1>3 DEF Lens
<1>9. ASSUME NEW u \in Tracks, NEW a \in 1 .. Lens[u], NEW b \in 1 .. Lens[u], a <= b
      PROVE  OutStamps[u][a] <= OutStamps[u][b]
  <2>1. a \in 1 .. Len(encoder[u].fed) /\ b \in 1 .. Len(encoder[u].fed) BY DEF Lens
  <2>2. encoder[u].fed[a].ts <= encoder[u].fed[b].ts BY <1>0, <1>9, <2>1 DEF FedInOrder
  <2>3. Clip(encoder[u].fed[a].ts, offset') <= Clip(encoder[u].fed[b].ts, offset')
    BY <1>2, <1>4, <2>1, <2>2, ClipNatural
  <2> QED BY <2>1, <2>3, OutStampAt
<1>10. OffsetSettled'
  <2> SUFFICES ASSUME offset' = 0, NEW u \in Tracks, NEW n \in 1 .. encoder'[u].done
               PROVE  encoder'[u].fed[n].ts = 0
    BY DEF OffsetSettled
  <2>1. offset = 0 /\ raw = 0 
    <3> HIDE DEF raw
    <3> QED BY <1>1, <1>2 DEF OffsetFor
  <2>2. encoder'[u].fed = encoder[u].fed /\ encoder'[u].done = IF u = t THEN i ELSE encoder[u].done
    BY <1>0, <1>1 DEF TypeOK
  <2>3. CASE n \in 1 .. encoder[u].done BY <2>1, <2>2, <2>3, <1>0 DEF OffsetSettled
  <2>4. CASE n \notin 1 .. encoder[u].done
    <3>1. u = t /\ n = i BY <2>2, <2>4, <1>3
    <3> QED BY <3>1, <2>1, <2>2
  <2> QED BY <2>3, <2>4
<1> QED BY <1>5, <1>6, <1>7, <1>8, <1>9, <1>10 DEF Monotone

(* The ledger before the output. *)
LEMMA OldLedger ==
    ASSUME MergeInv, era = 0, NEW t \in Tracks, handleOutput(t)
    PROVE  /\ Pub \in [Tracks -> Nat] 
           /\ Ledger(emitted, Pub, OutStamps)
           /\ \A u \in Tracks :
                 /\ Pub[u] = Published(u)
                 /\ Pub[u] <= encoder[u].done /\ encoder[u].done <= Lens[u]
                 /\ Pub[u] + Len(track[u].queue) = encoder[u].done
                 /\ RunOf(track[u].queue, u, Pub[u], OutStamps)
<1>0. TypeOK /\ Stamped /\ NothingLost /\ InOrder BY DEF MergeInv
<1>1. ASSUME NEW u \in Tracks
      PROVE  /\ Pub[u] = Published(u) /\ Pub[u] \in Nat /\ Pub[u] <= encoder[u].done
             /\ encoder[u].done \in Nat /\ encoder[u].done <= Lens[u]
             /\ Len(track[u].queue) \in Nat
             /\ Pub[u] + Len(track[u].queue) = encoder[u].done
  <2>1. Published(u) >= 0 BY <1>0 DEF NothingLost
  <2>2. Len(track[u].queue) \in Nat /\ encoder[u].done \in Nat BY <1>0, EncoderFields, TrackFields
  <2>3. encoder[u].done <= Lens[u] BY <1>0, EncoderFields DEF Lens
  <2> QED BY <2>1, <2>2, <2>3 DEF Pub, Published
<1>2. Pub \in [Tracks -> Nat] BY <1>1 DEF Pub
<1>3. ASSUME NEW u \in Tracks, NEW n \in 1 .. encoder[u].done PROVE OutStamps[u][n] = Stamp(u, n)
  BY OutputStamps
<1>4. ASSUME NEW u \in Tracks PROVE RunOf(track[u].queue, u, Pub[u], OutStamps)
  <2> DEFINE q == track[u].queue
  <2>1. DOMAIN q = 1 .. Len(q) BY <1>0, TrackFields
  <2> SUFFICES ASSUME NEW i \in 1 .. Len(q)
               PROVE  /\ IsFrameOf(q[i], u) /\ q[i].frame = Pub[u] + i
                      /\ q[i].timestamp = OutStamps[u][Pub[u] + i]
    BY <2>1 DEF RunOf
  <2>2. IsFrameOf(q[i], u) /\ q[i].frame = Pub[u] + i BY <1>0, <1>1 DEF NothingLost
  <2>3. q[i].timestamp = Stamp(u, q[i].frame) BY <1>0 DEF Stamped
  <2>4. Pub[u] + i \in 1 .. encoder[u].done BY <1>1
  <2> QED BY <2>2, <2>3, <2>4, <1>3
<1>5. ASSUME NEW u \in Tracks
      PROVE  /\ FirstFrames(emitted, u, Pub[u])
             /\ \A i \in DOMAIN emitted : IsFrameOf(emitted[i], u)
                   => emitted[i].timestamp = OutStamps[u][emitted[i].frame]
  <2>1. FirstFrames(emitted, u, Pub[u]) BY <1>0, <1>1 DEF NothingLost
  <2>2. ASSUME NEW i \in DOMAIN emitted, IsFrameOf(emitted[i], u)
        PROVE  emitted[i].timestamp = OutStamps[u][emitted[i].frame]
    <3>1. emitted[i].frame \in 1 .. Pub[u] BY <2>1, <2>2 DEF FirstFrames
    <3>2. emitted[i].frame \in 1 .. encoder[u].done BY <3>1, <1>1
    <3>3. emitted[i].timestamp = Stamp(u, emitted[i].frame) BY <2>2, <1>0 DEF Stamped
    <3> QED BY <3>2, <3>3, <1>3
  <2> QED BY <2>1, <2>2
<1>6. emitted \in Seq(Chunk) /\ Sorted(emitted) BY <1>0 DEF InOrder, TypeOK
<1>7. Ledger(emitted, Pub, OutStamps) BY <1>5, <1>6 DEF Ledger
<1> QED BY <1>1, <1>2, <1>4, <1>7

(* A timestamp after the output. *)
NewStamp(u, n) == Clip(encoder'[u].fed[n].ts, offset')

LEMMA EncoderAfter ==
    ASSUME TypeOK, NEW t \in Tracks, handleOutput(t), NEW u \in Tracks
    PROVE  /\ encoder'[u].fed = encoder[u].fed
           /\ encoder'[u].done = IF u = t THEN encoder[t].done + 1 ELSE encoder[u].done
           /\ encoder[u].done \in Nat /\ Len(encoder[u].fed) \in Nat
           /\ encoder[u].done <= encoder'[u].done
           /\ encoder'[u].done \in 0 .. Len(encoder[u].fed)
           /\ \A n \in 1 .. encoder'[u].done : NewStamp(u, n) = OutStamps[u][n]
<1> DEFINE i == encoder[t].done + 1
<1>1. i \in 1 .. Len(encoder[t].fed) /\ encoder' = [encoder EXCEPT ![t].done = i]
  BY OutputStep
<1>2. encoder'[u].fed = encoder[u].fed /\ encoder'[u].done = IF u = t THEN i ELSE encoder[u].done
  <2> HIDE DEF i
  <2> QED BY <1>1 DEF TypeOK
<1>3. /\ encoder[u].done \in Nat /\ Len(encoder[u].fed) \in Nat
      /\ encoder[u].done <= Len(encoder[u].fed)
  BY EncoderFields
<1>4. encoder'[u].done \in 0 .. Len(encoder[u].fed) /\ encoder[u].done <= encoder'[u].done
  BY <1>1, <1>2, <1>3
<1>5. ASSUME NEW n \in 1 .. encoder'[u].done PROVE NewStamp(u, n) = OutStamps[u][n]
  <2>1. n \in 1 .. Len(encoder[u].fed) BY <1>3, <1>4
  <2>2. NewStamp(u, n) = Clip(encoder[u].fed[n].ts, offset') BY <1>2 DEF NewStamp
  <2> QED BY <2>1, <2>2, OutStampAt
<1> QED BY <1>2, <1>3, <1>4, <1>5

OutputFrame(t) == Frame(t, encoder[t].done + 1, OutputTs(t))

AfterHeader(t, described) ==
    IF described /\ ~ track[t].decoderConfig
    THEN handleTrackChunk(Merge, SequenceHeader(t)) ELSE Merge

(* lastTimestamp is set to the timestamp of the output. *)
LEMMA LastAfter ==
    ASSUME MergeInv, era = 0, NEW t \in Tracks, handleOutput(t), NEW u \in Tracks
    PROVE  /\ track'[u].lastTimestamp = IF u = t THEN OutputTs(t) ELSE track[u].lastTimestamp
           /\ track'[u].lastTimestamp
                = IF encoder'[u].done = 0 THEN 0 ELSE NewStamp(u, encoder'[u].done)
<1>0. TypeOK /\ Stamped BY DEF MergeInv
<1>1. track'[u].lastTimestamp = IF u = t THEN OutputTs(t) ELSE track[u].lastTimestamp
  <2> DEFINE m(d) == handleTrackChunk(AfterHeader(t, d), OutputFrame(t))
  <2>1. PICK d \in BOOLEAN :
          track' = [v \in Tracks |->
             [decoderConfig |-> track[v].decoderConfig \/ (v = t /\ d),
              queue |-> m(d).queue[v],
              lastTimestamp |-> IF v = t THEN OutputTs(t) ELSE track[v].lastTimestamp]]
    BY <1>0, OutputStep, Zenon DEF OutputFrame, OutputTs, AfterHeader
  <2> HIDE DEF m
  <2>2. track'[u] = [decoderConfig |-> track[u].decoderConfig \/ (u = t /\ d),
                     queue |-> m(d).queue[u],
                     lastTimestamp |-> IF u = t THEN OutputTs(t) ELSE track[u].lastTimestamp]
    BY <2>1, Zenon
  <2> QED BY <2>2
<1>2. CASE u = t
  <2>1. encoder'[t].done = encoder[t].done + 1 /\ encoder'[t].done # 0
        /\ encoder'[t].done \in 1 .. encoder'[t].done
    BY <1>0, EncoderAfter
  <2>2. NewStamp(t, encoder'[t].done) = OutStamps[t][encoder'[t].done]
    BY <2>1, <1>0, EncoderAfter
  <2>3. OutStamps[t][encoder'[t].done] = OutputTs(t) BY <2>1, OutputStamps
  <2> QED BY <1>1, <1>2, <2>1, <2>2, <2>3
<1>3. CASE u # t
  <2>1. encoder'[u].done = encoder[u].done /\ encoder[u].done \in Nat
    BY <1>0, <1>3, EncoderAfter
  <2>2. track[u].lastTimestamp = IF encoder[u].done = 0 THEN 0 ELSE Stamp(u, encoder[u].done)
    BY <1>0 DEF Stamped
  <2>3. CASE encoder[u].done = 0 BY <1>1, <1>3, <2>1, <2>2, <2>3
  <2>4. CASE encoder[u].done # 0
    <3>1. encoder[u].done \in 1 .. encoder[u].done BY <2>1, <2>4
    <3>2. OutStamps[u][encoder[u].done] = Stamp(u, encoder[u].done) BY <3>1, OutputStamps
    <3>3. NewStamp(u, encoder[u].done) = OutStamps[u][encoder[u].done]
      BY <3>1, <2>1, <1>0, EncoderAfter
    <3> QED BY <1>1, <1>3, <2>1, <2>2, <2>4, <3>2, <3>3
  <2> QED BY <2>3, <2>4
<1> QED BY <1>1, <1>2, <1>3

(* The ledger after the output gives the invariants of the published and the
   queued chunks. *)
LedgerAfter(pub) ==
    /\ Ledger(emitted', pub, OutStamps)
    /\ \A u \in Tracks : /\ RunOf(track'[u].queue, u, pub[u], OutStamps)
                         /\ pub[u] + Len(track'[u].queue) = encoder'[u].done

LEMMA NewLedger ==
    ASSUME MergeInv, era = 0, NEW t \in Tracks, handleOutput(t), TypeOK',
           NEW pub \in [Tracks -> Nat], LedgerAfter(pub)
    PROVE  /\ NothingLost' /\ InOrder' /\ Stamped'
           /\ \A u \in Tracks : encoder'[u].done - Len(track'[u].queue) = pub[u]
<1>0. TypeOK /\ Ledger(emitted', pub, OutStamps) BY DEF MergeInv, LedgerAfter
<1>1. ASSUME NEW u \in Tracks
      PROVE  /\ encoder'[u].done - Len(track'[u].queue) = pub[u]
             /\ pub[u] \in Nat /\ Len(track'[u].queue) \in Nat
             /\ DOMAIN track'[u].queue = 1 .. Len(track'[u].queue)
             /\ pub[u] + Len(track'[u].queue) = encoder'[u].done
             /\ RunOf(track'[u].queue, u, pub[u], OutStamps)
  <2>1. track'[u].queue \in Seq(Chunk) BY DEF TypeOK
  <2>2. pub[u] \in Nat /\ Len(track'[u].queue) \in Nat BY <2>1
  <2>3. /\ pub[u] + Len(track'[u].queue) = encoder'[u].done
        /\ RunOf(track'[u].queue, u, pub[u], OutStamps)
    BY DEF LedgerAfter
  <2> QED BY <2>1, <2>2, <2>3
<1>2. NothingLost'
  <2>1. ASSUME NEW u \in Tracks
        PROVE  /\ encoder'[u].done - Len(track'[u].queue) >= 0
               /\ FirstFrames(emitted', u, encoder'[u].done - Len(track'[u].queue))
               /\ \A k \in 1 .. Len(track'[u].queue) :
                     /\ IsFrameOf(track'[u].queue[k], u)
                     /\ track'[u].queue[k].frame
                          = (encoder'[u].done - Len(track'[u].queue)) + k
    BY <1>0, <1>1 DEF RunOf, Ledger
  <2> QED BY <2>1 DEF NothingLost, Published
<1>3. InOrder' BY <1>0 DEF InOrder, Ledger
<1>4. ASSUME NEW u \in Tracks, NEW k \in 1 .. Len(track'[u].queue)
      PROVE  track'[u].queue[k].timestamp = NewStamp(u, track'[u].queue[k].frame)
  <2>1. /\ track'[u].queue[k].frame = pub[u] + k
        /\ track'[u].queue[k].timestamp = OutStamps[u][pub[u] + k]
    BY <1>1 DEF RunOf
  <2>2. pub[u] + k \in 1 .. encoder'[u].done BY <1>1
  <2>3. NewStamp(u, pub[u] + k) = OutStamps[u][pub[u] + k] BY <2>2, <1>0, EncoderAfter
  <2> QED BY <2>1, <2>3
<1>5. ASSUME NEW u \in Tracks, NEW k \in DOMAIN emitted', IsFrameOf(emitted'[k], u)
      PROVE  emitted'[k].timestamp = NewStamp(u, emitted'[k].frame)
  <2>1. emitted'[k].frame \in 1 .. pub[u] BY <1>0, <1>5 DEF Ledger, FirstFrames
  <2>2. emitted'[k].frame \in 1 .. encoder'[u].done BY <2>1, <1>1
  <2>3. emitted'[k].timestamp = OutStamps[u][emitted'[k].frame] BY <1>0, <1>5 DEF Ledger
  <2>4. NewStamp(u, emitted'[k].frame) = OutStamps[u][emitted'[k].frame]
    BY <2>2, <1>0, EncoderAfter
  <2> QED BY <2>3, <2>4
<1>6. Stamped'
  <2>1. \A u \in Tracks : track'[u].lastTimestamp
            = IF encoder'[u].done = 0 THEN 0 ELSE NewStamp(u, encoder'[u].done)
    BY LastAfter
  <2> QED BY <1>4, <1>5, <2>1 DEF Stamped, Stamp, NewStamp
<1> QED BY <1>1, <1>2, <1>3, <1>6

(* Runs: the parts of a queue that is cut, and a queue that grows. *)
LEMMA RunCut ==
    ASSUME NEW q \in Seq(Chunk), NEW t, NEW k \in Nat, NEW at, RunOf(q, t, k, at),
           NEW n \in 0 .. Len(q)
    PROVE  /\ RunOf(SubSeq(q, 1, n), t, k, at)
           /\ RunOf(SubSeq(q, n + 1, Len(q)), t, k + n, at)
<1> DEFINE a == SubSeq(q, 1, n)
           b == SubSeq(q, n + 1, Len(q))
<1>1. /\ a \in Seq(Chunk) /\ Len(a) = n /\ \A i \in 1 .. n : a[i] = q[i]
      /\ b \in Seq(Chunk) /\ Len(b) = Len(q) - n /\ \A i \in 1 .. Len(q) - n : b[i] = q[n + i]
  BY CutAt
<1>2. Len(q) \in Nat /\ DOMAIN q = 1 .. Len(q) OBVIOUS
<1> HIDE DEF a, b
<1>3. DOMAIN a = 1 .. n /\ DOMAIN b = 1 .. Len(q) - n BY <1>1
<1>4. RunOf(a, t, k, at) BY <1>1, <1>2, <1>3 DEF RunOf
<1>5. ASSUME NEW i \in DOMAIN b
      PROVE  /\ IsFrameOf(b[i], t) /\ b[i].frame = (k + n) + i
             /\ b[i].timestamp = at[t][(k + n) + i]
  <2>1. n + i \in DOMAIN q /\ k + (n + i) = (k + n) + i BY <1>2, <1>3
  <2>2. b[i] = q[n + i] BY <1>1, <1>3
  <2>3. /\ IsFrameOf(q[n + i], t) /\ q[n + i].frame = k + (n + i)
        /\ q[n + i].timestamp = at[t][k + (n + i)]
    BY <2>1 DEF RunOf
  <2> QED BY <2>1, <2>2, <2>3
<1> QED BY <1>4, <1>5 DEF RunOf, a, b

LEMMA RunAppend ==
    ASSUME NEW q \in Seq(Chunk), NEW t, NEW k \in Nat, NEW at, RunOf(q, t, k, at),
           NEW c \in Chunk, IsFrameOf(c, t), c.frame = k + Len(q) + 1, c.timestamp = at[t][c.frame]
    PROVE  RunOf(Append(q, c), t, k, at)
<1>1. /\ DOMAIN Append(q, c) = 1 .. Len(q) + 1 /\ Len(q) \in Nat /\ DOMAIN q = 1 .. Len(q)
      /\ \A i \in 1 .. Len(q) : Append(q, c)[i] = q[i]
      /\ Append(q, c)[Len(q) + 1] = c
  OBVIOUS
<1> SUFFICES ASSUME NEW i \in 1 .. Len(q) + 1
             PROVE  /\ IsFrameOf(Append(q, c)[i], t) /\ Append(q, c)[i].frame = k + i
                    /\ Append(q, c)[i].timestamp = at[t][k + i]
  BY <1>1 DEF RunOf
<1>2. CASE i = Len(q) + 1
  <2>1. k + Len(q) + 1 = k + i BY <1>1, <1>2
  <2> QED BY <1>1, <1>2, <2>1
<1>3. CASE i \in DOMAIN q BY <1>1, <1>3 DEF RunOf
<1> QED BY <1>1, <1>2, <1>3

LEMMA QueueGrows ==
    ASSUME NEW q \in Seq(Chunk), NEW t, NEW k \in Nat, NEW at, RunOf(q, t, k, at),
           NEW n \in Nat, k + Len(q) = n,
           NEW c \in Chunk, IsFrameOf(c, t), c.frame = n + 1, c.timestamp = at[t][c.frame]
    PROVE  RunOf(Append(q, c), t, k, at) /\ k + Len(Append(q, c)) = n + 1
<1>1. Len(Append(q, c)) = Len(q) + 1 /\ Len(q) \in Nat OBVIOUS
<1>2. c.frame = k + Len(q) + 1 /\ k + (Len(q) + 1) = n + 1 BY <1>1
<1>3. RunOf(Append(q, c), t, k, at) BY <1>2, RunAppend
<1> QED BY <1>1, <1>2, <1>3

LEMMA RunSingle ==
    ASSUME NEW t, NEW k \in Nat, NEW at,
           NEW c \in Chunk, IsFrameOf(c, t), c.frame = k + 1, c.timestamp = at[t][c.frame]
    PROVE  <<c>> \in Seq(Chunk) /\ Len(<<c>>) = 1 /\ RunOf(<<c>>, t, k, at)
BY DEF RunOf

(* The chunk of the output, and what its sequence header leaves behind. *)
LEMMA OutputFrameFacts ==
    ASSUME MergeInv, era = 0, NEW t \in Tracks, handleOutput(t)
    PROVE  /\ OutputFrame(t) \in Chunk /\ OutputFrame(t).track = t
           /\ OutputFrame(t).kind = "frame" /\ IsFrameOf(OutputFrame(t), t)
           /\ OutputFrame(t).frame = encoder[t].done + 1
           /\ OutputFrame(t).timestamp = OutputTs(t) /\ OutputTs(t) \in Nat
           /\ OutputTs(t) = OutStamps[t][encoder[t].done + 1]
           /\ encoder[t].done + 1 <= Lens[t]
<1>0. TypeOK BY DEF MergeInv
<1>1. encoder[t].done + 1 \in 1 .. Len(encoder[t].fed) /\ OutputTs(t) \in Nat
  BY <1>0, OutputStep DEF OutputTs
<1>2. /\ OutputFrame(t) \in Chunk /\ OutputFrame(t).kind = "frame"
      /\ OutputFrame(t).track = t /\ OutputFrame(t).timestamp = OutputTs(t)
      /\ OutputFrame(t).frame = encoder[t].done + 1
  BY <1>0, <1>1, FrameTyped DEF OutputFrame
<1>3. encoder[t].done + 1 <= Lens[t] BY <1>1 DEF Lens
<1>4. OutputTs(t) = OutStamps[t][encoder[t].done + 1] BY OutputStamps
<1>5. IsFrameOf(OutputFrame(t), t) BY <1>2 DEF IsFrameOf
<1> QED BY <1>1, <1>2, <1>3, <1>4, <1>5

(* If the frame is queued, the queue goes on being a run. *)
LEMMA OutputQueued ==
    ASSUME MergeInv, era = 0, NEW t \in Tracks, handleOutput(t)
    PROVE  /\ RunOf(Append(track[t].queue, OutputFrame(t)), t, Pub[t], OutStamps)
           /\ Pub[t] + Len(Append(track[t].queue, OutputFrame(t))) = encoder[t].done + 1
<1>0. TypeOK BY DEF MergeInv
<1>1. PICK q \in Seq(Chunk) : q = track[t].queue BY <1>0, TrackFields
<1>2. PICK k \in Nat : k = Pub[t] BY OldLedger
<1>3. PICK n \in Nat : n = encoder[t].done BY <1>0, EncoderFields
<1>4. PICK c \in Chunk : c = OutputFrame(t) BY OutputFrameFacts
<1>5. RunOf(q, t, k, OutStamps) /\ k + Len(q) = n BY <1>1, <1>2, <1>3, OldLedger
<1>6. IsFrameOf(c, t) /\ c.frame = n + 1 /\ c.timestamp = OutStamps[t][c.frame]
  BY <1>3, <1>4, OutputFrameFacts
<1>7. RunOf(Append(q, c), t, k, OutStamps) /\ k + Len(Append(q, c)) = n + 1
  BY <1>5, <1>6, QueueGrows
<1> QED BY <1>1, <1>2, <1>3, <1>4, <1>7

LEMMA HeaderStage ==
    ASSUME MergeInv, era = 0, NEW t \in Tracks, handleOutput(t),
           NEW d \in BOOLEAN, encoder[t].done = 0 => d
    PROVE  /\ AfterHeader(t, d) \in MergeState
           /\ \A u \in Tracks : AfterHeader(t, d).queue[u] = track[u].queue
           /\ Ledger(AfterHeader(t, d).emitted, Pub, OutStamps)
           /\ Cardinality(Tracks) # 1 =>
                \A u \in Tracks : AfterHeader(t, d).ready[u] <=> (u = t \/ ready[u])
<1> DEFINE h == SequenceHeader(t)
<1>0. TypeOK /\ ConfigFirst BY DEF MergeInv
<1>1. /\ Merge \in MergeState /\ Merge.queue = [u \in Tracks |-> track[u].queue]
      /\ Merge.ready = ready /\ Merge.emitted = emitted
  BY <1>0, MergeTyped
<1>2. Ledger(emitted, Pub, OutStamps) /\ Pub \in [Tracks -> Nat] BY OldLedger
<1>3. h \in Chunk /\ h.kind = "SE" /\ h.track = t /\ <<h>> \in Seq(Chunk) BY <1>0, HeaderTyped
<1> HIDE DEF h
<1>4. CASE d /\ ~ track[t].decoderConfig
  <2>1. AfterHeader(t, d) = handleTrackChunk(Merge, h) BY <1>4 DEF AfterHeader, h
  <2>2. Ledger(emitted \o <<h>>, Pub, OutStamps) BY <1>2, <1>3, LedgerHeader
  <2>3. CASE Cardinality(Tracks) = 1
    <3>1. AfterHeader(t, d) = publishChunk(Merge, <<h>>) BY <2>1, <2>3 DEF handleTrackChunk
    <3>2. /\ publishChunk(Merge, <<h>>) \in MergeState
          /\ publishChunk(Merge, <<h>>).queue = Merge.queue
          /\ publishChunk(Merge, <<h>>).emitted = Merge.emitted \o <<h>>
      BY <1>1, <1>3, PublishEffect
    <3>3. /\ AfterHeader(t, d) \in MergeState /\ AfterHeader(t, d).queue = Merge.queue
          /\ AfterHeader(t, d).emitted = emitted \o <<h>>
      BY <3>1, <3>2, <1>1, Zenon
    <3>4. \A u \in Tracks : AfterHeader(t, d).queue[u] = track[u].queue BY <3>3, <1>1
    <3>5. Ledger(AfterHeader(t, d).emitted, Pub, OutStamps) BY <3>3, <2>2, Zenon
    <3> QED BY <3>3, <3>4, <3>5, <2>3, Zenon
  <2>4. CASE Cardinality(Tracks) # 1
    <3> DEFINE r == setConfigReady(Merge, t)
    <3>1. AfterHeader(t, d) = publishChunk(r, <<h>>) BY <2>1, <2>4, <1>3 DEF handleTrackChunk
    <3>2. /\ r \in MergeState /\ r.queue = Merge.queue /\ r.emitted = emitted
          /\ r.ready = [ready EXCEPT ![t] = TRUE]
      BY <1>1, ReadyEffect
    <3> HIDE DEF r
    <3>3. /\ AfterHeader(t, d) \in MergeState /\ AfterHeader(t, d).queue = Merge.queue
          /\ AfterHeader(t, d).emitted = emitted \o <<h>>
          /\ AfterHeader(t, d).ready = [ready EXCEPT ![t] = TRUE]
      <4>1. /\ publishChunk(r, <<h>>) \in MergeState
            /\ publishChunk(r, <<h>>).queue = r.queue
            /\ publishChunk(r, <<h>>).ready = r.ready
            /\ publishChunk(r, <<h>>).emitted = r.emitted \o <<h>>
        BY <3>2, <1>3, PublishEffect
      <4> QED BY <4>1, <3>1, <3>2
    <3>4. \A u \in Tracks : [ready EXCEPT ![t] = TRUE][u] <=> (u = t \/ ready[u])
      BY <1>0 DEF TypeOK
    <3> QED BY <3>3, <3>4, <1>1, <2>2
  <2> QED BY <2>3, <2>4
<1>5. CASE ~ (d /\ ~ track[t].decoderConfig)
  <2>1. AfterHeader(t, d) = Merge BY <1>5 DEF AfterHeader
  <2>2. Cardinality(Tracks) # 1 => ready[t]
    <3>1. encoder[t].done > 0
      <4>1. track[t].decoderConfig <=> encoder[t].done > 0 BY <1>0 DEF ConfigFirst
      <4>2. encoder[t].done \in Nat BY <1>0, EncoderFields
      <4> QED BY <4>1, <4>2, <1>5
    <3> QED BY <3>1, <1>0 DEF ConfigFirst
  <2> QED BY <2>1, <2>2, <1>1, <1>2
<1> QED BY <1>4, <1>5

LEMMA OutputEffect ==
    ASSUME MergeInv, era = 0, NEW t \in Tracks, handleOutput(t)
    PROVE  \E d \in BOOLEAN :
             LET m == handleTrackChunk(AfterHeader(t, d), OutputFrame(t))
             IN  /\ encoder[t].done = 0 => d
                 /\ \A u \in Tracks :
                      /\ track'[u].queue = m.queue[u]
                      /\ track'[u].decoderConfig <=> track[u].decoderConfig \/ (u = t /\ d)
                 /\ ready' = m.ready /\ emitted' = m.emitted
<1> DEFINE m(d) == handleTrackChunk(AfterHeader(t, d), OutputFrame(t))
<1>0. TypeOK BY DEF MergeInv
<1>1. PICK d \in BOOLEAN :
        /\ encoder[t].done = 0 => d
        /\ track' = [u \in Tracks |->
             [decoderConfig |-> track[u].decoderConfig \/ (u = t /\ d),
              queue |-> m(d).queue[u],
              lastTimestamp |-> IF u = t THEN OutputTs(t) ELSE track[u].lastTimestamp]]
        /\ ready' = m(d).ready /\ emitted' = m(d).emitted
  BY <1>0, OutputStep, Zenon DEF OutputFrame, OutputTs, AfterHeader
<1> HIDE DEF m
<1>2. \A u \in Tracks : /\ track'[u].queue = m(d).queue[u]
                       /\ track'[u].decoderConfig <=> track[u].decoderConfig \/ (u = t /\ d)
  BY <1>1
<1> QED BY <1>1, <1>2 DEF m

(* The first output brings the configuration; a frame leaves it. *)
LEMMA ConfigAfter ==
    ASSUME MergeInv, era = 0, NEW t \in Tracks, handleOutput(t), NEW d \in BOOLEAN,
           encoder[t].done = 0 => d,
           \A u \in Tracks : track'[u].decoderConfig <=> track[u].decoderConfig \/ (u = t /\ d),
           Cardinality(Tracks) # 1 => \A u \in Tracks : ready'[u] <=> (u = t \/ ready[u])
    PROVE  ConfigFirst'
<1>0. TypeOK /\ ConfigFirst BY DEF MergeInv
<1> SUFFICES ASSUME NEW u \in Tracks
             PROVE  /\ track'[u].decoderConfig <=> encoder'[u].done > 0
                    /\ Cardinality(Tracks) # 1 => (ready'[u] <=> encoder'[u].done > 0)
  BY DEF ConfigFirst
<1>1. /\ encoder[u].done \in Nat /\ encoder'[u].done = IF u = t THEN encoder[t].done + 1
                                                                ELSE encoder[u].done
  BY <1>0, EncoderAfter
<1>2. /\ track[u].decoderConfig <=> encoder[u].done > 0
      /\ Cardinality(Tracks) # 1 => (ready[u] <=> encoder[u].done > 0)
  BY <1>0 DEF ConfigFirst
<1> QED BY <1>1, <1>2

(* A single track: the frame is published at once. *)
LEMMA SingleOutput ==
    ASSUME MergeInv, era = 0, NEW t \in Tracks, handleOutput(t), TypeOK', Cardinality(Tracks) = 1
    PROVE  /\ NothingLost' /\ InOrder' /\ Stamped' /\ ConfigFirst' /\ HeldBack'
           /\ NoOverdueChunk'
<1> DEFINE c == OutputFrame(t)
           pub == [Pub EXCEPT ![t] = @ + 1]
<1>0. TypeOK /\ HeldBack BY DEF MergeInv
<1>1. PICK d \in BOOLEAN :
        /\ encoder[t].done = 0 => d
        /\ \A u \in Tracks :
             /\ track'[u].queue = handleTrackChunk(AfterHeader(t, d), c).queue[u]
             /\ track'[u].decoderConfig <=> track[u].decoderConfig \/ (u = t /\ d)
        /\ ready' = handleTrackChunk(AfterHeader(t, d), c).ready
        /\ emitted' = handleTrackChunk(AfterHeader(t, d), c).emitted
  BY OutputEffect
<1> DEFINE m1 == AfterHeader(t, d)
<1>2. /\ m1 \in MergeState /\ \A u \in Tracks : m1.queue[u] = track[u].queue
      /\ Ledger(m1.emitted, Pub, OutStamps)
  BY <1>1, HeaderStage
<1>3. /\ c \in Chunk /\ IsFrameOf(c, t) /\ c.frame = encoder[t].done + 1
      /\ c.timestamp = OutStamps[t][encoder[t].done + 1] /\ encoder[t].done + 1 <= Lens[t]
  BY OutputFrameFacts
<1>4. handleTrackChunk(m1, c) = publishChunk(m1, <<c>>) BY DEF handleTrackChunk
<1> HIDE DEF m1, c
<1>5. <<c>> \in Seq(Chunk) BY <1>3
<1>6. /\ publishChunk(m1, <<c>>).queue = m1.queue
      /\ publishChunk(m1, <<c>>).emitted = m1.emitted \o <<c>>
  BY <1>2, <1>5, PublishEffect
<1>7. emitted' = m1.emitted \o <<c>> /\ \A u \in Tracks : track'[u].queue = track[u].queue
  BY <1>1, <1>2, <1>4, <1>6 DEF m1
<1>8. \A u \in Tracks : u = t
  <2>1. PICK v : Tracks = {v} BY FS_Singleton, TracksFinite
  <2> QED BY <2>1
<1>9. \A u \in Tracks : track[u].queue = <<>> BY <1>0 DEF HeldBack
<1>10. /\ Pub \in [Tracks -> Nat] /\ Pub[t] + Len(track[t].queue) = encoder[t].done
       /\ Pub[t] <= Lens[t] /\ encoder[t].done <= Lens[t]
  <2>1. Pub[t] <= encoder[t].done /\ encoder[t].done <= Lens[t] /\ Pub \in [Tracks -> Nat]
        /\ Pub[t] + Len(track[t].queue) = encoder[t].done
    BY OldLedger
  <2>2. encoder[t].done \in Nat /\ Lens[t] \in Nat BY <1>0, EncoderFields DEF Lens
  <2> QED BY <2>1, <2>2
<1>11. Pub[t] = encoder[t].done
  BY <1>9, <1>10
<1>12. OutStamps \in StampTable /\ Lens \in [Tracks -> Nat] /\ Monotone(OutStamps, Lens)
  BY OutputStamps
<1>13. Ledger(emitted', pub, OutStamps)
  <2>1. RunOf(<<c>>, t, Pub[t], OutStamps) /\ Len(<<c>>) = 1
    <3>1. Pub[t] \in Nat BY <1>10
    <3> QED BY <3>1, <1>3, <1>11, RunSingle
  <2>2. OthersUpTo(t, Pub, OutStamps, OutStamps[t][Pub[t] + 1]) BY <1>8 DEF OthersUpTo
  <2>3. \A u \in Tracks : Pub[u] <= Lens[u] BY <1>8, <1>10
  <2>4. Pub[t] + Len(<<c>>) <= Lens[t] BY <2>1, <1>3, <1>11
  <2>5. Ledger(m1.emitted \o <<c>>, [Pub EXCEPT ![t] = @ + Len(<<c>>)], OutStamps)
    BY <2>1, <2>2, <2>3, <2>4, <1>2, <1>5, <1>10, <1>12, LedgerRun
  <2> QED BY <2>1, <2>5, <1>7
<1>14. pub \in [Tracks -> Nat] BY <1>10
<1>15. LedgerAfter(pub)
  <2> SUFFICES ASSUME NEW u \in Tracks
               PROVE  /\ RunOf(track'[u].queue, u, pub[u], OutStamps)
                      /\ pub[u] + Len(track'[u].queue) = encoder'[u].done
    BY <1>13 DEF LedgerAfter
  <2>1. u = t /\ track'[u].queue = <<>> BY <1>7, <1>8, <1>9
  <2>2. RunOf(<<>>, u, pub[u], OutStamps) BY DEF RunOf
  <2>3. encoder'[t].done = encoder[t].done + 1 /\ encoder[t].done \in Nat BY <1>0, EncoderAfter
  <2>4. pub[t] = Pub[t] + 1 BY <1>10
  <2> QED BY <2>1, <2>2, <2>3, <2>4, <1>11
<1>16. NothingLost' /\ InOrder' /\ Stamped' BY <1>14, <1>15, NewLedger
<1>17. HeldBack' BY <1>7, <1>9 DEF HeldBack
<1>18. NoOverdueChunk'
  <2>1. \A u \in Tracks : Len(track'[u].queue) = 0 BY <1>7, <1>9
  <2> QED BY <2>1 DEF NoOverdueChunk
<1>19. ConfigFirst' BY <1>1, ConfigAfter
<1> QED BY <1>16, <1>17, <1>18, <1>19

(***************************************************************************)
(* Two tracks.  The facts about the state before the output, by numbers    *)
(* and by the new table of timestamps.                                     *)
(***************************************************************************)
LEMMA PairBefore ==
    ASSUME MergeInv, era = 0, NEW t \in Tracks, handleOutput(t), Cardinality(Tracks) # 1
    PROVE  LET o == Other(t)
               at == OutStamps
               ts == OutputTs(t)
           IN  \* the other track has nothing published that is later than this output
               /\ Pub[o] > 0 => at[o][Pub[o]] <= ts
               \* nothing published of this track is later than what the other has waiting
               /\ Len(track[o].queue) > 0 /\ Pub[t] > 0 => at[t][Pub[t]] <= at[o][Pub[o] + 1]
               \* nor than the other track has got
               /\ Pub[t] > 0 => at[t][Pub[t]] <= track[o].lastTimestamp
               \* what this track has waiting is later than the other track has got
               /\ ready[o] => \A i \in 1 .. Len(track[t].queue) :
                                 track[t].queue[i].timestamp > track[o].lastTimestamp
               \* and not later than this output
               /\ Len(track[t].queue) > 0 => 
                    track[t].queue[Len(track[t].queue)].timestamp <= ts
               \* a frame has been published only if both configurations are there
               /\ (Pub[t] > 0 \/ Pub[o] > 0) => ready[t] /\ ready[o]
<1> DEFINE o == Other(t)
           at == OutStamps
           ts == OutputTs(t)
           i == encoder[t].done + 1
<1>0. TypeOK /\ Stamped /\ HeldBack /\ NoOverdueChunk /\ ConfigFirst BY DEF MergeInv
<1>1. o \in Tracks /\ o # t /\ Other(o) = t /\ (\A u \in Tracks : u = t \/ u = o)
      /\ "audio" \in Tracks /\ "video" \in Tracks
  BY OtherTrack
<1>2. /\ at \in StampTable /\ Monotone(at, Lens) /\ ts \in Nat /\ ts = at[t][i] /\ i <= Lens[t]
      /\ \A u \in Tracks : \A n \in 1 .. encoder[u].done : at[u][n] = Stamp(u, n)
  BY OutputStamps, OutputFrameFacts
<1>3. \A u \in Tracks : /\ Pub[u] = Published(u) /\ Pub[u] \in Nat /\ Pub[u] <= encoder[u].done
                       /\ encoder[u].done <= Lens[u]
                       /\ Pub[u] + Len(track[u].queue) = encoder[u].done
                       /\ RunOf(track[u].queue, u, Pub[u], at)
  BY OldLedger
<1>4. \A u \in Tracks : encoder[u].done \in Nat /\ Lens[u] \in Nat /\ Len(track[u].queue) \in Nat
  BY <1>0, EncoderFields, TrackFields DEF Lens
<1>5. \A u \in Tracks : track[u].lastTimestamp \in Nat
        /\ track[u].lastTimestamp = IF encoder[u].done = 0 THEN 0 ELSE Stamp(u, encoder[u].done)
  BY <1>0, TrackFields DEF Stamped
<1> HIDE DEF o, at, ts
<1>6. track[t].lastTimestamp <= ts
  <2>1. CASE encoder[t].done = 0 BY <2>1, <1>2, <1>5
  <2>2. CASE encoder[t].done # 0
    <3>1. encoder[t].done \in 1 .. encoder[t].done /\ encoder[t].done \in 1 .. Lens[t]
          /\ i \in 1 .. Lens[t] /\ encoder[t].done <= i
      BY <2>2, <1>2, <1>3, <1>4
    <3>2. at[t][encoder[t].done] <= at[t][i] BY <3>1, <1>2 DEF Monotone
    <3>3. track[t].lastTimestamp = at[t][encoder[t].done] BY <3>1, <2>2, <1>2, <1>5
    <3> QED BY <3>2, <3>3, <1>2
  <2> QED BY <2>1, <2>2
<1>7. ASSUME NEW u \in Tracks, Pub[u] > 0
      PROVE  /\ ready["audio"] /\ ready["video"]
             /\ at[u][Pub[u]] <= track[Other(u)].lastTimestamp
             /\ at[u][Pub[u]] <= track[u].lastTimestamp
             /\ at[u][Pub[u]] \in Nat
  <2>1. Published(u) > 0 BY <1>3, <1>7
  <2>2. ready["audio"] /\ ready["video"] /\ Stamp(u, Published(u)) <= track[Other(u)].lastTimestamp
    BY <2>1, <1>0 DEF HeldBack
  <2>3. Pub[u] \in 1 .. encoder[u].done /\ Pub[u] \in 1 .. Lens[u] /\ encoder[u].done \in 1 .. Lens[u]
        /\ encoder[u].done \in 1 .. encoder[u].done /\ encoder[u].done # 0
    BY <1>3, <1>4, <1>7
  <2>4. at[u][Pub[u]] = Stamp(u, Pub[u]) /\ at[u][encoder[u].done] = Stamp(u, encoder[u].done)
    BY <2>3, <1>2
  <2>5. at[u][Pub[u]] <= at[u][encoder[u].done] BY <2>3, <1>2, <1>3 DEF Monotone
  <2>6. at[u][Pub[u]] \in Nat BY <1>2, <1>3, StampNatural
  <2> QED BY <2>2, <2>3, <2>4, <2>5, <2>6, <1>3, <1>5
<1>8. (Pub[t] > 0 \/ Pub[o] > 0) => ready[t] /\ ready[o]
  BY <1>1, <1>7, StreamProcessorAssumption DEF Media
<1>9. ASSUME ready[t], ready[o], NEW u \in Tracks, NEW k \in 1 .. Len(track[u].queue)
      PROVE  track[u].queue[k].timestamp > track[Other(u)].lastTimestamp
  BY <1>0, <1>1, <1>9 DEF NoOverdueChunk
<1>10. Pub[o] > 0 => at[o][Pub[o]] <= ts
  BY <1>1, <1>2, <1>5, <1>6, <1>7
<1>11. Len(track[o].queue) > 0 /\ Pub[t] > 0 => at[t][Pub[t]] <= at[o][Pub[o] + 1]
  <2> SUFFICES ASSUME Len(track[o].queue) > 0, Pub[t] > 0 PROVE at[t][Pub[t]] <= at[o][Pub[o] + 1]
    OBVIOUS
  <2>1. 1 \in 1 .. Len(track[o].queue) BY <1>1, <1>4
  <2>2. track[o].queue[1].timestamp > track[t].lastTimestamp BY <2>1, <1>1, <1>8, <1>9
  <2>3. track[o].queue[1].timestamp = at[o][Pub[o] + 1]
    <3>1. 1 \in DOMAIN track[o].queue
      <4>1. track[o].queue \in Seq(Chunk) BY <1>0, <1>1, TrackFields
      <4> QED BY <2>1, <4>1
    <3> QED BY <3>1, <1>1, <1>3 DEF RunOf
  <2>4. Pub[o] + 1 \in Nat BY <1>1, <1>3
  <2>5. at[o][Pub[o] + 1] \in Nat BY <1>1, <1>2, <2>4, StampNatural
  <2> QED BY <2>2, <2>3, <2>5, <1>5, <1>7
<1>12. Pub[t] > 0 => at[t][Pub[t]] <= track[o].lastTimestamp BY <1>7 DEF o
<1>13. ready[o] => \A k \in 1 .. Len(track[t].queue) :
                     track[t].queue[k].timestamp > track[o].lastTimestamp
  <2> SUFFICES ASSUME ready[o], NEW k \in 1 .. Len(track[t].queue)
               PROVE  track[t].queue[k].timestamp > track[o].lastTimestamp
    OBVIOUS
  <2>1. encoder[t].done > 0 BY <1>3, <1>4
  <2>2. ready[t] BY <2>1, <1>0 DEF ConfigFirst
  <2> QED BY <2>2, <1>9 DEF o
<1>14. Len(track[t].queue) > 0 => track[t].queue[Len(track[t].queue)].timestamp <= ts
  <2> SUFFICES ASSUME Len(track[t].queue) > 0
               PROVE  track[t].queue[Len(track[t].queue)].timestamp <= ts
    OBVIOUS
  <2> DEFINE l == Len(track[t].queue)
  <2>1. l \in DOMAIN track[t].queue
    <3>1. track[t].queue \in Seq(Chunk) BY <1>0, TrackFields
    <3> QED BY <3>1
  <2>2. track[t].queue[l].timestamp = at[t][encoder[t].done]
    <3>1. track[t].queue[l].timestamp = at[t][Pub[t] + l] BY <2>1, <1>3 DEF RunOf
    <3> QED BY <3>1, <1>3
  <2>3. encoder[t].done \in 1 .. Lens[t] /\ i \in 1 .. Lens[t] /\ encoder[t].done <= i
    BY <1>2, <1>3, <1>4
  <2>4. at[t][encoder[t].done] <= at[t][i] BY <2>3, <1>2 DEF Monotone
  <2> QED BY <2>2, <2>4, <1>2
<1> QED BY <1>8, <1>10, <1>11, <1>12, <1>13, <1>14 DEF o, at, ts

(* What is left to show of two tracks once the ledger after the output is known. *)
LEMMA PairHeldBack ==
    ASSUME MergeInv, era = 0, NEW t \in Tracks, handleOutput(t), TypeOK', Cardinality(Tracks) # 1,
           NEW pub \in [Tracks -> Nat], LedgerAfter(pub),
           \A u \in Tracks : pub[u] > 0 =>
              /\ ready'["audio"] /\ ready'["video"]
              /\ OutStamps[u][pub[u]] <= track'[Other(u)].lastTimestamp
    PROVE  HeldBack'
<1>0. TypeOK BY DEF MergeInv
<1> SUFFICES ASSUME NEW u \in Tracks, encoder'[u].done - Len(track'[u].queue) > 0
             PROVE  /\ ready'["audio"] /\ ready'["video"]
                    /\ NewStamp(u, encoder'[u].done - Len(track'[u].queue))
                         <= track'[Other(u)].lastTimestamp
  BY DEF HeldBack, Published, Stamp, NewStamp
<1>1. encoder'[u].done - Len(track'[u].queue) = pub[u] BY NewLedger
<1>2. pub[u] \in 1 .. encoder'[u].done
  <2>1. pub[u] + Len(track'[u].queue) = encoder'[u].done BY DEF LedgerAfter
  <2>2. track'[u].queue \in Seq(Chunk) BY DEF TypeOK
  <2>3. Len(track'[u].queue) \in Nat /\ pub[u] \in Nat BY <2>2
  <2> QED BY <2>1, <2>3, <1>1
<1>3. NewStamp(u, pub[u]) = OutStamps[u][pub[u]] BY <1>0, <1>2, EncoderAfter
<1>4. pub[u] > 0 BY <1>2
<1> QED BY <1>1, <1>3, <1>4

(* Not both configurations are there: the frame is queued. *)
LEMMA PairEarly ==
    ASSUME MergeInv, era = 0, NEW t \in Tracks, handleOutput(t), TypeOK', Cardinality(Tracks) # 1,
           NEW d \in BOOLEAN, encoder[t].done = 0 => d, 
           ~ ConfigsReady(AfterHeader(t, d)),
           \A u \in Tracks : track'[u].queue
              = handleTrackChunk(AfterHeader(t, d), OutputFrame(t)).queue[u],
           ready' = handleTrackChunk(AfterHeader(t, d), OutputFrame(t)).ready,
           emitted' = handleTrackChunk(AfterHeader(t, d), OutputFrame(t)).emitted
    PROVE  /\ NothingLost' /\ InOrder' /\ Stamped' /\ HeldBack' /\ NoOverdueChunk'
           /\ \A u \in Tracks : ready'[u] <=> (u = t \/ ready[u])
<1> DEFINE c == OutputFrame(t)
           o == Other(t)
           m1 == AfterHeader(t, d)
<1>0. TypeOK BY DEF MergeInv
<1>1. /\ m1 \in MergeState /\ \A u \in Tracks : m1.queue[u] = track[u].queue
      /\ Ledger(m1.emitted, Pub, OutStamps)
      /\ \A u \in Tracks : m1.ready[u] <=> (u = t \/ ready[u])
  BY HeaderStage
<1>2. /\ c \in Chunk /\ c.track = t /\ c.kind = "frame" /\ IsFrameOf(c, t)
      /\ c.frame = encoder[t].done + 1 /\ c.timestamp = OutStamps[t][c.frame]
  BY OutputFrameFacts
<1>3. handleTrackChunk(m1, c) = enqueue(m1, c)
  BY <1>2 DEF handleTrackChunk, processAudioChunk, processVideoChunk, MergeChunk
<1>4. o \in Tracks /\ o # t /\ (\A u \in Tracks : u = t \/ u = o)
      /\ "audio" \in Tracks /\ "video" \in Tracks
  BY OtherTrack
<1> HIDE DEF m1, c, o
<1>5. /\ enqueue(m1, c).queue = [m1.queue EXCEPT ![t] = Append(@, c)]
      /\ enqueue(m1, c).ready = m1.ready /\ enqueue(m1, c).emitted = m1.emitted
  BY <1>1, <1>2, EnqueueEffect
<1>6. /\ ready' = m1.ready /\ emitted' = m1.emitted
      /\ \A u \in Tracks : track'[u].queue = [m1.queue EXCEPT ![t] = Append(@, c)][u]
  BY <1>3, <1>5 DEF m1, c
<1>7. /\ track'[t].queue = Append(track[t].queue, c)
      /\ \A u \in Tracks : u # t => track'[u].queue = track[u].queue
  <2>1. m1.queue \in [Tracks -> Seq(Chunk)] BY <1>1, MergeFields
  <2> QED BY <2>1, <1>1, <1>6
<1>8. ~ (ready'["audio"] /\ ready'["video"]) BY <1>6 DEF ConfigsReady, m1
<1>9. Pub \in [Tracks -> Nat] /\ \A u \in Tracks :
         /\ Pub[u] + Len(track[u].queue) = encoder[u].done
         /\ RunOf(track[u].queue, u, Pub[u], OutStamps)
  BY OldLedger
<1>10. ASSUME NEW u \in Tracks PROVE Pub[u] = 0
  <2>1. (Pub[t] > 0 \/ Pub[o] > 0) => ready[t] /\ ready[o] BY PairBefore DEF o
  <2>3. ~ (ready[t] /\ ready[o]) BY <1>1, <1>4, <1>6, <1>8
  <2>4. Pub[u] \in Nat /\ (u = t \/ u = o) BY <1>4, <1>9
  <2> QED BY <2>1, <2>3, <2>4
<1>11. LedgerAfter(Pub)
  <2> SUFFICES ASSUME NEW u \in Tracks
               PROVE  /\ RunOf(track'[u].queue, u, Pub[u], OutStamps)
                      /\ Pub[u] + Len(track'[u].queue) = encoder'[u].done
    BY <1>1, <1>6 DEF LedgerAfter
  <2>1. /\ track[u].queue \in Seq(Chunk) /\ Len(track[u].queue) \in Nat /\ Pub[u] \in Nat
        /\ encoder'[u].done = IF u = t THEN encoder[t].done + 1 ELSE encoder[u].done
    BY <1>0, <1>9, TrackFields, EncoderAfter
  <2>2. CASE u = t
    <3>2. /\ RunOf(Append(track[t].queue, c), t, Pub[t], OutStamps)
          /\ Pub[t] + Len(Append(track[t].queue, c)) = encoder[t].done + 1
      BY OutputQueued DEF c
    <3> QED BY <2>1, <2>2, <3>2, <1>7
  <2>3. CASE u # t BY <2>1, <2>3, <1>7, <1>9
  <2> QED BY <2>2, <2>3
<1>12. NothingLost' /\ InOrder' /\ Stamped' BY <1>9, <1>11, NewLedger
<1>13. HeldBack'
  <2>1. \A u \in Tracks : ~ (Pub[u] > 0) BY <1>10
  <2> QED BY <2>1, <1>9, <1>11, PairHeldBack
<1>14. NoOverdueChunk' BY <1>4, <1>8 DEF NoOverdueChunk
<1> QED BY <1>1, <1>6, <1>12, <1>13, <1>14

(* Both configurations are there: first what the other track has waiting up to
   this frame is published. *)
DueCut(t) == DueCount(track[Other(t)].queue, OutputTs(t))

DuePub(t) == [Pub EXCEPT ![Other(t)] = @ + DueCut(t)]

LEMMA PairDue ==
    ASSUME MergeInv, era = 0, NEW t \in Tracks, handleOutput(t), Cardinality(Tracks) # 1,
           NEW d \in BOOLEAN, encoder[t].done = 0 => d
    PROVE  LET o == Other(t)
               q == track[o].queue
               n == DueCut(t)
               p == PublishDue(AfterHeader(t, d), o, OutputTs(t))
           IN  /\ p \in MergeState /\ p.ready = AfterHeader(t, d).ready
               /\ p.queue[t] = track[t].queue /\ p.queue[o] = SubSeq(q, n + 1, Len(q))
               /\ DuePub(t) \in [Tracks -> Nat]
               /\ DuePub(t)[t] = Pub[t] /\ DuePub(t)[o] = Pub[o] + n
               /\ Ledger(p.emitted, DuePub(t), OutStamps)
               /\ RunOf(p.queue[o], o, DuePub(t)[o], OutStamps)
               /\ DuePub(t)[o] + Len(p.queue[o]) = encoder[o].done
               /\ \A i \in 1 .. Len(p.queue[o]) : p.queue[o][i].timestamp > OutputTs(t)
               /\ DuePub(t)[o] > 0 => OutStamps[o][DuePub(t)[o]] <= OutputTs(t)
<1> DEFINE o == Other(t)
           q == track[o].queue
           n == DueCut(t)
           ts == OutputTs(t)
           m1 == AfterHeader(t, d)
           p == PublishDue(m1, o, ts)
           pub == DuePub(t)
           at == OutStamps
           a == SubSeq(q, 1, n)
           b == SubSeq(q, n + 1, Len(q))
<1>0. TypeOK BY DEF MergeInv
<1>1. /\ m1 \in MergeState /\ \A u \in Tracks : m1.queue[u] = track[u].queue
      /\ Ledger(m1.emitted, Pub, at)
  BY HeaderStage
<1>2. o \in Tracks /\ o # t /\ t # o /\ (\A u \in Tracks : u = t \/ u = o) BY OtherTrack
<1>3. ts \in Nat /\ q \in Seq(Chunk) /\ Len(q) \in Nat
  BY <1>0, <1>2, OutputFrameFacts, TrackFields
<1>4. /\ n \in 0 .. Len(q) /\ n \in Nat
      /\ \A i \in 1 .. n : q[i].timestamp <= ts
      /\ n < Len(q) => q[n + 1].timestamp > ts
  <2>1. n = DueCount(q, ts) BY DEF DueCut
  <2> HIDE DEF n, q, ts
  <2>2. /\ DueCount(q, ts) \in 0 .. Len(q)
        /\ \A i \in 1 .. DueCount(q, ts) : q[i].timestamp <= ts
        /\ DueCount(q, ts) < Len(q) => q[DueCount(q, ts) + 1].timestamp > ts
    BY <1>3, DueCountSpec
  <2> QED BY <2>1, <2>2, <1>3
<1>5. /\ p \in MergeState /\ p.ready = m1.ready
      /\ p.queue = [m1.queue EXCEPT ![o] = b] /\ p.emitted = m1.emitted \o a
  <2>1. m1.queue[o] = q BY <1>1, <1>2
  <2>2. n = DueCount(q, ts) BY DEF DueCut
  <2> HIDE DEF m1, ts, o, q, n
  <2>3. PublishDue(m1, o, ts) \in MergeState /\ Drained(m1, o, ts)
    BY <1>1, <1>2, <1>3, PublishDueEffect
  <2>4. /\ p \in MergeState /\ p.ready = m1.ready
        /\ p.queue = [m1.queue EXCEPT ![o] =
              SubSeq(m1.queue[o], DueCount(m1.queue[o], ts) + 1, Len(m1.queue[o]))]
        /\ p.emitted = m1.emitted \o SubSeq(m1.queue[o], 1, DueCount(m1.queue[o], ts))
    BY <2>3, Zenon DEF Drained
  <2> HIDE DEF p
  <2> QED BY <2>1, <2>2, <2>4, Zenon
<1>6. /\ a \in Seq(Chunk) /\ Len(a) = n /\ b \in Seq(Chunk) /\ Len(b) = Len(q) - n
      /\ \A i \in 1 .. Len(q) - n : b[i] = q[n + i]
  BY <1>3, <1>4, CutAt
<1>7. Pub \in [Tracks -> Nat] /\ \A u \in Tracks :
         /\ Pub[u] \in Nat /\ Pub[u] <= encoder[u].done /\ encoder[u].done <= Lens[u]
         /\ Pub[u] + Len(track[u].queue) = encoder[u].done
         /\ RunOf(track[u].queue, u, Pub[u], at)
  BY OldLedger
<1>8. \A u \in Tracks : encoder[u].done \in Nat /\ Lens[u] \in Nat
  BY <1>0, EncoderFields DEF Lens
<1>9. at \in StampTable /\ Lens \in [Tracks -> Nat] /\ Monotone(at, Lens) BY OutputStamps
<1>10. RunOf(a, o, Pub[o], at) /\ RunOf(b, o, Pub[o] + n, at)
  BY <1>2, <1>3, <1>4, <1>7, RunCut
<1>11. /\ Pub[o] > 0 => at[o][Pub[o]] <= ts
       /\ Len(q) > 0 /\ Pub[t] > 0 => at[t][Pub[t]] <= at[o][Pub[o] + 1]
  BY PairBefore
<1>12. pub = [Pub EXCEPT ![o] = @ + n] BY DEF DuePub
<1> HIDE DEF o, q, n, ts, m1, p, pub, at, a, b
<1>13. pub \in [Tracks -> Nat] /\ pub[t] = Pub[t] /\ pub[o] = Pub[o] + n
  BY <1>2, <1>4, <1>7, <1>12
<1>14. Ledger(p.emitted, pub, at)
  <2>1. Pub[o] + Len(a) <= Lens[o]
    <3>1. Pub[o] + Len(q) = encoder[o].done BY <1>2, <1>7 DEF q
    <3> QED BY <3>1, <1>2, <1>3, <1>4, <1>6, <1>7, <1>8
  <2>2. \A u \in Tracks : Pub[u] <= Lens[u] BY <1>7, <1>8
  <2>3. Len(a) > 0 => OthersUpTo(o, Pub, at, at[o][Pub[o] + 1])
    BY <1>2, <1>3, <1>4, <1>6, <1>11 DEF OthersUpTo
  <2>4. Ledger(m1.emitted \o a, [Pub EXCEPT ![o] = @ + Len(a)], at)
    BY <1>1, <1>2, <1>6, <1>7, <1>9, <1>10, <2>1, <2>2, <2>3, LedgerRun
  <2> QED BY <2>4, <1>5, <1>6, <1>12
<1>15. p.queue[t] = track[t].queue /\ p.queue[o] = b
  <2>1. m1.queue \in [Tracks -> Seq(Chunk)] BY <1>1, MergeFields
  <2> QED BY <2>1, <1>1, <1>2, <1>5
<1>16. pub[o] + Len(b) = encoder[o].done
  <2>1. Pub[o] + Len(q) = encoder[o].done BY <1>2, <1>7 DEF q
  <2> QED BY <2>1, <1>2, <1>3, <1>4, <1>6, <1>7, <1>13
<1>17. ASSUME NEW i \in 1 .. Len(b) PROVE b[i].timestamp > ts
  <2>1. /\ b[i] = q[n + i] /\ n < Len(q) /\ n + 1 \in DOMAIN q /\ n + i \in DOMAIN q
        /\ Pub[o] + (n + 1) <= Pub[o] + (n + i)
    BY <1>2, <1>3, <1>4, <1>6, <1>7
  <2>2. RunOf(q, o, Pub[o], at) /\ Pub[o] + Len(q) = encoder[o].done BY <1>2, <1>7 DEF q
  <2>3. /\ q[n + 1].timestamp = at[o][Pub[o] + (n + 1)]
        /\ q[n + i].timestamp = at[o][Pub[o] + (n + i)]
    BY <2>1, <2>2 DEF RunOf
  <2>4. Pub[o] + (n + 1) \in 1 .. Lens[o] /\ Pub[o] + (n + i) \in 1 .. Lens[o]
    <3>1. encoder[o].done <= Lens[o] /\ Pub[o] \in Nat /\ Lens[o] \in Nat
          /\ encoder[o].done \in Nat
      BY <1>2, <1>7, <1>8
    <3>2. n + 1 \in 1 .. Len(q) /\ n + i \in 1 .. Len(q) BY <1>3, <1>4, <1>6
    <3> QED BY <3>1, <3>2, <2>2, <1>3
  <2>5. at[o][Pub[o] + (n + 1)] <= at[o][Pub[o] + (n + i)]
    BY <2>1, <2>4, <1>2, <1>9 DEF Monotone
  <2>6. at[o][Pub[o] + (n + 1)] \in Nat /\ at[o][Pub[o] + (n + i)] \in Nat
    BY <2>4, <1>2, <1>9, <1>8, StampNatural
  <2> QED BY <2>1, <2>3, <2>5, <2>6, <1>3, <1>4
<1>18. pub[o] > 0 => at[o][pub[o]] <= ts
  <2>1. CASE n = 0 BY <2>1, <1>2, <1>7, <1>11, <1>13
  <2>2. CASE n > 0
    <3>1. RunOf(q, o, Pub[o], at) BY <1>2, <1>7 DEF q
    <3>2. n \in DOMAIN q /\ n \in 1 .. n BY <2>2, <1>3, <1>4
    <3>3. q[n].timestamp = at[o][Pub[o] + n] BY <3>1, <3>2 DEF RunOf
    <3> QED BY <3>2, <3>3, <1>4, <1>13
  <2> QED BY <2>1, <2>2, <1>4
<1>19. RunOf(b, o, pub[o], at) BY <1>10, <1>13
<1>20. /\ p \in MergeState /\ p.ready = m1.ready
       /\ p.queue[t] = track[t].queue /\ p.queue[o] = b
       /\ pub \in [Tracks -> Nat] /\ pub[t] = Pub[t] /\ pub[o] = Pub[o] + n
       /\ Ledger(p.emitted, pub, at)
       /\ RunOf(p.queue[o], o, pub[o], at)
       /\ pub[o] + Len(p.queue[o]) = encoder[o].done
       /\ \A i \in 1 .. Len(p.queue[o]) : p.queue[o][i].timestamp > ts
       /\ pub[o] > 0 => at[o][pub[o]] <= ts
  BY <1>5, <1>13, <1>14, <1>15, <1>16, <1>17, <1>18, <1>19
<1> QED BY <1>20 DEF o, q, n, ts, m1, p, pub, at, b

(* Then the frame itself is published, if the other track has got so far, or
   queued. *)
LEMMA PairReady ==
    ASSUME MergeInv, era = 0, NEW t \in Tracks, handleOutput(t), TypeOK', Cardinality(Tracks) # 1,
           NEW d \in BOOLEAN, encoder[t].done = 0 => d, 
           ConfigsReady(AfterHeader(t, d)),
           \A u \in Tracks : track'[u].queue
              = handleTrackChunk(AfterHeader(t, d), OutputFrame(t)).queue[u],
           ready' = handleTrackChunk(AfterHeader(t, d), OutputFrame(t)).ready,
           emitted' = handleTrackChunk(AfterHeader(t, d), OutputFrame(t)).emitted
    PROVE  /\ NothingLost' /\ InOrder' /\ Stamped' /\ HeldBack' /\ NoOverdueChunk'
           /\ \A u \in Tracks : ready'[u] <=> (u = t \/ ready[u])
<1> DEFINE c == OutputFrame(t)
           o == Other(t)
           ts == OutputTs(t)
           m1 == AfterHeader(t, d)
           p == PublishDue(m1, o, ts)
           pub1 == DuePub(t)
           at == OutStamps
           reached == ts <= track[o].lastTimestamp
<1>0. TypeOK BY DEF MergeInv
<1>1. /\ m1 \in MergeState /\ \A u \in Tracks : m1.ready[u] <=> (u = t \/ ready[u])
  BY HeaderStage
<1>2. /\ c \in Chunk /\ c.track = t /\ c.kind = "frame" /\ IsFrameOf(c, t) /\ c.timestamp = ts
      /\ c.frame = encoder[t].done + 1 /\ ts = at[t][encoder[t].done + 1]
      /\ ts \in Nat /\ encoder[t].done + 1 <= Lens[t]
  BY OutputFrameFacts
<1>3. handleTrackChunk(m1, c) = IF reached THEN publishChunk(p, <<c>>) ELSE enqueue(p, c)
  BY <1>2 DEF handleTrackChunk, processAudioChunk, processVideoChunk, MergeChunk, OtherReached
<1>4. /\ o \in Tracks /\ o # t /\ Other(o) = t /\ (\A u \in Tracks : u = t \/ u = o)
      /\ "audio" \in Tracks /\ "video" \in Tracks
  BY OtherTrack
<1>5. /\ p \in MergeState /\ p.ready = m1.ready
      /\ p.queue[t] = track[t].queue
      /\ pub1 \in [Tracks -> Nat] /\ pub1[t] = Pub[t]
      /\ Ledger(p.emitted, pub1, at)
      /\ RunOf(p.queue[o], o, pub1[o], at)
      /\ pub1[o] + Len(p.queue[o]) = encoder[o].done
      /\ \A i \in 1 .. Len(p.queue[o]) : p.queue[o][i].timestamp > ts
      /\ pub1[o] > 0 => at[o][pub1[o]] <= ts
  BY PairDue
<1>6. /\ Pub[t] > 0 => at[t][Pub[t]] <= track[o].lastTimestamp
      /\ ready[o] => \A i \in 1 .. Len(track[t].queue) :
                        track[t].queue[i].timestamp > track[o].lastTimestamp
      /\ Len(track[t].queue) > 0 => track[t].queue[Len(track[t].queue)].timestamp <= ts
  BY PairBefore
<1>7. /\ \A u \in Tracks : /\ encoder[u].done \in Nat /\ Lens[u] \in Nat
                           /\ encoder[u].done <= Lens[u] /\ track[u].lastTimestamp \in Nat
      /\ track[t].queue \in Seq(Chunk) /\ Len(track[t].queue) \in Nat
      /\ Pub[t] \in Nat /\ Pub[t] + Len(track[t].queue) = encoder[t].done
      /\ Pub[t] <= encoder[t].done
  BY <1>0, EncoderFields, TrackFields, OldLedger DEF Lens
<1>8. \A u \in Tracks : encoder'[u].done = IF u = t THEN encoder[t].done + 1 ELSE encoder[u].done
  BY <1>0, EncoderAfter
<1>9. at \in StampTable /\ Lens \in [Tracks -> Nat] /\ Monotone(at, Lens) BY OutputStamps
<1>10. \A u \in Tracks : track'[u].lastTimestamp = IF u = t THEN ts ELSE track[u].lastTimestamp
  BY LastAfter
<1>11. m1.ready["audio"] /\ m1.ready["video"] BY DEF ConfigsReady
<1>12. ready[o] BY <1>1, <1>4, <1>11, StreamProcessorAssumption DEF Media
<1>17. /\ \A u \in Tracks : track'[u].queue = handleTrackChunk(m1, c).queue[u]
       /\ ready' = handleTrackChunk(m1, c).ready /\ emitted' = handleTrackChunk(m1, c).emitted
  BY Zenon
<1> HIDE DEF c, o, ts, m1, p, pub1, at
<1>13. RunOf(track[t].queue, t, Pub[t], at) BY OldLedger DEF at
<1>14. p.queue \in [Tracks -> Seq(Chunk)] BY <1>5, MergeFields
<1>15. CASE reached
  <2> DEFINE pub == [pub1 EXCEPT ![t] = @ + 1]
  <2>1. handleTrackChunk(m1, c) = publishChunk(p, <<c>>) BY <1>3, <1>15
  <2>2. <<c>> \in Seq(Chunk) /\ Len(<<c>>) = 1 BY <1>2
  <2>3. /\ publishChunk(p, <<c>>).queue = p.queue /\ publishChunk(p, <<c>>).ready = p.ready
        /\ publishChunk(p, <<c>>).emitted = p.emitted \o <<c>>
    BY <1>5, <2>2, PublishEffect
  <2>4. /\ ready' = m1.ready /\ emitted' = p.emitted \o <<c>>
        /\ track'[t].queue = track[t].queue /\ track'[o].queue = p.queue[o]
    <3>1. ready' = p.ready /\ emitted' = p.emitted \o <<c>> BY <2>1, <2>3, <1>17, Zenon
    <3>2. \A u \in Tracks : track'[u].queue = p.queue[u] BY <2>1, <2>3, <1>17, Zenon
    <3>3. o \in Tracks /\ p.ready = m1.ready /\ p.queue[t] = track[t].queue BY <1>4, <1>5, Zenon
    <3> QED BY <3>1, <3>2, <3>3, Zenon
  <2>5. Len(track[t].queue) = 0
    <3> SUFFICES ASSUME Len(track[t].queue) > 0 PROVE FALSE BY <1>7
    <3>1. Len(track[t].queue) \in 1 .. Len(track[t].queue) BY <1>7
    <3>2. track[t].queue[Len(track[t].queue)].timestamp > track[o].lastTimestamp
      BY <3>1, <1>6, <1>12
    <3>3. track[t].queue[Len(track[t].queue)].timestamp \in Nat
      BY <3>1, <1>7, ChunkFields
    <3> QED BY <3>2, <3>3, <1>2, <1>4, <1>6, <1>7, <1>15
  <2>6. Pub[t] = encoder[t].done BY <2>5, <1>7
  <2>7. /\ pub \in [Tracks -> Nat] /\ pub[t] = encoder[t].done + 1 /\ pub[o] = pub1[o]
    BY <2>6, <1>4, <1>5, <1>7
  <2>8. Ledger(emitted', pub, at)
    <3>1. RunOf(<<c>>, t, pub1[t], at) 
      <4>1. pub1[t] \in Nat /\ c.frame = pub1[t] + 1 /\ c.timestamp = at[t][c.frame]
        BY <2>6, <1>2, <1>5, <1>7
      <4> QED BY <4>1, <1>2, RunSingle
    <3>2. \A u \in Tracks : pub1[u] <= Lens[u]
      <4>1. pub1[t] <= Lens[t] BY <1>5, <1>7
      <4>2. pub1[o] <= Lens[o]
        <5>1. pub1[o] \in Nat /\ Len(p.queue[o]) \in Nat BY <1>4, <1>5, <1>14
        <5> QED BY <5>1, <1>4, <1>5, <1>7
      <4> QED BY <4>1, <4>2, <1>4
    <3>3. pub1[t] + Len(<<c>>) <= Lens[t] BY <2>2, <2>6, <1>2, <1>5
    <3>4. OthersUpTo(t, pub1, at, at[t][pub1[t] + 1])
      BY <1>2, <1>4, <1>5, <2>6 DEF OthersUpTo
    <3>5. Ledger(p.emitted \o <<c>>, [pub1 EXCEPT ![t] = @ + Len(<<c>>)], at)
      BY <3>1, <3>2, <3>3, <3>4, <1>5, <1>9, <2>2, LedgerRun
    <3> QED BY <3>5, <2>2, <2>4
  <2> HIDE DEF pub
  <2>9. LedgerAfter(pub)
    <3>1. RunOf(track'[o].queue, o, pub[o], at) /\ pub[o] + Len(track'[o].queue) = encoder'[o].done
      BY <2>4, <2>7, <1>4, <1>5, <1>8
    <3>2. RunOf(track'[t].queue, t, pub[t], at) /\ pub[t] + Len(track'[t].queue) = encoder'[t].done
      <4>1. DOMAIN track[t].queue = {} BY <2>5, <1>7
      <4> QED BY <4>1, <2>4, <2>5, <2>7, <1>7, <1>8 DEF RunOf
    <3> QED BY <3>1, <3>2, <2>8, <1>4 DEF LedgerAfter, at
  <2>10. NothingLost' /\ InOrder' /\ Stamped' BY <2>7, <2>9, NewLedger
  <2>11. HeldBack'
    <3>1. pub[t] > 0 => at[t][pub[t]] <= track'[o].lastTimestamp
      BY <2>7, <1>2, <1>4, <1>10, <1>15
    <3>2. pub[o] > 0 => at[o][pub[o]] <= track'[t].lastTimestamp BY <2>7, <1>5, <1>10
    <3>3. \A u \in Tracks : pub[u] > 0 => at[u][pub[u]] <= track'[Other(u)].lastTimestamp
      BY <3>1, <3>2, <1>4 DEF o
    <3> QED BY <3>3, <2>4, <2>7, <2>9, <1>11, PairHeldBack DEF at
  <2>12. NoOverdueChunk'
    <3>1. \A i \in 1 .. Len(track'[t].queue) :
             track'[t].queue[i].timestamp > track'[o].lastTimestamp
      BY <2>4, <2>5
    <3>2. \A i \in 1 .. Len(track'[o].queue) :
             track'[o].queue[i].timestamp > track'[t].lastTimestamp
      BY <2>4, <1>5, <1>10
    <3>3. \A u \in Tracks : \A i \in 1 .. Len(track'[u].queue) :
             track'[u].queue[i].timestamp > track'[Other(u)].lastTimestamp
      BY <3>1, <3>2, <1>4 DEF o
    <3> QED BY <3>3 DEF NoOverdueChunk
  <2> QED BY <2>4, <2>10, <2>11, <2>12, <1>1
<1>16. CASE ~ reached
  <2>1. handleTrackChunk(m1, c) = enqueue(p, c) BY <1>3, <1>16
  <2>2. /\ enqueue(p, c).queue = [p.queue EXCEPT ![t] = Append(@, c)]
        /\ enqueue(p, c).ready = p.ready /\ enqueue(p, c).emitted = p.emitted
    BY <1>2, <1>5, EnqueueEffect
  <2>3. /\ ready' = m1.ready /\ emitted' = p.emitted
        /\ \A u \in Tracks : track'[u].queue = [p.queue EXCEPT ![t] = Append(@, c)][u]
    BY <2>1, <2>2, <1>5 DEF m1, c
  <2>4. track'[t].queue = Append(track[t].queue, c) /\ track'[o].queue = p.queue[o]
    BY <2>3, <1>4, <1>5, <1>14
  <2>5. LedgerAfter(pub1)
    <3>1. /\ RunOf(track'[o].queue, o, pub1[o], at)
          /\ pub1[o] + Len(track'[o].queue) = encoder'[o].done
      BY <2>4, <1>4, <1>5, <1>8
    <3>2. /\ RunOf(Append(track[t].queue, c), t, Pub[t], at)
          /\ Pub[t] + Len(Append(track[t].queue, c)) = encoder[t].done + 1
      BY OutputQueued DEF c, at
    <3>3. /\ RunOf(track'[t].queue, t, pub1[t], at)
          /\ pub1[t] + Len(track'[t].queue) = encoder'[t].done
      BY <3>2, <2>4, <1>5, <1>8
    <3>4. Ledger(emitted', pub1, at) BY <2>3, <1>5
    <3> QED BY <3>1, <3>3, <3>4, <1>4 DEF LedgerAfter, at
  <2>6. NothingLost' /\ InOrder' /\ Stamped' BY <2>5, <1>5, NewLedger
  <2>7. HeldBack'
    <3>1. pub1[t] > 0 => at[t][pub1[t]] <= track'[o].lastTimestamp
      BY <1>4, <1>5, <1>6, <1>10
    <3>2. pub1[o] > 0 => at[o][pub1[o]] <= track'[t].lastTimestamp BY <1>5, <1>10
    <3>3. \A u \in Tracks : pub1[u] > 0 => at[u][pub1[u]] <= track'[Other(u)].lastTimestamp
      BY <3>1, <3>2, <1>4 DEF o
    <3> QED BY <3>3, <2>3, <2>5, <1>5, <1>11, PairHeldBack DEF at
  <2>8. NoOverdueChunk'
    <3>1. ASSUME NEW i \in 1 .. Len(track'[t].queue)
          PROVE  track'[t].queue[i].timestamp > track'[o].lastTimestamp
      <4>1. track'[o].lastTimestamp = track[o].lastTimestamp BY <1>4, <1>10
      <4>2. /\ Len(Append(track[t].queue, c)) = Len(track[t].queue) + 1
            /\ Append(track[t].queue, c)[Len(track[t].queue) + 1] = c
            /\ \A k \in 1 .. Len(track[t].queue) : Append(track[t].queue, c)[k] = track[t].queue[k]
        BY <1>2, <1>7
      <4>3. CASE i \in 1 .. Len(track[t].queue) BY <4>1, <4>2, <4>3, <2>4, <1>6, <1>12
      <4>4. CASE i = Len(track[t].queue) + 1
        <5>1. track'[t].queue[i] = c BY <4>2, <4>4, <2>4
        <5> QED BY <5>1, <4>1, <1>2, <1>4, <1>7, <1>16
      <4> QED BY <4>2, <4>3, <4>4, <2>4, <1>7
    <3>2. \A i \in 1 .. Len(track'[o].queue) :
             track'[o].queue[i].timestamp > track'[t].lastTimestamp
      BY <2>4, <1>5, <1>10
    <3>3. \A u \in Tracks : \A i \in 1 .. Len(track'[u].queue) :
             track'[u].queue[i].timestamp > track'[Other(u)].lastTimestamp
      BY <3>1, <3>2, <1>4 DEF o
    <3> QED BY <3>3 DEF NoOverdueChunk
  <2> QED BY <2>3, <2>6, <2>7, <2>8, <1>1
<1> QED BY <1>15, <1>16

-------------------------------------------------------------------------------
(***************************************************************************)
(* MergeInv is inductive.                                                  *)
(***************************************************************************)
LEMMA MergeInit == Init => MergeInv
<1> SUFFICES ASSUME Init PROVE MergeInv OBVIOUS
<1>1. TypeOK BY TypeInit
<1>2. \A t \in Tracks : /\ encoder[t].fed = <<>> /\ encoder[t].done = 0
                       /\ track[t].queue = <<>> /\ track[t].lastTimestamp = 0
                       /\ track[t].decoderConfig = FALSE /\ ready[t] = FALSE
  BY DEF Init, NewTrack
<1>3. emitted = <<>> BY DEF Init
<1>4. FedInOrder /\ OffsetSettled /\ Stamped /\ ConfigFirst
  BY <1>2, <1>3 DEF FedInOrder, OffsetSettled, Stamped, ConfigFirst
<1>5. HeldBack /\ NoOverdueChunk BY <1>2 DEF HeldBack, Published, NoOverdueChunk
<1>6. NothingLost /\ InOrder
  BY <1>2, <1>3 DEF NothingLost, Published, FirstFrames, InOrder, Sorted
<1> QED BY <1>1, <1>4, <1>5, <1>6 DEF MergeInv

LEMMA OutputKeeps ==
    ASSUME MergeInv, NEW t \in Tracks, handleOutput(t)
    PROVE  MergeInv'
<1>1. TypeOK /\ FedInOrder BY DEF MergeInv
<1>2. TypeOK' BY <1>1, OutputTyped
<1>3. era' = era /\ clock' = clock BY DEF handleOutput
<1>4. FedInOrder'
  <2>1. \A u \in Tracks : encoder'[u].fed = encoder[u].fed BY <1>1, EncoderAfter
  <2> QED BY <2>1, <1>1, <1>3 DEF FedInOrder
<1>5. CASE era # 0
  BY <1>2, <1>3, <1>4, <1>5 DEF MergeInv, NothingLost, NoOverdueChunk, InOrder
<1>6. CASE era = 0
  <2>1. OffsetSettled' BY <1>6, OutputStamps
  <2>2. CASE Cardinality(Tracks) = 1
    BY <1>2, <1>4, <1>6, <2>1, <2>2, SingleOutput DEF MergeInv
  <2>3. CASE Cardinality(Tracks) # 1
    <3>1. PICK d \in BOOLEAN :
            /\ encoder[t].done = 0 => d
            /\ \A u \in Tracks :
                 /\ track'[u].queue
                      = handleTrackChunk(AfterHeader(t, d), OutputFrame(t)).queue[u]
                 /\ track'[u].decoderConfig <=> track[u].decoderConfig \/ (u = t /\ d)
            /\ ready' = handleTrackChunk(AfterHeader(t, d), OutputFrame(t)).ready
            /\ emitted' = handleTrackChunk(AfterHeader(t, d), OutputFrame(t)).emitted
      BY <1>6, OutputEffect
    <3>2. /\ NothingLost' /\ InOrder' /\ Stamped' /\ HeldBack' /\ NoOverdueChunk'
          /\ \A u \in Tracks : ready'[u] <=> (u = t \/ ready[u])
      <4>1. CASE ConfigsReady(AfterHeader(t, d)) BY <3>1, <4>1, <1>2, <1>6, <2>3, PairReady
      <4>2. CASE ~ ConfigsReady(AfterHeader(t, d)) BY <3>1, <4>2, <1>2, <1>6, <2>3, PairEarly
      <4> QED BY <4>1, <4>2
    <3>3. ConfigFirst' BY <3>1, <3>2, <1>6, ConfigAfter
    <3> QED BY <3>2, <3>3, <1>2, <1>4, <2>1 DEF MergeInv
  <2> QED BY <2>2, <2>3
<1> QED BY <1>5, <1>6

(* A raw frame is fed to an encoder behind what the invariant speaks of. *)
LEMMA CaptureKeeps ==
    ASSUME MergeInv, NEW t \in Media, NEW ts \in Times[t], addTrackChunk(t, ts)
    PROVE  MergeInv'
<1>1. TypeOK /\ FedInOrder BY DEF MergeInv
<1>2. TypeOK' BY <1>1, CaptureTyped
<1>3. UNCHANGED <<track, ready, offset, emitted, era>> BY DEF addTrackChunk
<1>4. ts \in Nat /\ ts >= clock[t] /\ clock' = [clock EXCEPT ![t] = ts + 1]
  BY StreamProcessorAssumption DEF addTrackChunk
<1>5. \A m \in Media : clock[m] \in Nat /\ clock'[m] \in Nat /\ clock[m] <= clock'[m]
  BY <1>1, <1>4 DEF TypeOK
<1>6. ASSUME NEW u \in Tracks
      PROVE  /\ encoder'[u].done = encoder[u].done
             /\ Len(encoder'[u].fed) \in Nat /\ Len(encoder'[u].fed) >= Len(encoder[u].fed)
             /\ \A n \in 1 .. Len(encoder[u].fed) : encoder'[u].fed[n] = encoder[u].fed[n]
             /\ Len(encoder'[u].fed) # Len(encoder[u].fed) =>
                  /\ u = t /\ Len(encoder'[u].fed) = Len(encoder[u].fed) + 1
                  /\ encoder'[u].fed[Len(encoder[u].fed) + 1].ts = ts
  <2>0. encoder[u].fed \in Seq(RawFrame) /\ Len(encoder[u].fed) \in Nat BY <1>1, EncoderFields
  <2>1. CASE encoder' = encoder BY <2>0, <2>1
  <2>2. CASE encoder' # encoder
    <3> DEFINE r == [ts |-> ts, era |-> era, key |-> t = "audio" \/ KeyFrameDue]
    <3>1. t \in Tracks /\ encoder' = [encoder EXCEPT ![t].fed = Append(@, r)]
      BY <2>2 DEF addTrackChunk
    <3>2. r.ts = ts OBVIOUS
    <3> HIDE DEF r
    <3>3. /\ encoder'[u].done = encoder[u].done
          /\ encoder'[u].fed = IF u = t THEN Append(encoder[u].fed, r) ELSE encoder[u].fed
      BY <3>1, <1>1 DEF TypeOK
    <3> QED BY <2>0, <3>2, <3>3
  <2> QED BY <2>1, <2>2
<1>7. ASSUME NEW u \in Tracks, NEW n \in 1 .. Len(encoder'[u].fed)
      PROVE  \/ n \in 1 .. Len(encoder[u].fed) /\ encoder'[u].fed[n] = encoder[u].fed[n]
             \/ n = Len(encoder'[u].fed) /\ u = t /\ encoder'[u].fed[n].ts = ts
  <2>1. Len(encoder[u].fed) \in Nat BY <1>1, EncoderFields
  <2> QED BY <2>1, <1>6
<1>8. FedInOrder'
  <2> SUFFICES ASSUME NEW u \in Tracks, NEW i \in 1 .. Len(encoder'[u].fed),
                      NEW j \in 1 .. Len(encoder'[u].fed)
               PROVE  /\ encoder'[u].fed[i].ts < clock'[u]
                      /\ i <= j => encoder'[u].fed[i].ts <= encoder'[u].fed[j].ts
    BY DEF FedInOrder
  <2>1. u \in Media BY StreamProcessorAssumption
  <2>2. \A k \in 1 .. Len(encoder[u].fed) :
           encoder[u].fed[k].ts \in Nat /\ encoder[u].fed[k].ts < clock[u]
    BY <1>1, EncoderFields DEF FedInOrder
  <2>3. encoder'[u].fed[i].ts < clock'[u]
    <3>1. CASE i \in 1 .. Len(encoder[u].fed) /\ encoder'[u].fed[i] = encoder[u].fed[i]
      <4>1. /\ encoder[u].fed[i].ts \in Nat /\ encoder[u].fed[i].ts < clock[u]
            /\ clock[u] \in Nat /\ clock'[u] \in Nat /\ clock[u] <= clock'[u]
        BY <3>1, <2>1, <2>2, <1>5
      <4> QED BY <4>1, <3>1
    <3>2. CASE u = t /\ encoder'[u].fed[i].ts = ts BY <3>2, <1>1, <1>4 DEF TypeOK
    <3> QED BY <3>1, <3>2, <1>7
  <2>4. ASSUME i <= j PROVE encoder'[u].fed[i].ts <= encoder'[u].fed[j].ts
    <3>1. CASE j \in 1 .. Len(encoder[u].fed) /\ encoder'[u].fed[j] = encoder[u].fed[j]
      <4>1. i \in 1 .. Len(encoder[u].fed) BY <2>4, <3>1, <1>1, EncoderFields
      <4>2. encoder'[u].fed[i] = encoder[u].fed[i] BY <4>1, <1>6
      <4> QED BY <4>1, <4>2, <3>1, <2>4, <1>1 DEF FedInOrder
    <3>2. CASE j = Len(encoder'[u].fed) /\ u = t /\ encoder'[u].fed[j].ts = ts
      <4>1. CASE i \in 1 .. Len(encoder[u].fed) /\ encoder'[u].fed[i] = encoder[u].fed[i]
        <5>1. encoder[u].fed[i].ts \in Nat /\ encoder[u].fed[i].ts < clock[u] BY <4>1, <2>2
        <5> QED BY <5>1, <4>1, <3>2, <1>4, <1>5, <2>1
      <4>2. CASE encoder'[u].fed[i].ts = ts BY <4>2, <3>2, <1>4
      <4> QED BY <4>1, <4>2, <1>7
    <3> QED BY <3>1, <3>2, <1>7
  <2> QED BY <2>3, <2>4
<1>9. CASE era # 0
  BY <1>2, <1>3, <1>8, <1>9 DEF MergeInv, NothingLost, NoOverdueChunk, InOrder
<1>10. CASE era = 0
  <2>1. OffsetSettled /\ Stamped /\ ConfigFirst /\ HeldBack
        /\ NothingLost /\ NoOverdueChunk /\ InOrder
    BY <1>10 DEF MergeInv
  <2>2. NothingLost' /\ NoOverdueChunk' /\ InOrder' /\ ConfigFirst'
    BY <2>1, <1>3, <1>6 DEF NothingLost, Published, NoOverdueChunk, InOrder, ConfigFirst
  <2>3. ASSUME NEW u \in Tracks, NEW n \in 1 .. encoder[u].done
        PROVE  encoder'[u].fed[n] = encoder[u].fed[n]
    <3>1. n \in 1 .. Len(encoder[u].fed) BY <1>1, EncoderFields
    <3> QED BY <3>1, <1>6
  <2>4. OffsetSettled' BY <2>1, <2>3, <1>3, <1>6 DEF OffsetSettled
  <2>5. ASSUME NEW u \in Tracks
        PROVE  /\ encoder[u].done \in Nat /\ Len(track[u].queue) \in Nat /\ Published(u) \in Nat
               /\ Published(u) <= encoder[u].done
               /\ Published(u) + Len(track[u].queue) = encoder[u].done
    <3>1. encoder[u].done \in Nat /\ Len(track[u].queue) \in Nat
      BY <1>1, EncoderFields, TrackFields
    <3>2. Published(u) >= 0 BY <2>1, <1>10 DEF NothingLost
    <3> QED BY <3>1, <3>2 DEF Published
  <2>6. Stamped'
    <3> SUFFICES ASSUME NEW u \in Tracks
                 PROVE  /\ track[u].lastTimestamp
                             = IF encoder[u].done = 0 THEN 0
                               ELSE Clip(encoder'[u].fed[encoder[u].done].ts, offset)
                        /\ \A i \in 1 .. Len(track[u].queue) : track[u].queue[i].timestamp
                             = Clip(encoder'[u].fed[track[u].queue[i].frame].ts, offset)
                        /\ \A i \in DOMAIN emitted : IsFrameOf(emitted[i], u) =>
                             emitted[i].timestamp = Clip(encoder'[u].fed[emitted[i].frame].ts, offset)
      BY <1>3, <1>6 DEF Stamped, Stamp
    <3>1. encoder[u].done # 0 => encoder'[u].fed[encoder[u].done] = encoder[u].fed[encoder[u].done]
      BY <2>3, <2>5
    <3>2. ASSUME NEW i \in 1 .. Len(track[u].queue)
          PROVE  encoder'[u].fed[track[u].queue[i].frame] = encoder[u].fed[track[u].queue[i].frame]
      <4>1. track[u].queue[i].frame = Published(u) + i BY <2>1, <1>10 DEF NothingLost
      <4>2. track[u].queue[i].frame \in 1 .. encoder[u].done BY <4>1, <2>5
      <4> QED BY <4>2, <2>3
    <3>3. ASSUME NEW i \in DOMAIN emitted, IsFrameOf(emitted[i], u)
          PROVE  encoder'[u].fed[emitted[i].frame] = encoder[u].fed[emitted[i].frame]
      <4>1. emitted[i].frame \in 1 .. Published(u)
        BY <3>3, <2>1, <1>10 DEF NothingLost, FirstFrames
      <4>2. emitted[i].frame \in 1 .. encoder[u].done BY <4>1, <2>5
      <4> QED BY <4>2, <2>3
    <3>4. /\ track[u].lastTimestamp = IF encoder[u].done = 0 THEN 0
                                       ELSE Clip(encoder[u].fed[encoder[u].done].ts, offset)
          /\ \A i \in 1 .. Len(track[u].queue) : track[u].queue[i].timestamp
               = Clip(encoder[u].fed[track[u].queue[i].frame].ts, offset)
          /\ \A i \in DOMAIN emitted : IsFrameOf(emitted[i], u) =>
               emitted[i].timestamp = Clip(encoder[u].fed[emitted[i].frame].ts, offset)
      BY <2>1, Zenon DEF Stamped, Stamp
    <3>5. track[u].lastTimestamp = IF encoder[u].done = 0 THEN 0
                                   ELSE Clip(encoder'[u].fed[encoder[u].done].ts, offset)
      BY <3>1, <3>4, Zenon
    <3>6. \A i \in 1 .. Len(track[u].queue) : track[u].queue[i].timestamp
             = Clip(encoder'[u].fed[track[u].queue[i].frame].ts, offset)
      BY <3>2, <3>4, Zenon
    <3>7. \A i \in DOMAIN emitted : IsFrameOf(emitted[i], u) =>
             emitted[i].timestamp = Clip(encoder'[u].fed[emitted[i].frame].ts, offset)
      BY <3>3, <3>4, Zenon
    <3> QED BY <3>5, <3>6, <3>7, Zenon
  <2>7. HeldBack'
    <3>1. ASSUME NEW u \in Tracks, Published(u) > 0
          PROVE  encoder'[u].fed[Published(u)] = encoder[u].fed[Published(u)]
      <4>1. Published(u) \in 1 .. encoder[u].done BY <3>1, <2>5
      <4> QED BY <4>1, <2>3
    <3>2. \A u \in Tracks : encoder'[u].done - Len(track'[u].queue) = Published(u)
      BY <1>3, <1>6 DEF Published
    <3>3. ASSUME NEW u \in Tracks
          PROVE  IF Cardinality(Tracks) = 1 THEN track'[u].queue = <<>>
                 ELSE Published(u) > 0 =>
                        /\ ready'["audio"] /\ ready'["video"]
                        /\ Clip(encoder'[u].fed[Published(u)].ts, offset')
                             <= track'[Other(u)].lastTimestamp
      BY <3>1, <2>1, <1>3 DEF HeldBack, Stamp
    <3> QED BY <3>2, <3>3 DEF HeldBack, Published, Stamp
  <2> QED BY <1>2, <1>8, <2>2, <2>4, <2>6, <2>7 DEF MergeInv
<1> QED BY <1>9, <1>10

(* The calls touch nothing the merge depends on. *)
LEMMA UntouchedKeeps ==
    ASSUME MergeInv, TypeOK', UNCHANGED <<encoder, track, ready, offset, clock, emitted, era>>
    PROVE  MergeInv'
BY DEF MergeInv, FedInOrder, OffsetSettled, Stamped, ConfigFirst, HeldBack, NothingLost,
       NoOverdueChunk, InOrder, Published, Stamp

LEMMA StopKeeps == ASSUME MergeInv, StopEnds PROVE MergeInv'
<1>1. TypeOK' /\ era' > 0 BY StopTyped DEF MergeInv
<1>2. UNCHANGED <<encoder, clock>> BY DEF StopEnds
<1> QED BY <1>1, <1>2 DEF MergeInv, FedInOrder, NothingLost, NoOverdueChunk, InOrder

LEMMA MergeNext == MergeInv /\ [Next]_vars => MergeInv'
<1> SUFFICES ASSUME MergeInv, [Next]_vars PROVE MergeInv' OBVIOUS
<1>0. TypeOK BY DEF MergeInv
<1>1. CASE \E t \in Media : \E ts \in Times[t] : addTrackChunk(t, ts) BY <1>1, CaptureKeeps
<1>2. CASE \E t \in Tracks : handleOutput(t) BY <1>2, OutputKeeps
<1>3. CASE ControlStep BY <1>0, <1>3, ControlTyped, UntouchedKeeps
<1>4. CASE StopEnds BY <1>4, StopKeeps
<1>5. CASE UNCHANGED vars
  <2>1. TypeOK' BY <1>0, <1>5 DEF vars, TypeOK
  <2> QED BY <2>1, <1>5, UntouchedKeeps DEF vars
<1> QED BY <1>1, <1>2, <1>3, <1>4, <1>5 DEF Next, ControlStep

-------------------------------------------------------------------------------
(* The inductive invariant of the merge, for any tracks and any times
   (handleTrackChunk, calculateTimestamp, addTrackChunk, pause, stop, reset). *)
THEOREM MergeInvariant == Spec => []MergeInv
<1>1. Init => MergeInv BY MergeInit
<1>2. MergeInv /\ [Next]_vars => MergeInv' BY MergeNext
<1> QED BY <1>1, <1>2, PTL DEF Spec

(* Types: no timestamp is ever negative, also after a stop (calculateTimestamp). *)
THEOREM TypeCorrect == Spec => []TypeOK
<1>1. MergeInv => TypeOK BY DEF MergeInv
<1> QED BY <1>1, MergeInvariant, PTL

(* In the first recording the published frames of both tracks are in the order
   of their timestamps (processAudioChunk, processVideoChunk). *)
THEOREM PublishedInOrder == Spec => []InOrder
<1>1. MergeInv => InOrder BY DEF MergeInv
<1> QED BY <1>1, MergeInvariant, PTL

(* In the first recording no frame is lost, repeated or reordered within its
   track (enqueue, dequeue, publishChunk). *)
THEOREM EveryFrameOnce == Spec => []NothingLost
<1>1. MergeInv => NothingLost BY DEF MergeInv
<1> QED BY <1>1, MergeInvariant, PTL

(* In the first recording a chunk waits only for a track that has not got so
   far (processAudioChunk, processVideoChunk). *)
THEOREM NoNeedlessWait == Spec => []NoOverdueChunk
<1>1. MergeInv => NoOverdueChunk BY DEF MergeInv
<1> QED BY <1>1, MergeInvariant, PTL

===============================================================================
