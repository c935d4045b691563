--------------------------- MODULE StreamProcessor ---------------------------
(***************************************************************************)
(* The recorder of the browser page that pushes a screen over WebTransport *)
(* (plugin/webtransport/web/flv-muxer.iife.js): two WebCodecs encoders     *)
(* whose outputs the StreamProcessor merges by timestamp into one sequence *)
(* of CHUNK_PUBLISH events.                                                *)
(*                                                                         *)
(* Everything runs on one worker thread, but not in one order: raw frames, *)
(* the four calls and the encoders' output callbacks are separate tasks,   *)
(* and pause and stop are asynchronous functions that wait for two flushes *)
(* before they change the state.                                           *)
(*                                                                         *)
(* Times are in milliseconds after the division of calculateTimestamp;     *)
(* payloads are left out.  A chunk remembers the raw frame it was made of  *)
(* and the era of its capture (eras are separated by completed stops).     *)
(***************************************************************************)
EXTENDS Naturals, Sequences, FiniteSets

CONSTANTS
    Tracks,       \* the configured tracks, "audio", "video" or both
    Times,        \* per medium: the timestamps that captured frames may have
    KeyInterval,  \* VideoEncoderTrack.keyframeInterval
    MaxEra        \* bound on the number of completed stops

Media == {"audio", "video"}

ASSUME StreamProcessorAssumption ==
    /\ Tracks \subseteq Media /\ Tracks # {}
    /\ Times \in [Media -> SUBSET Nat]
    /\ KeyInterval \in Nat \ {0}
    /\ MaxEra \in Nat

VARIABLES
    state,          \* StreamProcessor.state
    encoder,        \* per track: the encoder, what it was fed and how much it has put out
    track,          \* per track: _decoderConfig, queue, lastTimestamp
    ready,          \* audioConfigReady, videoConfigReady
    offset,         \* TrackState.offsetTimestamp, 0 for unset
    frameCount,     \* VideoEncoderTrack.frameCount
    clock,          \* per medium: the timestamp after the last captured one
    calls,          \* the pause and the stop that wait for a flush
    emitted,        \* history: the CHUNK_PUBLISH events
    era             \* history: the number of completed stops

vars == <<state, encoder, track, ready, offset, frameCount, clock, calls, emitted, era>>

Idle == [stage |-> "none", upto |-> 0]

NewTrack == [decoderConfig |-> FALSE, queue |-> <<>>, lastTimestamp |-> 0]

Init ==
    /\ state = "inactive"
    /\ encoder = [t \in Tracks |-> [fed |-> <<>>, done |-> 0]]
    /\ track = [t \in Tracks |-> NewTrack]
    /\ ready = [t \in Tracks |-> FALSE]
    /\ offset = 0
    /\ frameCount = 0
    /\ clock = [t \in Media |-> 0]
    /\ calls = [k \in {"pause", "stop"} |-> Idle]
    /\ emitted = <<>>
    /\ era = 0

Other(t) == IF t = "audio" THEN "video" ELSE "audio"

-----------------------------------------------------------------------------
(***************************************************************************)
(* A chunk on its way through the processor.  The operators take and give  *)
(* back the part m of the state that the handlers of one TRACK_CHUNK       *)
(* change: the two queues, ready and the events emitted.                   *)
(***************************************************************************)
Merge == [queue |-> [t \in Tracks |-> track[t].queue], ready |-> ready, emitted |-> emitted]

publishChunk(m, cs) == [m EXCEPT !.emitted = @ \o cs]

enqueue(m, c) == [m EXCEPT !.queue[c.track] = Append(@, c)]

\* variant: the loop stops at an equal timestamp
DueCountStrict(q, ts) ==
    LET late == {i \in 1 .. Len(q) : q[i].timestamp >= ts}
    IN  IF late = {} THEN Len(q)
        ELSE (CHOOSE i \in late : \A j \in late : i <= j) - 1

\* How many chunks at the head of a queue the loop takes that compares each
\* head with the timestamp ts.
DueCount(q, ts) ==
    LET late == {i \in 1 .. Len(q) : q[i].timestamp > ts}
    IN  IF late = {} THEN Len(q)
        ELSE (CHOOSE i \in late : \A j \in late : i <= j) - 1

\* variant: the loop publishes the waiting chunks and leaves them queued
PublishDuePeek(m, t, ts) == publishChunk(m, SubSeq(m.queue[t], 1, DueCount(m.queue[t], ts)))

PublishDue(m, t, ts) ==
    LET n == DueCount(m.queue[t], ts)
    IN  publishChunk([m EXCEPT !.queue[t] = SubSeq(@, n + 1, Len(@))], SubSeq(m.queue[t], 1, n))

ConfigsReady(m) == m.ready["audio"] /\ m.ready["video"]

\* variant: a chunk does not wait for the other track
OtherReachedAlways(c) == TRUE

OtherReached(c) == c.timestamp <= track[Other(c.track)].lastTimestamp

\* The common shape of processAudioChunk and processVideoChunk: publish what
\* the other track has waiting up to this chunk, then publish the chunk or, if
\* the other track has not got that far, queue it.
MergeChunk(m, c) ==
    LET published == PublishDue(m, Other(c.track), c.timestamp)
    IN  IF ~ ConfigsReady(m) THEN enqueue(m, c)
        ELSE IF OtherReached(c) THEN publishChunk(published, <<c>>)
        ELSE enqueue(published, c)

processAudioChunk(m, c) == MergeChunk(m, c)
processVideoChunk(m, c) == MergeChunk(m, c)

setConfigReady(m, t) == [m EXCEPT !.ready[t] = TRUE]

\* With a single track every chunk is published as it comes.
handleTrackChunk(m, c) ==
    IF Cardinality(Tracks) = 1 THEN publishChunk(m, <<c>>)
    ELSE IF c.kind = "SE" THEN publishChunk(setConfigReady(m, c.track), <<c>>)
    ELSE IF c.track = "audio" THEN processAudioChunk(m, c)
    ELSE processVideoChunk(m, c)

\* The sequence header that the setter of decoderConfig emits, and a frame.
SequenceHeader(t) ==
    [kind |-> "SE", track |-> t, timestamp |-> 0, isKey |-> TRUE, frame |-> 0, era |-> era]

Frame(t, i, ts) ==
    [kind |-> "frame", track |-> t, timestamp |-> ts, isKey |-> encoder[t].fed[i].key,
     frame |-> i, era |-> encoder[t].fed[i].era]

-----------------------------------------------------------------------------
\* variant: the count is advanced before it is looked at
KeyFrameDueLate == (frameCount + 1) % KeyInterval = 0

KeyFrameDue == frameCount % KeyInterval = 0

(***************************************************************************)
(* A raw frame reaches addTrackChunk.  It is encoded only while recording; *)
(* a frame of a medium that has no track is neither encoded nor closed.    *)
(***************************************************************************)
addTrackChunk(t, ts) ==
    /\ ts >= clock[t]
    /\ clock' = [clock EXCEPT ![t] = ts + 1]
    /\ \/ /\ state = "recording" /\ t \in Tracks
          /\ encoder' = [encoder EXCEPT ![t].fed =
                Append(@, [ts |-> ts, era |-> era,
                           key |-> t = "audio" \/ KeyFrameDue])]
          /\ frameCount' = IF t = "video" THEN frameCount + 1 ELSE frameCount
       \/ /\ ~ (state = "recording" /\ t \in Tracks)
          /\ UNCHANGED <<encoder, frameCount>>
    /\ UNCHANGED <<state, track, ready, offset, calls, emitted, era>>

\* The shared offset is that of the first chunk of either track; it is taken
\* again as long as it is 0.
OffsetFor(ts) == IF offset = 0 THEN ts ELSE offset

\* variant: an early frame of the second track is not raised to 0
calculateTimestampSigned(ts) == ts - OffsetFor(ts)

calculateTimestamp(ts) == IF ts > OffsetFor(ts) THEN ts - OffsetFor(ts) ELSE 0

(***************************************************************************)
(* The output callback of an encoder.  The first output carries the        *)
(* decoder configuration; whether a later one does is up to the browser.   *)
(* lastTimestamp is set after the chunk has been handled.                  *)
(***************************************************************************)
handleOutput(t) ==
    /\ encoder[t].done < Len(encoder[t].fed)
    /\ \E described \in IF encoder[t].done = 0 THEN {TRUE} ELSE BOOLEAN :
         LET i == encoder[t].done + 1
             raw == encoder[t].fed[i].ts
             ts == calculateTimestamp(raw)
             m1 == IF described /\ ~ track[t].decoderConfig
                   THEN handleTrackChunk(Merge, SequenceHeader(t)) ELSE Merge
             m2 == handleTrackChunk(m1, Frame(t, i, ts))
         IN  /\ track' = [u \in Tracks |->
                   [decoderConfig |-> track[u].decoderConfig \/ (u = t /\ described),
                    queue |-> m2.queue[u],
                    lastTimestamp |-> IF u = t THEN ts ELSE track[u].lastTimestamp]]
             /\ ready' = m2.ready
             /\ emitted' = m2.emitted
             /\ offset' = OffsetFor(raw)
             /\ encoder' = [encoder EXCEPT ![t].done = i]
    /\ UNCHANGED <<state, frameCount, clock, calls, era>>

-----------------------------------------------------------------------------
\* The calls.  Each returns without effect in a state it is not meant for.
start ==
    /\ state' = IF state = "inactive" THEN "recording" ELSE state
    /\ UNCHANGED <<encoder, track, ready, offset, frameCount, clock, calls, emitted, era>>

resume ==
    /\ state' = IF state = "paused" THEN "recording" ELSE state
    /\ UNCHANGED <<encoder, track, ready, offset, frameCount, clock, calls, emitted, era>>

Fed(t) == IF t \in Tracks THEN Len(encoder[t].fed) ELSE 0
Done(t) == IF t \in Tracks THEN encoder[t].done ELSE 0

\* pause and stop begin with the flush of the audio encoder.  Bound: one of
\* each waits at a time.
BeginFlush(k) ==
    /\ calls[k] = Idle
    /\ calls' = IF state = "recording"
                THEN [calls EXCEPT ![k] = [stage |-> "audio", upto |-> Fed("audio")]]
                ELSE calls
    /\ UNCHANGED <<state, encoder, track, ready, offset, frameCount, clock, emitted, era>>

pause == BeginFlush("pause")

stop == era < MaxEra /\ BeginFlush("stop")

\* The audio encoder is flushed when what it had been fed at the call is out;
\* then the flush of the video encoder begins.
flush(k) ==
    /\ calls[k].stage = "audio"
    /\ Done("audio") >= calls[k].upto
    /\ calls' = [calls EXCEPT ![k] = [stage |-> "video", upto |-> Fed("video")]]
    /\ UNCHANGED <<state, encoder, track, ready, offset, frameCount, clock, emitted, era>>

Flushed(k) == calls[k].stage = "video" /\ Done("video") >= calls[k].upto

PauseEnds ==
    /\ Flushed("pause")
    /\ state' = "paused"
    /\ calls' = [calls EXCEPT !["pause"] = Idle]
    /\ UNCHANGED <<encoder, track, ready, offset, frameCount, clock, emitted, era>>

\* reset forgets the configurations and the offset; queues and last timestamps
\* stay.
reset ==
    /\ track' = [t \in Tracks |-> [track[t] EXCEPT !.decoderConfig = FALSE]]
    /\ ready' = [t \in Tracks |-> FALSE]
    /\ offset' = 0
    /\ frameCount' = 0

StopEnds ==
    /\ Flushed("stop")
    /\ reset
    /\ state' = "inactive"
    /\ calls' = [calls EXCEPT !["stop"] = Idle]
    /\ era' = era + 1
    /\ UNCHANGED <<encoder, clock, emitted>>

Next ==
    \/ \E t \in Media : \E ts \in Times[t] : addTrackChunk(t, ts)
    \/ \E t \in Tracks : handleOutput(t)
    \/ start \/ resume \/ pause \/ stop
    \/ \E k \in {"pause", "stop"} : flush(k)
    \/ PauseEnds
    \/ StopEnds

Spec == Init /\ [][Next]_vars

-----------------------------------------------------------------------------
(***************************************************************************)
(* Properties.                                                             *)
(***************************************************************************)
Chunk == [kind : {"SE", "frame"}, track : Tracks, timestamp : Nat, isKey : BOOLEAN,
          frame : Nat, era : Nat]

RawFrame == [ts : Nat, era : Nat, key : BOOLEAN]

\* Every variable keeps its type; in particular a timestamp is never negative, also
\* of a frame captured before the one that set the shared offset
\* (calculateTimestamp).
TypeOK ==
    /\ state \in {"inactive", "recording", "paused"}
    /\ encoder \in [Tracks -> [fed : Seq(RawFrame), done : Nat]]
    /\ \A t \in Tracks : encoder[t].done <= Len(encoder[t].fed)
    /\ track \in [Tracks -> [decoderConfig : BOOLEAN, queue : Seq(Chunk), lastTimestamp : Nat]]
    /\ ready \in [Tracks -> BOOLEAN]
    /\ offset \in Nat
    /\ frameCount \in Nat
    /\ clock \in [Media -> Nat]
    /\ calls \in [{"pause", "stop"} -> [stage : {"none", "audio", "video"}, upto : Nat]]
    /\ emitted \in Seq(Chunk)
    /\ era \in Nat

IsFrameOf(c, t) == c.kind = "frame" /\ c.track = t

Sorted(s) ==
    \A i, j \in DOMAIN s : i < j /\ s[i].kind = "frame" /\ s[j].kind = "frame"
                             => s[i].timestamp <= s[j].timestamp

\* The frames of track t in s are the first k of that track, each once and in order.
FirstFrames(s, t, k) ==
    /\ \A i \in DOMAIN s : IsFrameOf(s[i], t) => s[i].frame \in 1 .. k
    /\ \A n \in 1 .. k : \E i \in DOMAIN s : IsFrameOf(s[i], t) /\ s[i].frame = n
    /\ \A i, j \in DOMAIN s : i < j /\ IsFrameOf(s[i], t) /\ IsFrameOf(s[j], t)
                                => s[i].frame < s[j].frame

\* Up to the end of the first recording the published frames of the two tracks
\* are in the order of their timestamps, whatever the order in which the
\* encoders deliver and however the recording is paused and resumed
\* (processAudioChunk, processVideoChunk).
InOrder == era = 0 => Sorted(emitted)

Published(t) == encoder[t].done - Len(track[t].queue)

\* The merge loses, repeats and reorders nothing: of each track, what has been
\* published followed by what is queued is what its encoder has put out
\* (enqueue and dequeue in handleTrackChunk's branches).
NothingLost ==
    era = 0 => \A t \in Tracks :
       /\ Published(t) >= 0
       /\ FirstFrames(emitted, t, Published(t))
       /\ \A i \in 1 .. Len(track[t].queue) :
             IsFrameOf(track[t].queue[i], t) /\ track[t].queue[i].frame = Published(t) + i

\* A chunk waits only as long as it must: once both configurations are there, a
\* queued chunk is later than everything the other track has put out
\* (processAudioChunk, processVideoChunk).
NoOverdueChunk ==
    (era = 0 /\ \A t \in Tracks : ready[t]) =>
       \A t \in Tracks : \A i \in 1 .. Len(track[t].queue) :
          track[t].queue[i].timestamp > track[Other(t)].lastTimestamp

(***************************************************************************)
(* What the merge rests on, up to the end of the first recording.  Both    *)
(* queues and the published frames are determined by how much each encoder *)
(* has put out, how much of it is published and the shared offset.         *)
(***************************************************************************)
Clip(ts, base) == IF ts > base THEN ts - base ELSE 0

Stamp(t, n) == Clip(encoder[t].fed[n].ts, offset)

FedInOrder ==
    \A t \in Tracks : \A i, j \in 1 .. Len(encoder[t].fed) :
       /\ encoder[t].fed[i].ts < clock[t]
       /\ i <= j => encoder[t].fed[i].ts <= encoder[t].fed[j].ts

\* offsetTimestamp is taken again only while every output so far was at 0.
OffsetSettled ==
    offset = 0 => \A t \in Tracks : \A n \in 1 .. encoder[t].done : encoder[t].fed[n].ts = 0

Stamped ==
    \A t \in Tracks :
       /\ track[t].lastTimestamp = IF encoder[t].done = 0 THEN 0 ELSE Stamp(t, encoder[t].done)
       /\ \A i \in 1 .. Len(track[t].queue) :
             track[t].queue[i].timestamp = Stamp(t, track[t].queue[i].frame)
       /\ \A i \in DOMAIN emitted :
             IsFrameOf(emitted[i], t) => emitted[i].timestamp = Stamp(t, emitted[i].frame)

\* The first output of an encoder brings its configuration.
ConfigFirst ==
    \A t \in Tracks :
       /\ track[t].decoderConfig <=> encoder[t].done > 0
       /\ Cardinality(Tracks) # 1 => (ready[t] <=> encoder[t].done > 0)

\* A single track never queues.  Of two tracks neither publishes a frame before
\* both have a configuration, nor one that the other track has not reached.
HeldBack ==
    \A t \in Tracks :
       IF Cardinality(Tracks) = 1 THEN track[t].queue = <<>>
       ELSE Published(t) > 0 =>
              /\ ready["audio"] /\ ready["video"]
              /\ Stamp(t, Published(t)) <= track[Other(t)].lastTimestamp

\* The invariant by which the properties above are proved: besides their types,
\* what the handlers of one output leave behind for those of the next
\* (handleTrackChunk, calculateTimestamp).
MergeInv ==
    /\ TypeOK /\ FedInOrder
    /\ era = 0 => OffsetSettled /\ Stamped /\ ConfigFirst /\ HeldBack
    /\ NothingLost /\ NoOverdueChunk /\ InOrder
=============================================================================
