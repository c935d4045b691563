------------------------------- MODULE FlvMuxer -------------------------------
(***************************************************************************)
(* The page that pushes the screen over WebTransport, put together: the    *)
(* main thread (example.js) that captures and posts messages, the worker   *)
(* (worker.js), and the FlvMuxer of flv-muxer.iife.js with its pipes,      *)
(* around StreamProcessor and FlvEncoder.                                  *)
(*                                                                         *)
(* Each start makes a session: a source stream fed by a CHUNK_PUBLISH      *)
(* handler, a transform that muxes, and a pipe to the one output stream,   *)
(* which a running pipe keeps locked.  The buttons of the page are never   *)
(* disabled, so every call may come at any time.                           *)
(***************************************************************************)
EXTENDS StreamProcessor, FlvEncoder

CONSTANTS
    MaxSessions,   \* bound on the number of starts
    BodyLen        \* bytes in the payload of a chunk

VARIABLES
    worker,     \* worker.js has set onmessage: the transport is ready
    asking,     \* example.js: getDisplayMedia is pending
    stream,     \* example.js: the user has chosen a stream
    sessions,   \* the sessions in the order of their starts
    bus,        \* the sessions with a handler for CHUNK_PUBLISH on the event bus
    lock,       \* the session whose pipe locks the output stream, 0 for none
    writer      \* FlvEncoder.writer

muxVars == <<worker, asking, stream, sessions, bus, lock, writer>>
allVars == <<vars, muxVars>>

MuxInit ==
    /\ Init
    /\ worker = FALSE
    /\ asking = FALSE
    /\ stream = FALSE
    /\ sessions = <<>>
    /\ bus = {}
    /\ lock = 0
    /\ writer = NewWriter

-----------------------------------------------------------------------------
\* The strategies turn a chunk into a tag.  The identity of a payload is that of
\* its frame.
Payload(c) == OpaqueBytes(2 * c.frame + (IF c.track = "video" THEN 1 ELSE 0), BodyLen)

AACRawStrategy(w, c) == encodeAudioTag(w, "AACRaw", c.timestamp, Payload(c))
AACSEStrategy(w, c) == encodeAudioTag(w, "AACSequenceHeader", 0, Payload(c))
AVCSEStrategy(w, c) == encodeVideoTag(w, "KeyFrame", "SequenceHeader", 0, 0, Payload(c))

AVCNALUStrategy(w, c) ==
    encodeVideoTag(w, IF c.isKey THEN "KeyFrame" ELSE "InterFrame", "NALU", 0, c.timestamp, Payload(c))

muxChunk(w, c) ==
    CASE c.kind = "SE" /\ c.track = "audio" -> AACSEStrategy(w, c)
      [] c.kind = "SE" /\ c.track = "video" -> AVCSEStrategy(w, c)
      [] c.kind = "frame" /\ c.track = "audio" -> AACRawStrategy(w, c)
      [] c.kind = "frame" /\ c.track = "video" -> AVCNALUStrategy(w, c)

\* The metadata of the configuration that worker.js sets; large numbers are named
\* by small ones.
Property(id, len, type, x) ==
    [key |-> [id |-> id, len |-> len], value |-> [type |-> type, value |-> x]]

Metadata ==
    [type |-> "ECMA_ARRAY",
     value |-> <<Property(1, 8, "NUMBER", 0), Property(2, 7, "STRING", [id |-> 3, len |-> 12])>>
        \o (IF "video" \in Tracks
            THEN <<Property(4, 12, "NUMBER", 7), Property(5, 5, "NUMBER", 11),
                   Property(6, 6, "NUMBER", 12), Property(7, 9, "NUMBER", 30)>>
            ELSE <<>>)
        \o (IF "audio" \in Tracks
            THEN <<Property(8, 12, "NUMBER", 10), Property(9, 13, "NUMBER", 0),
                   Property(10, 6, "BOOLEAN", TRUE), Property(11, 15, "NUMBER", 44)>>
            ELSE <<>>)]

encodeMetadata(w) == encodeScriptDataTag(w, Metadata)

\* The transform begins with the file header and the metadata.
Prologue ==
    LET w1 == encodeFlvHeader(writer, "video" \in Tracks, "audio" \in Tracks)
        w2 == encodeMetadata(w1)
    IN  [bytes |-> getBytes(w1) \o getBytes(w2), writer |-> w2]

-----------------------------------------------------------------------------
\* The worker's transport is ready and onmessage is set.  Messages that come
\* earlier are dropped.
Boot ==
    /\ ~ worker
    /\ worker' = TRUE
    /\ UNCHANGED <<vars, asking, stream, sessions, bus, lock, writer>>

\* initSourceStream: the session's source and its handler on the bus.
initSourceStream == bus' = bus \cup {Len(sessions) + 1}

(***************************************************************************)
(* FlvMuxer.start makes the streams whatever the state is.  A pipe to an   *)
(* output stream that is locked is rejected; the handler stays.            *)
(***************************************************************************)
muxerStart ==
    /\ Len(sessions) < MaxSessions
    /\ initSourceStream
    /\ LET p == Prologue
       IN  /\ writer' = p.writer
           /\ sessions' = Append(sessions,
                [open |-> TRUE, piped |-> lock = 0, head |-> p.bytes, buf |-> <<>>,
                 file |-> <<>>, got |-> <<>>])
    /\ lock' = IF lock = 0 THEN Len(sessions) + 1 ELSE lock
    /\ start

\* FlvMuxer.stop removes the handler of the last session and closes its
\* source before the processor flushes.  Closing a closed source throws, and the
\* processor is not reached.
muxerStop ==
    LET s == Len(sessions)
    IN  \/ /\ s # 0 /\ sessions[s].open
           /\ bus' = bus \ {s}
           /\ sessions' = [sessions EXCEPT ![s].open = FALSE]
           /\ stop
        \/ /\ s # 0 /\ ~ sessions[s].open
           /\ UNCHANGED <<vars, bus, sessions>>
        \/ /\ s = 0
           /\ stop
           /\ UNCHANGED <<bus, sessions>>

-----------------------------------------------------------------------------
\* The buttons of the page.  Bound: one picker is open at a time.
startRecording ==
    /\ ~ asking
    /\ asking' = TRUE
    /\ IF worker THEN muxerStart ELSE UNCHANGED <<vars, sessions, bus, lock, writer>>
    /\ UNCHANGED <<worker, stream>>

\* The user chooses a screen, or refuses.
getDisplayMedia ==
    /\ asking
    /\ asking' = FALSE
    /\ stream' \in {stream, TRUE}
    /\ UNCHANGED <<vars, worker, sessions, bus, lock, writer>>

\* The tracks of the stream are stopped after the message is posted; frames already
\* captured still come.
stopRecording ==
    /\ IF worker THEN muxerStop ELSE UNCHANGED <<vars, bus, sessions>>
    /\ UNCHANGED <<worker, asking, stream, lock, writer>>

pauseRecording ==
    /\ IF worker THEN pause ELSE UNCHANGED vars
    /\ UNCHANGED <<worker, asking, stream, sessions, bus, lock, writer>>

resumeRecording ==
    /\ IF worker THEN resume ELSE UNCHANGED vars
    /\ UNCHANGED <<worker, asking, stream, sessions, bus, lock, writer>>

\* A frame of the screen or its sound; frames already captured still come after
\* the end of the stream.
Data(t, ts) ==
    /\ worker /\ stream
    /\ addTrackChunk(t, ts)
    /\ UNCHANGED muxVars

-----------------------------------------------------------------------------
\* emit: every handler on the bus puts the chunk into its session's source; a
\* source that is closed throws, which emit catches.
Emit(cs) ==
    sessions' = [s \in 1 .. Len(sessions) |->
        IF s \in bus /\ sessions[s].open
        THEN [sessions[s] EXCEPT !.buf = @ \o cs, !.got = @ \o cs]
        ELSE sessions[s]]

Output(t) ==
    /\ handleOutput(t)
    /\ Emit(SubSeq(emitted', Len(emitted) + 1, Len(emitted')))
    /\ UNCHANGED <<worker, asking, stream, bus, lock, writer>>

\* The pipe that holds the lock writes what its session has.
Mux(w, cs) ==
    FoldLeft(LAMBDA x, c : LET y == muxChunk(x.writer, c)
                           IN  [writer |-> y, bytes |-> x.bytes \o getBytes(y)],
             [writer |-> w, bytes |-> <<>>], cs)

Pump(s) ==
    /\ lock = s
    /\ sessions[s].head # <<>> \/ sessions[s].buf # <<>>
    /\ LET out == Mux(writer, sessions[s].buf)
       IN  /\ writer' = out.writer
           /\ sessions' = [sessions EXCEPT
                 ![s].file = @ \o sessions[s].head \o out.bytes,
                 ![s].head = <<>>, ![s].buf = <<>>]
    /\ UNCHANGED <<vars, worker, asking, stream, bus, lock>>

\* A pipe whose source is closed and drained ends and leaves the output open.
PipeEnds(s) ==
    /\ lock = s
    /\ ~ sessions[s].open /\ sessions[s].head = <<>> /\ sessions[s].buf = <<>>
    /\ lock' = 0
    /\ UNCHANGED <<vars, worker, asking, stream, sessions, bus, writer>>

Flush(k) == flush(k) /\ UNCHANGED muxVars
PauseReturns == PauseEnds /\ UNCHANGED muxVars
StopReturns == StopEnds /\ UNCHANGED muxVars

MuxNext ==
    \/ Boot
    \/ startRecording
    \/ getDisplayMedia
    \/ stopRecording
    \/ pauseRecording
    \/ resumeRecording
    \/ \E t \in Media : \E ts \in Times[t] : Data(t, ts)
    \/ \E t \in Tracks : Output(t)
    \/ \E s \in 1 .. MaxSessions : Pump(s)
    \/ \E s \in 1 .. MaxSessions : PipeEnds(s)
    \/ \E k \in {"pause", "stop"} : Flush(k)
    \/ PauseReturns
    \/ StopReturns

MuxSpec == MuxInit /\ [][MuxNext]_allVars

-----------------------------------------------------------------------------
(***************************************************************************)
(* Properties.                                                             *)
(***************************************************************************)
\* What a reader of FLV must find for a chunk.
TagOf(c) ==
    IF c.track = "audio"
    THEN [type |-> 8, timestamp |-> c.timestamp,
          body |-> <<175, IF c.kind = "SE" THEN 0 ELSE 1>> \o Payload(c)]
    ELSE [type |-> 9, timestamp |-> c.timestamp,
          body |-> <<IF c.isKey THEN 23 ELSE 39, IF c.kind = "SE" THEN 0 ELSE 1, 0, 0, 0>>
                       \o Payload(c)]

MetadataTag(tag) ==
    /\ tag.type = 18 /\ tag.timestamp = 0
    /\ LET name == ReadValue(tag.body)
           data == ReadValue(name.rest)
       IN  /\ name.value = [type |-> "STRING", value |-> [id |-> 0, len |-> 10]]
           /\ data.value = Metadata
           /\ data.rest = <<>>

\* What a session has written is a well-formed FLV file: the header, the metadata
\* and then, tag by tag, the chunks its handler received, in that order, with
\* their types, timestamps (24 bits and the extension) and payloads.  The one
\* BinaryWriter that all tags share and that grows on the way does not show
\* (initMuxStream, muxChunk, FlvEncoder).
FileReadsBack ==
    \A s \in 1 .. Len(sessions) : sessions[s].file # <<>> =>
       LET f == sessions[s].file
           tags == ReadTags(SubSeq(f, 14, Len(f)))
           written == SubSeq(sessions[s].got, 1, Len(sessions[s].got) - Len(sessions[s].buf))
       IN  /\ FlvHeaderOK(f, "video" \in Tracks, "audio" \in Tracks)
           /\ Len(tags) = 1 + Len(written)
           /\ MetadataTag(tags[1])
           /\ \A i \in 1 .. Len(written) : tags[i + 1] = TagOf(written[i])

\* Up to its end the first recording can be decoded from its beginning: a frame
\* comes after the sequence header of its track, and the first video frame is a
\* key frame (addTrackChunk, the setter of decoderConfig, initSourceStream).
Decodable ==
    (era = 0 /\ Len(sessions) > 0) =>
       LET got == sessions[1].got
       IN  \A i \in 1 .. Len(got) : got[i].kind = "frame" =>
              /\ \E j \in 1 .. i - 1 : got[j].kind = "SE" /\ got[j].track = got[i].track
              /\ got[i].track = "video" =>
                    \/ got[i].isKey
                    \/ \E j \in 1 .. i - 1 : got[j].kind = "frame" /\ got[j].track = "video"
=============================================================================
