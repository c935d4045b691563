------------------------------ MODULE FlvEncoder ------------------------------
(***************************************************************************)
(* The FLV encoder of plugin/webtransport/web/flv-muxer.iife.js: a growing *)
(* BinaryWriter, AMF script data and the FLV tags, as functions from a     *)
(* writer to a writer; and, to compare with, a reader of FLV written from  *)
(* the format.                                                             *)
(*                                                                         *)
(* A written byte is a number in 0 .. 255, or a negative number that       *)
(* stands for a byte whose value does not matter here: Opaque(x, i) is the *)
(* i-th byte of the value, string or payload x.                            *)
(***************************************************************************)
EXTENDS Integers, Sequences, SequencesExt

CONSTANTS
    DefaultBuffer,  \* DEFAULT_BUFFER, 1024 in the code
    MinGrowth,      \* MIN_GROWTH, 512 in the code
    LongString      \* the length above which a string is LONG_STRING, 65535 in the code

ASSUME FlvEncoderAssumption ==
    DefaultBuffer \in Nat /\ MinGrowth \in Nat /\ LongString \in Nat

MaxValue == 64   \* bound on the opaque values
Opaque(x, i) == - (1 + x + MaxValue * i)
OpaqueBytes(x, n) == [i \in 1 .. n |-> Opaque(x, i)]

-----------------------------------------------------------------------------
(***************************************************************************)
(* BinaryWriter: buf holds the bytes before the position, cap is the size  *)
(* of the underlying array.  It is created once and reused for every tag.  *)
(* Each write operator below gives the bytes of one write, and each        *)
(* encoder the sequence of its writes, which write makes one by one.       *)
(***************************************************************************)
NewWriter == [cap |-> DefaultBuffer, buf |-> <<>>]

\* The size of the array once n more bytes are to follow the first pos.
ensureAvailable(cap, pos, n) ==
    IF pos + n <= cap THEN cap
    ELSE IF 2 * cap >= pos + n + MinGrowth THEN 2 * cap
    ELSE pos + n + MinGrowth

\* Bytes beyond the end of the array would not be stored.
write(w, writes) ==
    LET after[i \in 0 .. Len(writes)] ==
          IF i = 0 THEN [cap |-> w.cap, pos |-> Len(w.buf)]
          ELSE LET before == after[i - 1]
                   n == Len(writes[i])
               IN  [cap |-> ensureAvailable(before.cap, before.pos, n), pos |-> before.pos + n]
        last == after[Len(writes)]
    IN  [cap |-> last.cap,
         buf |-> SubSeq(w.buf \o FlattenSeq(writes), 1,
                        IF last.pos <= last.cap THEN last.pos ELSE last.cap)]

writeUint8(v) == <<v % 256>>
writeUint16(v) == <<(v \div 256) % 256, v % 256>>
writeUint24(v) == <<(v \div 65536) % 256, (v \div 256) % 256, v % 256>>
writeUint32(v) == <<(v \div 16777216) % 256, (v \div 65536) % 256, (v \div 256) % 256, v % 256>>
writeFloat64(x) == OpaqueBytes(x, 8)

\* A string is its identity s.id and its length s.len in bytes.
writeString(s) == OpaqueBytes(s.id, s.len)

resetWriter(w) == [w EXCEPT !.buf = <<>>]

getBytes(w) == w.buf

-----------------------------------------------------------------------------
(***************************************************************************)
(* Script data (AMF).  A value is a record of its type and its content.    *)
(***************************************************************************)
AmfType ==
    [NUMBER |-> 0, BOOLEAN |-> 1, STRING |-> 2, NULL |-> 5, UNDEFINED |-> 6,
     ECMA_ARRAY |-> 8, STRICT_ARRAY |-> 10, DATE |-> 11, LONG_STRING |-> 12]

writeScriptDataString(s) == <<writeUint16(s.len), writeString(s)>>

writeScriptDataLongString(s) == <<writeUint32(s.len), writeString(s)>>

writeScriptDataDate(x) == <<writeFloat64(x), writeUint16(0)>>

writeScriptDataObjectEnd == <<writeUint8(0), writeUint8(0), writeUint8(9)>>

RECURSIVE writeScriptDataValue(_)

writeScriptDataObjectProperty(p) == writeScriptDataString(p.key) \o writeScriptDataValue(p.value)

writeScriptDataEcmaArray(ps) ==
    <<writeUint32(Len(ps))>>
      \o FlattenSeq([i \in 1 .. Len(ps) |-> writeScriptDataObjectProperty(ps[i])])
      \o writeScriptDataObjectEnd

writeScriptDataStrictArray(vs) ==
    <<writeUint32(Len(vs))>> \o FlattenSeq([i \in 1 .. Len(vs) |-> writeScriptDataValue(vs[i])])

writeScriptDataValue(v) ==
    LET typed(t, writes) == <<writeUint8(AmfType[t])>> \o writes
    IN  CASE v.type \in {"NULL", "UNDEFINED"} -> typed(v.type, <<>>)
          [] v.type = "BOOLEAN" -> typed("BOOLEAN", <<writeUint8(IF v.value THEN 1 ELSE 0)>>)
          [] v.type = "NUMBER" -> typed("NUMBER", <<writeFloat64(v.value)>>)
          [] v.type = "STRING" ->
                IF v.value.len > LongString
                THEN typed("LONG_STRING", writeScriptDataLongString(v.value))
                ELSE typed("STRING", writeScriptDataString(v.value))
          [] v.type = "DATE" -> typed("DATE", writeScriptDataDate(v.value))
          [] v.type = "STRICT_ARRAY" -> typed("STRICT_ARRAY", writeScriptDataStrictArray(v.value))
          [] v.type = "ECMA_ARRAY" -> typed("ECMA_ARRAY", writeScriptDataEcmaArray(v.value))

-----------------------------------------------------------------------------
(***************************************************************************)
(* Tags.                                                                   *)
(***************************************************************************)
TagType == [AUDIO |-> 8, VIDEO |-> 9, SCRIPT |-> 18]
FrameType == [KeyFrame |-> 1, InterFrame |-> 2]
CodeId == [AVC |-> 7]
AvcPacketType == [SequenceHeader |-> 0, NALU |-> 1]
SoundFormat == [AAC |-> 10]
SoundRate == [kHz44 |-> 3]
SoundSize == [Sound16bit |-> 1]
SoundType == [Stereo |-> 1]
AACPacketType == [AACSequenceHeader |-> 0, AACRaw |-> 1]

\* "FLV", version, flags, the length of this header, and the size of a tag
\* before the first one.
encodeFlvHeader(w, hasVideo, hasAudio) ==
    write(resetWriter(w),
        <<<<70, 76, 86>>, writeUint8(1),
          writeUint8((IF hasAudio THEN 4 ELSE 0) + (IF hasVideo THEN 1 ELSE 0)),
          writeUint32(9), writeUint32(0)>>)

\* variant: the extension byte is not shifted
encodeFlvTagNoExtension(w, type, header, timestamp, data) ==
    LET dataSize == Len(header) + Len(data)
    IN  write(resetWriter(w),
            <<writeUint8(TagType[type]), writeUint24(dataSize),
              writeUint24(timestamp % 16777216), writeUint8(timestamp),
              writeUint24(0), header, data, writeUint32(11 + dataSize)>>)

encodeFlvTag(w, type, header, timestamp, data) ==
    LET dataSize == Len(header) + Len(data)
    IN  write(resetWriter(w),
            <<writeUint8(TagType[type]), writeUint24(dataSize),
              writeUint24(timestamp % 16777216), writeUint8(timestamp \div 16777216),
              writeUint24(0), header, data, writeUint32(11 + dataSize)>>)

encodeScriptDataTag(w, metadata) ==
    LET name == [type |-> "STRING", value |-> [id |-> 0, len |-> 10]]   \* "onMetaData"
        body == write(resetWriter(w), writeScriptDataValue(name) \o writeScriptDataValue(metadata))
    IN  encodeFlvTag(body, "SCRIPT", <<>>, 0, getBytes(body))

encodeAudioTag(w, aacPacketType, timestamp, data) ==
    LET first == SoundFormat["AAC"] * 16 + SoundRate["kHz44"] * 4
                   + SoundSize["Sound16bit"] * 2 + SoundType["Stereo"]
    IN  encodeFlvTag(w, "AUDIO", <<first, AACPacketType[aacPacketType]>>, timestamp, data)

encodeVideoTag(w, frameType, avcPacketType, compositionTime, timestamp, data) ==
    encodeFlvTag(w, "VIDEO",
        <<FrameType[frameType] * 16 + CodeId["AVC"], AvcPacketType[avcPacketType]>>
          \o writeUint24(compositionTime),
        timestamp, data)

-----------------------------------------------------------------------------
(***************************************************************************)
(* A reader of FLV, from the format's own definition, to compare with.  It *)
(* gives the tags of a byte sequence; a tag that does not parse gives the  *)
(* element Malformed and ends the reading.                                 *)
(***************************************************************************)
Malformed == [type |-> 0, timestamp |-> 0, body |-> <<>>]

BigEndian(s, i, n) == FoldLeft(LAMBDA x, b : 256 * x + b, 0, SubSeq(s, i, i + n - 1))

FlvHeaderOK(s, video, audio) ==
    /\ Len(s) >= 13
    /\ SubSeq(s, 1, 13) = <<70, 76, 86, 1, (IF audio THEN 4 ELSE 0) + (IF video THEN 1 ELSE 0),
                            0, 0, 0, 9, 0, 0, 0, 0>>

RECURSIVE ReadTags(_)
ReadTags(s) ==
    IF s = <<>> THEN <<>>
    ELSE IF Len(s) < 15 \/ \E i \in 1 .. 11 : s[i] < 0 THEN <<Malformed>>
    ELSE LET size == BigEndian(s, 2, 3)
             tag == [type |-> s[1],
                     timestamp |-> BigEndian(s, 5, 3) + 16777216 * s[8],
                     body |-> SubSeq(s, 12, 11 + size)]
         IN  IF Len(s) < 15 + size \/ BigEndian(s, 12 + size, 4) # 11 + size THEN <<Malformed>>
             ELSE <<tag>> \o ReadTags(SubSeq(s, 16 + size, Len(s)))

(***************************************************************************)
(* A reader of AMF: the value at the head of s and what follows it.        *)
(***************************************************************************)
ReadString(s, n, size) ==
    [value |-> [id |-> IF size = 0 THEN 0 ELSE (- s[n + 1] - 1) % MaxValue, len |-> size],
     rest |-> SubSeq(s, n + size + 1, Len(s))]

RECURSIVE ReadValue(_)
RECURSIVE ReadProperties(_, _)
RECURSIVE ReadElements(_, _, _)
ReadProperties(s, ps) ==
    IF SubSeq(s, 1, 3) = <<0, 0, 9>> THEN [value |-> ps, rest |-> SubSeq(s, 4, Len(s))]
    ELSE LET k == ReadString(s, 2, BigEndian(s, 1, 2))
             v == ReadValue(k.rest)
         IN  ReadProperties(v.rest, Append(ps, [key |-> k.value, value |-> v.value]))
ReadElements(s, n, vs) ==
    IF n = 0 THEN [value |-> vs, rest |-> s]
    ELSE LET v == ReadValue(s) IN ReadElements(v.rest, n - 1, Append(vs, v.value))
ReadValue(s) ==
    LET t == CHOOSE n \in DOMAIN AmfType : AmfType[n] = s[1]
        body == Tail(s)
        float == (- body[1] - 1) % MaxValue
        typed(type, r) == [value |-> [type |-> type, value |-> r.value], rest |-> r.rest]
    IN  CASE t \in {"NULL", "UNDEFINED"} -> [value |-> [type |-> t], rest |-> body]
          [] t = "BOOLEAN" -> typed(t, [value |-> body[1] = 1, rest |-> Tail(body)])
          [] t = "NUMBER" -> typed(t, [value |-> float, rest |-> SubSeq(body, 9, Len(body))])
          [] t = "DATE" -> typed(t, [value |-> float, rest |-> SubSeq(body, 11, Len(body))])
          [] t = "STRING" -> typed("STRING", ReadString(body, 2, BigEndian(body, 1, 2)))
          [] t = "LONG_STRING" -> typed("STRING", ReadString(body, 4, BigEndian(body, 1, 4)))
          [] t = "STRICT_ARRAY" ->
                typed(t, ReadElements(SubSeq(body, 5, Len(body)), BigEndian(body, 1, 4), <<>>))
          [] t = "ECMA_ARRAY" -> typed(t, ReadProperties(SubSeq(body, 5, Len(body)), <<>>))
=============================================================================
