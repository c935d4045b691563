# Verification of Monibuca's core in TLA+

Monibuca is a streaming media server: publishers bring audio and video tracks in
over some protocol, subscribers take them out over another one, and recording,
relaying, uploading and clustering are built around these two. This directory
holds TLA+ models of the parts of it in which goroutines, the event loop,
timers and callbacks meet, on the server and in its browser programs, the TLC configurations that check them on small
instances, and TLAPS proofs of what holds for every instance.

`PROJECT.json` maps every definition to the source lines it stands for and lists
the runs, the hazards, the findings, the theorems and, for each checked property,
a variant of the code that violates it.

Paths below are relative to `src/`.

## 1. Inventory

| Component | State | Operations | Hard behaviours | What makes it correct |
|---|---|---|---|---|
| **Media ring** (`pkg/ring-writer.go`, `pkg/ring-reader.go`, `pkg/av_reader.go`, `pkg/avframe.go`) | a ring of frames with a RWMutex each, the node pool, the list of key frames, `LastValue`, the atomic `status` | `Step`, `glow`, `reduce`, `Dispose`, `StartRead`, `Read`, `ReadFrame` | one writer, many readers and a disposing goroutine without a common lock; resizing under readers | no half-written frame is read, readers go forward, locks are released exactly once, nobody stays blocked |
| **Stream routing** (`publisher.go`, `subscriber.go`, `wait_stream.go`, `alias.go`, `plugin.go`, `api.go`) | `Streams`, `Waiting`, `AliasStreams`, each publisher's subscribers, counters and `State` | publish, kick, dispose, subscribe, wait, time out, set / change / remove an alias, `ChangeSubscribe` | the event loop against the kicking publisher's goroutine; subscribers that are moved repeatedly | every subscriber is in one place, with the right live stream or waiting for one that is not there; the counters that close idle publishers are right |
| **Recording limiter** (`plugin/mp4/limits.go`, `RecordWithDispose` in `plugin.go`) | `active`, `waiters`, the tokens in the channels | `Reserve`, `Wait`, `Release`, `removeWaiter`, the automatic recording gate, the record job | a timeout that races a hand-over, a release from two error paths, a publisher that ends during the registration of a job | no slot leaks or is counted twice, the limit holds, the queue is FIFO, slots come back |
| **Browser push page** (`plugin/webtransport/web`: `flv-muxer.iife.js`, `worker.js`, `example.js`) | the recorder's state, two encoder tracks with queues and last timestamps, the shared offset, the muxer's sessions, pipes and writer | start, pause, resume, stop, a raw frame, an encoder's output, muxing | two encoders that deliver out of order; calls that wait for flushes while others come in; a growing buffer shared by all tags | what is captured is written once, in the order of time, as a readable FLV file |
| **WebRTC BatchV2** (`plugin/webrtc/web/BatchV2Client.ts`, `plugin/webrtc/batchv2.go`) | the socket, the peer connection with its transceivers and signaling state, the client's maps; the server's subscribers, senders and publisher | connect, publish, unpublish, subscribe, unsubscribe, list, disconnect; the server's handlers | methods that interleave at every `await`; a socket that ends in the middle; refused streams; reuse of transceivers by two rules | client and server agree on the subscriptions, the map leads to the right transceiver, promises settle |
| **Play loop** (`subscriber.go`, `PlayBlock`) | the readers of the two tracks, their start timestamps | `createReaders`, the read loop, `checkPublishChanged` | a publisher change in the middle of a read | the loop follows a publisher change; timestamps stay monotone |
| **Task engine** (`pkg/task`, and the external module `gotask` that is really used) | tasks, jobs and their event loops | `AddTask`, `Start`, `Stop`, `Dispose`, retry | cancellation before the start, dispose order | a stopped task is disposed once, after its children |
| **Cluster** (`plugin/cluster`) | node sessions, stream keys, relay pulls | acquire, release, rebind, relay | session loss, partition, a late release | one owner per stream key |
| **Uploads** (`upload_task.go`, `upload_retry.go`, `upload_recover.go`) | database rows, the pending directory, slots | upload, claim, retry, recover | a crash between two of these; two claimants | a file is uploaded or stays eligible |
| **Storage runtime** (`storage_runtime.go`, `storage_reconnect.go`, `pkg/storage`) | the active storage, the backoff | fall back, reconnect, activate | activation while recordings run | a recording is written where it is looked for |
| **Pull and push** (`puller.go`, `pull_proxy.go`, `pusher.go`, `push_proxy.go`) | proxy status, retry counters | start, fail, back off, change status | status written by several goroutines | a proxy that is to be online comes back |
| **MP4 recovery, crontab, log rotation** | run state, plans, file sizes | run, plan, rotate | overlapping runs | one run at a time |
| **Protocol plugins, codecs, containers, API and configuration** | connections, parsers, database rows | wire formats, handlers | parsing | they call the operations above |

How the parts interact. A plugin calls `PublishWithConfig`, which adds a
`Publisher` task to `Server.Streams`; its `Start` wakes the subscribers that wait
for its path. The plugin then fills frames and calls `RingWriter.Step` on its own
goroutine. A subscriber's goroutine reads that ring through an `AVRingReader`. The
publisher's dispose, on the event loop, disposes the rings (and so wakes blocked
readers) and sends the subscribers back to the waiting list. A published stream
that is to be recorded asks the limiter for a slot; the record job is registered
with the publisher, whose dispose stops it.

Two browser programs belong to the repository. The push page captures a screen, encodes
it and sends FLV over WebTransport to the plugin, which publishes it. The BatchV2 client
publishes one stream and subscribes to many over one peer connection; every request over
its WebSocket carries an offer that the server is to answer.

## 2. Modules

| Module | Models | Status |
|---|---|---|
| `RingLock` | the locking protocol of a ring: which slots the writer holds and how `status` arbitrates `Step` and `Dispose` (abstract) | checked, proved |
| `MediaRing` | one track's ring in full; implements `RingLock` | checked, proved, with the refinement |
| `RecordLimiter` | the limiter and the life of a slot around it | checked, proved |
| `StreamRouting` | publishers, subscribers, waiting list, aliases, takeover | checked, proved |
| `StreamProcessor` | the recorder of the push page: two encoders merged by timestamp | checked, proved |
| `FlvEncoder` | the bytes of FLV tags and script data, and a reader to compare with | checked through `FlvMuxer` |
| `FlvMuxer` | the push page as a whole, composed of the two | checked |
| `BatchV2Client` | the BatchV2 client, the server's handler and the socket between them | checked, proved |
| `RingLock_proofs`, `MediaRing_proofs`, `RecordLimiter_proofs`, `StreamProcessor_proofs`, `StreamRouting_proofs`, `BatchV2Client_proofs`, `BatchV2Subscriptions_proofs` | theorems | proved |
| `MCMediaRing`, `MCRecordLimiter`, `MCStreamRouting`, `MCStreamProcessor`, `MCFlvMuxer`, `MCBatchV2Client` | instances for TLC | |

In every module a definition whose comment calls it a *mutant* or a *variant* is
not part of the specification: it is the definition below it with a plausible
mistake, and shows which property notices it.

### RingLock

`cur` is `rb.Ring`, `completed` the local variable of `Step`, `status` the atomic
counter. `Enter` and `Exit` are its `Add(1)` and `Add(-1)`; the outcomes of the
latter (0, -1, other) lead to `ReleaseCompleted`, `UnlockBoth` followed by
`UnlockValue`, or `ReleaseCompleted` again. `Dispose` is `Add(-1)` from another
goroutine; it unlocks the current slot itself when no `Step` is under way. A reader
is in `rlocked[s]` from its call of `RLock`, whether or not that has returned:
`TryLock` fails in both cases. An `Unlock` of an unlocked mutex, which the Go
runtime answers by aborting the process, sets `fatal`.

### MediaRing

`ring` is the sequence of nodes from the current one; `pool` the node pool;
`NextOf` is `Ring.Next` for a node wherever it is by now, because readers keep
pointers to nodes that have left the ring. `Resize` is the first part of `Step`
(`PushIDR`, the stale entries of the key frame list, `glow`, `reduce`), `Enter` to
`UnlockValue` the rest of it. A reader checks `discard` (`StartReadCheck`), calls
`RLock` (`StartReadLock`), is let in (`Acquire`, with the too-slow jump), chooses
its next node while it still holds the old one (`NextFrame`) and releases it
(`StopRead`).

Abstracted: the contents of frames, codecs, and time. A frame's timestamp is its
sequence number, and a payload is present or recycled. Steps of the writer that no
other process can observe in between are merged: all of `Resize` is one step, since
readers see of it only links and flags that they read one at a time anyway. The jump of a
slow reader uses any of the three thresholds of `readFrame`, since the publisher's speed may
change at any time. A video frame that `nextVideo` drops at a higher speed (`ErrSkip`) or for
its codec is reset in place, which nobody sees; the key frame that video pushes into the list
of the audio track is another ring's. In BUFFER mode what a reader looked up before its wait
is used only if the list was empty, and then it did not wait.

### RecordLimiter

Every critical section under `RecordLimiter.mu` is one action. `pc` is the place of
each request's goroutine, `job` the state of its `RecordJob` on the task engine's
event loop. `WaitExpired` and `RemoveWaiter` are the two halves of a timeout: the
context ends, then the lock is taken, and in between a `Release` may have put the
slot into the channel. `RecordJobInit`, `Using`, `Recheck`, `StopIfStarted` and
`WaitStarted` are `RecordWithDispose`; `stopRequested` and `onStart` are its two
flags, written and read on two goroutines.

### StreamRouting

The event loop of `Server.Streams` runs the `Start` and `Dispose` of publishers and
subscribers and the alias calls, one at a time: each is one action.
`PublishWithConfig` runs on the caller's goroutine: a publisher that finds its path
taken (`PublishExists`) and may kick goes through the steps of `takeOver`
(`TakeOverStop`, `TakeOverSubscribers`, `TakeOverClear`, `TakeOverWaited`), between
which the event loop runs on. `pub[p]` holds the fields that
`AddSubscriber`, `RemoveSubscriber` and `TransferSubscribers` maintain; `alias` the
entries of `AliasStreams` with the pointer to the publisher that each caches;
`publisherOf` and `waitingPublish` are fields of the subscribers. A call that would
dereference a nil publisher or write a nil map sets `panicked` and changes nothing else.

The task engine is external. Its contract here: a second task with a key in use is
rejected with `ExistTaskError` and never starts, but keeps its context, so that it can be
added again, with a fresh promise to wait for; `Stop` cancels a context and the `Dispose`
follows on the event loop; a task is disposed once. `Manager.Add` registers the listeners
that enter a task into the collection at every call and before it is known whether the key
is free (`pkg/util/manager.go:13-27`). A publisher that has kicked another is added twice:
when it starts at last, the listener of the first call enters it into `Streams`, and that of the
second finds it there under its own key and stops it with `ExistTaskError`. `PublishAgain` is
this: the publisher wakes and takes over whom it would have served, and is disposed of at
once. The loop of `takeOver` over the old
publisher's subscribers is one step, although the event loop may change that collection
meanwhile. The queue in front of the event loop is
abstracted: `AddTask` and `Start` are one step. Each publisher calls `PublishWithConfig` once
(which may add it to `Streams` several times) and each subscriber subscribes once.

### StreamProcessor

`encoder[t].fed` is what was given to a WebCodecs encoder and `done` how much of it has
come out, in order, as its specification demands; the two encoders are independent.
`addTrackChunk` is the arrival of a raw frame, `handleOutput` the output callback with
everything that its `TRACK_CHUNK` events run synchronously: the setter of
`decoderConfig`, `handleTrackChunk`, the two queues, `publishChunk`. `pause` and `stop`
are asynchronous: `BeginFlush`, `flush` (audio is out, video begins) and `PauseEnds` or
`StopEnds` are the pieces between their awaits, and the state is looked at only in the
first, as in the code. `emitted` and `era` are history variables. `Times` are
milliseconds; the code divides microseconds by 1000 after the subtraction and cuts the fraction
off when the tag is written, which keeps the order. A `pause` and a `stop` may overlap; two of
the same kind at a time, and a flush that rejects, are left out.

### FlvEncoder and FlvMuxer

A byte is a number, or an opaque mark where its value cannot matter (payloads, float64,
text); field widths, shifts, lengths and types are real, and so is the growth of the
writer's array. `ReadTags` and `ReadValue` are a reader written from the format and not
from the encoder. `FlvMuxer` adds the messages of the page, the worker that is not
listening before its transport is ready, and a session per `start`: its source stream,
the handler on the event bus, the prologue and the pipe. Writing the prologue happens
with the start, although the transform's own start runs a little later; nothing else
uses the writer in between, except another session's pipe, and each result is copied
out of it at once. `getBytes` copies, so sharing the writer is safe: this is what
`FileReadsBack` would notice. Streams, pipes and the rule that a locked output rejects a second
pipe are the browser's (external).

### BatchV2Client

A method is cut at its awaits: `startPublishing`, `getUserMedia`, `replaceTrack`,
`createOffer`, `setLocalDescription`, `waitForIceGathering` are its pieces, and a later
piece sees whatever `this.pc`, `this.ws` and the maps have become. `calls` holds the
methods under way. An offer is a number and the directions of its transceivers. The
server's `Go` takes one message and answers it. External, and taken from how the code
uses it: the signaling states of a peer connection, `setLocalDescription` that refuses
an offer other than the last one created, `CreateAnswer` that fails without a
pending remote offer, and pion's `AddTrack`, which takes the first transceiver of its kind that
has no sender, whether or not the client receives there (neither it nor
`pkg/connection.go:551` looks). `patient` marks the behaviours of a user who calls a method when the ones before
have ended and no message is on its way, and of streams and a connection that do not break. What
a method does between its own rounds is free: a switch sets its second offer before or after the
answer to the first. `skipped` holds the streams that `handleSubscribe` passed over because the
task of their old subscriber had not ended, which no user can see.

## 3. Runs

All runs say `CHECK_DEADLOCK FALSE`: publishers stop, requests are served or
refused and frames are bounded, so each of these systems may come to rest.

### The ring

| Run | Instance | Shows |
|---|---|---|
| `ring_lock` | 3 slots, 2 readers | locks are released exactly once (`NoDoubleUnlock`), none stays behind (`NoOrphanLock`), writes happen under the lock (`WriterHoldsCur`); `LockInv` is checked before it is proved |
| `ring` | 7 nodes, initial size 3, 5 steps, of whose frames two may be key frames, two readers in the modes REAL and RECORD or BUFFER and WAITKEY | whole frames (`WholeFrames`), in order (`ForwardOnly`), listed key frames are kept (`KeyFramesKept`), `LastValue` is stamped (`LastValueReady`), and every step is one of `RingLock` (`RefinesLock`) |
| `ring_shrink` | 9 steps, three possible key frames, shrinking after 1 quiet step, one reader in RECORD mode, fair | the ring and the pool stay disjoint cycles (`RingShape`), and a reader blocked in `RLock` is freed once the publisher has stopped (`ReadersFreed`) |

The bounds: `Chunk` is 1 for the code's 5 and `ReduceVol` 1 for 50, so that the
ring grows and shrinks within a few frames; `MinSize` 3 stands for `SizeRange[0]`
(20 by default), the smallest ring in which the next node, the last value and the
current one differ. With five to nine steps the writer laps the ring,
overtakes readers, and grows, shrinks and refills the ring. In `ring` a reader that starts
at the key frame 0 is overtaken by more than half of the live ring while the key frame 2 is there, and jumps
to it; with one reader, seven steps and four possible key frames `ForwardOnly` holds as well, and
there the jump also happens by the threshold of medium speed (3/4). That of high speed (7/8)
needs a longer run. No frame is written
when fewer than `Chunk` + 1 nodes are left for the `Step` to add, so that the bound on
the nodes never stops a `Step` half-way. `SeqMod` is 64, so that a wrap
does not happen within the bounds.

### The limiter

| Run | Instance | Shows |
|---|---|---|
| `limiter` | 1 automatic and 2 API requests, 1 slot, queue of 2, fair | `active` counts the owners (`SlotAccounting`), no slot idles while somebody queues (`NoIdleSlot`), those who wait are served in the order in which they came (`Fifo`), the inductive invariant `LimiterInv`; every wait ends (`WaitEnds`); once the publisher has stopped every slot comes back (`SlotsComeBack`) |

One slot and three requests give an owner and two that wait, either of whom might be served, or
one that waits and one that would overtake it; with automatic requests and API requests both
entrances are used. The refusal at a full queue takes a fourth request, with which the
safety properties hold, too (1.2 million transitions up to symmetry), but liveness takes too long.
Longer queues and more slots are covered by the theorems, which hold for any number
of requests, limit and queue factor; that the limit is kept (`WithinLimit`) is a
theorem and follows from `SlotAccounting` and `LimiterInv`.

### Routing

| Run | Instance | Shows |
|---|---|---|
| `routing` | 2 publishers of `b`, 1 of `c`, at most one at a time; a subscriber of `a` (alias of `b`), one of `b`, and a vod one, each of which `ChangeSubscribe` may move; at most 2 per publisher; the alias stays as it is | nobody is forgotten or left with an ended stream (`Routed`), `CountsMatch`, `IdleMeansUnwatched`, nobody waits for a stream that is there (`NoMissedStream`), `RightStream` |
| `routing_kick` | 3 publishers of one path that kick, 2 subscribers, fair | `NobodyHangs`, `KickEnds`, and that `Streams` holds exactly the live publishers, each under its own path (`StreamsInv`); `KickEnds` says that the call of the kicking publisher returns, not that its stream then lives (see below) |
| `routing_ops` | streams of `a`, `b` and `c`, the alias `a` created by a call or by a configured rule, redirected and removed | `HeldAtMostOnce` |

Two publishers of a path give the hand-over from one to the next, a third one two
takeovers at the same time. Two subscribers of the counted type separate "the last
one left" from "one left"; the vod subscriber has a counter of its own.

### The push page

| Run | Instance | Shows |
|---|---|---|
| `stream_processor` | both tracks, video at 0, 2 and 3 ms, audio at 1 and 3 ms (each frame may be missed), key frame every 2, one completed stop | published frames are in the order of time (`InOrder`), none is lost or repeated (`NothingLost`), none waits longer than it must (`NoOverdueChunk`), the inductive invariant `MergeInv`, in which timestamps are never negative |
| `flv_muxer` | two sessions, video at 5 and audio and video at 16777300 ms, arrays of 16 bytes that grow by at least 4 | each file reads back as the chunks its session received (`FileReadsBack`); the first recording can be decoded from its beginning (`Decodable`) |

The instants include 0, which the code takes for an unset offset, and the same instant in
both tracks, and 16777300 is above 2^24, so that the extension byte of a tag's timestamp
is used. `LongString` is 11 for 65535, so that one string is long. Times are chosen so that either
track can be first, ahead or behind. The order and loss properties hold up to the end of the
first recording; see below for the second.

### BatchV2

| Run | Instance | Shows |
|---|---|---|
| `batch` | 2 streams, one of which the server may refuse, 2 methods at a time; 5 calls of a user who waits, or 2 of one who does not; the socket may fail and a stream end at any time; fair | at rest, for a user who waits, the server sends what the client lists, but for what it refused or passed over (`Agreement`), the map leads to transceivers on which the stream arrives (`MapIsRight`) and the camera runs exactly while publishing (`CameraWhilePublishing`); for every user connect settles (`ConnectSettles`), methods end (`CallsSettle`) and no camera is stopped twice (`TypeOK`) |

Five calls suffice to subscribe to both streams, drop one, replace it and publish in
between, so that transceivers are set inactive and reused in another order than they were
made; two calls that overlap give every interleaving of two negotiations. `Agreement` has one
direction only: that the client lists all that the server sends is false even for a user who waits
(below). `Agreement` and `MapIsRight` also hold with three streams, of which a switch may keep one, drop one and
add one, and five calls (1.5 million states up to symmetry); the theorems have any number.

### Where code and description disagree

Two runs end in a counterexample; `findings` in `PROJECT.json` quotes the line that
is contradicted.

| Run | Property | Shows |
|---|---|---|
| `ring_panic` | `NoPanic` | a reader that loaded `Next` before a `reduce` locks a node of the pool; the refill of a later `Step` takes that node, cannot lock it and panics |
| `batch_publish` | `Renegotiated` | `handlePublish` calls `GetAnswer` without having set the client's offer; it sends an error, and the client stays in `have-local-offer` although the README (`plugin/webrtc/README.md:557`) promises an answer |

The following were found the same way and have no configuration of their own; the
constants that differ from the named one reproduce them.

| Property | Constants | What happens |
|---|---|---|
| `MediaRing!StablePayload` | `MCMediaRing.cfg` | `Dispose` recycles the payload of a frame that a reader holds under `RLock` (`ring-writer.go:166` calls that safe) |
| `MediaRing!JumpsAhead` | `MCMediaRing.cfg` | in REAL mode a reader at the live edge delivers the next key frame and then jumps to that same frame (`av_reader.go:153`) |
| `MediaRing!KeyFramesKept` | `MCMediaRingShrink.cfg` | after a shrink the next node may be the oldest listed key frame; it is overwritten while listed (`ring-writer.go:252`) |
| `MediaRing!ForwardOnly` | `MCMediaRingShrink.cfg` with mode BUFFER or WAITKEY | a reader that follows `Next` into the pool is not too slow by definition and reads the recycled node again and again |
| that `pubTask[p] = "live"` after a kick | `MCStreamRoutingKick.cfg` | a publisher that kicks never goes live: its second `Streams.Add` registers the listeners again, the second of which finds the publisher itself in the collection and stops it with `ExistTaskError` (`plugin.go:740`, `pkg/util/manager.go:13`); `PublishWithConfig` has returned it without an error |
| `StreamRouting!IdleMeansUnwatched` | `MCStreamRoutingKick.cfg` with two publishers | `takeOver` sets the publisher of the old subscribers but neither adds nor counts them: the new publisher is in state Init, in which the idle timer (no subscriber, `config/types.go:89`) runs (`publisher.go:646`) |
| `StreamRouting!NoPanic` | the same | a subscriber that leaves between takeover and start calls `RemoveSubscriber` on a publisher whose `bufferTimeCounts` is nil (`publisher.go:238`) |
| `StreamRouting!Routed` | `MCStreamRouting.cfg` with paths `a` and `b`, `pubPath <- P3OnA`, `ChangeTo = {}` | an alias created for a stream not yet live points at the stream of its own name, keeps that pointer when that stream is disposed, and a new subscriber is attached to it (`alias.go:232`; `doc/arch/alias.md:64` says that a publisher's end goes through the aliases that point to it) |
| `StreamRouting!IdleMeansUnwatched` | the same with `Requests <- CreateAndRemove` | removing such an alias empties that stream's collection (`alias.go:186`) |
| `StreamRouting!NoPanic` | `MCStreamRouting.cfg` | `ChangeSubscribe` of a subscriber that waits for its first publisher dereferences nil (`api.go:511`) |
| `StreamRouting!HeldAtMostOnce` | `MCStreamRouting.cfg` | `ChangeSubscribe` of a subscriber that waits leaves it in the waiting list of the old path (`api.go:511`) |
| `StreamRouting!NoMissedStream` | `MCStreamRoutingKick.cfg` with `KickExist = FALSE`, paths `a` and `b`, `subPath <- SubsOnA`, `Regex <- AToB` | the alias made by a configured rule does not get the live publisher; the second subscriber waits (`alias.go:289`) |
| `StreamRouting!RightStream` | `MCStreamRoutingOps.cfg` | redirecting an alias takes along the direct subscribers of its old target (`publisher.go:614`) |
| `StreamProcessor!InOrder`, `FlvMuxer!Decodable`, without `era = 0` | `MCStreamProcessor.cfg` with audio at 1, 3 and 4 and video at 1, 2 and 4; `MCFlvMuxer.cfg`, for the last session | `reset` keeps queues and last timestamps: the second recording begins with chunks of the first, or publishes a frame too early (`flv-muxer.iife.js:316`) |
| `BatchV2Client!AnswersFit` | `MCBatchV2Client.cfg` with `MaxHasty = 0` | a `subscribeToStreams` that replaces a stream makes two offers in a row (`BatchV2Client.ts:336`, `:376`); the answer to the first is applied to the second, and the second answer comes when no offer is pending (`plugin/webrtc/README.md:568` asks for one cycle at a time) |
| `BatchV2Client!MapIsRight` with "every listed stream that the server sends is in the map" | `MCBatchV2Client.cfg` | subscribe `a` and `b`, unsubscribe `a`, then `b`, subscribe `a`: the client turns on the last inactive transceiver (`BatchV2Client.ts:360`), `AddTrack` takes the first free one; the stream never arrives, is not in the map, and a later unsubscription of it sends nothing, so that the server goes on sending |
| `BatchV2Client!Agreement` with "and `srv.subs` is within `subscribed`" | `MCBatchV2Client.cfg` | one switch whose second offer is set before the first answer: the second answer is refused, the new stream never arrives and is not in the map, and its later unsubscription tells the server nothing |
| `BatchV2Client!Agreement` without `patient` | `MCBatchV2Client.cfg` | see below |

More of the push page, visible in the traces of `FlvMuxer`: `stop` removes the handler
and closes the source before the encoders are flushed, so the tail of a recording is never
written (lines 1128-1134); a `stop` while paused does nothing, and a `pause` that
overlaps a `stop` ends in `paused`, after which `start` does not record (289-311); a
second `start` leaves a handler behind, and its pipe, like that of a restart before the
old pipe has drained, is rejected; messages before the worker's transport is ready are
lost; a `stop` while the picker is open does not stop the capture; a frame of a track that
is not configured is not closed (241).

More of BatchV2, for a user who does not wait: a subscription right after `connected` can
send its offer before the first answer has come; a
socket that closes during `getUserMedia` leaves the camera running; a stream
unsubscribed before its track event sends no signal, and the server keeps its subscriber;
a second `startPublishing` loses the sender. For any user, a stream re-subscribed before the server's
task has ended is skipped by `HasSubscriber` (`skipped`), a refused stream stays in
`subscribedStreams`, a stream that ends at the server is not announced, and promises of a
closed peer connection stay pending; `Agreement` and `CallsSettle` say so.

For this reason `routing` checks its invariants without kicks, redirections, removals and
rules, `stream_processor` and `flv_muxer` check order and decoding in the first recording, and
`batch` checks agreement for a user who waits; the other properties hold without these
limits.

## 4. Fairness

* `MediaRing`: a goroutine inside `Step`, or one that finds its publisher stopped,
  runs on; a `Dispose` that was called finishes; a reader with a step to take takes
  it. No frame need arrive and no publisher need stop.
* `RecordLimiter`: a request that has arrived runs on (its wait is bounded by the 30 s
  timer of the code), the job's event loop runs, and a stopped publisher is disposed.
  Arrivals and stops are not fair.
* `StreamRouting`: the event loop disposes what is stopped; a publisher that has kicked
  another goes on; the wait timer (`CheckSubWaitTimeout.Tick`) and the check for a
  lost publisher fire for a subscriber that stays in that state. Nothing obliges a
  publisher or client to come or to leave.

* `BatchV2Client`: the promises of `replaceTrack`, `createOffer` and `setLocalDescription`
  of an open connection and the two-second timer run; a socket that is opening opens or fails, one
  that is closing closes. Neither the user, who may let `getUserMedia` wait for ever, nor
  the server owes anything: `CallsSettle` therefore says that methods do not wait for
  the server.

All of it is weak fairness: these are goroutines and tickers that nothing disables
for ever once they have work.

## 5. Proofs

`RingLock_proofs` proves, for any non-empty set of slots and any set of readers,
`LockInvariant` (`Spec => []LockInv`) and from it `TypeCorrect`, `LocksReleasedOnce`,
`NoLockLeftBehind` and `WritesUnderLock`. None of these is inductive on its own: that
an `Unlock` finds a locked slot depends on who of `Step` and `Dispose` was first.
`LockInv` therefore states, for each place of the writer and of the disposer, the
value of `status` and the exact set of write-locked slots, that a `Step` between its
claim and its release has two different slots, and that a disposed ring belongs to a
stopped publisher. In particular the third outcome of `status.Add(-1)` is never
reached as long as a ring is disposed once.

`MediaRing_proofs` proves, for any finite set of nodes, any readers and modes, any chunk,
size range and modulus of the sequence numbers (so with their wrap, which the runs do not
reach):

| Theorem | States |
|---|---|
| `RingInvariant`, `TypeCorrect` | `RingInv`, `TypeOK` |
| `RingKeepsShape` | `RingShape`: ring and pool are two cycles of distinct nodes through `glow`, `reduce` and the exchange of a busy node |
| `LastValueStamped` | `LastValueReady` |
| `ImplementsLock` | `RefinesLock`, of behaviours in which `Step` does not panic |
| `LocksSafe` | up to a panic, the three promises of `RingLock` |

The hypothesis that `Step` does not panic is needed: `ring_panic` shows the panic, which ends
the writing goroutine in the middle of a `Step` with its locks held, and `RingLock` has no such
step. The other theorems hold through it.

`RingInv` joins six parts, because none is inductive without the others. That `glow` finds
distinct nodes that are in neither cycle depends on the nodes left (`NodesLeft`): the guard of
`Fill` leaves a `Step` more than `Chunk` of them, and `Resize` leaves one for the exchange. A new
node is one that nothing refers to, so no reader is on it; that a claimed node has no reader, and
that a reader's `StopRead` releases a lock which it holds, needs where every reader is
(`ReadersPlaced`: in `rlocked` of its own slot and no other, and not on a write-locked one once
its `RLock` has returned). `LocksKept` is `LockInv` of `RingLock` under the refinement mapping up
to a panic, and the value of `status` after one. `LastPlaced` says that between two Steps
`LastValue` is the node before the current one, stamped, or nothing has been written yet: the
node that the next `Step` resets is therefore another one, which takes a ring of three or more
nodes (`MinSizeOK`; the default of `RingSize` begins at 20, `pkg/config/types.go:96`). The lemmas are on sequences (what
concatenation, `Prefix`, `Suffix` and the selection `At` do to elements and injectivity), on the
three list operations (`Grown`, `Shrunk`, `Exchanged`), and one per action for each half of
`RingInv`: what is in the lists (`...Keeps`), and the locks (`...Refines`).

`RecordLimiter_proofs` proves, for any finite set of requests, any limit and any queue
factor, `LimiterInvariant` (`Spec => []LimiterInv`) and from it `TypeCorrect`,
`SlotsAccountedFor`, `NeverAboveLimit`, `NoSlotIdle` and the action property
`SlotsInOrder`. `LimiterInv` adds to the properties that the queue has no request
twice, that it holds exactly the requests that wait without a token, that tokens are
only in the channels of requests that wait, and that the `sync.Once` of a request has
not fired before it owns a slot. Without the first two a timeout could not know that
its slot is in the channel; without the last `ReleaseOnce` could drop a slot. The
counting is by lemmas on `Owners` (it gains one element, loses one, or exchanges one
for another).

`StreamProcessor_proofs` proves, for one track or two, any sets of capture times and any key
frame interval, `MergeInvariant` (`Spec => []MergeInv`) and from it `TypeCorrect`,
`PublishedInOrder`, `EveryFrameOnce` and `NoNeedlessWait`. That two outputs are published in
order follows from no property of the output at hand: it needs what earlier handlers left
behind. `MergeInv` says that both queues and the published chunks are determined by how many
outputs each encoder has had and how many of them are published: the timestamp of every chunk
is that of its raw frame less the shared offset, cut off at 0 (`Stamped`), and the offset is
taken again only while all outputs so far were at 0 (`OffsetSettled`); raw frames are fed in
the order of time; a queue is released only when both configurations are there, up to what the
other track has reached (`ConfigFirst`, `HeldBack`). The lemmas follow one output through the
handlers: how many queued chunks are due (`DueCountSpec`), what their release does to the
sequence of frames of either track (the `Ledger` and `FirstFrames` lemmas) and to its order
(`SortedExtend`).

`StreamRouting_proofs` proves, for any paths, publishers, finite set of subscribers, limits,
rules and requests:

| Theorem | States | Under |
|---|---|---|
| `StreamsExact`, `TypeCorrect` | `StreamsInv`, `TypeOK` | nothing |
| `HeldInvariant`, `NobodyHeldTwice`, `NoNilPublisher` | `HeldInv`, `HeldAtMostOnce`, `NoPanic` | no kicks, `ReadersChanged` |
| `RouteInvariant`, `NobodyForgotten`, `CountersRight`, `WatchedIsKept` | `RouteInv`, `Routed`, `CountsMatch`, `IdleMeansUnwatched` | also `FixedAliases` |
| `ReadsRightStream` | `RightStream` | also `NoRemovals` |
| `NoStreamMissed` | `NoMissedStream` | also `NoRules` instead of `NoRemovals` |

Each hypothesis is there for a counterexample: `takeOver` does not count the
viewers it moves (no kicks, the default of `KickExist` being off); `ChangeSubscribe` of a
subscriber that waits dereferences nil or leaves it in a waiting list (`ReadersChanged`, an
action formula: `Spec /\ [][ReadersChanged]_vars` are the behaviours in which it is called for
readers); an alias with the name of a live stream, or one that is redirected, keeps a stale
publisher or takes along the wrong subscribers (`FixedAliases`: every name has at most one
target, through requests and rules together, and is no publisher's path); a removal puts back one subscriber of an alias
and leaves the others with a stream that their path no longer names (`NoRemovals`); the alias
that a rule makes does not get its live publisher (`NoRules`). The constants of `routing`
satisfy all of those on the constants, `routing_ops` those of `HeldInvariant`; `routing` checks in addition
`ChangeSubscribe` of subscribers that wait, where its five invariants still hold on that
instance.

The invariants build on each other. `StreamsInv` says that `Streams` is the live publishers,
that a publisher starts once, and that whoever an alias caches or a takeover waits for was
started. `HeldInv` adds that every member of a collection or a waiting list points back: it is live,
has that publisher or path, and waits or does not wait accordingly. A subscriber is in at most one
place for this reason, and `RemoveSubscriber` meets a started publisher. `RouteInv` adds
`Routed` and `CountsMatch`, that an alias caches nothing but the stream of its target, and
that a subscriber reads the stream of its path or of a possible target of it; without that last
fact a publisher's `Dispose` could put a subscriber to wait for a path that is live. For
`NoStreamMissed` the alias caches its target's stream whenever there is one (`AliasesExact`).
The proof of a step uses one lemma per operation that says what it does (`StartEffect`,
`DisposeEffect`, `TransferEffect`, ...).

`BatchV2Client_proofs` proves, for any finite set of streams, any of which the server may
refuse, and any bounds on calls: `ClientTypeCorrect` (`TypeOK`, of every behaviour) and
`CameraFollowsPublishing` (`CameraWhilePublishing`, of a user who waits). `TypeOK` needs the types of the
messages, the methods under way and the server's senders (`Typed`): that the map leads to a
transceiver depends on the length of an answer, which the server took from an offer. The other
needs the part of a method that has begun and not ended. `Begun` is the life of the connection
(before the socket is open nothing has begun; no method is called while onopen's handler
negotiates). `Exchange` says that for a user who waits at most one method is
under way (`Alone`), and that only a switch has two requests on the way, its second round being the
only one that begins before the answer to another is in (`OneExchange`). `Camera` follows
a publication and its end: the sender and the local stream at each stage of either method, and
that the server's publisher goes with the message that is still on its way (`PublishStages`,
`UnpublishStages`, `Published`). One thing came out of it: with
`MaxHasty` above `MaxOps` the bound on calls would not bound them; the assumption excludes it.

`BatchV2Subscriptions_proofs` goes on from there to `ListsAgree` (`Agreement`) and
`MapLeadsToItsStream` (`MapIsRight`), with either timing of a switch, any time at which the tasks of
removed subscribers end, and `AddTrack`'s own choice of a transceiver. At rest the two sides agree in
what the properties say; in between they do not, and the
invariant `Subscriptions` has to say what they may differ in. `Lists`: no stream of the list is about to
be removed (`Gone`), and the server lacks only what it refused, passed over or is still to be told
(`Coming`). `Maps` follows each stream of the map to its transceiver. `Leads` says that the stream arrives there,
that the server sends it there, that the transceiver is on in the description set last and will be
in every offer still on its way (`Heeded`), that every answer on its way carries the stream at that
place (`Borne`), and that nothing is about to take it away (`Leaving`). It survives an answer that is
applied to another offer than its own, because the second round of a switch only turns
transceivers on (`Underway`, `Asked`: what an earlier description receives a later one receives
too), because a stream in an answer is still sent by the server and listened to by the client (`Answering`)
and in the answers behind it (`InTurn`), and because an unsubscription, the only request that
takes something away, goes first (`FirstOut`). That the client and `AddTrack` choose differently costs
an entry of the map but never makes one wrong: an entry is made of what an answer carries, not
of what the client meant.


Assumptions are those of the modules: a slot exists; a ring has at least three nodes of a finite
set that is larger; the requests and the subscribers are
finite; a limiter's limit is a positive natural number (the code creates no limiter
otherwise); times are natural numbers; paths and publishers differ from nil, and so do streams and
peer connections.

Only model-checked: liveness; of `MediaRing`, what the readers see (`WholeFrames`) and
`ForwardOnly` and `KeyFramesKept`, which are true of the instance of their run and not of every
instance (see the table of section 3); `FlvMuxer`; of `StreamRouting`, what happens to
viewers during kicks. Liveness under fairness is beyond the prover used here; so is `FlvEncoder`, whose
script data are nested and written with a recursive operator, and with it `FlvMuxer`. `Renegotiated`
is false and therefore only checked.

## 6. Plan

Done: `RingLock` and `MediaRing`; `RecordLimiter`; `StreamRouting`; the push page and
BatchV2; the proofs about the lock protocol, the ring, the limiter, the merge, the routing and the
client. Next, in this order:

1. An abstract slot pool that `RecordLimiter` implements.
2. The play loop and the cluster's stream registry, whose hazards have no property yet.

## 7. Not modelled

The task engine itself (external; its contract is in the modules that use it). The play
loop, cluster, uploads, storage runtime, pull and push, recovery and crontab are control
that could be modelled in the same way and is not yet; the questions worth asking of them
are among the hazards without a property. Not meant to be modelled: wire protocols,
codecs and containers other than the page's FLV (byte-level parsing), storage back ends
and log rotation (file and network I/O), API plumbing and configuration, the vendored
pprof pages and minified decoders, and `BatchV2Client.js`, which is compiled from the
`.ts` file. Of BatchV2, the ping, statistics and ICE candidates are left out, a client object
connects once, and descriptions are never malformed: the error paths of `validateSDP`,
`SetRemoteDescription` and, in `handleSubscribe` and `handleUnsubscribe`, of `CreateAnswer`, and a
`RemoteStream` that fails to start (`batchv2.go:257`, `connection.go:521`), are left out. Of the push
page, encoder errors and rejected flushes, and more than one `pause` or `stop` at a time. Data races on single words without further effect (`Delay`, statistics) are left out,
and the sequence number's wrap at 2^32 is not reached within the bounds.
