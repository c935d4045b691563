---------------------------- MODULE BatchV2Client ----------------------------
(***************************************************************************)
(* Many streams over one peer connection: the browser's client             *)
(* (plugin/webrtc/web/BatchV2Client.ts) and the server's WebSocketHandler  *)
(* (plugin/webrtc/batchv2.go), with the two directions of their WebSocket  *)
(* between them.                                                           *)
(*                                                                         *)
(* The client's methods are asynchronous: between two awaits a method runs *)
(* in one step, at an await other methods, messages and events come in,    *)
(* and after it the method goes on with whatever this.pc, this.ws and the  *)
(* maps have become.  The server reads one message after the other.        *)
(*                                                                         *)
(* The browser's and the server's WebRTC libraries are external: an offer  *)
(* is a number and the directions of its transceivers, an answer says      *)
(* which stream the server sends on which transceiver.  Transceiver 1 is   *)
(* the placeholder that onopen adds for publishing.  One client object     *)
(* makes one connection, as batchv2.html uses it.                          *)
(***************************************************************************)
EXTENDS Naturals, Sequences, FiniteSets

CONSTANTS
    Streams,     \* the streams to subscribe to
    Refusable,   \* those the server may refuse
    None,        \* no stream, no connection
    MaxCalls,    \* bound on the methods that are under way at the same time
    MaxOps,      \* bound on the methods called in a connection by a user who waits
    MaxHasty     \* bound on the methods called by a user who does not, or whose stream broke

\* The directions of transceivers, a description with the number of its offer, and
\* a peer connection: its transceivers, the offer created last, the local
\* description and the streams it receives.
Direction == {"sendrecv", "recvonly", "inactive"}
Description == [id : Nat, dirs : Seq(Direction)]
Connection ==
    [dirs : Seq(Direction), signaling : {"stable", "have-local-offer"}, created : Seq(Direction),
     local : Description, recv : Seq(Streams \cup {None})]

ASSUME BatchV2Assumption ==
    /\ IsFiniteSet(Streams) /\ Refusable \subseteq Streams
    /\ None \notin Streams /\ None \notin Connection
    /\ MaxCalls \in Nat /\ MaxOps \in Nat /\ MaxHasty \in 0 .. MaxOps

VARIABLES
    socket,      \* the WebSocket: "none", "connecting", "open", "closing", "closed"
    ws,          \* this.ws is not null
    promise,     \* the promise of connect
    pc,          \* this.pc: None or its directions, signaling state and descriptions
    subscribed,  \* this.subscribedStreams
    map,         \* this.streamToTransceiver, 0 for no entry
    sender,      \* the key of the video sender in this.videoSenders
    localStream, \* this.localStream is not null
    calls,       \* the methods under way; number 0 is the handler of onopen
    ui,          \* what the page knows: "connected" and "publishing"
    c2s, s2c,    \* the messages on their way
    srv,         \* the server's WebSocketHandler
    ops,         \* the number of methods called
    offers,      \* the number of local descriptions set
    cameras,     \* history: the number of cameras that run
    patient,     \* history: every method was called at rest, and nothing broke
    skipped,     \* history: the streams passed over while their old subscriber was still there
    misfit       \* history: an answer met another offer than its own, or none

client == <<ws, pc, subscribed, map, sender, localStream, cameras>>
server == <<srv, s2c>>
history == <<patient, skipped, misfit>>
vars == <<socket, promise, client, calls, ui, c2s, server, ops, offers, history>>

Idle == [kind |-> "none"]
Slots == 0 .. MaxCalls

NewServer ==
    [stage |-> "none", subs |-> {}, senders |-> <<>>, stopping |-> {}, publisher |-> FALSE]

Init ==
    /\ socket = "none" /\ ws = FALSE /\ promise = "none"
    /\ pc = None
    /\ subscribed = {} /\ map = [s \in Streams |-> 0]
    /\ sender = "none" /\ localStream = FALSE /\ cameras = 0
    /\ calls = [k \in Slots |-> Idle]
    /\ ui = {}
    /\ c2s = <<>> /\ s2c = <<>>
    /\ srv = NewServer
    /\ ops = 0 /\ offers = 0
    /\ patient = TRUE /\ skipped = {} /\ misfit = FALSE

Receives(direction) == direction \in {"sendrecv", "recvonly"}

\* No method is under way, and every message has arrived.
Quiet == c2s = <<>> /\ s2c = <<>> /\ \A k \in Slots : calls[k] = Idle

\* sendMessage: without a socket nothing is sent; a closed one drops the message.
sendMessage(m) == c2s' = IF ws /\ socket = "open" THEN Append(c2s, m) ELSE c2s

-----------------------------------------------------------------------------
(***************************************************************************)
(* The connection.                                                         *)
(***************************************************************************)
connect ==
    /\ socket = "none"
    /\ socket' = "connecting" /\ ws' = TRUE /\ promise' = "pending"
    /\ UNCHANGED <<pc, subscribed, map, sender, localStream, cameras, calls, ui, c2s, server,
                   ops, offers, history>>

\* onopen up to its first await: the peer connection and the placeholder.
onopen ==
    /\ socket = "connecting" /\ ws
    /\ socket' = "open"
    /\ pc' = [dirs |-> <<"sendrecv">>, signaling |-> "stable", created |-> <<>>,
              local |-> [id |-> 0, dirs |-> <<>>], recv |-> <<None>>]
    /\ sender' = "placeholder"
    /\ calls' = [calls EXCEPT ![0] = [kind |-> "open", stage |-> "create"]]
    /\ srv' = [srv EXCEPT !.stage = "first"]
    /\ UNCHANGED <<ws, promise, subscribed, map, localStream, cameras, ui, c2s, s2c, ops, offers,
                   history>>

cleanup ==
    /\ ws' = FALSE
    /\ pc' = None
    /\ cameras' = IF localStream THEN cameras - 1 ELSE cameras
    /\ localStream' = FALSE
    /\ subscribed' = {}
    /\ sender' = "none"
    /\ map' = [s \in Streams |-> 0]

disconnect ==
    /\ ws
    /\ cleanup
    /\ socket' = "closing"
    /\ patient' = (patient /\ Quiet)
    /\ UNCHANGED <<promise, calls, ui, c2s, server, ops, offers, skipped, misfit>>

\* The network or the server ends the connection with an error first.
onerror ==
    /\ socket \in {"connecting", "open"} /\ ws
    /\ cleanup
    /\ socket' = "closing"
    /\ promise' = IF promise = "pending" THEN "rejected" ELSE promise
    /\ patient' = FALSE
    /\ UNCHANGED <<calls, ui, c2s, server, ops, offers, skipped, misfit>>

\* variant: only an error rejects the promise
oncloseUnsettled ==
    /\ socket \in {"connecting", "open", "closing"}
    /\ cleanup
    /\ socket' = "closed" /\ ui' = {}
    /\ patient' = (patient /\ Quiet)
    /\ UNCHANGED <<promise, calls, c2s, server, ops, offers, skipped, misfit>>

onclose ==
    /\ socket \in {"connecting", "open", "closing"}
    /\ cleanup
    /\ socket' = "closed" /\ ui' = {}
    /\ promise' = IF promise = "pending" THEN "rejected" ELSE promise
    /\ patient' = (patient /\ Quiet)
    /\ UNCHANGED <<calls, c2s, server, ops, offers, skipped, misfit>>

-----------------------------------------------------------------------------
(***************************************************************************)
(* The methods.  Begin puts a call into a free slot; the page offers the   *)
(* buttons only once it is connected.                                      *)
(***************************************************************************)
MayCall == ops < MaxHasty \/ (ops < MaxOps /\ patient /\ Quiet)

Begin(k, call) ==
    /\ k # 0 /\ calls[k] = Idle /\ \A j \in 1 .. k - 1 : calls[j] # Idle
    /\ "connected" \in ui /\ ws /\ pc # None
    /\ MayCall
    /\ ops' = ops + 1
    /\ patient' = (patient /\ Quiet)
    /\ calls' = [calls EXCEPT ![k] = call]

startPublishing(k) ==
    /\ "publishing" \notin ui
    /\ Begin(k, [kind |-> "publish", stage |-> "media"])
    /\ UNCHANGED <<socket, promise, client, ui, c2s, server, offers, skipped, misfit>>

\* getUserMedia is refused, or gives a camera; then the placeholder's track is
\* replaced, if there is a placeholder.
getUserMedia(k) ==
    /\ calls[k].kind = "publish" /\ calls[k].stage = "media"
    /\ \/ /\ calls' = [calls EXCEPT ![k] = Idle]
          /\ UNCHANGED <<localStream, cameras, sender>>
       \/ /\ localStream' = TRUE /\ cameras' = cameras + 1
          /\ \/ /\ sender = "placeholder"
                /\ calls' = [calls EXCEPT ![k].stage = "replace"]
                /\ UNCHANGED sender
             \/ /\ sender # "placeholder"
                /\ sender' = "lost"
                /\ calls' = IF pc = None THEN [calls EXCEPT ![k] = Idle]
                            ELSE [calls EXCEPT ![k].stage = "create"]
    /\ UNCHANGED <<socket, promise, ws, pc, subscribed, map, ui, c2s, server, ops, offers, history>>

\* variant: the stopped stream is not forgotten
StopLocalStreamKept ==
    /\ cameras' = IF localStream THEN cameras - 1 ELSE cameras
    /\ UNCHANGED localStream

\* The local stream is stopped.
StopLocalStream ==
    /\ cameras' = IF localStream THEN cameras - 1 ELSE cameras
    /\ localStream' = FALSE

stopPublishing(k) ==
    /\ "publishing" \in ui
    /\ IF sender = "path"
       THEN /\ Begin(k, [kind |-> "unpublish", stage |-> "replace"])
            /\ UNCHANGED <<cameras, localStream>>
       ELSE /\ Begin(k, [kind |-> "unpublish", stage |-> "create"])
            /\ StopLocalStream
    /\ UNCHANGED <<socket, promise, ws, pc, subscribed, map, sender, ui, c2s, server, offers, skipped, misfit>>

\* variant: the sender is not given back to the placeholder
replaceTrackKept(k) ==
    /\ pc # None /\ calls[k] # Idle /\ calls[k].stage = "replace"
    /\ calls' = [calls EXCEPT ![k].stage = "create"]
    /\ IF calls[k].kind = "publish"
       THEN sender' = "path" /\ UNCHANGED <<cameras, localStream>>
       ELSE StopLocalStream /\ UNCHANGED sender
    /\ UNCHANGED <<socket, promise, ws, pc, subscribed, map, ui, c2s, server, ops, offers, history>>

\* replaceTrack is done; on a closed connection it never is.
replaceTrack(k) ==
    /\ pc # None /\ calls[k] # Idle /\ calls[k].stage = "replace"
    /\ calls' = [calls EXCEPT ![k].stage = "create"]
    /\ IF calls[k].kind = "publish"
       THEN sender' = "path" /\ UNCHANGED <<cameras, localStream>>
       ELSE sender' = "placeholder" /\ StopLocalStream
    /\ UNCHANGED <<socket, promise, ws, pc, subscribed, map, ui, c2s, server, ops, offers, history>>

getStreamList ==
    /\ "connected" \in ui /\ ws
    /\ MayCall
    /\ ops' = ops + 1
    /\ sendMessage([type |-> "getStreamList"])
    /\ UNCHANGED <<socket, promise, client, calls, ui, server, offers, history>>

-----------------------------------------------------------------------------
\* The transceivers of the streams S are set to inactive.
Deactivated(dirs, S) ==
    [i \in 1 .. Len(dirs) |-> IF \E s \in S : map[s] = i THEN "inactive" ELSE dirs[i]]

\* n more transceivers receive: inactive ones, from the last on, then new ones.
Activated(dirs, n) ==
    LET inactive == {i \in 1 .. Len(dirs) : dirs[i] = "inactive"}
        after(i) == Cardinality({j \in inactive : j > i})
        more == IF n > Cardinality(inactive) THEN n - Cardinality(inactive) ELSE 0
    IN  [i \in 1 .. Len(dirs) + more |->
            IF i > Len(dirs) \/ (i \in inactive /\ after(i) < n) THEN "recvonly" ELSE dirs[i]]

\* What the connection receives on transceivers that were not there before.
Padded(recv, dirs) == [i \in 1 .. Len(dirs) |-> IF i <= Len(recv) THEN recv[i] ELSE None]

WithDirs(dirs) == [pc EXCEPT !.dirs = dirs, !.recv = Padded(@, dirs)]

\* The call that subscribes to the streams of S: its second round, or none.
Subscribe(S) ==
    IF S = {} THEN Idle ELSE [kind |-> "subscribe", stage |-> "create", streams |-> S]

\* variant: the list of before is taken after it was replaced
subscribeToStreamsCleared(k, S) ==
    /\ S # {}
    /\ Begin(k, Idle)
    /\ subscribed' = S
    /\ UNCHANGED <<socket, promise, ws, pc, map, sender, localStream, cameras, ui, c2s, server,
                   offers, skipped, misfit>>

(***************************************************************************)
(* subscribeToStreams replaces the list: first the removed streams are     *)
(* unsubscribed, with an offer of their own, then the new ones subscribed. *)
(***************************************************************************)
subscribeToStreams(k, S) ==
    LET removed == subscribed \ S
        new == S \ subscribed
    IN  /\ S # {}
        /\ Begin(k, IF removed = {} THEN Subscribe(new)
                    ELSE [kind |-> "switch", stage |-> "create", streams |-> removed,
                          previous |-> subscribed])
        /\ subscribed' = S
        /\ map' = [s \in Streams |-> IF s \in removed THEN 0 ELSE map[s]]
        /\ pc' = IF removed = {} THEN WithDirs(Activated(pc.dirs, Cardinality(new)))
                 ELSE WithDirs(Deactivated(pc.dirs, removed))
        /\ UNCHANGED <<socket, promise, ws, sender, localStream, cameras, ui, c2s, server, offers,
                       skipped, misfit>>

\* A stream without a transceiver is only taken off the list.
unsubscribeFromStream(k, s) ==
    /\ s \in subscribed
    /\ IF map[s] # 0
       THEN /\ Begin(k, [kind |-> "unsubscribe", stage |-> "create", streams |-> {s}])
            /\ pc' = WithDirs(Deactivated(pc.dirs, {s}))
            /\ map' = [map EXCEPT ![s] = 0]
            /\ UNCHANGED subscribed
       ELSE /\ Begin(k, Idle)
            /\ subscribed' = subscribed \ {s}
            /\ UNCHANGED <<pc, map>>
    /\ UNCHANGED <<socket, promise, ws, sender, localStream, cameras, ui, c2s, server, offers, skipped, misfit>>

-----------------------------------------------------------------------------
(***************************************************************************)
(* The rounds of negotiation.  On a connection that has been closed the    *)
(* promises of createOffer and setLocalDescription stay pending.           *)
(***************************************************************************)
createOffer(k) ==
    /\ pc # None /\ calls[k] # Idle /\ calls[k].stage = "create"
    /\ pc' = [pc EXCEPT !.created = pc.dirs]
    /\ calls' = [calls EXCEPT ![k] =
          [n \in DOMAIN @ \cup {"offer"} |->
              CASE n = "stage" -> "local" [] n = "offer" -> pc.dirs [] OTHER -> @[n]]]
    /\ UNCHANGED <<socket, promise, ws, subscribed, map, sender, localStream, cameras, ui, c2s, server,
                   ops, offers, history>>

\* After its negotiation a method sends the local description, which is that of
\* the last offer set, and ends; a switch goes on to its second round.
Proceed(k, connection) ==
    LET call == calls[k]
        offer == connection.local
        new == subscribed \ call.previous
    IN  \/ /\ call.kind = "open"
           /\ sendMessage([type |-> "offer", offer |-> offer])
           /\ ui' = {"connected"} /\ promise' = "resolved"
           /\ calls' = [calls EXCEPT ![k] = Idle]
           /\ pc' = connection /\ UNCHANGED subscribed
        \/ /\ call.kind = "publish"
           /\ sendMessage([type |-> "publish", offer |-> offer])
           /\ ui' = ui \cup {"publishing"}
           /\ calls' = [calls EXCEPT ![k] = Idle]
           /\ pc' = connection /\ UNCHANGED <<promise, subscribed>>
        \/ /\ call.kind = "unpublish"
           /\ sendMessage([type |-> "unpublish"])
           /\ ui' = ui \ {"publishing"}
           /\ calls' = [calls EXCEPT ![k] = Idle]
           /\ pc' = connection /\ UNCHANGED <<promise, subscribed>>
        \/ /\ call.kind = "unsubscribe"
           /\ sendMessage([type |-> "unsubscribe", streams |-> call.streams, offer |-> offer])
           /\ subscribed' = subscribed \ call.streams
           /\ calls' = [calls EXCEPT ![k] = Idle]
           /\ pc' = connection /\ UNCHANGED <<promise, ui>>
        \/ /\ call.kind = "switch"
           /\ sendMessage([type |-> "unsubscribe", streams |-> call.streams, offer |-> offer])
           /\ calls' = [calls EXCEPT ![k] = Subscribe(new)]
           /\ LET dirs == Activated(connection.dirs, Cardinality(new))
              IN  pc' = [connection EXCEPT !.dirs = dirs, !.recv = Padded(@, dirs)]
           /\ UNCHANGED <<promise, ui, subscribed>>
        \/ /\ call.kind = "subscribe"
           /\ sendMessage([type |-> "subscribe", streams |-> call.streams, offer |-> offer])
           /\ calls' = [calls EXCEPT ![k] = Idle]
           /\ pc' = connection /\ UNCHANGED <<promise, ui, subscribed>>

\* A method that fails ends; its caller gets the error.
Fail(k) ==
    /\ calls' = [calls EXCEPT ![k] = Idle]
    /\ UNCHANGED <<promise, ui, c2s, subscribed, pc>>

\* setLocalDescription refuses an offer that differs from the last one created.
setLocalDescription(k) ==
    /\ pc # None /\ calls[k] # Idle /\ calls[k].stage = "local"
    /\ \/ /\ calls[k].offer # pc.created
          /\ Fail(k)
          /\ UNCHANGED offers
       \/ /\ calls[k].offer = pc.created
          /\ offers' = offers + 1
          /\ LET connection == [pc EXCEPT !.signaling = "have-local-offer",
                                          !.local = [id |-> offers + 1, dirs |-> calls[k].offer]]
             IN  IF calls[k].kind \in {"open", "subscribe"} THEN Proceed(k, connection)
                 ELSE /\ pc' = connection
                      /\ calls' = [calls EXCEPT ![k].stage = "ice"]
                      /\ UNCHANGED <<promise, ui, c2s, subscribed>>
    /\ UNCHANGED <<socket, ws, map, sender, localStream, cameras, server, ops, history>>

\* variant: the method waits for the answer
waitForIceGatheringStable(k) ==
    /\ calls[k] # Idle /\ calls[k].stage = "ice"
    /\ pc # None => pc.signaling = "stable"
    /\ IF pc = None THEN Fail(k) ELSE Proceed(k, pc)
    /\ UNCHANGED <<socket, ws, map, sender, localStream, cameras, server, ops, offers, history>>

\* The candidates are complete or two seconds have passed.
waitForIceGathering(k) ==
    /\ calls[k] # Idle /\ calls[k].stage = "ice"
    /\ IF pc = None THEN Fail(k) ELSE Proceed(k, pc)
    /\ UNCHANGED <<socket, ws, map, sender, localStream, cameras, server, ops, offers, history>>

-----------------------------------------------------------------------------
(***************************************************************************)
(* A message for the client.  An answer is refused unless an offer is      *)
(* pending and it has as many parts as the offer.  The transceivers that   *)
(* begin to receive raise track events, which handleTrackEvent enters into *)
(* the map.                                                                *)
(***************************************************************************)
\* variant: the last transceiver is entered, not the event's
handleTrackEventLast(recv) ==
    map' = [s \in Streams |->
        IF \E i \in 1 .. Len(recv) : recv[i] = s /\ pc.recv[i] = None THEN Len(recv) ELSE map[s]]

handleTrackEvent(recv) ==
    map' = [s \in Streams |->
        LET begun == {i \in 1 .. Len(recv) : recv[i] = s /\ pc.recv[i] = None}
        IN  IF begun = {} THEN map[s] ELSE CHOOSE i \in begun : \A j \in begun : j <= i]

AnswerFits(m) ==
    /\ pc # None
    /\ pc.signaling = "have-local-offer"
    /\ Len(m.sending) = Len(pc.local.dirs)

handleWebSocketMessage ==
    /\ s2c # <<>> /\ socket \in {"open", "closing"}
    /\ s2c' = Tail(s2c)
    /\ LET m == Head(s2c)
       IN  \/ /\ m.type = "answer" /\ AnswerFits(m)
              /\ LET recv == [i \in 1 .. Len(pc.recv) |->
                        IF i <= Len(m.sending) /\ Receives(pc.local.dirs[i]) THEN m.sending[i]
                        ELSE None]
                 IN  /\ handleTrackEvent(recv)
                     /\ pc' = [pc EXCEPT !.signaling = "stable", !.recv = recv]
              /\ misfit' = (misfit \/ m.of # pc.local.id)
           \/ /\ m.type = "answer" /\ ~ AnswerFits(m)
              /\ misfit' = (misfit \/ pc # None)
              /\ UNCHANGED <<pc, map>>
           \/ /\ m.type \in {"error", "streamList"}
              /\ UNCHANGED <<pc, map, misfit>>
    /\ UNCHANGED <<socket, promise, ws, subscribed, sender, localStream, cameras, calls, ui, c2s, srv,
                   ops, offers, patient, skipped>>

-----------------------------------------------------------------------------
(***************************************************************************)
(* The server.                                                             *)
(***************************************************************************)
Answer(offer, senders) ==
    [type |-> "answer", of |-> offer.id,
     sending |-> [i \in 1 .. Len(offer.dirs) |-> IF Receives(offer.dirs[i]) THEN senders[i] ELSE None]]

Error == [type |-> "error"]

\* The first message: the peer connection is made of the offer and answered.
FirstOffer(m) ==
    /\ srv.stage = "first" /\ m.type = "offer"
    /\ LET senders == [i \in 1 .. Len(m.offer.dirs) |-> None]
       IN  /\ srv' = [srv EXCEPT !.stage = "loop", !.senders = senders]
           /\ s2c' = Append(s2c, Answer(m.offer, senders))

\* The publisher is made, or refused.  The offer of the message is not looked at,
\* and CreateAnswer fails because no offer is pending.
handlePublish(m) ==
    /\ m.type = "publish"
    /\ \E made \in BOOLEAN : srv' = [srv EXCEPT !.publisher = @ \/ made]
    /\ s2c' = Append(s2c, Error)

handleUnpublish(m) ==
    /\ m.type = "unpublish"
    /\ srv' = [srv EXCEPT !.publisher = FALSE]
    /\ s2c' = Append(s2c, Error)

HasSubscriber(s) == s \in srv.subs \cup srv.stopping

\* AddTrack (external) takes the first transceivers that have no sender, whether or
\* not the client receives there; if there are too few it makes one that is not in
\* the answer.
AddTracks(senders, S) ==
    LET free == {i \in 1 .. Len(senders) : senders[i] = None}
        taken == {i \in free : Cardinality({j \in free : j <= i}) <= Cardinality(S)}
    IN  {[i \in 1 .. Len(senders) |-> IF i \in taken THEN streamAt[i] ELSE senders[i]] :
         streamAt \in {f \in [taken -> S] : \A i, j \in taken : i # j => f[i] # f[j]}}

handleSubscribe(m) ==
    /\ m.type = "subscribe"
    /\ \E refused \in SUBSET (m.streams \cap Refusable) :
         LET added == {s \in m.streams \ refused : ~ HasSubscriber(s)}
         IN  \E senders \in AddTracks(Padded(srv.senders, m.offer.dirs), added) :
               /\ srv' = [srv EXCEPT !.subs = @ \cup added, !.senders = senders]
               /\ s2c' = s2c \o [i \in 1 .. Cardinality(refused) |-> Error]
                             \o <<Answer(m.offer, senders)>>
               /\ skipped' = (skipped \ added) \cup (m.streams \cap srv.stopping)

\* RemoveSubscriber takes the track away at once; the task that feeds it ends later.
handleUnsubscribe(m) ==
    /\ m.type = "unsubscribe"
    /\ LET removed == m.streams \cap srv.subs
           padded == Padded(srv.senders, m.offer.dirs)
           senders == [i \in 1 .. Len(padded) |-> IF padded[i] \in removed THEN None ELSE padded[i]]
       IN  /\ srv' = [srv EXCEPT !.subs = @ \ removed, !.stopping = @ \cup removed,
                                 !.senders = senders]
           /\ s2c' = Append(s2c, Answer(m.offer, senders))

handleGetStreamList(m) ==
    /\ m.type = "getStreamList"
    /\ s2c' = Append(s2c, [type |-> "streamList"])
    /\ UNCHANGED srv

\* Go: the next message.
Go ==
    /\ c2s # <<>> /\ srv.stage \in {"first", "loop"}
    /\ c2s' = Tail(c2s)
    /\ LET m == Head(c2s)
       IN  \/ /\ \/ FirstOffer(m)
                 \/ /\ srv.stage = "loop"
                    /\ \/ handlePublish(m)
                       \/ handleUnsubscribe(m)
                       \/ handleUnpublish(m)
                       \/ handleGetStreamList(m)
              /\ UNCHANGED skipped
           \/ srv.stage = "loop" /\ handleSubscribe(m)
    /\ UNCHANGED <<socket, promise, client, calls, ui, ops, offers, patient, misfit>>

\* The task of a removed subscriber is disposed of.
RemoteStreamEnds ==
    /\ srv.stopping # {}
    /\ srv' = [srv EXCEPT !.stopping = {}]
    /\ UNCHANGED <<socket, promise, client, calls, ui, c2s, s2c, ops, offers, history>>

\* A stream ends at the server.  The client is not told, and the track stays.
\* Bound: only while the user may still be hasty.
StreamEnds(s) ==
    /\ s \in srv.subs /\ ops <= MaxHasty
    /\ srv' = [srv EXCEPT !.subs = @ \ {s}]
    /\ patient' = FALSE
    /\ UNCHANGED <<socket, promise, client, calls, ui, c2s, s2c, ops, offers, skipped, misfit>>

\* The read fails once the socket is closed and empty.
Dispose ==
    /\ socket \in {"closing", "closed"} /\ c2s = <<>> /\ srv.stage \in {"first", "loop"}
    /\ srv' = [NewServer EXCEPT !.stage = "gone"]
    /\ s2c' = <<>>
    /\ UNCHANGED <<socket, promise, client, calls, ui, c2s, ops, offers, history>>

Next ==
    \/ connect \/ onopen \/ disconnect \/ onerror \/ onclose
    \/ getStreamList
    \/ \E k \in Slots :
          \/ startPublishing(k) \/ stopPublishing(k)
          \/ \E S \in SUBSET Streams : subscribeToStreams(k, S)
          \/ \E s \in Streams : unsubscribeFromStream(k, s)
    \/ \E k \in Slots : getUserMedia(k) \/ replaceTrack(k)
    \/ \E k \in Slots : createOffer(k) \/ setLocalDescription(k) \/ waitForIceGathering(k)
    \/ handleWebSocketMessage
    \/ Go \/ RemoteStreamEnds \/ Dispose
    \/ \E s \in Streams : StreamEnds(s)

Spec == Init /\ [][Next]_vars

\* The browser's promises and its timer run on, and a socket that is being opened
\* or closed gets there or fails.  The user and the server need not do anything.
FairSpec ==
    /\ Spec
    /\ WF_vars(socket = "connecting" /\ (onopen \/ onerror \/ onclose))
    /\ WF_vars(socket = "closing" /\ onclose)
    /\ \A k \in Slots :
          /\ WF_vars(replaceTrack(k)) /\ WF_vars(createOffer(k))
          /\ WF_vars(setLocalDescription(k)) /\ WF_vars(waitForIceGathering(k))

-----------------------------------------------------------------------------
(***************************************************************************)
(* Properties.  patient stands for a user who waits: each method was       *)
(* called when the ones before had ended and no message was on its way.    *)
(* What a method does between its own rounds is not restricted: a switch   *)
(* sets its second offer before or after the answer to its first.  No      *)
(* stream ended meanwhile, and no error closed the connection.             *)
(***************************************************************************)
\* Every variable keeps its type; the map never leads beyond the transceivers, and
\* no camera is stopped twice.
TypeOK ==
    /\ socket \in {"none", "connecting", "open", "closing", "closed"}
    /\ promise \in {"none", "pending", "resolved", "rejected"}
    /\ ws \in BOOLEAN /\ localStream \in BOOLEAN
    /\ subscribed \subseteq Streams
    /\ sender \in {"none", "placeholder", "path", "lost"}
    /\ pc # None =>
          /\ pc \in Connection /\ Len(pc.recv) = Len(pc.dirs)
          /\ \A s \in Streams : map[s] \in 0 .. Len(pc.dirs)
    /\ ui \subseteq {"connected", "publishing"}
    /\ srv.subs \subseteq Streams /\ srv.stopping \subseteq Streams
    /\ srv.stage \in {"none", "first", "loop", "gone"}
    /\ cameras \in Nat
    /\ ops \in 0 .. MaxOps

\* The client and the server have settled on a connection that is up.
Settled == patient /\ Quiet /\ socket = "open" /\ ws

\* What the client lists the server sends, whatever was subscribed, replaced in
\* part and unsubscribed before, except what it refused and what it passed over
\* because the task of the old subscriber had not ended yet (subscribeToStreams,
\* unsubscribeFromStream, handleSubscribe, handleUnsubscribe).
Agreement == Settled => subscribed \ srv.subs \subseteq Refusable \cup skipped

\* The map leads to the transceiver that carries the stream, so that an
\* unsubscription turns off that one and no other, and the server has a subscriber
\* for it (handleTrackEvent against the reuse of inactive transceivers in
\* subscribeToStreams and the choice of AddTrack, also when the answer of a
\* switch's first round comes in during its second).
MapIsRight ==
    Settled => \A s \in Streams :
       map[s] # 0 => pc.recv[map[s]] = s /\ Receives(pc.dirs[map[s]]) /\ s \in srv.subs

\* The camera runs exactly while the sender is registered under the stream's
\* path, and the server has a publisher only then (startPublishing,
\* stopPublishing, cleanup).
CameraWhilePublishing ==
    (patient /\ Quiet) =>
       /\ cameras = (IF sender = "path" THEN 1 ELSE 0)
       /\ (socket = "open" /\ srv.publisher) => sender = "path"

\* For a user who waits, every answer is applied to the offer it answers: an offer
\* is set, sent and answered before the next one (subscribeToStreams against
\* handleWebSocketMessage).
AnswersFit == patient => ~ misfit

\* The promise of connect is settled, whenever the socket fails and also when
\* disconnect comes while onopen is still negotiating (connect, onclose, onerror).
ConnectSettles == (promise = "pending") ~> (promise \in {"resolved", "rejected"})

\* A method that negotiates ends without an answer from the server, unless the
\* connection is cleaned up meanwhile (waitForIceGathering and its two seconds).
CallsSettle ==
    \A k \in Slots :
       (calls[k] # Idle /\ calls[k].stage \in {"replace", "create", "local", "ice"})
          ~> (calls[k] = Idle \/ pc = None)

\* After a publish or an unpublish, too, the connection has been renegotiated: the
\* server has answered the client's offer, and the answer is applied
\* (handlePublish, handleUnpublish).
Renegotiated == Settled => pc.signaling = "stable"
=============================================================================
