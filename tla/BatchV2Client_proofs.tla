------------------------- MODULE BatchV2Client_proofs -------------------------
(***************************************************************************)
(* The client and the server of one peer connection, for any streams and   *)
(* any bounds: the types, and what a user who waits can rely on, by an     *)
(* inductive invariant that follows a method, its message and the answer   *)
(* through their stages.                                                   *)
(***************************************************************************)
EXTENDS BatchV2Client, FiniteSetTheorems, TLAPS

Carried == Streams \cup {None}

Request ==
    [type : {"offer", "publish"}, offer : Description]
      \cup [type : {"subscribe", "unsubscribe"}, streams : SUBSET Streams, offer : Description]
      \cup [type : {"unpublish", "getStreamList"}]

Reply ==
    [type : {"answer"}, of : Nat, sending : Seq(Carried)] \cup [type : {"error", "streamList"}]

Handler ==
    [stage : {"none", "first", "loop", "gone"}, subs : SUBSET Streams,
     senders : Seq(Carried), stopping : SUBSET Streams, publisher : BOOLEAN]

Active(k) == calls[k] # Idle

CallOK(c) ==
    \/ c = Idle
    \/ /\ {"kind", "stage"} \subseteq DOMAIN c
       /\ c.kind \in {"open", "publish", "unpublish", "subscribe", "unsubscribe", "switch"}
       /\ c.stage \in {"media", "replace", "create", "local", "ice"}
       /\ c.stage = "media" => c.kind = "publish"
       /\ c.stage = "replace" => c.kind \in {"publish", "unpublish"}
       /\ c.stage = "ice" => c.kind \notin {"open", "subscribe"}
       /\ c.kind \in {"subscribe", "unsubscribe", "switch"}
             => "streams" \in DOMAIN c /\ c.streams \subseteq Streams
       /\ c.kind = "switch" => "previous" \in DOMAIN c /\ c.previous \subseteq Streams

Plain ==
    /\ socket \in {"none", "connecting", "open", "closing", "closed"}
    /\ promise \in {"none", "pending", "resolved", "rejected"}
    /\ ws \in BOOLEAN /\ localStream \in BOOLEAN
    /\ subscribed \subseteq Streams
    /\ sender \in {"none", "placeholder", "path", "lost"}
    /\ ui \subseteq {"connected", "publishing"}
    /\ ops \in 0 .. MaxOps /\ offers \in Nat /\ patient \in BOOLEAN /\ misfit \in BOOLEAN

CamerasOK == cameras \in Nat /\ (localStream => cameras > 0)

PcOK ==
    /\ map \in [Streams -> Nat]
    /\ pc = None => \A s \in Streams : map[s] = 0
    /\ pc # None =>
          /\ socket \in {"open", "closing", "closed"}
          /\ pc \in Connection /\ Len(pc.recv) = Len(pc.dirs)
          /\ \A s \in Streams : map[s] \in 0 .. Len(pc.dirs)

CallsOK == DOMAIN calls = Slots /\ \A k \in Slots : CallOK(calls[k])

MessagesOK == c2s \in Seq(Request) /\ s2c \in Seq(Reply)

\* What TypeOK needs to be inductive: the messages, the methods under way and the
\* senders have their types, too, and whoever stops the local stream had a camera.
Typed == Plain /\ CamerasOK /\ PcOK /\ CallsOK /\ MessagesOK /\ srv \in Handler

-------------------------------------------------------------------------------
(***************************************************************************)
(* Sequences.                                                              *)
(***************************************************************************)
LEMMA SeqFacts ==
    ASSUME NEW S, NEW q \in Seq(S)
    PROVE  /\ Len(q) \in Nat /\ DOMAIN q = 1 .. Len(q)
           /\ \A i \in 1 .. Len(q) : q[i] \in S
OBVIOUS

LEMMA Listed ==
    ASSUME NEW S, NEW n \in Nat, NEW q \in [1 .. n -> S]
    PROVE  q \in Seq(S) /\ Len(q) = n
OBVIOUS

LEMMA Appended ==
    ASSUME NEW S, NEW q \in Seq(S), NEW m \in S
    PROVE  /\ Append(q, m) \in Seq(S) /\ Len(Append(q, m)) = Len(q) + 1
           /\ \A i \in 1 .. Len(q) : Append(q, m)[i] = q[i]
           /\ Append(q, m)[Len(q) + 1] = m
OBVIOUS

LEMMA Taken ==
    ASSUME NEW S, NEW q \in Seq(S), q # <<>>
    PROVE  /\ Head(q) \in S /\ Head(q) = q[1] /\ Tail(q) \in Seq(S)
           /\ Len(q) > 0 /\ Len(Tail(q)) = Len(q) - 1
           /\ \A i \in 1 .. Len(q) - 1 : Tail(q)[i] = q[i + 1]
OBVIOUS

LEMMA Joined ==
    ASSUME NEW S, NEW p \in Seq(S), NEW q \in Seq(S)
    PROVE  /\ p \o q \in Seq(S) /\ Len(p \o q) = Len(p) + Len(q)
           /\ \A i \in 1 .. Len(p) : (p \o q)[i] = p[i]
           /\ \A i \in 1 .. Len(q) : (p \o q)[Len(p) + i] = q[i]
OBVIOUS

(***************************************************************************)
(* The operators on transceivers.                                          *)
(***************************************************************************)
LEMMA DeactivatedTyped ==
    ASSUME NEW dirs \in Seq(Direction), NEW S
    PROVE  /\ Deactivated(dirs, S) \in Seq(Direction) /\ Len(Deactivated(dirs, S)) = Len(dirs)
           /\ \A i \in 1 .. Len(dirs) : Deactivated(dirs, S)[i] =
                 IF \E s \in S : map[s] = i THEN "inactive" ELSE dirs[i]
<1>1. Len(dirs) \in Nat /\ \A i \in 1 .. Len(dirs) : dirs[i] \in Direction BY SeqFacts
<1>2. Deactivated(dirs, S) \in [1 .. Len(dirs) -> Direction] BY <1>1 DEF Deactivated, Direction
<1>3. \A i \in 1 .. Len(dirs) : Deactivated(dirs, S)[i] =
         IF \E s \in S : map[s] = i THEN "inactive" ELSE dirs[i]
  BY Zenon DEF Deactivated
<1> QED BY <1>1, <1>2, <1>3, Listed

Inactive(dirs) == {i \in 1 .. Len(dirs) : dirs[i] = "inactive"}
Behind(dirs, i) == Cardinality({j \in Inactive(dirs) : j > i})
More(dirs, n) == IF n > Cardinality(Inactive(dirs)) THEN n - Cardinality(Inactive(dirs)) ELSE 0

LEMMA InactiveFinite ==
    ASSUME NEW dirs \in Seq(Direction)
    PROVE  /\ IsFiniteSet(Inactive(dirs)) /\ Cardinality(Inactive(dirs)) \in Nat
           /\ \A i : Behind(dirs, i) \in Nat /\ IsFiniteSet({j \in Inactive(dirs) : j > i})
<1>1. Len(dirs) \in Nat BY SeqFacts
<1>2. IsFiniteSet(1 .. Len(dirs)) BY <1>1, FS_Interval
<1>3. IsFiniteSet(Inactive(dirs))
  <2>1. Inactive(dirs) \in SUBSET (1 .. Len(dirs)) BY DEF Inactive
  <2> QED BY <1>2, <2>1, FS_Subset
<1>4. ASSUME NEW i PROVE Behind(dirs, i) \in Nat /\ IsFiniteSet({j \in Inactive(dirs) : j > i})
  <2>1. {j \in Inactive(dirs) : j > i} \in SUBSET Inactive(dirs) OBVIOUS
  <2>2. IsFiniteSet({j \in Inactive(dirs) : j > i}) BY <1>3, <2>1, FS_Subset
  <2> QED BY <2>2, FS_CardinalityType DEF Behind
<1> QED BY <1>3, <1>4, FS_CardinalityType

LEMMA ActivatedTyped ==
    ASSUME NEW dirs \in Seq(Direction), NEW n \in Nat
    PROVE  /\ Activated(dirs, n) \in Seq(Direction) /\ More(dirs, n) \in Nat
           /\ Len(Activated(dirs, n)) = Len(dirs) + More(dirs, n)
           /\ \A i \in 1 .. Len(dirs) + More(dirs, n) : Activated(dirs, n)[i] =
                 IF i > Len(dirs) \/ (i \in Inactive(dirs) /\ Behind(dirs, i) < n)
                 THEN "recvonly" ELSE dirs[i]
<1>1. Len(dirs) \in Nat /\ \A i \in 1 .. Len(dirs) : dirs[i] \in Direction BY SeqFacts
<1>2. More(dirs, n) \in Nat BY InactiveFinite DEF More
<1>3. Activated(dirs, n) = [i \in 1 .. Len(dirs) + More(dirs, n) |->
         IF i > Len(dirs) \/ (i \in Inactive(dirs) /\ Behind(dirs, i) < n)
         THEN "recvonly" ELSE dirs[i]]
  BY Zenon DEF Activated, More, Behind, Inactive
<1>4. PICK l \in Nat : l = Len(dirs) + More(dirs, n) BY <1>1, <1>2
<1>5. ASSUME NEW i \in 1 .. l
      PROVE  (IF i > Len(dirs) \/ (i \in Inactive(dirs) /\ Behind(dirs, i) < n)
              THEN "recvonly" ELSE dirs[i]) \in Direction
  <2>1. CASE i > Len(dirs) BY <2>1 DEF Direction
  <2>2. CASE ~(i > Len(dirs))
    <3>1. dirs[i] \in Direction BY <1>1, <1>4, <2>2
    <3> QED BY <3>1 DEF Direction
  <2> QED BY <2>1, <2>2
<1>6. Activated(dirs, n) \in [1 .. l -> Direction] BY <1>3, <1>4, <1>5, Zenon
<1>7. Activated(dirs, n) \in Seq(Direction) /\ Len(Activated(dirs, n)) = l BY <1>6, Listed
<1>8. \A i \in 1 .. Len(dirs) + More(dirs, n) : Activated(dirs, n)[i] =
         IF i > Len(dirs) \/ (i \in Inactive(dirs) /\ Behind(dirs, i) < n)
         THEN "recvonly" ELSE dirs[i]
  BY <1>3, Zenon
<1> QED BY <1>2, <1>4, <1>7, <1>8, Zenon

LEMMA ActivatedLonger ==
    ASSUME NEW dirs \in Seq(Direction), NEW n \in Nat
    PROVE  Activated(dirs, n) \in Seq(Direction) /\ Len(Activated(dirs, n)) >= Len(dirs)
<1>1. /\ Activated(dirs, n) \in Seq(Direction) /\ More(dirs, n) \in Nat
      /\ Len(Activated(dirs, n)) = Len(dirs) + More(dirs, n)
  BY ActivatedTyped, Zenon
<1>2. Len(dirs) \in Nat BY SeqFacts
<1> QED BY <1>1, <1>2

LEMMA PaddedTyped ==
    ASSUME NEW recv \in Seq(Carried), NEW dirs \in Seq(Direction)
    PROVE  /\ Padded(recv, dirs) \in Seq(Carried) /\ Len(Padded(recv, dirs)) = Len(dirs)
           /\ \A i \in 1 .. Len(dirs) :
                 Padded(recv, dirs)[i] = IF i <= Len(recv) THEN recv[i] ELSE None
<1>1. Len(dirs) \in Nat /\ Len(recv) \in Nat /\ \A i \in 1 .. Len(recv) : recv[i] \in Carried
  BY SeqFacts
<1>2. \A i \in 1 .. Len(dirs) : (IF i <= Len(recv) THEN recv[i] ELSE None) \in Carried
  BY <1>1 DEF Carried
<1>3. Padded(recv, dirs) \in [1 .. Len(dirs) -> Carried] BY <1>2, Zenon DEF Padded
<1>4. \A i \in 1 .. Len(dirs) : Padded(recv, dirs)[i] = IF i <= Len(recv) THEN recv[i] ELSE None
  BY Zenon DEF Padded
<1> QED BY <1>1, <1>3, <1>4, Listed

LEMMA AnswerTyped ==
    ASSUME NEW offer \in Description, NEW senders \in Seq(Carried),
           Len(offer.dirs) <= Len(senders)
    PROVE  /\ Answer(offer, senders) \in Reply
           /\ Answer(offer, senders).type = "answer" /\ Answer(offer, senders).of = offer.id
           /\ Len(Answer(offer, senders).sending) = Len(offer.dirs)
           /\ \A i \in 1 .. Len(offer.dirs) : Answer(offer, senders).sending[i] =
                 IF Receives(offer.dirs[i]) THEN senders[i] ELSE None
<1>1. offer.id \in Nat /\ offer.dirs \in Seq(Direction) BY DEF Description
<1>2. /\ Len(offer.dirs) \in Nat /\ Len(senders) \in Nat
      /\ \A i \in 1 .. Len(senders) : senders[i] \in Carried
  BY <1>1, SeqFacts
<1> DEFINE sending == [i \in 1 .. Len(offer.dirs) |->
                         IF Receives(offer.dirs[i]) THEN senders[i] ELSE None]
<1>3. \A i \in 1 .. Len(offer.dirs) :
         (IF Receives(offer.dirs[i]) THEN senders[i] ELSE None) \in Carried
  BY <1>2 DEF Carried
<1>4. sending \in [1 .. Len(offer.dirs) -> Carried] BY <1>3, Zenon
<1>5. sending \in Seq(Carried) /\ Len(sending) = Len(offer.dirs)
  <2> HIDE DEF sending
  <2> QED BY <1>2, <1>4, Listed
<1>6. \A i \in 1 .. Len(offer.dirs) :
         sending[i] = IF Receives(offer.dirs[i]) THEN senders[i] ELSE None
  BY Zenon
<1>7. Answer(offer, senders) = [type |-> "answer", of |-> offer.id, sending |-> sending]
  BY Zenon DEF Answer
<1> HIDE DEF sending
<1>8. /\ Answer(offer, senders) \in Reply
      /\ Answer(offer, senders).type = "answer" /\ Answer(offer, senders).of = offer.id
      /\ Answer(offer, senders).sending = sending
  BY <1>1, <1>5, <1>7 DEF Reply
<1> QED BY <1>5, <1>6, <1>8, Zenon


\* A track goes to a transceiver that has none, and the others keep theirs.
LEMMA AddTracksTyped ==
    ASSUME NEW senders \in Seq(Carried), NEW S \in SUBSET Streams, NEW new \in AddTracks(senders, S)
    PROVE  /\ new \in Seq(Carried) /\ Len(new) = Len(senders)
           /\ \A i \in 1 .. Len(senders) : new[i] = senders[i] \/ (senders[i] = None /\ new[i] \in S)
<1>1. Len(senders) \in Nat /\ \A i \in 1 .. Len(senders) : senders[i] \in Carried BY SeqFacts
<1>2. PICK free : free = {i \in 1 .. Len(senders) : senders[i] = None} OBVIOUS
<1>3. PICK taken : taken = {i \in free : Cardinality({j \in free : j <= i}) <= Cardinality(S)} OBVIOUS
<1>4. PICK streamAt \in [taken -> S] :
         new = [i \in 1 .. Len(senders) |-> IF i \in taken THEN streamAt[i] ELSE senders[i]]
  BY <1>2, <1>3, Zenon DEF AddTracks
<1>5. ASSUME NEW i \in 1 .. Len(senders)
      PROVE  new[i] = senders[i] \/ (senders[i] = None /\ new[i] \in S)
  <2>1. new[i] = IF i \in taken THEN streamAt[i] ELSE senders[i] BY <1>4, Zenon
  <2>2. CASE i \in taken
    <3>1. senders[i] = None BY <1>2, <1>3, <2>2, Zenon
    <3>2. new[i] \in S BY <1>4, <2>1, <2>2, Zenon
    <3> QED BY <3>1, <3>2
  <2>3. CASE i \notin taken BY <2>1, <2>3
  <2> QED BY <2>2, <2>3
<1>6. \A i \in 1 .. Len(senders) : new[i] \in Carried BY <1>1, <1>5 DEF Carried
<1>7. new \in [1 .. Len(senders) -> Carried] BY <1>4, <1>6, Zenon
<1>8. new \in Seq(Carried) /\ Len(new) = Len(senders) BY <1>1, <1>7, Listed
<1> QED BY <1>5, <1>8, Zenon

LEMMA TypedTypeOK == Typed => TypeOK
<1> SUFFICES ASSUME Typed PROVE TypeOK OBVIOUS
<1>1. /\ srv.subs \subseteq Streams /\ srv.stopping \subseteq Streams
      /\ srv.stage \in {"none", "first", "loop", "gone"}
  BY DEF Typed, Handler
<1> QED BY <1>1, Zenon DEF Typed, Plain, CamerasOK, PcOK, TypeOK

-------------------------------------------------------------------------------
(***************************************************************************)
(* Methods under way.                                                      *)
(***************************************************************************)
\* The call d is the call c at another stage.
Stepped(c, d, stage) ==
    /\ CallOK(d) /\ d # Idle /\ d.kind = c.kind /\ d.stage = stage
    /\ c.kind \in {"subscribe", "unsubscribe", "switch"} => d.streams = c.streams
    /\ c.kind = "switch" => d.previous = c.previous

LEMMA CallFacts ==
    ASSUME NEW c, CallOK(c), c # Idle
    PROVE  /\ {"kind", "stage"} \subseteq DOMAIN c
           /\ c.kind \in {"open", "publish", "unpublish", "subscribe", "unsubscribe", "switch"}
           /\ c.stage \in {"media", "replace", "create", "local", "ice"}
           /\ c.stage = "media" => c.kind = "publish"
           /\ c.stage = "replace" => c.kind \in {"publish", "unpublish"}
           /\ c.stage = "ice" => c.kind \notin {"open", "subscribe"}
           /\ c.kind \in {"subscribe", "unsubscribe", "switch"}
                 => "streams" \in DOMAIN c /\ c.streams \subseteq Streams
           /\ c.kind = "switch" => "previous" \in DOMAIN c /\ c.previous \subseteq Streams
BY DEF CallOK

LEMMA NextStage ==
    ASSUME NEW c, CallOK(c), c # Idle, NEW stage \in {"create", "replace", "ice"},
           stage = "replace" => c.kind \in {"publish", "unpublish"},
           stage = "ice" => c.kind \notin {"open", "subscribe"},
           NEW d, d = [c EXCEPT !.stage = stage]
    PROVE  Stepped(c, d, stage)
<1>1. {"kind", "stage"} \subseteq DOMAIN c BY CallFacts, Zenon
<1>2. /\ DOMAIN d = DOMAIN c /\ d.kind = c.kind /\ d.stage = stage
      /\ "streams" \in DOMAIN c => d.streams = c.streams
      /\ "previous" \in DOMAIN c => d.previous = c.previous
  BY <1>1
<1>3. d # Idle
  <2>1. d.kind # "none" BY <1>2, CallFacts
  <2> QED BY <2>1 DEF Idle
<1>4. CallOK(d) BY <1>2, CallFacts DEF CallOK
<1> QED BY <1>2, <1>3, <1>4, CallFacts DEF Stepped

WithOffer(c, dirs, d) ==
    d = [n \in DOMAIN c \cup {"offer"} |->
           CASE n = "stage" -> "local" [] n = "offer" -> dirs [] OTHER -> c[n]]

LEMMA Offered ==
    ASSUME NEW c, CallOK(c), c # Idle, NEW dirs, NEW d, WithOffer(c, dirs, d)
    PROVE  Stepped(c, d, "local") /\ d.offer = dirs
<1>1. {"kind", "stage"} \subseteq DOMAIN c BY CallFacts, Zenon
<1>2. /\ DOMAIN c \subseteq DOMAIN d /\ d.kind = c.kind /\ d.stage = "local" /\ d.offer = dirs
      /\ "streams" \in DOMAIN c => d.streams = c.streams
      /\ "previous" \in DOMAIN c => d.previous = c.previous
  BY <1>1 DEF WithOffer
<1>3. d # Idle
  <2>1. d.kind # "none" BY <1>2, CallFacts
  <2> QED BY <2>1 DEF Idle
<1>4. CallOK(d) BY <1>2, CallFacts DEF CallOK
<1> QED BY <1>2, <1>3, <1>4, CallFacts DEF Stepped

LEMMA CallsPut ==
    ASSUME CallsOK, NEW k \in Slots, NEW c, calls' = [calls EXCEPT ![k] = c]
    PROVE  /\ \A j \in Slots : calls'[j] = IF j = k THEN c ELSE calls[j]
           /\ CallOK(c) => CallsOK'
BY Zenon DEF CallsOK

LEMMA NewCalls ==
    /\ CallOK(Idle)
    /\ \A kind \in {"open", "unpublish", "publish"} :
          CallOK([kind |-> kind, stage |-> "create"]) /\ [kind |-> kind, stage |-> "create"] # Idle
    /\ CallOK([kind |-> "publish", stage |-> "media"]) /\ [kind |-> "publish", stage |-> "media"] # Idle
    /\ CallOK([kind |-> "unpublish", stage |-> "replace"])
    /\ [kind |-> "unpublish", stage |-> "replace"] # Idle
    /\ \A S \in SUBSET Streams :
          /\ CallOK([kind |-> "subscribe", stage |-> "create", streams |-> S])
          /\ CallOK([kind |-> "unsubscribe", stage |-> "create", streams |-> S])
          /\ CallOK(Subscribe(S))
    /\ \A S, P \in SUBSET Streams :
          CallOK([kind |-> "switch", stage |-> "create", streams |-> S, previous |-> P])
BY DEF CallOK, Idle, Subscribe

-------------------------------------------------------------------------------
(***************************************************************************)
(* Connections and messages.                                               *)
(***************************************************************************)
LEMMA ConnectionFacts ==
    ASSUME NEW p \in Connection
    PROVE  /\ p.dirs \in Seq(Direction) /\ p.created \in Seq(Direction)
           /\ p.local \in Description /\ p.recv \in Seq(Carried)
           /\ p.signaling \in {"stable", "have-local-offer"}
BY DEF Connection, Carried

Redirected(w, p, dirs) == w = [p EXCEPT !.dirs = dirs, !.recv = Padded(@, dirs)]

LEMMA WithDirsTyped ==
    ASSUME NEW p \in Connection, NEW dirs \in Seq(Direction), NEW w, Redirected(w, p, dirs)
    PROVE  /\ w \in Connection /\ w.dirs = dirs /\ w.recv = Padded(p.recv, dirs)
           /\ Len(w.recv) = Len(dirs)
           /\ w.signaling = p.signaling /\ w.created = p.created /\ w.local = p.local
<1>1. PICK r \in Seq(Carried) : r = Padded(p.recv, dirs) /\ Len(r) = Len(dirs)
  BY ConnectionFacts, PaddedTyped
<1>2. w = [p EXCEPT !.dirs = dirs, !.recv = r] BY <1>1 DEF Connection, Redirected
<1>3. /\ w \in Connection /\ w.dirs = dirs /\ w.recv = r
      /\ w.signaling = p.signaling /\ w.created = p.created /\ w.local = p.local
  BY <1>2 DEF Connection, Carried
<1> QED BY <1>1, <1>3

Described(w, p, n, dirs) ==
    w = [p EXCEPT !.signaling = "have-local-offer", !.local = [id |-> n, dirs |-> dirs]]

LEMMA WithLocal ==
    ASSUME NEW p \in Connection, NEW n \in Nat, NEW dirs \in Seq(Direction), NEW w,
           Described(w, p, n, dirs)
    PROVE  /\ w \in Connection /\ w.dirs = p.dirs /\ w.recv = p.recv /\ w.created = p.created
           /\ w.signaling = "have-local-offer"
           /\ w.local \in Description
           /\ w.local.id = n /\ w.local.dirs = dirs
<1>1. PICK l \in Description : l = [id |-> n, dirs |-> dirs] BY DEF Description
<1>2. w = [p EXCEPT !.signaling = "have-local-offer", !.local = l] BY <1>1 DEF Described
<1>3. /\ w \in Connection /\ w.dirs = p.dirs /\ w.recv = p.recv /\ w.created = p.created
      /\ w.signaling = "have-local-offer" /\ w.local = l
  BY <1>2 DEF Connection
<1>4. l.id = n /\ l.dirs = dirs BY <1>1
<1> QED BY <1>1, <1>3, <1>4

Received(w, p, r) == w = [p EXCEPT !.signaling = "stable", !.recv = r]

LEMMA WithRecv ==
    ASSUME NEW p \in Connection, NEW r \in Seq(Carried), NEW w, Received(w, p, r)
    PROVE  /\ w \in Connection /\ w.dirs = p.dirs /\ w.recv = r /\ w.created = p.created
           /\ w.signaling = "stable" /\ w.local = p.local
BY DEF Connection, Carried, Received

LEMMA WithCreated ==
    ASSUME NEW p \in Connection, NEW w, w = [p EXCEPT !.created = p.dirs]
    PROVE  /\ w \in Connection /\ w.dirs = p.dirs /\ w.recv = p.recv /\ w.created = p.dirs
           /\ w.signaling = p.signaling /\ w.local = p.local
BY DEF Connection

LEMMA Requests ==
    /\ \A d \in Description :
          /\ [type |-> "offer", offer |-> d] \in Request
          /\ [type |-> "publish", offer |-> d] \in Request
    /\ \A d \in Description, S \in SUBSET Streams :
          /\ [type |-> "subscribe", streams |-> S, offer |-> d] \in Request
          /\ [type |-> "unsubscribe", streams |-> S, offer |-> d] \in Request
    /\ [type |-> "unpublish"] \in Request
    /\ [type |-> "getStreamList"] \in Request
BY DEF Request

LEMMA RequestFacts ==
    ASSUME NEW m \in Request
    PROVE  /\ m.type \in {"offer", "publish", "subscribe", "unsubscribe", "unpublish", "getStreamList"}
           /\ m.type \in {"offer", "publish", "subscribe", "unsubscribe"} => m.offer \in Description
           /\ m.type \in {"subscribe", "unsubscribe"} => m.streams \in SUBSET Streams
BY DEF Request

LEMMA ReplyFacts ==
    ASSUME NEW m \in Reply
    PROVE  /\ m.type \in {"answer", "error", "streamList"}
           /\ m.type = "answer" => m.of \in Nat /\ m.sending \in Seq(Carried)
BY DEF Reply

LEMMA Sent ==
    ASSUME c2s \in Seq(Request), NEW m \in Request, sendMessage(m)
    PROVE  c2s' \in Seq(Request)
<1>1. Append(c2s, m) \in Seq(Request) BY Appended
<1> QED BY <1>1, Zenon DEF sendMessage

LEMMA BeginTyped ==
    ASSUME Typed, NEW k \in Slots, NEW c, CallOK(c), Begin(k, c)
    PROVE  CallsOK' /\ ops' \in 0 .. MaxOps /\ patient' \in BOOLEAN /\ pc # None /\ ws
<1>1. ops' \in 0 .. MaxOps
  <2>1. ops < MaxOps
    <3>1. ops < MaxHasty \/ ops < MaxOps BY Zenon DEF Begin, MayCall
    <3> QED BY <3>1, BatchV2Assumption DEF Typed, Plain
  <2>2. ops' = ops + 1 BY DEF Begin
  <2> QED BY <2>1, <2>2, BatchV2Assumption DEF Typed, Plain
<1>2. patient' \in BOOLEAN BY DEF Begin
<1>3. CallsOK' BY CallsPut, Zenon DEF Begin, Typed
<1> QED BY <1>1, <1>2, <1>3, Zenon DEF Begin

LEMMA CleanupTyped ==
    ASSUME Typed, cleanup
    PROVE  CamerasOK' /\ PcOK' /\ ws' = FALSE /\ localStream' = FALSE /\ subscribed' = {} /\ sender' = "none"
<1>1. CamerasOK' BY DEF cleanup, CamerasOK, Typed, Plain
<1>2. PcOK'
  <2>1. pc' = None /\ map' = [s \in Streams |-> 0] BY DEF cleanup
  <2> QED BY <2>1 DEF PcOK
<1> QED BY <1>1, <1>2, Zenon DEF cleanup

-------------------------------------------------------------------------------
(***************************************************************************)
(* Every action keeps the types.                                           *)
(***************************************************************************)
LEMMA InitTyped == Init => Typed
<1> SUFFICES ASSUME Init PROVE Typed OBVIOUS
<1>1. Plain
  <2>1. 0 \in 0 .. MaxOps /\ 0 \in Nat BY BatchV2Assumption
  <2> QED BY <2>1, Zenon DEF Init, Plain
<1>2. CamerasOK /\ MessagesOK BY DEF Init, CamerasOK, MessagesOK
<1>3. PcOK BY DEF Init, PcOK
<1>4. CallsOK BY NewCalls, Zenon DEF Init, CallsOK
<1>5. srv \in Handler BY DEF Init, NewServer, Handler
<1> QED BY <1>1, <1>2, <1>3, <1>4, <1>5 DEF Typed

LEMMA StutterTyped == ASSUME Typed, UNCHANGED vars PROVE Typed'
<1> USE DEF vars, client, server, history
<1>1. Plain' BY Zenon DEF Typed, Plain
<1>2. CamerasOK' /\ MessagesOK' BY Zenon DEF Typed, CamerasOK, MessagesOK
<1>3. PcOK' BY Zenon DEF Typed, PcOK
<1>4. CallsOK' BY Zenon DEF Typed, CallsOK
<1>5. srv' \in Handler BY Zenon DEF Typed
<1> QED BY <1>1, <1>2, <1>3, <1>4, <1>5 DEF Typed

LEMMA ConnectTyped == ASSUME Typed, connect PROVE Typed'
<1> USE DEF connect, server, history
<1>1. Plain' BY DEF Typed, Plain
<1>2. CamerasOK' /\ MessagesOK' BY Zenon DEF Typed, CamerasOK, MessagesOK
<1>3. PcOK' BY Zenon DEF Typed, PcOK
<1>4. CallsOK' BY Zenon DEF Typed, CallsOK
<1>5. srv' \in Handler BY Zenon DEF Typed
<1> QED BY <1>1, <1>2, <1>3, <1>4, <1>5 DEF Typed

LEMMA Opened ==
    ASSUME onopen
    PROVE  /\ pc' \in Connection /\ pc' # None /\ Len(pc'.dirs) = 1 /\ Len(pc'.recv) = 1
           /\ pc'.recv[1] = None /\ pc'.signaling = "stable"
<1>1. /\ <<"sendrecv">> \in Seq(Direction) /\ <<>> \in Seq(Direction) /\ <<None>> \in Seq(Carried)
      /\ Len(<<"sendrecv">>) = 1 /\ Len(<<None>>) = 1 /\ <<None>>[1] = None
  BY DEF Direction, Carried
<1>2. PICK one, r, e : one = <<"sendrecv">> /\ r = <<None>> /\ e = <<>> OBVIOUS
<1>3. pc' = [dirs |-> one, signaling |-> "stable", created |-> e,
             local |-> [id |-> 0, dirs |-> e], recv |-> r]
  BY <1>2, Zenon DEF onopen
<1>4. pc' \in Connection /\ pc'.dirs = one /\ pc'.recv = r /\ pc'.signaling = "stable"
  BY <1>1, <1>2, <1>3 DEF Connection, Description, Carried
<1> QED BY <1>1, <1>2, <1>4, BatchV2Assumption, Zenon

LEMMA OnopenTyped == ASSUME Typed, onopen PROVE Typed'
<1>1. Plain' BY DEF Typed, Plain, onopen, history
<1>2. CamerasOK' /\ MessagesOK' BY Zenon DEF Typed, CamerasOK, MessagesOK, onopen
<1>3. PcOK'
  <2>1. pc = None BY DEF Typed, PcOK, onopen
  <2>2. map \in [Streams -> Nat] /\ \A s \in Streams : map[s] = 0 BY <2>1, Zenon DEF Typed, PcOK
  <2>3. map' = map /\ socket' = "open" BY DEF onopen
  <2> QED BY <2>2, <2>3, Opened DEF PcOK
<1>4. CallsOK'
  <2>1. 0 \in Slots BY BatchV2Assumption DEF Slots
  <2>2. CallsOK /\ CallOK([kind |-> "open", stage |-> "create"]) BY NewCalls, Zenon DEF Typed
  <2>3. calls' = [calls EXCEPT ![0] = [kind |-> "open", stage |-> "create"]] BY Zenon DEF onopen
  <2> QED BY <2>1, <2>2, <2>3, CallsPut, Zenon
<1>5. srv' \in Handler BY DEF Typed, onopen, Handler
<1> QED BY <1>1, <1>2, <1>3, <1>4, <1>5 DEF Typed

LEMMA ClosingTyped == ASSUME Typed, disconnect \/ onerror \/ onclose PROVE Typed'
<1> USE DEF disconnect, onerror, onclose, server
<1>1. cleanup OBVIOUS
<1>2. Plain'
  <2>1. socket' \in {"closing", "closed"} OBVIOUS
  <2>2. promise' \in {"none", "pending", "resolved", "rejected"} BY DEF Typed, Plain
  <2>3. patient' \in BOOLEAN OBVIOUS
  <2>4. ui' \subseteq {"connected", "publishing"} BY Zenon DEF Typed, Plain
  <2>5. ops' = ops /\ offers' = offers /\ misfit' = misfit BY Zenon
  <2> QED BY <1>1, <2>1, <2>2, <2>3, <2>4, <2>5, CleanupTyped DEF Typed, Plain
<1>3. MessagesOK' BY Zenon DEF Typed, MessagesOK
<1>4. CallsOK' BY Zenon DEF Typed, CallsOK
<1>5. srv' \in Handler BY Zenon DEF Typed
<1> QED BY <1>1, <1>2, <1>3, <1>4, <1>5, CleanupTyped DEF Typed

LEMMA StartPublishingTyped == ASSUME Typed, NEW k \in Slots, startPublishing(k) PROVE Typed'
<1> USE DEF startPublishing, client, server
<1>1. Begin(k, [kind |-> "publish", stage |-> "media"]) BY Zenon
<1>2. Plain' BY <1>1, BeginTyped, NewCalls, Zenon DEF Typed, Plain
<1>3. CamerasOK' /\ MessagesOK' BY Zenon DEF Typed, CamerasOK, MessagesOK
<1>4. PcOK' BY Zenon DEF Typed, PcOK
<1>5. CallsOK' BY <1>1, BeginTyped, NewCalls, Zenon
<1>6. srv' \in Handler BY Zenon DEF Typed
<1> QED BY <1>2, <1>3, <1>4, <1>5, <1>6 DEF Typed

LEMMA GetUserMediaTyped == ASSUME Typed, NEW k \in Slots, getUserMedia(k) PROVE Typed'
<1> USE DEF getUserMedia, server, history
<1>1. Plain'
  <2>1. /\ localStream' \in {TRUE, localStream} /\ sender' \in {"lost", sender}
        /\ UNCHANGED <<socket, promise, ws, subscribed, ui, ops, offers, patient, misfit>>
    BY Zenon
  <2> HIDE DEF getUserMedia, server, history
  <2>2. localStream' \in BOOLEAN /\ sender' \in {"none", "placeholder", "path", "lost"}
    BY <2>1, Zenon DEF Typed, Plain
  <2> QED BY <2>1, <2>2, Zenon DEF Typed, Plain
<1>2. CamerasOK' BY DEF Typed, CamerasOK, Plain
<1>3. MessagesOK' BY Zenon DEF Typed, MessagesOK
<1>4. PcOK' BY Zenon DEF Typed, PcOK
<1>5. CallsOK'
  <2>1. CallOK(calls[k]) BY Zenon DEF Typed, CallsOK
  <2>2. calls[k] # Idle BY DEF Idle
  <2>3. PICK d, e : d = [calls[k] EXCEPT !.stage = "replace"] /\ e = [calls[k] EXCEPT !.stage = "create"]
    OBVIOUS
  <2>4. CallOK(d) /\ CallOK(e) BY <2>1, <2>2, <2>3, NextStage, Zenon DEF Stepped
  <2>5. \/ calls' = [calls EXCEPT ![k] = Idle] \/ calls' = [calls EXCEPT ![k] = d]
        \/ calls' = [calls EXCEPT ![k] = e]
    BY <2>3 DEF Typed, CallsOK
  <2> QED BY <2>4, <2>5, NewCalls, CallsPut, Zenon DEF Typed
<1>6. srv' \in Handler BY Zenon DEF Typed
<1> QED BY <1>1, <1>2, <1>3, <1>4, <1>5, <1>6 DEF Typed

LEMMA StopPublishingTyped == ASSUME Typed, NEW k \in Slots, stopPublishing(k) PROVE Typed'
<1> USE DEF stopPublishing, StopLocalStream, server
<1>1. \/ Begin(k, [kind |-> "unpublish", stage |-> "replace"])
      \/ Begin(k, [kind |-> "unpublish", stage |-> "create"])
  BY Zenon
<1>2. CallsOK' /\ ops' \in 0 .. MaxOps /\ patient' \in BOOLEAN BY <1>1, BeginTyped, NewCalls, Zenon
<1>3. Plain' BY <1>2, Zenon DEF Typed, Plain
<1>4. CamerasOK' BY DEF Typed, CamerasOK, Plain
<1>5. MessagesOK' BY Zenon DEF Typed, MessagesOK
<1>6. PcOK' BY Zenon DEF Typed, PcOK
<1>7. srv' \in Handler BY Zenon DEF Typed
<1> QED BY <1>2, <1>3, <1>4, <1>5, <1>6, <1>7 DEF Typed

LEMMA ReplaceTrackTyped == ASSUME Typed, NEW k \in Slots, replaceTrack(k) PROVE Typed'
<1> USE DEF replaceTrack, StopLocalStream, server, history
<1>1. Plain' BY DEF Typed, Plain
<1>2. CamerasOK' BY DEF Typed, CamerasOK, Plain
<1>3. MessagesOK' BY Zenon DEF Typed, MessagesOK
<1>4. PcOK' BY Zenon DEF Typed, PcOK
<1>5. CallsOK'
  <2>1. CallOK(calls[k]) BY Zenon DEF Typed, CallsOK
  <2>2. PICK e : e = [calls[k] EXCEPT !.stage = "create"] OBVIOUS
  <2>3. CallOK(e) BY <2>1, <2>2, NextStage, Zenon DEF Stepped
  <2>4. calls' = [calls EXCEPT ![k] = e] BY <2>2 DEF Typed, CallsOK
  <2> QED BY <2>3, <2>4, CallsPut, Zenon DEF Typed
<1>6. srv' \in Handler BY Zenon DEF Typed
<1> QED BY <1>1, <1>2, <1>3, <1>4, <1>5, <1>6 DEF Typed

LEMMA GetStreamListTyped == ASSUME Typed, getStreamList PROVE Typed'
<1> USE DEF getStreamList, client, server, history
<1>1. Plain'
  <2>1. ops < MaxHasty \/ ops < MaxOps BY Zenon DEF MayCall
  <2>2. ops' \in 0 .. MaxOps BY <2>1, BatchV2Assumption DEF Typed, Plain
  <2> QED BY <2>2, Zenon DEF Typed, Plain
<1>2. CamerasOK' BY Zenon DEF Typed, CamerasOK
<1>3. MessagesOK' BY Requests, Sent, Zenon DEF Typed, MessagesOK
<1>4. PcOK' BY Zenon DEF Typed, PcOK
<1>5. CallsOK' BY Zenon DEF Typed, CallsOK
<1>6. srv' \in Handler BY Zenon DEF Typed
<1> QED BY <1>1, <1>2, <1>3, <1>4, <1>5, <1>6 DEF Typed

\* The connection with other directions, after a method has begun.
Turned(dirs) ==
    /\ pc \in Connection /\ pc # None /\ dirs \in Seq(Direction) /\ Len(dirs) >= Len(pc.dirs)
    /\ pc' \in Connection /\ pc' # None /\ pc'.dirs = dirs /\ pc'.recv = Padded(pc.recv, dirs)
    /\ Len(pc'.recv) = Len(dirs)
    /\ pc'.signaling = pc.signaling /\ pc'.created = pc.created /\ pc'.local = pc.local

LEMMA SubscribeTurns ==
    ASSUME Typed, NEW k \in Slots, NEW S \in SUBSET Streams, subscribeToStreams(k, S)
    PROVE  Turned(IF subscribed \ S = {} THEN Activated(pc.dirs, Cardinality(S \ subscribed))
                  ELSE Deactivated(pc.dirs, subscribed \ S))
<1>1. pc # None BY Zenon DEF subscribeToStreams, Begin
<1>2. pc \in Connection BY <1>1, Zenon DEF Typed, PcOK
<1>3. pc.dirs \in Seq(Direction) BY <1>2, ConnectionFacts
<1>4. Cardinality(S \ subscribed) \in Nat
  <2>1. S \ subscribed \in SUBSET Streams OBVIOUS
  <2> QED BY <2>1, BatchV2Assumption, FS_Subset, FS_CardinalityType
<1>5. PICK dirs : dirs = IF subscribed \ S = {} THEN Activated(pc.dirs, Cardinality(S \ subscribed))
                         ELSE Deactivated(pc.dirs, subscribed \ S)
  OBVIOUS
<1>6. dirs \in Seq(Direction) /\ Len(dirs) >= Len(pc.dirs)
  <2>1. CASE subscribed \ S = {}
    <3>1. dirs = Activated(pc.dirs, Cardinality(S \ subscribed)) BY <1>5, <2>1, Zenon
    <3> QED BY <1>3, <1>4, <3>1, ActivatedLonger, Zenon
  <2>2. CASE subscribed \ S # {}
    <3>1. dirs = Deactivated(pc.dirs, subscribed \ S) BY <1>5, <2>2, Zenon
    <3> QED BY <1>3, <3>1, DeactivatedTyped, SeqFacts
  <2> QED BY <2>1, <2>2
<1>7. Redirected(pc', pc, dirs) BY <1>5, Zenon DEF subscribeToStreams, WithDirs, Redirected
<1>8. /\ pc' \in Connection /\ pc'.dirs = dirs /\ pc'.recv = Padded(pc.recv, dirs)
      /\ Len(pc'.recv) = Len(dirs)
      /\ pc'.signaling = pc.signaling /\ pc'.created = pc.created /\ pc'.local = pc.local
  BY <1>2, <1>6, <1>7, WithDirsTyped
<1>9. Turned(dirs) BY <1>1, <1>2, <1>6, <1>8, BatchV2Assumption, Zenon DEF Turned
<1> QED BY <1>5, <1>9, Zenon

LEMMA UnsubscribeTurns ==
    ASSUME Typed, NEW k \in Slots, NEW s \in Streams, unsubscribeFromStream(k, s), map[s] # 0
    PROVE  Turned(Deactivated(pc.dirs, {s}))
<1>1. pc # None BY Zenon DEF unsubscribeFromStream, Begin
<1>2. pc \in Connection BY <1>1, Zenon DEF Typed, PcOK
<1>3. pc.dirs \in Seq(Direction) BY <1>2, ConnectionFacts
<1>4. PICK dirs : dirs = Deactivated(pc.dirs, {s}) OBVIOUS
<1>5. dirs \in Seq(Direction) /\ Len(dirs) >= Len(pc.dirs)
  BY <1>3, <1>4, DeactivatedTyped, SeqFacts
<1>6. Redirected(pc', pc, dirs) BY <1>4, Zenon DEF unsubscribeFromStream, WithDirs, Redirected
<1>7. /\ pc' \in Connection /\ pc'.dirs = dirs /\ pc'.recv = Padded(pc.recv, dirs)
      /\ Len(pc'.recv) = Len(dirs)
      /\ pc'.signaling = pc.signaling /\ pc'.created = pc.created /\ pc'.local = pc.local
  BY <1>2, <1>5, <1>6, WithDirsTyped
<1>8. Turned(dirs) BY <1>1, <1>2, <1>5, <1>7, BatchV2Assumption, Zenon DEF Turned
<1> QED BY <1>4, <1>8, Zenon

LEMMA TurnedPcOK ==
    ASSUME Typed, NEW dirs, Turned(dirs), socket' = socket,
           map' = [s \in Streams |-> map'[s]], \A s \in Streams : map'[s] \in {0, map[s]}
    PROVE  PcOK'
<1>1. /\ map \in [Streams -> Nat] /\ socket \in {"open", "closing", "closed"}
      /\ \A s \in Streams : map[s] \in 0 .. Len(pc.dirs)
  BY Zenon DEF Typed, PcOK, Turned
<1>2. Len(dirs) \in Nat /\ Len(pc.dirs) \in Nat /\ Len(dirs) >= Len(pc.dirs)
  BY ConnectionFacts, SeqFacts DEF Turned
<1>3. \A s \in Streams : map'[s] \in 0 .. Len(dirs) BY <1>1, <1>2
<1>4. \A s \in Streams : map'[s] \in Nat BY <1>2, <1>3
<1>5. map' \in [Streams -> Nat] BY <1>4, Zenon
<1>6. pc' \in Connection /\ pc' # None /\ pc'.dirs = dirs /\ Len(pc'.recv) = Len(pc'.dirs)
  BY Zenon DEF Turned
<1> QED BY <1>1, <1>3, <1>5, <1>6, Zenon DEF PcOK

LEMMA SubscribeToStreamsTyped ==
    ASSUME Typed, NEW k \in Slots, NEW S \in SUBSET Streams, subscribeToStreams(k, S) PROVE Typed'
<1> DEFINE removed == subscribed \ S
           new == S \ subscribed
           c == IF removed = {} THEN Subscribe(new)
                ELSE [kind |-> "switch", stage |-> "create", streams |-> removed,
                      previous |-> subscribed]
<1>1. Begin(k, c) BY Zenon DEF subscribeToStreams
<1>2. subscribed \in SUBSET Streams BY DEF Typed, Plain
<1>3. removed \in SUBSET Streams /\ new \in SUBSET Streams BY <1>2
<1>4. CallOK(c)
  <2> HIDE DEF removed, new
  <2> QED BY <1>2, <1>3, NewCalls, Zenon
<1>5. CallsOK' /\ ops' \in 0 .. MaxOps /\ patient' \in BOOLEAN
  <2> HIDE DEF c
  <2> QED BY <1>1, <1>4, BeginTyped, Zenon
<1>6. Plain' BY <1>5, Zenon DEF Typed, Plain, subscribeToStreams
<1>7. CamerasOK' BY Zenon DEF Typed, CamerasOK, subscribeToStreams
<1>8. MessagesOK' /\ srv' \in Handler BY Zenon DEF Typed, MessagesOK, subscribeToStreams, server
<1>9. PcOK'
  <2>1. PICK dirs : Turned(dirs) BY SubscribeTurns, Zenon
  <2>2. map' = [s \in Streams |-> IF s \in removed THEN 0 ELSE map[s]] /\ socket' = socket
    BY DEF subscribeToStreams
  <2>3. map' = [s \in Streams |-> map'[s]] /\ \A s \in Streams : map'[s] \in {0, map[s]} BY <2>2
  <2> QED BY <2>1, <2>2, <2>3, TurnedPcOK, Zenon
<1> QED BY <1>5, <1>6, <1>7, <1>8, <1>9 DEF Typed

LEMMA UnsubscribeFromStreamTyped ==
    ASSUME Typed, NEW k \in Slots, NEW s \in Streams, unsubscribeFromStream(k, s) PROVE Typed'
<1> DEFINE c == [kind |-> "unsubscribe", stage |-> "create", streams |-> {s}]
<1>1. Begin(k, c) \/ Begin(k, Idle) BY Zenon DEF unsubscribeFromStream
<1>2. CallOK(c) /\ CallOK(Idle)
  <2>1. {s} \in SUBSET Streams OBVIOUS
  <2> QED BY <2>1, NewCalls, Zenon
<1>3. CallsOK' /\ ops' \in 0 .. MaxOps /\ patient' \in BOOLEAN
  <2> HIDE DEF c
  <2> QED BY <1>1, <1>2, BeginTyped, Zenon
<1>4. Plain'
  <2>1. subscribed' \subseteq Streams BY DEF Typed, Plain, unsubscribeFromStream
  <2> QED BY <1>3, <2>1, Zenon DEF Typed, Plain, unsubscribeFromStream
<1>5. CamerasOK' BY Zenon DEF Typed, CamerasOK, unsubscribeFromStream
<1>6. MessagesOK' /\ srv' \in Handler BY Zenon DEF Typed, MessagesOK, unsubscribeFromStream, server
<1>7. PcOK'
  <2>1. CASE map[s] = 0
    <3>1. pc' = pc /\ map' = map /\ socket' = socket BY <2>1, Zenon DEF unsubscribeFromStream
    <3> QED BY <3>1, Zenon DEF Typed, PcOK
  <2>2. CASE map[s] # 0
    <3>1. PICK dirs : Turned(dirs) BY <2>2, UnsubscribeTurns, Zenon
    <3>2. map' = [map EXCEPT ![s] = 0] /\ socket' = socket BY <2>2 DEF unsubscribeFromStream
    <3>3. map' = [t \in Streams |-> map'[t]] /\ \A t \in Streams : map'[t] \in {0, map[t]}
      BY <3>2 DEF Typed, PcOK
    <3> QED BY <3>1, <3>2, <3>3, TurnedPcOK, Zenon
  <2> QED BY <2>1, <2>2
<1> QED BY <1>3, <1>4, <1>5, <1>6, <1>7 DEF Typed

LEMMA CreateOfferTyped == ASSUME Typed, NEW k \in Slots, createOffer(k) PROVE Typed'
<1> USE DEF createOffer, server, history
<1>1. Plain' BY Zenon DEF Typed, Plain
<1>2. CamerasOK' BY Zenon DEF Typed, CamerasOK
<1>3. MessagesOK' /\ srv' \in Handler BY Zenon DEF Typed, MessagesOK
<1>4. PcOK'
  <2>1. pc \in Connection BY Zenon DEF Typed, PcOK
  <2>2. pc' \in Connection /\ pc'.dirs = pc.dirs /\ pc'.recv = pc.recv BY <2>1, WithCreated
  <2>3. pc' # None BY <2>2, BatchV2Assumption, Zenon
  <2> QED BY <2>2, <2>3, Zenon DEF Typed, PcOK
<1>5. CallsOK'
  <2>1. CallOK(calls[k]) BY Zenon DEF Typed, CallsOK
  <2>2. PICK d : WithOffer(calls[k], pc.dirs, d) BY Zenon DEF WithOffer
  <2>3. CallOK(d) BY <2>1, <2>2, Offered, Zenon DEF Stepped
  <2>4. calls' = [calls EXCEPT ![k] = d] BY <2>2, Zenon DEF WithOffer
  <2> QED BY <2>3, <2>4, CallsPut, Zenon DEF Typed
<1> QED BY <1>1, <1>2, <1>3, <1>4, <1>5 DEF Typed

LEMMA ProceedTyped ==
    ASSUME Typed, NEW k \in Slots, Active(k), NEW p \in Connection, Len(p.recv) = Len(p.dirs),
           Proceed(k, p)
    PROVE  /\ promise' \in {"none", "pending", "resolved", "rejected"}
           /\ ui' \subseteq {"connected", "publishing"} /\ subscribed' \subseteq Streams
           /\ CallsOK' /\ c2s' \in Seq(Request)
           /\ pc' \in Connection /\ Len(pc'.recv) = Len(pc'.dirs) /\ Len(pc'.dirs) >= Len(p.dirs)
<1>1. /\ promise \in {"none", "pending", "resolved", "rejected"}
      /\ ui \subseteq {"connected", "publishing"} /\ subscribed \in SUBSET Streams
      /\ CallsOK /\ c2s \in Seq(Request)
  BY DEF Typed, Plain, MessagesOK
<1>2. CallOK(calls[k]) /\ calls[k] # Idle BY <1>1, Zenon DEF CallsOK, Active
<1>3. p.local \in Description /\ p.dirs \in Seq(Direction) /\ Len(p.dirs) \in Nat
  BY ConnectionFacts, SeqFacts
<1> DEFINE call == calls[k]
           new == subscribed \ call.previous
<1>4. CASE /\ call.kind \in {"open", "publish", "unpublish", "unsubscribe", "subscribe"}
           /\ call.kind # "switch"
  <2>1. calls' = [calls EXCEPT ![k] = Idle] /\ pc' = p BY <1>4 DEF Proceed
  <2>2. promise' = promise \/ promise' = "resolved" BY <1>4, Zenon DEF Proceed
  <2>3. ui' = {"connected"} \/ ui' = ui \cup {"publishing"} \/ ui' = ui \ {"publishing"} \/ ui' = ui
    BY <1>4, Zenon DEF Proceed
  <2>4. subscribed' = subscribed \/ subscribed' = subscribed \ call.streams
    BY <1>4, Zenon DEF Proceed
  <2>5. PICK m \in Request : sendMessage(m)
    <3>1. \/ sendMessage([type |-> "offer", offer |-> p.local])
          \/ sendMessage([type |-> "publish", offer |-> p.local])
          \/ sendMessage([type |-> "unpublish"])
          \/ /\ call.kind \in {"subscribe", "unsubscribe"}
             /\ \/ sendMessage([type |-> "unsubscribe", streams |-> call.streams, offer |-> p.local])
                \/ sendMessage([type |-> "subscribe", streams |-> call.streams, offer |-> p.local])
      BY <1>4, Zenon DEF Proceed
    <3>2. call.kind \in {"subscribe", "unsubscribe"} => call.streams \in SUBSET Streams
      BY <1>2, CallFacts
    <3> HIDE DEF call
    <3> QED BY <1>3, <3>1, <3>2, Requests, Zenon
  <2>6. c2s' \in Seq(Request) BY <1>1, <2>5, Sent
  <2>7. CallsOK' BY <1>1, <2>1, CallsPut, NewCalls, Zenon
  <2>8. promise' \in {"none", "pending", "resolved", "rejected"} BY <1>1, <2>2
  <2>9. ui' \subseteq {"connected", "publishing"} BY <1>1, <2>3
  <2>10. subscribed' \subseteq Streams
    <3> HIDE DEF call
    <3> QED BY <1>1, <2>4
  <2>11. pc' \in Connection /\ Len(pc'.recv) = Len(pc'.dirs) /\ Len(pc'.dirs) >= Len(p.dirs)
    BY <1>3, <2>1
  <2> QED BY <2>6, <2>7, <2>8, <2>9, <2>10, <2>11
<1>5. CASE call.kind = "switch"
  <2>1. /\ sendMessage([type |-> "unsubscribe", streams |-> call.streams, offer |-> p.local])
        /\ calls' = [calls EXCEPT ![k] = Subscribe(new)]
        /\ UNCHANGED <<promise, ui, subscribed>>
    BY <1>5 DEF Proceed
  <2>2. PICK dirs : dirs = Activated(p.dirs, Cardinality(new)) OBVIOUS
  <2>3. Redirected(pc', p, dirs) BY <1>5, <2>2 DEF Proceed, Redirected
  <2>4. call.streams \in SUBSET Streams /\ new \in SUBSET Streams BY <1>1, <1>2, <1>5, CallFacts
  <2>5. Cardinality(new) \in Nat BY <2>4, BatchV2Assumption, FS_Subset, FS_CardinalityType
  <2>6. dirs \in Seq(Direction) /\ Len(dirs) >= Len(p.dirs)
    BY <1>3, <2>2, <2>5, ActivatedLonger, Zenon
  <2>7. pc' \in Connection /\ Len(pc'.recv) = Len(pc'.dirs) /\ pc'.dirs = dirs
    BY <2>3, <2>6, WithDirsTyped
  <2> HIDE DEF call, new
  <2>8. c2s' \in Seq(Request) BY <1>1, <1>3, <2>1, <2>4, Requests, Sent, Zenon
  <2>9. CallsOK' BY <1>1, <2>1, <2>4, CallsPut, NewCalls, Zenon
  <2> QED BY <1>1, <2>1, <2>6, <2>7, <2>8, <2>9
<1>6. call.kind \in {"open", "publish", "unpublish", "unsubscribe", "subscribe"} \/ call.kind = "switch"
  BY <1>2, CallFacts
<1> QED BY <1>4, <1>5, <1>6

LEMMA FailTyped ==
    ASSUME Typed, NEW k \in Slots, Fail(k)
    PROVE  CallsOK' /\ UNCHANGED <<promise, ui, c2s, subscribed, pc>>
BY CallsPut, NewCalls, Zenon DEF Fail, Typed

LEMMA SetLocalDescriptionTyped == ASSUME Typed, NEW k \in Slots, setLocalDescription(k) PROVE Typed'
<1>1. pc \in Connection /\ Len(pc.recv) = Len(pc.dirs) BY Zenon DEF setLocalDescription, Typed, PcOK
<1>2. CallOK(calls[k]) /\ calls[k] # Idle /\ CallsOK
  BY Zenon DEF Typed, CallsOK, setLocalDescription
<1>3. UNCHANGED <<socket, ws, map, sender, localStream, cameras, server, ops, history>>
  BY DEF setLocalDescription
<1>4. offers' \in Nat
  <2>1. offers' = offers \/ offers' = offers + 1 BY Zenon DEF setLocalDescription
  <2> QED BY <2>1 DEF Typed, Plain
<1>5. /\ promise' \in {"none", "pending", "resolved", "rejected"}
      /\ ui' \subseteq {"connected", "publishing"} /\ subscribed' \subseteq Streams
      /\ CallsOK' /\ c2s' \in Seq(Request)
      /\ pc' \in Connection /\ Len(pc'.recv) = Len(pc'.dirs) /\ Len(pc'.dirs) >= Len(pc.dirs)
  <2>1. CASE calls[k].offer # pc.created
    <3>1. Fail(k) BY <2>1, Zenon DEF setLocalDescription
    <3>2. CallsOK' /\ UNCHANGED <<promise, ui, c2s, subscribed, pc>> BY <3>1, FailTyped, Zenon
    <3>3. Len(pc.dirs) \in Nat BY <1>1, ConnectionFacts, SeqFacts
    <3> QED BY <1>1, <3>2, <3>3 DEF Typed, Plain, MessagesOK
  <2>2. CASE calls[k].offer = pc.created
    <3>1. PICK p : p = [pc EXCEPT !.signaling = "have-local-offer",
                                  !.local = [id |-> offers + 1, dirs |-> pc.created]]
      OBVIOUS
    <3>2. p \in Connection /\ p.dirs = pc.dirs /\ p.recv = pc.recv
      <4>1. pc.created \in Seq(Direction) /\ offers + 1 \in Nat BY <1>1, ConnectionFacts DEF Typed, Plain
      <4>2. Described(p, pc, offers + 1, pc.created) BY <3>1, Zenon DEF Described
      <4>3. PICK n \in Nat, dirs \in Seq(Direction) : Described(p, pc, n, dirs) BY <4>1, <4>2, Zenon
      <4> QED BY <1>1, <4>3, WithLocal
    <3>3. CASE calls[k].kind \in {"open", "subscribe"}
      <4>1. Proceed(k, p) BY <2>2, <3>1, <3>3, Zenon DEF setLocalDescription
      <4>2. Len(p.recv) = Len(p.dirs) BY <1>1, <3>2
      <4>3. Active(k) BY <1>2 DEF Active
      <4> HIDE DEF Active
      <4> QED BY <3>2, <4>1, <4>2, <4>3, ProceedTyped
    <3>4. CASE calls[k].kind \notin {"open", "subscribe"}
      <4>1. PICK d : d = [calls[k] EXCEPT !.stage = "ice"] OBVIOUS
      <4>2. /\ pc' = p /\ calls' = [calls EXCEPT ![k] = d]
            /\ UNCHANGED <<promise, ui, c2s, subscribed>>
        BY <1>2, <2>2, <3>1, <3>4, <4>1 DEF setLocalDescription, CallsOK
      <4>3. CallOK(d) BY <1>2, <3>4, <4>1, NextStage, Zenon DEF Stepped
      <4>4. CallsOK' BY <1>2, <4>2, <4>3, CallsPut, Zenon
      <4>5. Len(pc.dirs) \in Nat BY <1>1, ConnectionFacts, SeqFacts
      <4> QED BY <1>1, <3>2, <4>2, <4>4, <4>5 DEF Typed, Plain, MessagesOK
    <3> QED BY <3>3, <3>4
  <2> QED BY <2>1, <2>2
<1>6. Plain' BY <1>3, <1>4, <1>5, Zenon DEF Typed, Plain, history
<1>7. CamerasOK' BY <1>3, Zenon DEF Typed, CamerasOK
<1>8. MessagesOK' /\ srv' \in Handler BY <1>3, <1>5, Zenon DEF Typed, MessagesOK, server
<1>9. PcOK'
  <2>1. pc' # None /\ pc # None BY <1>5, <1>1, BatchV2Assumption, Zenon
  <2>2. Len(pc.dirs) \in Nat /\ Len(pc'.dirs) \in Nat BY <1>1, <1>5, ConnectionFacts, SeqFacts
  <2> QED BY <1>3, <1>5, <2>1, <2>2 DEF Typed, PcOK
<1> QED BY <1>5, <1>6, <1>7, <1>8, <1>9 DEF Typed

LEMMA WaitForIceGatheringTyped == ASSUME Typed, NEW k \in Slots, waitForIceGathering(k) PROVE Typed'
<1>1. UNCHANGED <<socket, ws, map, sender, localStream, cameras, server, ops, offers, history>>
  BY DEF waitForIceGathering
<1>2. CASE pc = None
  <2>1. Fail(k) BY <1>2, Zenon DEF waitForIceGathering
  <2>2. CallsOK' /\ UNCHANGED <<promise, ui, c2s, subscribed, pc>> BY <2>1, FailTyped, Zenon
  <2>3. Plain' BY <1>1, <2>2, Zenon DEF Typed, Plain, history
  <2>4. CamerasOK' BY <1>1, Zenon DEF Typed, CamerasOK
  <2>5. MessagesOK' /\ srv' \in Handler BY <1>1, <2>2, Zenon DEF Typed, MessagesOK, server
  <2>6. PcOK' BY <1>1, <2>2, Zenon DEF Typed, PcOK
  <2> QED BY <2>2, <2>3, <2>4, <2>5, <2>6 DEF Typed
<1>3. CASE pc # None
  <2>1. pc \in Connection /\ Len(pc.recv) = Len(pc.dirs) BY <1>3, Zenon DEF Typed, PcOK
  <2>2. Proceed(k, pc) /\ Active(k) BY <1>3, Zenon DEF waitForIceGathering, Active
  <2>3. /\ promise' \in {"none", "pending", "resolved", "rejected"}
        /\ ui' \subseteq {"connected", "publishing"} /\ subscribed' \subseteq Streams
        /\ CallsOK' /\ c2s' \in Seq(Request)
        /\ pc' \in Connection /\ Len(pc'.recv) = Len(pc'.dirs) /\ Len(pc'.dirs) >= Len(pc.dirs)
    BY <2>1, <2>2, ProceedTyped
  <2>4. Plain' BY <1>1, <2>3, Zenon DEF Typed, Plain, history
  <2>5. CamerasOK' BY <1>1, Zenon DEF Typed, CamerasOK
  <2>6. MessagesOK' /\ srv' \in Handler BY <1>1, <2>3, Zenon DEF Typed, MessagesOK, server
  <2>7. PcOK'
    <3>1. pc' # None BY <2>3, BatchV2Assumption, Zenon
    <3>2. Len(pc.dirs) \in Nat /\ Len(pc'.dirs) \in Nat BY <2>1, <2>3, ConnectionFacts, SeqFacts
    <3> QED BY <1>1, <1>3, <2>3, <3>1, <3>2 DEF Typed, PcOK
  <2> QED BY <2>3, <2>4, <2>5, <2>6, <2>7 DEF Typed
<1> QED BY <1>2, <1>3

LEMMA LargestOf ==
    ASSUME NEW S \in SUBSET Nat, S # {}, NEW n \in Nat, \A j \in S : j <= n
    PROVE  \E i \in S : \A j \in S : j <= i
<1> DEFINE U == {b \in Nat : \A j \in S : j <= b}
           R == OpToRel(<, Nat)
<1>1. IsWellFoundedOn(R, Nat) BY NatLessThanWellFounded
<1>2. U \subseteq Nat /\ U # {} OBVIOUS
<1>3. \E b \in U : \A c \in U : ~ (<<c, b>> \in R)
  <2> HIDE DEF R, U
  <2> QED BY <1>1, <1>2, WFMin
<1>4. PICK b \in U : \A c \in U : ~ (<<c, b>> \in R) BY <1>3
<1>5. \A c \in U : ~ (c < b) BY <1>4 DEF OpToRel
<1>6. b \in S
  <2> SUFFICES ASSUME b \notin S PROVE FALSE OBVIOUS
  <2>1. \A j \in S : j < b OBVIOUS
  <2>2. b > 0
    <3>1. PICK j \in S : j < b BY <2>1
    <3>2. j \in Nat /\ b \in Nat OBVIOUS
    <3> QED BY <3>1, <3>2
  <2>3. b - 1 \in U BY <2>1, <2>2
  <2> QED BY <1>5, <2>2, <2>3
<1> QED BY <1>6

\* The answer m has been applied.
Applied(m, recv) ==
    /\ recv \in Seq(Carried) /\ Len(recv) = Len(pc.recv)
    /\ \A i \in 1 .. Len(pc.recv) : recv[i] =
          IF i <= Len(m.sending) /\ Receives(pc.local.dirs[i]) THEN m.sending[i] ELSE None
    /\ handleTrackEvent(recv)
    /\ pc' \in Connection /\ pc' # None /\ pc'.dirs = pc.dirs /\ pc'.recv = recv
    /\ pc'.created = pc.created /\ pc'.signaling = "stable" /\ pc'.local = pc.local
    /\ misfit' = (misfit \/ m.of # pc.local.id)

LEMMA AnswerApplied ==
    ASSUME Typed, handleWebSocketMessage, Head(s2c).type = "answer", AnswerFits(Head(s2c))
    PROVE  \E recv : Applied(Head(s2c), recv)
<1>1. PICK m \in Reply : m = Head(s2c) BY Taken DEF handleWebSocketMessage, Typed, MessagesOK
<1>2. m.type = "answer" /\ AnswerFits(m) BY <1>1
<1>3. m.sending \in Seq(Carried) BY <1>2, ReplyFacts
<1>4. pc \in Connection BY <1>2, Zenon DEF AnswerFits, Typed, PcOK
<1>5. Len(pc.recv) \in Nat BY <1>4, ConnectionFacts, SeqFacts
<1>6. PICK recv : recv = [i \in 1 .. Len(pc.recv) |->
         IF i <= Len(m.sending) /\ Receives(pc.local.dirs[i]) THEN m.sending[i] ELSE None]
  OBVIOUS
<1>7. \A i \in 1 .. Len(pc.recv) : recv[i] =
         IF i <= Len(m.sending) /\ Receives(pc.local.dirs[i]) THEN m.sending[i] ELSE None
  BY <1>6, Zenon
<1>8. \A i \in 1 .. Len(pc.recv) : recv[i] \in Carried
  <2>1. \A i \in 1 .. Len(m.sending) : m.sending[i] \in Carried /\ Len(m.sending) \in Nat
    BY <1>3, SeqFacts
  <2> QED BY <1>3, <1>5, <1>7, <2>1, SeqFacts DEF Carried
<1>9. recv \in [1 .. Len(pc.recv) -> Carried] BY <1>6, <1>8, Zenon
<1>10. recv \in Seq(Carried) /\ Len(recv) = Len(pc.recv) BY <1>5, <1>9, Listed
<1>11. /\ handleTrackEvent(recv) /\ pc' = [pc EXCEPT !.signaling = "stable", !.recv = recv]
       /\ misfit' = (misfit \/ m.of # pc.local.id)
  BY <1>1, <1>2, <1>6, Zenon DEF handleWebSocketMessage
<1>12. /\ pc' \in Connection /\ pc'.dirs = pc.dirs /\ pc'.recv = recv
       /\ pc'.created = pc.created /\ pc'.signaling = "stable" /\ pc'.local = pc.local
  <2>1. Received(pc', pc, recv) BY <1>11, Zenon DEF Received
  <2> QED BY <1>4, <1>10, <2>1, WithRecv
<1>13. pc' # None BY <1>12, BatchV2Assumption, Zenon
<1> QED BY <1>1, <1>7, <1>10, <1>11, <1>12, <1>13, Zenon DEF Applied

LEMMA MapEntered ==
    ASSUME Typed, pc # None, NEW recv \in Seq(Carried), Len(recv) = Len(pc.recv),
           handleTrackEvent(recv)
    PROVE  /\ map' = [s \in Streams |-> map'[s]]
           /\ \A s \in Streams :
                 \/ /\ \A i \in 1 .. Len(recv) : ~(recv[i] = s /\ pc.recv[i] = None)
                    /\ map'[s] = map[s]
                 \/ /\ map'[s] \in 1 .. Len(recv)
                    /\ recv[map'[s]] = s /\ pc.recv[map'[s]] = None
<1> DEFINE begun(s) == {i \in 1 .. Len(recv) : recv[i] = s /\ pc.recv[i] = None}
<1>1. map' = [s \in Streams |-> IF begun(s) = {} THEN map[s]
                                ELSE CHOOSE i \in begun(s) : \A j \in begun(s) : j <= i]
  BY Zenon DEF handleTrackEvent
<1>2. Len(recv) \in Nat BY SeqFacts
<1>5. map' = [s \in Streams |-> map'[s]]
  <2> DEFINE e(s) == IF begun(s) = {} THEN map[s]
                     ELSE CHOOSE i \in begun(s) : \A j \in begun(s) : j <= i
  <2>1. map' = [s \in Streams |-> e(s)] BY <1>1
  <2> HIDE DEF e
  <2> QED BY <2>1
<1> SUFFICES ASSUME NEW s \in Streams
             PROVE  \/ /\ \A i \in 1 .. Len(recv) : ~(recv[i] = s /\ pc.recv[i] = None)
                       /\ map'[s] = map[s]
                    \/ /\ map'[s] \in 1 .. Len(recv)
                       /\ recv[map'[s]] = s /\ pc.recv[map'[s]] = None
  BY <1>5, Zenon
<1>3. CASE begun(s) = {} BY <1>1, <1>3, Zenon
<1>4. CASE begun(s) # {}
  <2>1. map'[s] = CHOOSE i \in begun(s) : \A j \in begun(s) : j <= i BY <1>1, <1>4, Zenon
  <2>2. \E i \in begun(s) : \A j \in begun(s) : j <= i
    <3>1. begun(s) \in SUBSET Nat /\ \A j \in begun(s) : j <= Len(recv) BY <1>2
    <3> HIDE DEF begun
    <3> QED BY <1>2, <1>4, <3>1, LargestOf
  <2>3. map'[s] \in begun(s)
    <3> HIDE DEF begun
    <3> QED BY <2>1, <2>2, Zenon
  <2> QED BY <2>3, Zenon
<1> QED BY <1>3, <1>4

LEMMA HandleWebSocketMessageTyped == ASSUME Typed, handleWebSocketMessage PROVE Typed'
<1>1. UNCHANGED <<socket, promise, ws, subscribed, sender, localStream, cameras, calls, ui, c2s, srv,
                  ops, offers, patient>>
  BY DEF handleWebSocketMessage
<1>2. PICK m \in Reply : m = Head(s2c) BY Taken DEF handleWebSocketMessage, Typed, MessagesOK
<1>3. misfit' \in BOOLEAN
  <2>1. \/ misfit' = (misfit \/ m.of # pc.local.id) \/ misfit' = (misfit \/ pc # None)
        \/ misfit' = misfit
    BY <1>2, Zenon DEF handleWebSocketMessage
  <2> QED BY <2>1 DEF Typed, Plain
<1>4. Plain' BY <1>1, <1>3, Zenon DEF Typed, Plain
<1>5. CamerasOK' BY <1>1, Zenon DEF Typed, CamerasOK
<1>6. CallsOK' /\ srv' \in Handler BY <1>1, Zenon DEF Typed, CallsOK
<1>7. MessagesOK'
  <2>1. s2c' = Tail(s2c) /\ s2c # <<>> BY DEF handleWebSocketMessage
  <2>2. s2c' \in Seq(Reply) BY <2>1, Taken DEF Typed, MessagesOK
  <2> QED BY <1>1, <2>2, Zenon DEF Typed, MessagesOK
<1>8. PcOK'
  <2>1. CASE m.type = "answer" /\ AnswerFits(m)
    <3>1. PICK recv : Applied(m, recv) BY <1>2, <2>1, AnswerApplied, Zenon
    <3>2. recv \in Seq(Carried) /\ Len(recv) = Len(pc.recv) /\ handleTrackEvent(recv)
      BY <3>1, Zenon DEF Applied
    <3>3. pc' \in Connection /\ pc' # None /\ pc'.dirs = pc.dirs /\ pc'.recv = recv
      BY <3>1, Zenon DEF Applied
    <3>4. pc # None BY <2>1, Zenon DEF AnswerFits
    <3>5. /\ map \in [Streams -> Nat] /\ socket \in {"open", "closing", "closed"}
          /\ Len(pc.recv) = Len(pc.dirs)
          /\ \A s \in Streams : map[s] \in 0 .. Len(pc.dirs)
      BY <3>4, Zenon DEF Typed, PcOK
    <3>6. Len(pc.dirs) \in Nat BY <3>2, <3>5, SeqFacts
    <3>7. /\ map' = [s \in Streams |-> map'[s]]
          /\ \A s \in Streams : map'[s] = map[s] \/ map'[s] \in 1 .. Len(recv)
      BY <3>2, <3>4, MapEntered, Zenon
    <3>8. \A s \in Streams : map'[s] \in 0 .. Len(pc.dirs) BY <3>2, <3>5, <3>6, <3>7
    <3>9. map' \in [Streams -> Nat]
      <4>1. \A s \in Streams : map'[s] \in Nat BY <3>6, <3>8
      <4> QED BY <3>7, <4>1, Zenon
    <3> QED BY <1>1, <3>2, <3>3, <3>5, <3>8, <3>9, Zenon DEF PcOK
  <2>2. CASE ~(m.type = "answer" /\ AnswerFits(m))
    <3>1. pc' = pc /\ map' = map BY <1>2, <2>2, Zenon DEF handleWebSocketMessage
    <3> QED BY <1>1, <3>1, Zenon DEF Typed, PcOK
  <2> QED BY <2>1, <2>2
<1> QED BY <1>4, <1>5, <1>6, <1>7, <1>8 DEF Typed

LEMMA HandlerFacts ==
    ASSUME NEW h \in Handler
    PROVE  /\ h.stage \in {"none", "first", "loop", "gone"} /\ h.subs \in SUBSET Streams
           /\ h.senders \in Seq(Carried) /\ h.stopping \in SUBSET Streams /\ h.publisher \in BOOLEAN
BY DEF Handler

\* What the server does with the message m that it takes from the socket.
Handled(m) ==
    \/ FirstOffer(m)
    \/ /\ srv.stage = "loop"
       /\ handlePublish(m) \/ handleSubscribe(m) \/ handleUnsubscribe(m) \/ handleUnpublish(m)
             \/ handleGetStreamList(m)

LEMMA GoTakes ==
    ASSUME Typed, Go
    PROVE  \E m \in Request : m = Head(c2s) /\ m = c2s[1] /\ Handled(m) /\ c2s' \in Seq(Request)
<1>1. c2s # <<>> /\ c2s' = Tail(c2s) /\ c2s \in Seq(Request) BY DEF Go, Typed, MessagesOK
<1>2. Head(c2s) \in Request /\ Head(c2s) = c2s[1] /\ c2s' \in Seq(Request) BY <1>1, Taken
<1>3. Handled(Head(c2s)) BY Zenon DEF Go, Handled
<1> QED BY <1>2, <1>3, Zenon

\* The server's state and answer after a subscription.
Subscribed(m, added, senders, refused) ==
    /\ srv' \in Handler /\ srv'.stage = srv.stage /\ srv'.stopping = srv.stopping
    /\ srv'.publisher = srv.publisher /\ srv'.subs = srv.subs \cup added /\ srv'.senders = senders
    /\ refused \in SUBSET (m.streams \cap Refusable)
    /\ added = {s \in m.streams \ refused : ~ HasSubscriber(s)}
    /\ senders \in AddTracks(Padded(srv.senders, m.offer.dirs), added)
    /\ senders \in Seq(Carried) /\ Len(senders) = Len(m.offer.dirs)
    /\ Answer(m.offer, senders) \in Reply
    /\ s2c' = s2c \o [i \in 1 .. Cardinality(refused) |-> Error] \o <<Answer(m.offer, senders)>>
    /\ skipped' = (skipped \ added) \cup (m.streams \cap srv.stopping)

LEMMA SubscribedBy ==
    ASSUME Typed, NEW m \in Request, handleSubscribe(m)
    PROVE  \E added \in SUBSET Streams : \E senders, refused : Subscribed(m, added, senders, refused)
<1>1. m.type = "subscribe" BY DEF handleSubscribe
<1>2. m.streams \in SUBSET Streams /\ m.offer \in Description BY <1>1, RequestFacts
<1>3. m.offer.dirs \in Seq(Direction) BY <1>2 DEF Description
<1>4. PICK refused \in SUBSET (m.streams \cap Refusable) :
         \E senders \in AddTracks(Padded(srv.senders, m.offer.dirs),
                                  {s \in m.streams \ refused : ~ HasSubscriber(s)}) :
            /\ srv' = [srv EXCEPT !.subs = @ \cup {s \in m.streams \ refused : ~ HasSubscriber(s)},
                                  !.senders = senders]
            /\ s2c' = s2c \o [i \in 1 .. Cardinality(refused) |-> Error]
                          \o <<Answer(m.offer, senders)>>
            /\ skipped' = (skipped \ {s \in m.streams \ refused : ~ HasSubscriber(s)})
                             \cup (m.streams \cap srv.stopping)
  BY Zenon DEF handleSubscribe
<1>5. PICK added : added = {s \in m.streams \ refused : ~ HasSubscriber(s)} OBVIOUS
<1>6. PICK senders \in AddTracks(Padded(srv.senders, m.offer.dirs), added) :
         /\ srv' = [srv EXCEPT !.subs = @ \cup added, !.senders = senders]
         /\ s2c' = s2c \o [i \in 1 .. Cardinality(refused) |-> Error]
                       \o <<Answer(m.offer, senders)>>
         /\ skipped' = (skipped \ added) \cup (m.streams \cap srv.stopping)
  BY <1>4, <1>5, Zenon
<1>7. added \in SUBSET Streams BY <1>2, <1>5
<1>8. srv \in Handler BY DEF Typed
<1>9. senders \in Seq(Carried) /\ Len(senders) = Len(m.offer.dirs)
  <2>1. PICK padded : padded = Padded(srv.senders, m.offer.dirs) OBVIOUS
  <2>2. padded \in Seq(Carried) /\ Len(padded) = Len(m.offer.dirs)
    BY <1>3, <1>8, <2>1, HandlerFacts, PaddedTyped
  <2>3. senders \in AddTracks(padded, added) BY <1>6, <2>1
  <2> QED BY <1>7, <2>2, <2>3, AddTracksTyped
<1>10. Answer(m.offer, senders) \in Reply
  <2>1. Len(m.offer.dirs) \in Nat BY <1>3, SeqFacts
  <2>2. Len(m.offer.dirs) <= Len(senders) BY <1>9, <2>1
  <2> QED BY <1>2, <1>9, <2>2, AnswerTyped
<1>11. /\ srv' \in Handler /\ srv'.stage = srv.stage /\ srv'.stopping = srv.stopping
       /\ srv'.publisher = srv.publisher /\ srv'.subs = srv.subs \cup added /\ srv'.senders = senders
  BY <1>6, <1>7, <1>8, <1>9 DEF Handler
<1> QED BY <1>4, <1>5, <1>6, <1>7, <1>9, <1>10, <1>11, Zenon DEF Subscribed

\* The server's state and answer after an unsubscription.
Unsubscribed(m, removed, padded, senders) ==
    /\ srv' \in Handler /\ srv'.stage = srv.stage /\ srv'.stopping = srv.stopping \cup removed
    /\ srv'.publisher = srv.publisher /\ srv'.subs = srv.subs \ removed /\ srv'.senders = senders
    /\ removed = m.streams \cap srv.subs
    /\ padded = Padded(srv.senders, m.offer.dirs)
    /\ senders \in Seq(Carried) /\ Len(senders) = Len(m.offer.dirs)
    /\ \A i \in 1 .. Len(m.offer.dirs) : senders[i] =
          IF padded[i] \in removed THEN None ELSE padded[i]
    /\ Answer(m.offer, senders) \in Reply
    /\ s2c' = Append(s2c, Answer(m.offer, senders))

LEMMA UnsubscribedBy ==
    ASSUME Typed, NEW m \in Request, handleUnsubscribe(m)
    PROVE  \E removed, padded, senders : Unsubscribed(m, removed, padded, senders)
<1>1. m.type = "unsubscribe" BY DEF handleUnsubscribe
<1>2. m.streams \in SUBSET Streams /\ m.offer \in Description BY <1>1, RequestFacts
<1>3. m.offer.dirs \in Seq(Direction) /\ Len(m.offer.dirs) \in Nat BY <1>2, SeqFacts DEF Description
<1>4. srv \in Handler BY DEF Typed
<1>5. PICK removed : removed = m.streams \cap srv.subs OBVIOUS
<1>6. PICK padded : padded = Padded(srv.senders, m.offer.dirs) OBVIOUS
<1>7. PICK senders :
         senders = [i \in 1 .. Len(padded) |-> IF padded[i] \in removed THEN None ELSE padded[i]]
  OBVIOUS
<1>8. /\ srv' = [srv EXCEPT !.subs = @ \ removed, !.stopping = @ \cup removed, !.senders = senders]
      /\ s2c' = Append(s2c, Answer(m.offer, senders))
  BY <1>5, <1>6, <1>7, Zenon DEF handleUnsubscribe
<1>9. padded \in Seq(Carried) /\ Len(padded) = Len(m.offer.dirs)
  BY <1>3, <1>4, <1>6, HandlerFacts, PaddedTyped
<1>10. \A i \in 1 .. Len(m.offer.dirs) : senders[i] = IF padded[i] \in removed THEN None ELSE padded[i]
  BY <1>7, <1>9, Zenon
<1>11. \A i \in 1 .. Len(m.offer.dirs) : padded[i] \in Carried BY <1>9, SeqFacts
<1>12. senders \in Seq(Carried) /\ Len(senders) = Len(m.offer.dirs)
  <2>1. \A i \in 1 .. Len(m.offer.dirs) : senders[i] \in Carried BY <1>10, <1>11 DEF Carried
  <2>2. senders \in [1 .. Len(m.offer.dirs) -> Carried] BY <1>7, <1>9, <2>1, Zenon
  <2> QED BY <1>3, <2>2, Listed
<1>13. Answer(m.offer, senders) \in Reply
  <2>1. Len(m.offer.dirs) <= Len(senders) BY <1>3, <1>12
  <2> QED BY <1>2, <1>12, <2>1, AnswerTyped
<1>14. /\ srv' \in Handler /\ srv'.stage = srv.stage /\ srv'.stopping = srv.stopping \cup removed
       /\ srv'.publisher = srv.publisher /\ srv'.subs = srv.subs \ removed /\ srv'.senders = senders
  <2>1. removed \in SUBSET Streams BY <1>2, <1>5
  <2> QED BY <1>4, <1>8, <1>12, <2>1 DEF Handler
<1>15. Unsubscribed(m, removed, padded, senders)
  BY <1>5, <1>6, <1>8, <1>10, <1>12, <1>13, <1>14, Zenon DEF Unsubscribed
<1> QED BY <1>15, Zenon

LEMMA ErrorsTyped ==
    ASSUME NEW refused, IsFiniteSet(refused)
    PROVE  /\ [i \in 1 .. Cardinality(refused) |-> Error] \in Seq(Reply)
           /\ \A j \in 1 .. Len([i \in 1 .. Cardinality(refused) |-> Error]) :
                 [i \in 1 .. Cardinality(refused) |-> Error][j].type = "error"
<1>1. Cardinality(refused) \in Nat BY FS_CardinalityType
<1>2. Error \in Reply /\ Error.type = "error" BY DEF Error, Reply
<1>3. PICK q : q = [i \in 1 .. Cardinality(refused) |-> Error] OBVIOUS
<1>4. q \in [1 .. Cardinality(refused) -> Reply] BY <1>2, <1>3, Zenon
<1>5. q \in Seq(Reply) /\ Len(q) = Cardinality(refused) BY <1>1, <1>4, Listed
<1>6. \A j \in 1 .. Cardinality(refused) : q[j] = Error BY <1>3, Zenon
<1> QED BY <1>2, <1>3, <1>5, <1>6, Zenon

\* The messages of q, then errors, then the answer a.
LEMMA AnsweredTyped ==
    ASSUME NEW q \in Seq(Reply), NEW r \in Seq(Reply), NEW a \in Reply
    PROVE  q \o r \o <<a>> \in Seq(Reply)
<1>1. <<a>> \in Seq(Reply) OBVIOUS
<1>2. q \o r \in Seq(Reply) BY Joined
<1> QED BY <1>1, <1>2, Joined

LEMMA FirstOfferTyped ==
    ASSUME Typed, NEW m \in Request, FirstOffer(m)
    PROVE  \E senders \in Seq(Carried) :
              /\ Len(senders) = Len(m.offer.dirs) /\ \A i \in 1 .. Len(m.offer.dirs) : senders[i] = None
              /\ srv' \in Handler /\ srv'.stage = "loop" /\ srv'.senders = senders
              /\ srv'.subs = srv.subs /\ srv'.stopping = srv.stopping
              /\ srv'.publisher = srv.publisher
              /\ Answer(m.offer, senders) \in Reply /\ s2c' = Append(s2c, Answer(m.offer, senders))
<1>1. m.type = "offer" BY DEF FirstOffer
<1>2. m.offer \in Description BY <1>1, RequestFacts
<1>3. m.offer.dirs \in Seq(Direction) /\ Len(m.offer.dirs) \in Nat BY <1>2, SeqFacts DEF Description
<1>4. srv \in Handler BY DEF Typed
<1>5. PICK senders : senders = [i \in 1 .. Len(m.offer.dirs) |-> None] OBVIOUS
<1>6. /\ srv' = [srv EXCEPT !.stage = "loop", !.senders = senders]
      /\ s2c' = Append(s2c, Answer(m.offer, senders))
  BY <1>5, Zenon DEF FirstOffer
<1>7. senders \in [1 .. Len(m.offer.dirs) -> Carried] BY <1>5 DEF Carried
<1>8. senders \in Seq(Carried) /\ Len(senders) = Len(m.offer.dirs) BY <1>3, <1>7, Listed
<1>9. Answer(m.offer, senders) \in Reply
  <2>1. Len(m.offer.dirs) <= Len(senders) BY <1>3, <1>8
  <2> QED BY <1>2, <1>8, <2>1, AnswerTyped
<1>10. /\ srv' \in Handler /\ srv'.stage = "loop" /\ srv'.senders = senders
       /\ srv'.subs = srv.subs /\ srv'.stopping = srv.stopping /\ srv'.publisher = srv.publisher
  BY <1>4, <1>6, <1>8 DEF Handler
<1>11. \A i \in 1 .. Len(m.offer.dirs) : senders[i] = None BY <1>5, Zenon
<1> QED BY <1>6, <1>8, <1>9, <1>10, <1>11, Zenon

LEMMA PublisherTyped ==
    ASSUME Typed, NEW m \in Request, handlePublish(m) \/ handleUnpublish(m)
    PROVE  /\ srv' \in Handler /\ srv'.stage = srv.stage /\ srv'.subs = srv.subs
           /\ srv'.stopping = srv.stopping /\ srv'.senders = srv.senders
           /\ handleUnpublish(m) => srv'.publisher = FALSE
           /\ s2c' = Append(s2c, Error) /\ Error \in Reply /\ Error.type = "error"
<1>1. srv \in Handler BY DEF Typed
<1>2. PICK b \in BOOLEAN :
         srv' = [srv EXCEPT !.publisher = b] /\ (handleUnpublish(m) => b = FALSE)
  <2>1. CASE handlePublish(m) /\ ~ handleUnpublish(m)
    <3>1. PICK made \in BOOLEAN : srv' = [srv EXCEPT !.publisher = @ \/ made]
      BY <2>1, Zenon DEF handlePublish
    <3>2. PICK b \in BOOLEAN : b = (srv.publisher \/ made) OBVIOUS
    <3>3. srv' = [srv EXCEPT !.publisher = b] BY <1>1, <3>1, <3>2 DEF Handler
    <3> QED BY <2>1, <3>3, Zenon
  <2>2. CASE handleUnpublish(m) BY <2>2 DEF handleUnpublish
  <2> QED BY <2>1, <2>2
<1>3. /\ srv' \in Handler /\ srv'.stage = srv.stage /\ srv'.subs = srv.subs
      /\ srv'.stopping = srv.stopping /\ srv'.senders = srv.senders /\ srv'.publisher = b
  BY <1>1, <1>2 DEF Handler
<1>4. s2c' = Append(s2c, Error) BY Zenon DEF handlePublish, handleUnpublish
<1>5. Error \in Reply /\ Error.type = "error" BY DEF Error, Reply
<1> QED BY <1>2, <1>3, <1>4, <1>5

LEMMA GoTyped == ASSUME Typed, Go PROVE Typed'
<1>1. UNCHANGED <<socket, promise, client, calls, ui, ops, offers, patient, misfit>> BY DEF Go
<1>2. PICK m \in Request : m = Head(c2s) /\ Handled(m) /\ c2s' \in Seq(Request) BY GoTakes, Zenon
<1>3. s2c \in Seq(Reply) BY DEF Typed, MessagesOK
<1>4. s2c' \in Seq(Reply) /\ srv' \in Handler
  <2>1. CASE FirstOffer(m)
    <3>1. PICK a \in Reply : srv' \in Handler /\ s2c' = Append(s2c, a)
      BY <2>1, FirstOfferTyped, Zenon
    <3> QED BY <1>3, <3>1, Appended
  <2>2. CASE handlePublish(m) \/ handleUnpublish(m)
    <3>1. PICK a \in Reply : srv' \in Handler /\ s2c' = Append(s2c, a)
      BY <2>2, PublisherTyped, Zenon
    <3> QED BY <1>3, <3>1, Appended
  <2>3. CASE handleSubscribe(m)
    <3>1. PICK added, senders, refused : added \in SUBSET Streams /\ Subscribed(m, added, senders, refused)
      BY <2>3, SubscribedBy, Zenon
    <3>2. /\ srv' \in Handler /\ Answer(m.offer, senders) \in Reply
          /\ refused \in SUBSET Streams
          /\ s2c' = s2c \o [i \in 1 .. Cardinality(refused) |-> Error] \o <<Answer(m.offer, senders)>>
      BY <3>1, BatchV2Assumption DEF Subscribed
    <3>3. IsFiniteSet(refused) BY <3>2, BatchV2Assumption, FS_Subset
    <3>4. PICK r \in Seq(Reply) : r = [i \in 1 .. Cardinality(refused) |-> Error]
      BY <3>3, ErrorsTyped
    <3>5. PICK a \in Reply : a = Answer(m.offer, senders) BY <3>2
    <3>6. s2c' = s2c \o r \o <<a>> BY <3>2, <3>4, <3>5
    <3> QED BY <1>3, <3>2, <3>6, AnsweredTyped
  <2>4. CASE handleUnsubscribe(m)
    <3>1. PICK removed, padded, senders : Unsubscribed(m, removed, padded, senders)
      BY <2>4, UnsubscribedBy, Zenon
    <3>2. PICK a \in Reply : srv' \in Handler /\ s2c' = Append(s2c, a)
      BY <3>1, Zenon DEF Unsubscribed
    <3> QED BY <1>3, <3>2, Appended
  <2>5. CASE handleGetStreamList(m)
    <3>1. [type |-> "streamList"] \in Reply BY DEF Reply
    <3>2. PICK a \in Reply : srv' = srv /\ s2c' = Append(s2c, a)
      BY <2>5, <3>1, Zenon DEF handleGetStreamList
    <3> QED BY <1>3, <3>2, Appended DEF Typed
  <2> QED BY <1>2, <2>1, <2>2, <2>3, <2>4, <2>5, Zenon DEF Handled
<1>5. Plain' BY <1>1, Zenon DEF Typed, Plain, client, history
<1>6. CamerasOK' BY <1>1, Zenon DEF Typed, CamerasOK, client
<1>7. PcOK' BY <1>1, Zenon DEF Typed, PcOK, client
<1>8. CallsOK' BY <1>1, Zenon DEF Typed, CallsOK
<1>9. MessagesOK' BY <1>2, <1>4, Zenon DEF MessagesOK
<1> QED BY <1>4, <1>5, <1>6, <1>7, <1>8, <1>9 DEF Typed

LEMMA ServerTyped ==
    ASSUME Typed, RemoteStreamEnds \/ Dispose \/ \E s \in Streams : StreamEnds(s)
    PROVE  Typed' /\ srv'.stage \in {srv.stage, "gone"} /\ srv'.senders \in {srv.senders, <<>>}
<1>1. UNCHANGED <<socket, promise, client, calls, ui, c2s, ops, offers, misfit>>
  BY Zenon DEF RemoteStreamEnds, Dispose, StreamEnds, history
<1>2. patient' = patient \/ patient' = FALSE BY Zenon DEF RemoteStreamEnds, Dispose, StreamEnds, history
<1>3. srv' \in Handler /\ srv'.stage \in {srv.stage, "gone"} /\ srv'.senders \in {srv.senders, <<>>}
  <2>1. srv \in Handler BY DEF Typed
  <2>2. CASE RemoteStreamEnds BY <2>1, <2>2 DEF RemoteStreamEnds, Handler
  <2>3. CASE Dispose
    <3>4. <<>> \in Seq(Carried) OBVIOUS
    <3>1. PICK e \in Seq(Carried) : e = <<>> BY <3>4, Zenon
    <3>2. srv' = [NewServer EXCEPT !.stage = "gone"] BY <2>3, Zenon DEF Dispose
    <3>3. srv' = [stage |-> "gone", subs |-> {}, senders |-> e, stopping |-> {}, publisher |-> FALSE]
      BY <3>1, <3>2 DEF NewServer
    <3> QED BY <3>1, <3>3 DEF Handler
  <2>4. CASE \E s \in Streams : StreamEnds(s)
    <3>1. PICK s \in Streams : srv' = [srv EXCEPT !.subs = @ \ {s}] BY <2>4, Zenon DEF StreamEnds
    <3> QED BY <2>1, <3>1 DEF Handler
  <2> QED BY <2>2, <2>3, <2>4
<1>4. s2c' = s2c \/ s2c' = <<>> BY Zenon DEF RemoteStreamEnds, Dispose, StreamEnds
<1>5. s2c' \in Seq(Reply)
  <2>1. <<>> \in Seq(Reply) OBVIOUS
  <2> QED BY <1>4, <2>1, Zenon DEF Typed, MessagesOK
<1>6. Plain'
  <2>1. patient' \in BOOLEAN BY <1>2 DEF Typed, Plain
  <2> QED BY <1>1, <2>1, Zenon DEF Typed, Plain, client
<1>7. CamerasOK' BY <1>1, Zenon DEF Typed, CamerasOK, client
<1>8. PcOK' BY <1>1, Zenon DEF Typed, PcOK, client
<1>9. CallsOK' BY <1>1, Zenon DEF Typed, CallsOK
<1>10. MessagesOK' BY <1>1, <1>5, Zenon DEF Typed, MessagesOK
<1> QED BY <1>3, <1>6, <1>7, <1>8, <1>9, <1>10 DEF Typed

LEMMA NextTyped == ASSUME Typed, [Next]_vars PROVE Typed'
<1>1. CASE connect BY <1>1, ConnectTyped
<1>2. CASE onopen BY <1>2, OnopenTyped
<1>3. CASE disconnect \/ onerror \/ onclose BY <1>3, ClosingTyped
<1>4. CASE getStreamList BY <1>4, GetStreamListTyped
<1>5. ASSUME NEW k \in Slots,
             \/ startPublishing(k) \/ stopPublishing(k)
             \/ \E S \in SUBSET Streams : subscribeToStreams(k, S)
             \/ \E s \in Streams : unsubscribeFromStream(k, s)
      PROVE  Typed'
  BY <1>5, StartPublishingTyped, StopPublishingTyped, SubscribeToStreamsTyped,
     UnsubscribeFromStreamTyped, Zenon
<1>6. ASSUME NEW k \in Slots, getUserMedia(k) \/ replaceTrack(k) PROVE Typed'
  BY <1>6, GetUserMediaTyped, ReplaceTrackTyped, Zenon
<1>7. ASSUME NEW k \in Slots, createOffer(k) \/ setLocalDescription(k) \/ waitForIceGathering(k)
      PROVE  Typed'
  BY <1>7, CreateOfferTyped, SetLocalDescriptionTyped, WaitForIceGatheringTyped, Zenon
<1>8. CASE handleWebSocketMessage BY <1>8, HandleWebSocketMessageTyped
<1>9. CASE Go BY <1>9, GoTyped
<1>10. CASE RemoteStreamEnds \/ Dispose \/ \E s \in Streams : StreamEnds(s) BY <1>10, ServerTyped
<1>11. CASE UNCHANGED vars BY <1>11, StutterTyped
<1> QED
  BY <1>1, <1>2, <1>3, <1>4, <1>5, <1>6, <1>7, <1>8, <1>9, <1>10, <1>11, Zenon DEF Next

\* The types hold in every reachable state: the map never leads beyond the
\* transceivers of the connection (handleTrackEvent against cleanup and the
\* reuse of transceivers), and no camera is stopped twice (stopPublishing,
\* cleanup).
THEOREM ClientTypeCorrect == Spec => []TypeOK
<1>1. Init => Typed BY InitTyped
<1>2. Typed /\ [Next]_vars => Typed' BY NextTyped
<1>3. Typed => TypeOK BY TypedTypeOK
<1> QED BY <1>1, <1>2, <1>3, PTL DEF Spec

-------------------------------------------------------------------------------
(***************************************************************************)
(* How far the connection is.                                              *)
(***************************************************************************)
\* The socket, this.ws and the peer connection go together.
Linked ==
    /\ ws <=> socket \in {"connecting", "open"}
    /\ pc # None <=> socket = "open"

\* Before the socket is open nothing else has begun.
Fresh ==
    socket \in {"none", "connecting"} =>
       /\ \A k \in Slots : ~ Active(k)
       /\ srv = NewServer /\ c2s = <<>> /\ s2c = <<>> /\ ui = {} /\ ~ localStream /\ cameras = 0

\* While onopen negotiates no method is called.
Openings ==
    /\ \A k \in Slots : Active(k) => (k = 0 <=> calls[k].kind = "open")
    /\ Active(0) => ui = {} /\ \A k \in Slots : Active(k) => k = 0

Begun == Linked /\ Fresh /\ Openings

-------------------------------------------------------------------------------
(***************************************************************************)
(* The messages of a queue.                                                *)
(***************************************************************************)
Elems(q) == {q[i] : i \in 1 .. Len(q)}
Has(q, T) == \E m \in Elems(q) : m.type \in T
Single(q, T) == \A i, j \in 1 .. Len(q) : q[i].type \in T /\ q[j].type \in T => i = j

Asks == {"offer", "publish", "subscribe", "unsubscribe", "unpublish"}
Offering == {"offer", "subscribe", "unsubscribe"}
Answers == {"answer"}

\* A user who waits has one method under way.
Alone ==
    /\ \A j, k \in Slots : Active(j) /\ Active(k) => j = k
    /\ \A k \in Slots : Active(k) => pc # None

\* Only a switch has two requests on the way, and only its second round begins
\* before the answer to its first is in.
OneExchange ==
    /\ Has(c2s, Asks \ {"subscribe", "unsubscribe"}) => Single(c2s, Asks)
    /\ \A k \in Slots : Active(k) /\ (Has(c2s, Asks) \/ Has(s2c, Answers)) =>
          calls[k].kind = "subscribe" /\ ~ Has(c2s, Asks \ {"unsubscribe"})

Rounds == \A k \in Slots : Active(k) /\ calls[k].stage = "local" => calls[k].offer = pc.created

Exchange == Alone /\ OneExchange /\ Rounds

Changing(k) == Active(k) /\ calls[k].kind \in {"publish", "unpublish"}

OneCamera == cameras = IF localStream THEN 1 ELSE 0

\* The camera, the sender and the page's "publishing" change one after the other
\* in startPublishing and in stopPublishing.
PublishStages ==
    \A k \in Slots : Active(k) /\ calls[k].kind = "publish" =>
       /\ localStream <=> calls[k].stage # "media"
       /\ sender = IF calls[k].stage \in {"media", "replace"} THEN "placeholder" ELSE "path"
       /\ "publishing" \notin ui

UnpublishStages ==
    \A k \in Slots : Active(k) /\ calls[k].kind = "unpublish" =>
       /\ localStream <=> calls[k].stage = "replace"
       /\ sender = IF calls[k].stage = "replace" THEN "path" ELSE "placeholder"
       /\ "publishing" \in ui

Rested ==
    (\A k \in Slots : ~ Changing(k)) =>
       /\ localStream <=> sender = "path"
       /\ ws => ("publishing" \in ui <=> sender = "path")

SenderKept == pc # None => sender \in {"placeholder", "path"}

\* The server has a publisher, or will have, only while the client has its sender
\* or is about to take it back.
Published ==
    (socket = "open" /\ (srv.publisher \/ Has(c2s, {"publish"}))) =>
       \/ sender = "path"
       \/ \E k \in Slots : Active(k) /\ calls[k].kind = "unpublish"
       \/ Has(c2s, {"unpublish"})

Camera == OneCamera /\ PublishStages /\ UnpublishStages /\ Rested /\ SenderKept /\ Published

Patient == patient => Exchange /\ Camera

-------------------------------------------------------------------------------
LEMMA InitBegun == Init => Begun
<1> SUFFICES ASSUME Init PROVE Begun OBVIOUS
<1>1. \A k \in Slots : ~ Active(k) BY Zenon DEF Init, Active
<1>2. Linked BY DEF Init, Linked
<1>3. Fresh BY <1>1, Zenon DEF Init, Fresh
<1>4. 0 \in Slots BY BatchV2Assumption DEF Slots
<1> QED BY <1>1, <1>2, <1>3, <1>4, Zenon DEF Begun, Openings

\* A method under way goes on, or ends.
LEMMA OpeningsKept ==
    ASSUME Begun, NEW k \in Slots, Active(k), NEW c,
           \A j \in Slots : calls'[j] = IF j = k THEN c ELSE calls[j],
           c # Idle => (c.kind = "open" <=> calls[k].kind = "open"),
           ui' = ui \/ c = Idle
    PROVE  Openings'
<1>1. \A j \in Slots : Active(j)' <=> IF j = k THEN c # Idle ELSE Active(j) BY Zenon DEF Active
<1>2. \A j \in Slots : Active(j)' => Active(j) BY <1>1, Zenon
<1>3. 0 \in Slots BY BatchV2Assumption DEF Slots
<1>4. ASSUME NEW j \in Slots, Active(j)' PROVE j = 0 <=> calls'[j].kind = "open"
  <2>1. CASE j = k
    <3>1. c # Idle /\ calls'[j] = c BY <1>1, <1>4, <2>1, Zenon
    <3>2. k = 0 <=> calls[k].kind = "open" BY Zenon DEF Begun, Openings
    <3> QED BY <2>1, <3>1, <3>2
  <2>2. CASE j # k
    <3>1. calls'[j] = calls[j] BY <2>2, Zenon
    <3> QED BY <1>2, <1>4, <3>1, Zenon DEF Begun, Openings
  <2> QED BY <2>1, <2>2
<1>5. ASSUME Active(0)' PROVE ui' = {} /\ \A j \in Slots : Active(j)' => j = 0
  <2>1. Active(0) BY <1>2, <1>3, <1>5, Zenon
  <2>2. k = 0 BY <2>1, Zenon DEF Begun, Openings
  <2>3. c # Idle BY <1>1, <1>3, <1>5, <2>2, Zenon
  <2>4. ui' = {} BY <2>1, <2>3, Zenon DEF Begun, Openings
  <2>5. \A j \in Slots : Active(j)' => j = 0 BY <1>2, <2>1, Zenon DEF Begun, Openings
  <2> QED BY <2>4, <2>5
<1>6. Openings' <=> /\ \A j \in Slots : Active(j)' => (j = 0 <=> calls'[j].kind = "open")
                    /\ Active(0)' => ui' = {} /\ \A j \in Slots : Active(j)' => j = 0
  BY Zenon DEF Openings
<1> HIDE DEF Active
<1> QED BY <1>4, <1>5, <1>6, Zenon

LEMMA BeganCall ==
    ASSUME Typed, Begun, NEW k \in Slots, NEW c, Begin(k, c), c # Idle => c.kind # "open", ui' = ui
    PROVE  /\ Openings' /\ socket = "open" /\ pc # None /\ ws /\ ~ Active(0) /\ k # 0 /\ ~ Active(k)
           /\ \A j \in Slots : calls'[j] = IF j = k THEN c ELSE calls[j]
<1>1. pc # None /\ ws /\ "connected" \in ui /\ k # 0 /\ calls[k] = Idle
      /\ calls' = [calls EXCEPT ![k] = c]
  BY Zenon DEF Begin
<1>2. socket = "open" BY <1>1, Zenon DEF Begun, Linked
<1>3. ~ Active(0) BY <1>1, Zenon DEF Begun, Openings
<1>4. \A j \in Slots : calls'[j] = IF j = k THEN c ELSE calls[j] BY <1>1, CallsPut, Zenon DEF Typed
<1>5. 0 \in Slots BY BatchV2Assumption DEF Slots
<1>6. calls'[0] = calls[0] BY <1>1, <1>4, <1>5, Zenon
<1>7. Openings'
  <2>1. ~ Active(0)' BY <1>3, <1>6, Zenon DEF Active
  <2>2. ASSUME NEW j \in Slots, Active(j)' PROVE j = 0 <=> calls'[j].kind = "open"
    <3>1. CASE j = k
      <4>1. calls'[j] = c BY <1>4, <3>1, Zenon
      <4> QED BY <1>1, <2>2, <3>1, <4>1, Zenon DEF Active
    <3>2. CASE j # k
      <4>1. calls'[j] = calls[j] BY <1>4, <3>2, Zenon
      <4> QED BY <2>2, <4>1, Zenon DEF Active, Begun, Openings
    <3> QED BY <3>1, <3>2
  <2> QED BY <2>1, <2>2, Zenon DEF Openings
<1>8. ~ Active(k) BY <1>1, Zenon DEF Active
<1> QED BY <1>1, <1>2, <1>3, <1>4, <1>7, <1>8, Zenon

LEMMA OpenKept ==
    ASSUME Begun, socket \notin {"none", "connecting"}, socket' = socket, ws' = ws,
           pc' = None <=> pc = None, Openings'
    PROVE  Begun'
<1>1. Linked' BY Zenon DEF Begun, Linked
<1>2. Fresh' BY Zenon DEF Fresh
<1> QED BY <1>1, <1>2 DEF Begun

LEMMA SameCalls == ASSUME Begun, calls' = calls, ui' = ui PROVE Openings'
BY Zenon DEF Begun, Openings, Active

LEMMA ActiveOpen ==
    ASSUME Begun, NEW k \in Slots, Active(k)
    PROVE  socket \notin {"none", "connecting"}
BY Zenon DEF Begun, Fresh

-------------------------------------------------------------------------------
(***************************************************************************)
(* What the actions of a method do, in one formula each.                   *)
(***************************************************************************)
Put(k, c) == \A j \in Slots : calls'[j] = IF j = k THEN c ELSE calls[j]

UserMedia(k, c) ==
    /\ Active(k) /\ calls[k].kind = "publish" /\ calls[k].stage = "media" /\ Put(k, c)
    /\ \/ c = Idle /\ UNCHANGED <<localStream, cameras, sender>>
       \/ /\ localStream' = TRUE /\ cameras' = cameras + 1
          /\ \/ sender = "placeholder" /\ sender' = sender /\ Stepped(calls[k], c, "replace")
             \/ /\ sender # "placeholder" /\ sender' = "lost"
                /\ c = Idle \/ Stepped(calls[k], c, "create")

LEMMA UserMediaBy == ASSUME Typed, NEW k \in Slots, getUserMedia(k) PROVE \E c : UserMedia(k, c)
<1>1. calls[k].kind = "publish" /\ calls[k].stage = "media" BY DEF getUserMedia
<1>2. CallOK(calls[k]) /\ CallsOK BY Zenon DEF Typed, CallsOK
<1>3. calls[k] # Idle BY <1>1 DEF Idle
<1>4. PICK d, e : d = [calls[k] EXCEPT !.stage = "replace"] /\ e = [calls[k] EXCEPT !.stage = "create"]
  OBVIOUS
<1>5. Stepped(calls[k], d, "replace") /\ Stepped(calls[k], e, "create")
  BY <1>1, <1>2, <1>3, <1>4, NextStage, Zenon
<1>6. \/ calls' = [calls EXCEPT ![k] = Idle] /\ UNCHANGED <<localStream, cameras, sender>>
      \/ /\ localStream' = TRUE /\ cameras' = cameras + 1
         /\ \/ sender = "placeholder" /\ sender' = sender /\ calls' = [calls EXCEPT ![k] = d]
            \/ /\ sender # "placeholder" /\ sender' = "lost"
               /\ calls' = [calls EXCEPT ![k] = Idle] \/ calls' = [calls EXCEPT ![k] = e]
  BY <1>2, <1>4 DEF getUserMedia, CallsOK
<1>7. \A c : calls' = [calls EXCEPT ![k] = c] => Put(k, c) BY <1>2, CallsPut, Zenon DEF Put
<1> QED BY <1>1, <1>3, <1>5, <1>6, <1>7, Zenon DEF UserMedia, Active

Replaced(k, c) ==
    /\ Active(k) /\ calls[k].stage = "replace" /\ pc # None /\ Put(k, c)
    /\ Stepped(calls[k], c, "create")
    /\ \/ calls[k].kind = "publish" /\ sender' = "path" /\ UNCHANGED <<cameras, localStream>>
       \/ /\ calls[k].kind = "unpublish" /\ sender' = "placeholder"
          /\ cameras' = (IF localStream THEN cameras - 1 ELSE cameras) /\ localStream' = FALSE

LEMMA ReplacedBy == ASSUME Typed, NEW k \in Slots, replaceTrack(k) PROVE \E c : Replaced(k, c)
<1>1. calls[k] # Idle /\ calls[k].stage = "replace" /\ pc # None BY DEF replaceTrack
<1>2. CallOK(calls[k]) /\ CallsOK BY Zenon DEF Typed, CallsOK
<1>3. calls[k].kind \in {"publish", "unpublish"} BY <1>1, <1>2, CallFacts
<1>4. PICK c : c = [calls[k] EXCEPT !.stage = "create"] OBVIOUS
<1>5. calls' = [calls EXCEPT ![k] = c] BY <1>2, <1>4 DEF replaceTrack, CallsOK
<1>6. Put(k, c) BY <1>2, <1>5, CallsPut, Zenon DEF Put
<1>7. Stepped(calls[k], c, "create") BY <1>1, <1>2, <1>4, NextStage, Zenon
<1>8. \/ calls[k].kind = "publish" /\ sender' = "path" /\ UNCHANGED <<cameras, localStream>>
      \/ /\ calls[k].kind = "unpublish" /\ sender' = "placeholder"
         /\ cameras' = (IF localStream THEN cameras - 1 ELSE cameras) /\ localStream' = FALSE
  BY <1>3, Zenon DEF replaceTrack, StopLocalStream
<1> QED BY <1>1, <1>6, <1>7, <1>8, Zenon DEF Replaced, Active

Created(k, c) ==
    /\ Active(k) /\ calls[k].stage = "create" /\ pc # None /\ Put(k, c)
    /\ Stepped(calls[k], c, "local") /\ c.offer = pc.dirs
    /\ pc' \in Connection /\ pc' # None /\ pc'.dirs = pc.dirs /\ pc'.recv = pc.recv
    /\ pc'.created = pc.dirs /\ pc'.signaling = pc.signaling /\ pc'.local = pc.local

LEMMA CreatedBy == ASSUME Typed, NEW k \in Slots, createOffer(k) PROVE \E c : Created(k, c)
<1>1. calls[k] # Idle /\ calls[k].stage = "create" /\ pc # None BY DEF createOffer
<1>2. CallOK(calls[k]) /\ CallsOK BY Zenon DEF Typed, CallsOK
<1>3. PICK c : WithOffer(calls[k], pc.dirs, c) BY Zenon DEF WithOffer
<1>4. Stepped(calls[k], c, "local") /\ c.offer = pc.dirs BY <1>1, <1>2, <1>3, Offered, Zenon
<1>5. calls' = [calls EXCEPT ![k] = c] BY <1>3, Zenon DEF createOffer, WithOffer
<1>6. Put(k, c) BY <1>2, <1>5, CallsPut, Zenon DEF Put
<1>7. pc \in Connection BY <1>1, Zenon DEF Typed, PcOK
<1>8. /\ pc' \in Connection /\ pc'.dirs = pc.dirs /\ pc'.recv = pc.recv
      /\ pc'.created = pc.dirs /\ pc'.signaling = pc.signaling /\ pc'.local = pc.local
  BY <1>7, WithCreated DEF createOffer
<1>9. pc' # None BY <1>8, BatchV2Assumption, Zenon
<1> QED BY <1>1, <1>4, <1>6, <1>8, <1>9, Zenon DEF Created, Active

\* The method k sends m and goes on as c, on the connection p.
Proceeded(k, p, m, c) ==
    /\ m \in Request /\ sendMessage(m) /\ Put(k, c) /\ CallOK(c)
    /\ pc' \in Connection /\ pc' # None
    /\ pc'.local = p.local /\ pc'.signaling = p.signaling /\ pc'.created = p.created
    /\ m.type = (CASE calls[k].kind = "open" -> "offer" [] calls[k].kind = "switch" -> "unsubscribe"
                   [] OTHER -> calls[k].kind)
    /\ m.type \in Offering => m.offer = p.local
    /\ calls[k].kind \in {"subscribe", "unsubscribe", "switch"} => m.streams = calls[k].streams
    /\ calls[k].kind # "switch" => c = Idle /\ pc' = p
    /\ calls[k].kind = "switch" =>
          /\ c = Subscribe(subscribed \ calls[k].previous)
          /\ Redirected(pc', p, Activated(p.dirs, Cardinality(subscribed \ calls[k].previous)))
    /\ ui' = (CASE calls[k].kind = "open" -> {"connected"}
                [] calls[k].kind = "publish" -> ui \cup {"publishing"}
                [] calls[k].kind = "unpublish" -> ui \ {"publishing"}
                [] OTHER -> ui)
    /\ subscribed' = IF calls[k].kind = "unsubscribe" THEN subscribed \ calls[k].streams ELSE subscribed

LEMMA ProceededBy ==
    ASSUME Typed, NEW k \in Slots, Active(k), NEW p \in Connection, Proceed(k, p)
    PROVE  \E m, c : Proceeded(k, p, m, c)
<1>1. CallsOK /\ subscribed \in SUBSET Streams BY DEF Typed, Plain
<1>2. CallOK(calls[k]) /\ calls[k] # Idle BY <1>1, Zenon DEF CallsOK, Active
<1>3. p.local \in Description /\ p.dirs \in Seq(Direction) BY ConnectionFacts
<1>4. \A c : calls' = [calls EXCEPT ![k] = c] => Put(k, c) BY <1>1, CallsPut, Zenon DEF Put
<1>5. CallOK(Idle) BY NewCalls, Zenon
<1>6. p # None BY BatchV2Assumption, Zenon
<1>7. CASE calls[k].kind = "open"
  <2>1. /\ sendMessage([type |-> "offer", offer |-> p.local]) /\ ui' = {"connected"}
        /\ calls' = [calls EXCEPT ![k] = Idle] /\ pc' = p /\ subscribed' = subscribed
    BY <1>7 DEF Proceed
  <2>2. PICK m : m = [type |-> "offer", offer |-> p.local] OBVIOUS
  <2>3. m \in Request /\ m.type = "offer" /\ m.offer = p.local BY <1>3, <2>2, Requests
  <2>4. sendMessage(m) BY <2>1, <2>2, Zenon
  <2>5. Put(k, Idle) BY <1>4, <2>1, Zenon
  <2>6. Proceeded(k, p, m, Idle) BY <1>5, <1>6, <1>7, <2>1, <2>3, <2>4, <2>5 DEF Proceeded
  <2> QED BY <2>6, Zenon
<1>8. CASE calls[k].kind = "publish"
  <2>1. /\ sendMessage([type |-> "publish", offer |-> p.local]) /\ ui' = ui \cup {"publishing"}
        /\ calls' = [calls EXCEPT ![k] = Idle] /\ pc' = p /\ subscribed' = subscribed
    BY <1>8 DEF Proceed
  <2>2. PICK m : m = [type |-> "publish", offer |-> p.local] OBVIOUS
  <2>3. m \in Request /\ m.type = "publish" BY <1>3, <2>2, Requests
  <2>4. sendMessage(m) BY <2>1, <2>2, Zenon
  <2>5. Put(k, Idle) BY <1>4, <2>1, Zenon
  <2>6. Proceeded(k, p, m, Idle) BY <1>5, <1>6, <1>8, <2>1, <2>3, <2>4, <2>5 DEF Proceeded, Offering
  <2> QED BY <2>6, Zenon
<1>9. CASE calls[k].kind = "unpublish"
  <2>1. /\ sendMessage([type |-> "unpublish"]) /\ ui' = ui \ {"publishing"}
        /\ calls' = [calls EXCEPT ![k] = Idle] /\ pc' = p /\ subscribed' = subscribed
    BY <1>9 DEF Proceed
  <2>2. PICK m : m = [type |-> "unpublish"] OBVIOUS
  <2>3. m \in Request /\ m.type = "unpublish" BY <2>2, Requests
  <2>4. sendMessage(m) BY <2>1, <2>2, Zenon
  <2>5. Put(k, Idle) BY <1>4, <2>1, Zenon
  <2>6. Proceeded(k, p, m, Idle) BY <1>5, <1>6, <1>9, <2>1, <2>3, <2>4, <2>5 DEF Proceeded, Offering
  <2> QED BY <2>6, Zenon
<1>10. CASE calls[k].kind = "unsubscribe"
  <2>1. /\ sendMessage([type |-> "unsubscribe", streams |-> calls[k].streams, offer |-> p.local])
        /\ subscribed' = subscribed \ calls[k].streams
        /\ calls' = [calls EXCEPT ![k] = Idle] /\ pc' = p /\ ui' = ui
    BY <1>10 DEF Proceed
  <2>2. PICK S \in SUBSET Streams : S = calls[k].streams BY <1>2, <1>10, CallFacts
  <2>3. PICK m : m = [type |-> "unsubscribe", streams |-> S, offer |-> p.local] OBVIOUS
  <2>4. m \in Request /\ m.type = "unsubscribe" /\ m.offer = p.local /\ m.streams = S
    BY <1>3, <2>3, Requests
  <2>5. sendMessage(m) BY <2>1, <2>2, <2>3, Zenon
  <2>6. Put(k, Idle) BY <1>4, <2>1, Zenon
  <2>7. Proceeded(k, p, m, Idle) BY <1>5, <1>6, <1>10, <2>1, <2>2, <2>4, <2>5, <2>6 DEF Proceeded
  <2> QED BY <2>7, Zenon
<1>11. CASE calls[k].kind = "subscribe"
  <2>1. /\ sendMessage([type |-> "subscribe", streams |-> calls[k].streams, offer |-> p.local])
        /\ subscribed' = subscribed
        /\ calls' = [calls EXCEPT ![k] = Idle] /\ pc' = p /\ ui' = ui
    BY <1>11 DEF Proceed
  <2>2. PICK S \in SUBSET Streams : S = calls[k].streams BY <1>2, <1>11, CallFacts
  <2>3. PICK m : m = [type |-> "subscribe", streams |-> S, offer |-> p.local] OBVIOUS
  <2>4. m \in Request /\ m.type = "subscribe" /\ m.offer = p.local /\ m.streams = S
    BY <1>3, <2>3, Requests
  <2>5. sendMessage(m) BY <2>1, <2>2, <2>3, Zenon
  <2>6. Put(k, Idle) BY <1>4, <2>1, Zenon
  <2>7. Proceeded(k, p, m, Idle) BY <1>5, <1>6, <1>11, <2>1, <2>2, <2>4, <2>5, <2>6 DEF Proceeded
  <2> QED BY <2>7, Zenon
<1>12. CASE calls[k].kind = "switch"
  <2>1. PICK new : new = subscribed \ calls[k].previous OBVIOUS
  <2>2. /\ sendMessage([type |-> "unsubscribe", streams |-> calls[k].streams, offer |-> p.local])
        /\ calls' = [calls EXCEPT ![k] = Subscribe(new)]
        /\ subscribed' = subscribed /\ ui' = ui
    BY <1>12, <2>1 DEF Proceed
  <2>3. PICK S \in SUBSET Streams : S = calls[k].streams BY <1>2, <1>12, CallFacts
  <2>4. PICK m : m = [type |-> "unsubscribe", streams |-> S, offer |-> p.local] OBVIOUS
  <2>5. m \in Request /\ m.type = "unsubscribe" /\ m.offer = p.local /\ m.streams = S
    BY <1>3, <2>4, Requests
  <2>6. sendMessage(m) BY <2>2, <2>3, <2>4, Zenon
  <2>7. Put(k, Subscribe(new)) BY <1>4, <2>2, Zenon
  <2>8. new \in SUBSET Streams BY <1>1, <2>1
  <2>9. CallOK(Subscribe(new)) BY <2>8, NewCalls, Zenon
  <2>10. PICK dirs : dirs = Activated(p.dirs, Cardinality(new)) OBVIOUS
  <2>11. Redirected(pc', p, dirs) BY <1>12, <2>1, <2>10 DEF Proceed, Redirected
  <2>12. dirs \in Seq(Direction)
    <3>1. Cardinality(new) \in Nat BY <2>8, BatchV2Assumption, FS_Subset, FS_CardinalityType
    <3> QED BY <1>3, <2>10, <3>1, ActivatedTyped
  <2>13. /\ pc' \in Connection
         /\ pc'.local = p.local /\ pc'.signaling = p.signaling /\ pc'.created = p.created
    BY <2>11, <2>12, WithDirsTyped
  <2>14. pc' # None BY <2>13, BatchV2Assumption, Zenon
  <2>15. Proceeded(k, p, m, Subscribe(new))
    BY <1>12, <2>1, <2>2, <2>3, <2>5, <2>6, <2>7, <2>9, <2>10, <2>11, <2>13, <2>14 DEF Proceeded
  <2> QED BY <2>15, Zenon
<1> QED BY <1>2, <1>7, <1>8, <1>9, <1>10, <1>11, <1>12, CallFacts

\* The connection p is pc with the offer created last as its local description.
Localised(p) ==
    /\ p \in Connection /\ p # None /\ p.signaling = "have-local-offer" /\ p.local.dirs = pc.created
    /\ p.dirs = pc.dirs /\ p.recv = pc.recv /\ p.created = pc.created

LocalSet(k, p) ==
    /\ Localised(p)
    /\ \/ calls[k].kind \in {"open", "subscribe"} /\ \E m, c : Proceeded(k, p, m, c)
       \/ /\ calls[k].kind \notin {"open", "subscribe"}
          /\ pc' = p /\ UNCHANGED <<ui, c2s, subscribed>>
          /\ \E c : Put(k, c) /\ Stepped(calls[k], c, "ice")

LEMMA LocalSetBy ==
    ASSUME Typed, NEW k \in Slots, setLocalDescription(k)
    PROVE  /\ Active(k) /\ calls[k].stage = "local" /\ pc # None
           /\ \/ /\ calls[k].offer # pc.created
                 /\ Put(k, Idle) /\ UNCHANGED <<ui, c2s, subscribed, pc>>
              \/ calls[k].offer = pc.created /\ \E p : LocalSet(k, p)
<1>1. calls[k] # Idle /\ calls[k].stage = "local" /\ pc # None BY DEF setLocalDescription
<1>2. CallOK(calls[k]) /\ CallsOK BY Zenon DEF Typed, CallsOK
<1>3. Active(k) BY <1>1 DEF Active
<1>4. CASE calls[k].offer # pc.created
  <2>1. Fail(k) BY <1>4, Zenon DEF setLocalDescription
  <2>2. calls' = [calls EXCEPT ![k] = Idle] /\ UNCHANGED <<ui, c2s, subscribed, pc>>
    BY <2>1, Zenon DEF Fail
  <2>3. Put(k, Idle) BY <1>2, <2>2, CallsPut, Zenon DEF Put
  <2> QED BY <1>1, <1>3, <1>4, <2>1, <2>2, <2>3, Zenon
<1>5. CASE calls[k].offer = pc.created
  <2>1. pc \in Connection BY <1>1, Zenon DEF Typed, PcOK
  <2>2. PICK p : Described(p, pc, offers + 1, pc.created) BY Zenon DEF Described
  <2>3. PICK n \in Nat, dirs \in Seq(Direction) : Described(p, pc, n, dirs) /\ dirs = pc.created
    <3>1. pc.created \in Seq(Direction) /\ offers + 1 \in Nat BY <2>1, ConnectionFacts DEF Typed, Plain
    <3> QED BY <2>2, <3>1, Zenon
  <2>4. /\ p \in Connection /\ p.dirs = pc.dirs /\ p.recv = pc.recv /\ p.created = pc.created
        /\ p.signaling = "have-local-offer" /\ p.local.dirs = dirs
    BY <2>1, <2>3, WithLocal
  <2>5. Localised(p) BY <2>3, <2>4, BatchV2Assumption, Zenon DEF Localised
  <2>7. CASE calls[k].kind \in {"open", "subscribe"}
    <3>1. Proceed(k, p) BY <1>5, <2>2, <2>7, Zenon DEF setLocalDescription, Described
    <3>2. \E m, c : Proceeded(k, p, m, c) BY <1>3, <2>4, <3>1, ProceededBy, Zenon
    <3> QED BY <1>1, <1>3, <1>5, <2>5, <2>7, <3>2, Zenon DEF LocalSet
  <2>8. CASE calls[k].kind \notin {"open", "subscribe"}
    <3>1. PICK c : c = [calls[k] EXCEPT !.stage = "ice"] OBVIOUS
    <3>2. /\ pc' = p /\ calls' = [calls EXCEPT ![k] = c]
          /\ UNCHANGED <<ui, c2s, subscribed>>
      BY <1>2, <1>5, <2>2, <2>8, <3>1 DEF setLocalDescription, CallsOK, Described
    <3>3. Stepped(calls[k], c, "ice") BY <1>1, <1>2, <2>8, <3>1, NextStage, Zenon
    <3>4. Put(k, c) BY <1>2, <3>2, CallsPut, Zenon DEF Put
    <3> QED BY <1>1, <1>3, <1>5, <2>5, <2>8, <3>2, <3>3, <3>4, Zenon DEF LocalSet
  <2> QED BY <2>7, <2>8
<1> QED BY <1>4, <1>5

LEMMA GatheredBy ==
    ASSUME Typed, NEW k \in Slots, waitForIceGathering(k)
    PROVE  /\ Active(k) /\ calls[k].stage = "ice"
           /\ \/ pc = None /\ Put(k, Idle) /\ UNCHANGED <<ui, c2s, subscribed, pc>>
              \/ pc # None /\ \E m, c : Proceeded(k, pc, m, c)
<1>1. calls[k] # Idle /\ calls[k].stage = "ice" BY DEF waitForIceGathering
<1>2. Active(k) /\ CallsOK BY <1>1, Zenon DEF Active, Typed
<1>3. CASE pc = None
  <2>1. Fail(k) BY <1>3, Zenon DEF waitForIceGathering
  <2>2. calls' = [calls EXCEPT ![k] = Idle] /\ UNCHANGED <<ui, c2s, subscribed, pc>>
    BY <2>1, Zenon DEF Fail
  <2>3. Put(k, Idle) BY <1>2, <2>2, CallsPut, Zenon DEF Put
  <2> QED BY <1>1, <1>2, <1>3, <2>2, <2>3, Zenon
<1>4. CASE pc # None
  <2>1. Proceed(k, pc) BY <1>4, Zenon DEF waitForIceGathering
  <2>2. pc \in Connection BY <1>4, Zenon DEF Typed, PcOK
  <2>3. \E m, c : Proceeded(k, pc, m, c) BY <1>2, <2>1, <2>2, ProceededBy, Zenon
  <2> QED BY <1>1, <1>2, <1>4, <2>3, Zenon
<1> QED BY <1>3, <1>4

-------------------------------------------------------------------------------
(***************************************************************************)
(* Every action keeps Begun.                                               *)
(***************************************************************************)
LEMMA ConnectingBegun ==
    ASSUME Typed, Begun, connect \/ onopen \/ disconnect \/ onerror \/ onclose PROVE Begun'
<1>1. CASE connect
  <2> USE <1>1 DEF connect, server
  <2>1. Linked' BY DEF Begun, Linked
  <2>2. Fresh' BY Zenon DEF Begun, Fresh, Active
  <2>3. Openings' BY SameCalls, Zenon
  <2> QED BY <2>1, <2>2, <2>3 DEF Begun
<1>2. CASE onopen
  <2>1. socket = "connecting" /\ socket' = "open" /\ ws /\ ws' = ws /\ ui' = ui
        /\ calls' = [calls EXCEPT ![0] = [kind |-> "open", stage |-> "create"]]
    BY <1>2 DEF onopen
  <2>2. pc' # None BY <1>2, Opened
  <2>3. Linked' BY <2>1, <2>2 DEF Linked
  <2>4. Fresh' BY <2>1 DEF Fresh
  <2>5. 0 \in Slots BY BatchV2Assumption DEF Slots
  <2>6. \A j \in Slots : calls'[j] = IF j = 0 THEN [kind |-> "open", stage |-> "create"] ELSE calls[j]
    BY <2>1, <2>5, CallsPut, Zenon DEF Typed
  <2>7. \A j \in Slots : ~ Active(j) BY <2>1, Zenon DEF Begun, Fresh
  <2>8. \A j \in Slots : Active(j)' => j = 0 BY <2>6, <2>7, Zenon DEF Active
  <2>9. calls'[0].kind = "open" BY <2>5, <2>6
  <2>10. ui' = {} BY <2>1, Zenon DEF Begun, Fresh
  <2>11. Openings' BY <2>8, <2>9, <2>10, Zenon DEF Openings
  <2> QED BY <2>3, <2>4, <2>11 DEF Begun
<1>3. CASE disconnect \/ onerror \/ onclose
  <2>1. /\ ws' = FALSE /\ pc' = None /\ socket' \in {"closing", "closed"} /\ calls' = calls
        /\ ui' = ui \/ ui' = {}
    BY <1>3 DEF disconnect, onerror, onclose, cleanup
  <2>2. Linked' /\ Fresh' BY <2>1 DEF Linked, Fresh
  <2>3. Openings' BY <2>1, Zenon DEF Begun, Openings, Active
  <2> QED BY <2>2, <2>3 DEF Begun
<1> QED BY <1>1, <1>2, <1>3

LEMMA ProceededBegun ==
    ASSUME Typed, Begun, NEW k \in Slots, Active(k), pc # None, NEW p, NEW m, NEW c,
           Proceeded(k, p, m, c), socket' = socket, ws' = ws
    PROVE  Begun'
<1>1. socket \notin {"none", "connecting"} BY ActiveOpen, Zenon
<1>2. CallOK(calls[k]) /\ calls[k] # Idle BY Zenon DEF Typed, CallsOK, Active
<1>3. c # Idle => (c.kind = "open" <=> calls[k].kind = "open")
  <2>1. ASSUME c # Idle PROVE calls[k].kind = "switch" /\ c.kind = "subscribe"
    <3>1. calls[k].kind = "switch" /\ c = Subscribe(subscribed \ calls[k].previous)
      BY <2>1, Zenon DEF Proceeded
    <3>2. c = [kind |-> "subscribe", stage |-> "create", streams |-> subscribed \ calls[k].previous]
      BY <2>1, <3>1, Zenon DEF Subscribe
    <3> QED BY <3>1, <3>2
  <2> QED BY <2>1
<1>4. ui' = ui \/ c = Idle
  <2>1. CASE calls[k].kind = "switch" BY <2>1 DEF Proceeded
  <2>2. CASE calls[k].kind # "switch" BY <2>2, Zenon DEF Proceeded
  <2> QED BY <2>1, <2>2
<1>5. \A j \in Slots : calls'[j] = IF j = k THEN c ELSE calls[j] BY Zenon DEF Proceeded, Put
<1>6. Openings' BY <1>3, <1>4, <1>5, OpeningsKept, Zenon
<1>7. pc' # None BY Zenon DEF Proceeded
<1> QED BY <1>1, <1>6, <1>7, OpenKept, Zenon

LEMMA MethodBegun ==
    ASSUME Typed, Begun, NEW k \in Slots,
           getUserMedia(k) \/ replaceTrack(k) \/ createOffer(k) \/ setLocalDescription(k)
             \/ waitForIceGathering(k)
    PROVE  Begun'
<1>1. socket' = socket /\ ws' = ws
  BY Zenon DEF getUserMedia, replaceTrack, createOffer, setLocalDescription, waitForIceGathering
<1>2. ASSUME Active(k), NEW c, Put(k, c), pc' = None <=> pc = None, ui' = ui,
             c = Idle \/ \E stage : Stepped(calls[k], c, stage)
      PROVE  Begun'
  <2>1. socket \notin {"none", "connecting"} BY <1>2, ActiveOpen, Zenon
  <2>2. c # Idle => (c.kind = "open" <=> calls[k].kind = "open") BY <1>2, Zenon DEF Stepped
  <2>3. \A j \in Slots : calls'[j] = IF j = k THEN c ELSE calls[j] BY <1>2, Zenon DEF Put
  <2>4. Openings' BY <1>2, <2>2, <2>3, OpeningsKept, Zenon
  <2> QED BY <1>1, <1>2, <2>1, <2>4, OpenKept, Zenon
<1>3. CASE getUserMedia(k)
  <2>1. PICK c : UserMedia(k, c) BY <1>3, UserMediaBy
  <2>2. pc' = pc /\ ui' = ui BY <1>3 DEF getUserMedia
  <2> QED BY <1>2, <2>1, <2>2, Zenon DEF UserMedia
<1>4. CASE replaceTrack(k)
  <2>1. PICK c : Replaced(k, c) BY <1>4, ReplacedBy
  <2>2. pc' = pc /\ ui' = ui BY <1>4 DEF replaceTrack
  <2> QED BY <1>2, <2>1, <2>2, Zenon DEF Replaced
<1>5. CASE createOffer(k)
  <2>1. PICK c : Created(k, c) BY <1>5, CreatedBy
  <2>2. ui' = ui BY <1>5 DEF createOffer
  <2> QED BY <1>2, <2>1, <2>2, Zenon DEF Created
<1>6. CASE setLocalDescription(k)
  <2>1. /\ Active(k) /\ pc # None
        /\ \/ Put(k, Idle) /\ UNCHANGED <<ui, c2s, subscribed, pc>>
           \/ \E p : LocalSet(k, p)
    BY <1>6, LocalSetBy, Zenon
  <2>2. CASE Put(k, Idle) /\ UNCHANGED <<ui, c2s, subscribed, pc>>
    BY <1>2, <2>1, <2>2, Zenon
  <2>3. CASE \E p : LocalSet(k, p)
    <3>1. PICK p : LocalSet(k, p) BY <2>3
    <3>2. CASE \E m, c : Proceeded(k, p, m, c) BY <1>1, <2>1, <3>2, ProceededBegun, Zenon
    <3>3. CASE pc' = p /\ ui' = ui /\ \E c : Put(k, c) /\ Stepped(calls[k], c, "ice")
      <4>1. pc' # None BY <3>1, <3>3, Zenon DEF LocalSet, Localised
      <4> QED BY <1>2, <2>1, <3>3, <4>1, Zenon
    <3> QED BY <3>1, <3>2, <3>3, Zenon DEF LocalSet
  <2> QED BY <2>1, <2>2, <2>3
<1>7. CASE waitForIceGathering(k)
  <2>1. /\ Active(k)
        /\ \/ pc = None /\ Put(k, Idle) /\ UNCHANGED <<ui, c2s, subscribed, pc>>
           \/ pc # None /\ \E m, c : Proceeded(k, pc, m, c)
    BY <1>7, GatheredBy, Zenon
  <2>2. CASE pc = None /\ Put(k, Idle) /\ UNCHANGED <<ui, c2s, subscribed, pc>>
    BY <1>2, <2>1, <2>2, Zenon
  <2>3. CASE pc # None /\ \E m, c : Proceeded(k, pc, m, c)
    BY <1>1, <2>1, <2>3, ProceededBegun, Zenon
  <2> QED BY <2>1, <2>2, <2>3
<1> QED BY <1>3, <1>4, <1>5, <1>6, <1>7

\* A method c begins in the slot k.
Began(k, c) ==
    /\ Put(k, c) /\ ~ Active(k) /\ k # 0 /\ ~ Active(0) /\ pc # None /\ pc' # None /\ ws
    /\ socket = "open" /\ patient' = (patient /\ Quiet)
    /\ socket' = socket /\ ws' = ws /\ ui' = ui /\ c2s' = c2s /\ s2c' = s2c /\ srv' = srv
    /\ skipped' = skipped /\ "connected" \in ui

LEMMA BeganBegun ==
    ASSUME Typed, Begun, NEW k \in Slots, NEW c, Begin(k, c), c # Idle => c.kind # "open",
           socket' = socket, ws' = ws, ui' = ui, c2s' = c2s, s2c' = s2c, srv' = srv,
           skipped' = skipped, pc' # None
    PROVE  Began(k, c) /\ Begun'
<1>1. /\ Openings' /\ socket = "open" /\ pc # None /\ ws /\ ~ Active(0) /\ k # 0 /\ ~ Active(k)
      /\ \A j \in Slots : calls'[j] = IF j = k THEN c ELSE calls[j]
  BY BeganCall, Zenon
<1>2. patient' = (patient /\ Quiet) /\ "connected" \in ui BY Zenon DEF Begin
<1>3. Began(k, c) BY <1>1, <1>2, Zenon DEF Began, Put
<1>4. socket \notin {"none", "connecting"} BY <1>1
<1>5. Begun' BY <1>1, <1>4, OpenKept, Zenon
<1> QED BY <1>3, <1>5

LEMMA StartPublishingBegun ==
    ASSUME Typed, Begun, NEW k \in Slots, startPublishing(k)
    PROVE  Began(k, [kind |-> "publish", stage |-> "media"]) /\ Begun'
<1>1. PICK c : c = [kind |-> "publish", stage |-> "media"] OBVIOUS
<1>2. c.kind # "open" BY <1>1
<1>3. Begin(k, c) BY <1>1, Zenon DEF startPublishing
<1>4. /\ socket' = socket /\ ws' = ws /\ ui' = ui /\ c2s' = c2s /\ s2c' = s2c /\ srv' = srv
      /\ skipped' = skipped /\ pc' = pc
  BY Zenon DEF startPublishing, client, server
<1>5. pc' # None BY <1>3, <1>4, Zenon DEF Begin
<1>6. Began(k, c) /\ Begun' BY <1>2, <1>3, <1>4, <1>5, BeganBegun, Zenon
<1> QED BY <1>1, <1>6, Zenon

LEMMA StopPublishingBegun ==
    ASSUME Typed, Begun, NEW k \in Slots, stopPublishing(k)
    PROVE  /\ Begun'
           /\ \/ /\ sender = "path" /\ Began(k, [kind |-> "unpublish", stage |-> "replace"])
                 /\ UNCHANGED <<cameras, localStream>>
              \/ /\ sender # "path" /\ Began(k, [kind |-> "unpublish", stage |-> "create"])
                 /\ StopLocalStream
<1>1. PICK c, d : c = [kind |-> "unpublish", stage |-> "replace"]
                  /\ d = [kind |-> "unpublish", stage |-> "create"]
  OBVIOUS
<1>2. c.kind # "open" /\ d.kind # "open" BY <1>1
<1>3. \/ sender = "path" /\ Begin(k, c) /\ UNCHANGED <<cameras, localStream>>
      \/ sender # "path" /\ Begin(k, d) /\ StopLocalStream
  BY <1>1, Zenon DEF stopPublishing
<1>4. /\ socket' = socket /\ ws' = ws /\ ui' = ui /\ c2s' = c2s /\ s2c' = s2c /\ srv' = srv
      /\ skipped' = skipped /\ pc' = pc
  BY Zenon DEF stopPublishing, server
<1>5. pc' # None BY <1>3, <1>4, Zenon DEF Begin
<1>6. CASE sender = "path" /\ Begin(k, c) /\ UNCHANGED <<cameras, localStream>>
  <2>1. Began(k, c) /\ Begun' BY <1>2, <1>4, <1>5, <1>6, BeganBegun, Zenon
  <2> QED BY <1>1, <1>6, <2>1, Zenon
<1>7. CASE sender # "path" /\ Begin(k, d) /\ StopLocalStream
  <2>1. Began(k, d) /\ Begun' BY <1>2, <1>4, <1>5, <1>7, BeganBegun, Zenon
  <2> QED BY <1>1, <1>7, <2>1, Zenon
<1> QED BY <1>3, <1>6, <1>7

\* The call of subscribeToStreams(S).
Listing(S) ==
    IF subscribed \ S = {} THEN Subscribe(S \ subscribed)
    ELSE [kind |-> "switch", stage |-> "create", streams |-> subscribed \ S, previous |-> subscribed]

LEMMA ListingFacts ==
    ASSUME NEW S, Listing(S) # Idle
    PROVE  /\ Listing(S).kind = IF subscribed \ S = {} THEN "subscribe" ELSE "switch"
           /\ Listing(S).stage = "create"
           /\ Listing(S).streams = IF subscribed \ S = {} THEN S \ subscribed ELSE subscribed \ S
           /\ subscribed \ S # {} => Listing(S).previous = subscribed
<1>1. CASE subscribed \ S = {}
  <2>1. PICK T : T = S \ subscribed OBVIOUS
  <2>2. Listing(S) = Subscribe(T) BY <1>1, <2>1, Zenon DEF Listing
  <2>3. Listing(S) = [kind |-> "subscribe", stage |-> "create", streams |-> T]
    BY <2>2, Zenon DEF Subscribe
  <2>4. Listing(S).kind = "subscribe" /\ Listing(S).stage = "create" /\ Listing(S).streams = T
    BY <2>3
  <2> QED BY <1>1, <2>1, <2>4, Zenon
<1>2. CASE subscribed \ S # {}
  <2>1. PICK T : T = subscribed \ S OBVIOUS
  <2>2. Listing(S) = [kind |-> "switch", stage |-> "create", streams |-> T, previous |-> subscribed]
    BY <1>2, <2>1, Zenon DEF Listing
  <2>3. /\ Listing(S).kind = "switch" /\ Listing(S).stage = "create" /\ Listing(S).streams = T
        /\ Listing(S).previous = subscribed
    BY <2>2
  <2> QED BY <1>2, <2>1, <2>3, Zenon
<1> QED BY <1>1, <1>2

LEMMA SubscribeToStreamsBegun ==
    ASSUME Typed, Begun, NEW k \in Slots, NEW S \in SUBSET Streams, subscribeToStreams(k, S)
    PROVE  /\ Began(k, Listing(S)) /\ Begun'
           /\ UNCHANGED <<sender, localStream, cameras>>
<1>1. Begin(k, Listing(S)) BY Zenon DEF subscribeToStreams, Listing
<1>2. Listing(S) # Idle => Listing(S).kind # "open" BY ListingFacts
<1>3. /\ socket' = socket /\ ws' = ws /\ ui' = ui /\ c2s' = c2s /\ s2c' = s2c /\ srv' = srv
      /\ skipped' = skipped /\ UNCHANGED <<sender, localStream, cameras>>
  BY Zenon DEF subscribeToStreams, server
<1>4. pc' # None BY SubscribeTurns, Zenon DEF Turned
<1>5. Began(k, Listing(S)) /\ Begun' BY <1>1, <1>2, <1>3, <1>4, BeganBegun, Zenon
<1> QED BY <1>3, <1>5

LEMMA UnsubscribeFromStreamBegun ==
    ASSUME Typed, Begun, NEW k \in Slots, NEW s \in Streams, unsubscribeFromStream(k, s)
    PROVE  /\ Begun' /\ UNCHANGED <<sender, localStream, cameras>>
           /\ \/ map[s] = 0 /\ Began(k, Idle) /\ pc' = pc
              \/ /\ map[s] # 0 /\ Turned(Deactivated(pc.dirs, {s}))
                 /\ Began(k, [kind |-> "unsubscribe", stage |-> "create", streams |-> {s}])
<1>1. /\ socket' = socket /\ ws' = ws /\ ui' = ui /\ c2s' = c2s /\ s2c' = s2c /\ srv' = srv
      /\ skipped' = skipped /\ UNCHANGED <<sender, localStream, cameras>>
  BY Zenon DEF unsubscribeFromStream, server
<1>2. CASE map[s] = 0
  <2>1. Begin(k, Idle) /\ pc' = pc BY <1>2, Zenon DEF unsubscribeFromStream
  <2>2. pc' # None BY <2>1, Zenon DEF Begin
  <2>3. Began(k, Idle) /\ Begun' BY <1>1, <2>1, <2>2, BeganBegun, Zenon
  <2> QED BY <1>1, <1>2, <2>1, <2>3, Zenon
<1>3. CASE map[s] # 0
  <2>1. PICK c : c = [kind |-> "unsubscribe", stage |-> "create", streams |-> {s}] OBVIOUS
  <2>2. c.kind # "open" BY <2>1
  <2>3. Begin(k, c) BY <1>3, <2>1, Zenon DEF unsubscribeFromStream
  <2>4. Turned(Deactivated(pc.dirs, {s})) BY <1>3, UnsubscribeTurns, Zenon
  <2>5. pc' # None BY <2>4, Zenon DEF Turned
  <2>6. Began(k, c) /\ Begun' BY <1>1, <2>2, <2>3, <2>5, BeganBegun, Zenon
  <2> QED BY <1>1, <1>3, <2>1, <2>4, <2>6, Zenon
<1> QED BY <1>2, <1>3

LEMMA GetStreamListBegun == ASSUME Typed, Begun, getStreamList PROVE Begun'
<1>1. /\ socket' = socket /\ ws' = ws /\ pc' = pc /\ calls' = calls /\ ui' = ui
      /\ "connected" \in ui
  BY Zenon DEF getStreamList, client
<1>2. socket \notin {"none", "connecting"} BY <1>1, Zenon DEF Begun, Fresh
<1> QED BY <1>1, <1>2, SameCalls, OpenKept, Zenon

LEMMA HandleWebSocketMessageBegun == ASSUME Typed, Begun, handleWebSocketMessage PROVE Begun'
<1>1. /\ socket' = socket /\ ws' = ws /\ calls' = calls /\ ui' = ui
      /\ socket \in {"open", "closing"}
  BY Zenon DEF handleWebSocketMessage
<1>2. pc' = None <=> pc = None
  <2>1. CASE Head(s2c).type = "answer" /\ AnswerFits(Head(s2c))
    <3>1. pc # None BY <2>1, Zenon DEF AnswerFits
    <3>2. pc' # None BY <2>1, AnswerApplied, Zenon DEF Applied
    <3> QED BY <3>1, <3>2
  <2>2. CASE ~ (Head(s2c).type = "answer" /\ AnswerFits(Head(s2c)))
    BY <2>2, Zenon DEF handleWebSocketMessage
  <2> QED BY <2>1, <2>2
<1>3. socket \notin {"none", "connecting"} BY <1>1
<1> QED BY <1>1, <1>2, <1>3, SameCalls, OpenKept, Zenon

LEMMA ServerBegun ==
    ASSUME Typed, Begun, Go \/ RemoteStreamEnds \/ Dispose \/ \E s \in Streams : StreamEnds(s)
    PROVE  Begun'
<1>1. /\ socket' = socket /\ ws' = ws /\ pc' = pc /\ calls' = calls /\ ui' = ui
  BY Zenon DEF Go, RemoteStreamEnds, Dispose, StreamEnds, client
<1>2. socket \notin {"none", "connecting"}
  <2>1. CASE Go BY <2>1, Zenon DEF Go, Begun, Fresh
  <2>2. CASE RemoteStreamEnds
    <3>1. srv # NewServer BY <2>2 DEF RemoteStreamEnds, NewServer
    <3> QED BY <3>1, Zenon DEF Begun, Fresh
  <2>3. CASE Dispose BY <2>3 DEF Dispose
  <2>4. CASE \E s \in Streams : StreamEnds(s)
    <3>1. srv # NewServer BY <2>4 DEF StreamEnds, NewServer
    <3> QED BY <3>1, Zenon DEF Begun, Fresh
  <2> QED BY <2>1, <2>2, <2>3, <2>4
<1> QED BY <1>1, <1>2, SameCalls, OpenKept, Zenon

LEMMA StutterBegun == ASSUME Begun, UNCHANGED vars PROVE Begun'
<1> USE DEF vars, client, server
<1>1. Linked' BY Zenon DEF Begun, Linked
<1>2. Fresh' BY Zenon DEF Begun, Fresh, Active
<1>3. Openings' BY SameCalls, Zenon
<1> QED BY <1>1, <1>2, <1>3 DEF Begun

LEMMA NextBegun == ASSUME Typed, Begun, [Next]_vars PROVE Begun'
<1>1. CASE connect \/ onopen \/ disconnect \/ onerror \/ onclose BY <1>1, ConnectingBegun
<1>2. CASE getStreamList BY <1>2, GetStreamListBegun
<1>3. ASSUME NEW k \in Slots,
             \/ startPublishing(k) \/ stopPublishing(k)
             \/ \E S \in SUBSET Streams : subscribeToStreams(k, S)
             \/ \E s \in Streams : unsubscribeFromStream(k, s)
      PROVE  Begun'
  BY <1>3, StartPublishingBegun, StopPublishingBegun, SubscribeToStreamsBegun,
     UnsubscribeFromStreamBegun, Zenon
<1>4. ASSUME NEW k \in Slots,
             getUserMedia(k) \/ replaceTrack(k) \/ createOffer(k) \/ setLocalDescription(k)
               \/ waitForIceGathering(k)
      PROVE  Begun'
  BY <1>4, MethodBegun, Zenon
<1>5. CASE handleWebSocketMessage BY <1>5, HandleWebSocketMessageBegun
<1>6. CASE Go \/ RemoteStreamEnds \/ Dispose \/ \E s \in Streams : StreamEnds(s) BY <1>6, ServerBegun
<1>7. CASE UNCHANGED vars BY <1>7, StutterBegun
<1> QED BY <1>1, <1>2, <1>3, <1>4, <1>5, <1>6, <1>7, Zenon DEF Next

-------------------------------------------------------------------------------
(***************************************************************************)
(* Queues that grow and shrink.                                            *)
(***************************************************************************)
LEMMA QueueEmpty == Elems(<<>>) = {} /\ \A T : ~ Has(<<>>, T) /\ Single(<<>>, T)
<1>1. Len(<<>>) = 0 /\ 1 .. 0 = {} OBVIOUS
<1>2. Elems(<<>>) = {} BY <1>1 DEF Elems
<1> QED BY <1>1, <1>2, Zenon DEF Has, Single

LEMMA QueueAppend ==
    ASSUME NEW S, NEW q \in Seq(S), NEW m \in S
    PROVE  /\ Elems(Append(q, m)) = Elems(q) \cup {m}
           /\ \A T : Has(Append(q, m), T) <=> Has(q, T) \/ m.type \in T
           /\ \A T : Single(q, T) /\ ~ (Has(q, T) /\ m.type \in T) => Single(Append(q, m), T)
<1>1. PICK p : p = Append(q, m) OBVIOUS
<1>2. /\ Len(q) \in Nat /\ Len(p) = Len(q) + 1 /\ \A i \in 1 .. Len(q) : p[i] = q[i]
      /\ p[Len(q) + 1] = m
  BY <1>1, Appended, SeqFacts
<1>3. Elems(p) = Elems(q) \cup {m}
  <2>1. ASSUME NEW x \in Elems(p) PROVE x \in Elems(q) \cup {m}
    <3>1. PICK i \in 1 .. Len(p) : x = p[i] BY <2>1 DEF Elems
    <3>2. i \in 1 .. Len(q) \/ i = Len(q) + 1 BY <1>2
    <3> QED BY <1>2, <3>1, <3>2 DEF Elems
  <2>2. ASSUME NEW x \in Elems(q) PROVE x \in Elems(p)
    <3>1. PICK i \in 1 .. Len(q) : x = q[i] BY <2>2 DEF Elems
    <3>2. i \in 1 .. Len(p) /\ x = p[i] BY <1>2, <3>1
    <3> QED BY <3>2 DEF Elems
  <2>3. m \in Elems(p)
    <3>1. Len(q) + 1 \in 1 .. Len(p) BY <1>2
    <3> QED BY <1>2, <3>1 DEF Elems
  <2> QED BY <2>1, <2>2, <2>3
<1>4. \A T : Has(p, T) <=> Has(q, T) \/ m.type \in T BY <1>3 DEF Has
<1>5. ASSUME NEW T, Single(q, T), ~ (Has(q, T) /\ m.type \in T) PROVE Single(p, T)
  <2> SUFFICES ASSUME NEW i \in 1 .. Len(p), NEW j \in 1 .. Len(p), p[i].type \in T, p[j].type \in T
               PROVE  i = j
    BY DEF Single
  <2>1. (i \in 1 .. Len(q) \/ i = Len(q) + 1) /\ (j \in 1 .. Len(q) \/ j = Len(q) + 1) BY <1>2
  <2>2. CASE i \in 1 .. Len(q) /\ j \in 1 .. Len(q)
    <3>1. q[i].type \in T /\ q[j].type \in T BY <1>2, <2>2
    <3> QED BY <1>5, <2>2, <3>1, Zenon DEF Single
  <2>3. CASE i \in 1 .. Len(q) /\ j = Len(q) + 1
    <3>1. q[i].type \in T /\ m.type \in T BY <1>2, <2>3
    <3>2. q[i] \in Elems(q) BY <2>3 DEF Elems
    <3> QED BY <1>5, <3>1, <3>2, Zenon DEF Has
  <2>4. CASE j \in 1 .. Len(q) /\ i = Len(q) + 1
    <3>1. q[j].type \in T /\ m.type \in T BY <1>2, <2>4
    <3>2. q[j] \in Elems(q) BY <2>4 DEF Elems
    <3> QED BY <1>5, <3>1, <3>2, Zenon DEF Has
  <2> QED BY <2>1, <2>2, <2>3, <2>4
<1> QED BY <1>1, <1>3, <1>4, <1>5, Zenon

LEMMA QueueTail ==
    ASSUME NEW S, NEW q \in Seq(S), q # <<>>
    PROVE  /\ Elems(q) = Elems(Tail(q)) \cup {Head(q)}
           /\ \A T : Has(q, T) <=> Has(Tail(q), T) \/ Head(q).type \in T
           /\ \A T : Single(q, T) =>
                 Single(Tail(q), T) /\ ~ (Head(q).type \in T /\ Has(Tail(q), T))
<1>1. PICK p, h : p = Tail(q) /\ h = Head(q) OBVIOUS
<1>2. /\ Len(q) \in Nat /\ Len(q) > 0 /\ Len(p) = Len(q) - 1 /\ h = q[1]
      /\ \A i \in 1 .. Len(q) - 1 : p[i] = q[i + 1]
  BY <1>1, Taken, SeqFacts
<1>3. Elems(q) = Elems(p) \cup {h}
  <2>1. ASSUME NEW x \in Elems(q) PROVE x \in Elems(p) \cup {h}
    <3>1. PICK i \in 1 .. Len(q) : x = q[i] BY <2>1 DEF Elems
    <3>2. CASE i = 1 BY <1>2, <3>1, <3>2
    <3>3. CASE i # 1
      <4>1. i - 1 \in 1 .. Len(p) /\ i - 1 \in 1 .. Len(q) - 1 /\ (i - 1) + 1 = i BY <1>2, <3>3
      <4>2. p[i - 1] = x BY <1>2, <3>1, <4>1
      <4> QED BY <4>1, <4>2 DEF Elems
    <3> QED BY <3>2, <3>3
  <2>2. ASSUME NEW x \in Elems(p) PROVE x \in Elems(q)
    <3>1. PICK i \in 1 .. Len(p) : x = p[i] BY <2>2 DEF Elems
    <3>2. i + 1 \in 1 .. Len(q) /\ x = q[i + 1] BY <1>2, <3>1
    <3> QED BY <3>2 DEF Elems
  <2>3. h \in Elems(q)
    <3>1. 1 \in 1 .. Len(q) BY <1>2
    <3> QED BY <1>2, <3>1 DEF Elems
  <2> QED BY <2>1, <2>2, <2>3
<1>4. \A T : Has(q, T) <=> Has(p, T) \/ h.type \in T BY <1>3 DEF Has
<1>5. ASSUME NEW T, Single(q, T) PROVE Single(p, T)
  <2> SUFFICES ASSUME NEW i \in 1 .. Len(p), NEW j \in 1 .. Len(p), p[i].type \in T, p[j].type \in T
               PROVE  i = j
    BY DEF Single
  <2>1. i + 1 \in 1 .. Len(q) /\ j + 1 \in 1 .. Len(q) /\ p[i] = q[i + 1] /\ p[j] = q[j + 1] BY <1>2
  <2>2. i + 1 = j + 1 BY <1>5, <2>1, Zenon DEF Single
  <2> QED BY <2>2
<1>6. ASSUME NEW T, Single(q, T), h.type \in T, Has(p, T) PROVE FALSE
  <2>1. PICK x \in Elems(p) : x.type \in T BY <1>6 DEF Has
  <2>2. PICK i \in 1 .. Len(p) : x = p[i] BY <2>1 DEF Elems
  <2>3. i + 1 \in 1 .. Len(q) /\ 1 \in 1 .. Len(q) /\ p[i] = q[i + 1] /\ i + 1 # 1 BY <1>2
  <2> QED BY <1>2, <1>6, <2>1, <2>2, <2>3, Zenon DEF Single
<1> QED BY <1>1, <1>3, <1>4, <1>5, <1>6, Zenon

LEMMA QueueJoin ==
    ASSUME NEW S, NEW q \in Seq(S), NEW r \in Seq(S)
    PROVE  /\ Elems(q \o r) = Elems(q) \cup Elems(r)
           /\ \A T : Single(q, T) /\ ~ Has(r, T) => Single(q \o r, T)
<1>1. PICK p : p = q \o r OBVIOUS
<1>2. /\ Len(q) \in Nat /\ Len(r) \in Nat /\ Len(p) = Len(q) + Len(r)
      /\ \A i \in 1 .. Len(q) : p[i] = q[i]
      /\ \A i \in 1 .. Len(r) : p[Len(q) + i] = r[i]
  BY <1>1, Joined, SeqFacts
<1>3. \A i \in 1 .. Len(p) : \/ i \in 1 .. Len(q) /\ p[i] = q[i]
                             \/ i - Len(q) \in 1 .. Len(r) /\ p[i] = r[i - Len(q)]
  <2> SUFFICES ASSUME NEW i \in 1 .. Len(p), i \notin 1 .. Len(q)
               PROVE  i - Len(q) \in 1 .. Len(r) /\ p[i] = r[i - Len(q)]
    BY <1>2
  <2>1. i - Len(q) \in 1 .. Len(r) /\ Len(q) + (i - Len(q)) = i BY <1>2
  <2> QED BY <1>2, <2>1
<1>4. Elems(p) = Elems(q) \cup Elems(r)
  <2>1. ASSUME NEW x \in Elems(p) PROVE x \in Elems(q) \cup Elems(r) BY <1>3 DEF Elems
  <2>2. ASSUME NEW x \in Elems(q) PROVE x \in Elems(p)
    <3>1. PICK i \in 1 .. Len(q) : x = q[i] BY <2>2 DEF Elems
    <3>2. i \in 1 .. Len(p) /\ x = p[i] BY <1>2, <3>1
    <3> QED BY <3>2 DEF Elems
  <2>3. ASSUME NEW x \in Elems(r) PROVE x \in Elems(p)
    <3>1. PICK i \in 1 .. Len(r) : x = r[i] BY <2>3 DEF Elems
    <3>2. Len(q) + i \in 1 .. Len(p) /\ x = p[Len(q) + i] BY <1>2, <3>1
    <3> QED BY <3>2 DEF Elems
  <2> QED BY <2>1, <2>2, <2>3
<1>5. ASSUME NEW T, Single(q, T), ~ Has(r, T) PROVE Single(p, T)
  <2> SUFFICES ASSUME NEW i \in 1 .. Len(p), NEW j \in 1 .. Len(p), p[i].type \in T, p[j].type \in T
               PROVE  i = j
    BY DEF Single
  <2>1. \A n \in 1 .. Len(p) : p[n].type \in T => n \in 1 .. Len(q) /\ q[n].type \in T
    <3> SUFFICES ASSUME NEW n \in 1 .. Len(p), p[n].type \in T, n - Len(q) \in 1 .. Len(r),
                        p[n] = r[n - Len(q)]
                 PROVE  FALSE
      BY <1>3
    <3>1. p[n] \in Elems(r) BY DEF Elems
    <3> QED BY <1>5, <3>1, Zenon DEF Has
  <2> QED BY <1>5, <2>1, Zenon DEF Single
<1> QED BY <1>1, <1>4, <1>5, Zenon

\* After errors comes the answer a.
LEMMA QueueAnswered ==
    ASSUME NEW q \in Seq(Reply), NEW r \in Seq(Reply), NEW a \in Reply,
           \A i \in 1 .. Len(r) : r[i].type = "error"
    PROVE  /\ \A x \in Elems(q \o r \o <<a>>) : x \in Elems(q) \/ x.type = "error" \/ x = a
           /\ Single(q, Answers) /\ ~ Has(q, Answers) => Single(q \o r \o <<a>>, Answers)
<1>1. PICK p \in Seq(Reply) : p = q \o r BY Joined
<1>2. \A x \in Elems(r) : x.type = "error" BY DEF Elems
<1>3. ~ Has(r, Answers) BY <1>2 DEF Has, Answers
<1>4. Elems(p) = Elems(q) \cup Elems(r) /\ (Single(q, Answers) => Single(p, Answers))
  BY <1>1, <1>3, QueueJoin
<1>5. p \o <<a>> = Append(p, a) OBVIOUS
<1>6. Has(p, Answers) <=> Has(q, Answers) BY <1>3, <1>4 DEF Has
<1>7. /\ Elems(Append(p, a)) = Elems(p) \cup {a}
      /\ Single(p, Answers) /\ ~ Has(p, Answers) => Single(Append(p, a), Answers)
  BY QueueAppend, Zenon
<1> QED BY <1>1, <1>2, <1>4, <1>5, <1>6, <1>7

-------------------------------------------------------------------------------
(***************************************************************************)
(* Every action keeps Exchange, for a user who waits.                      *)
(***************************************************************************)
LEMMA SubscribeFacts ==
    ASSUME NEW S, Subscribe(S) # Idle
    PROVE  Subscribe(S).kind = "subscribe" /\ Subscribe(S).stage = "create" /\ Subscribe(S).streams = S
<1>1. Subscribe(S) = [kind |-> "subscribe", stage |-> "create", streams |-> S]
  BY Zenon DEF Subscribe
<1> QED BY <1>1

LEMMA PatientSteps == ASSUME Typed, Next, patient' PROVE patient
<1>1. patient \in BOOLEAN BY DEF Typed, Plain
<1> QED
  BY <1>1, Zenon DEF Next, connect, onopen, disconnect, onerror, onclose, getStreamList,
     startPublishing, stopPublishing, subscribeToStreams, unsubscribeFromStream, Begin, getUserMedia,
     replaceTrack, createOffer, setLocalDescription, waitForIceGathering, handleWebSocketMessage,
     Go, RemoteStreamEnds, Dispose, StreamEnds, history

\* With nothing under way and nothing on the way, all is well.
LEMMA QuietExchange ==
    ASSUME \A k \in Slots : ~ Active(k)', c2s' = <<>>, s2c' = <<>>
    PROVE  Exchange'
<1>1. Alone' /\ Rounds' BY Zenon DEF Alone, Rounds
<1>2. OneExchange' BY QueueEmpty, Zenon DEF OneExchange
<1> QED BY <1>1, <1>2 DEF Exchange

\* One method begins, and nothing is on the way.
LEMMA FirstExchange ==
    ASSUME NEW k \in Slots, NEW c, Put(k, c), \A j \in Slots : ~ Active(j), c2s' = <<>>, s2c' = <<>>,
           pc' # None, c # Idle => c.stage \notin {"local", "ice"}
    PROVE  Exchange'
<1>1. \A j \in Slots : Active(j)' => j = k /\ calls'[j] = c /\ c # Idle BY Zenon DEF Put, Active
<1>2. Alone' BY <1>1, Zenon DEF Alone
<1>3. Rounds' BY <1>1, Zenon DEF Rounds
<1>4. OneExchange' BY QueueEmpty, Zenon DEF OneExchange
<1> QED BY <1>2, <1>3, <1>4 DEF Exchange

LEMMA IdleActive == ASSUME Quiet PROVE c2s = <<>> /\ s2c = <<>> /\ \A k \in Slots : ~ Active(k)
BY Zenon DEF Quiet, Active

LEMMA BeganExchange ==
    ASSUME Patient, NEW k \in Slots, NEW c, Began(k, c), patient',
           c # Idle => c.stage \notin {"local", "ice"}
    PROVE  Exchange'
<1>1. patient /\ Quiet BY Zenon DEF Began
<1>2. c2s' = <<>> /\ s2c' = <<>> /\ \A j \in Slots : ~ Active(j) BY <1>1, IdleActive, Zenon DEF Began
<1> QED BY <1>2, FirstExchange, Zenon DEF Began

\* A method goes on from one stage to the next, or ends.
LEMMA SteppedExchange ==
    ASSUME Exchange, NEW k \in Slots, NEW c, Active(k), Put(k, c), NEW stage \in {"create", "replace", "ice"},
           c = Idle \/ Stepped(calls[k], c, stage), c2s' = c2s, s2c' = s2c, pc' # None
    PROVE  Exchange'
<1>1. \A j \in Slots : Active(j)' =>
         Active(j) /\ j = k /\ calls'[j] = c /\ c # Idle /\ c.kind = calls[j].kind /\ c.stage = stage
  BY Zenon DEF Put, Active, Exchange, Alone, Stepped
<1>2. Alone' BY <1>1, Zenon DEF Alone
<1>3. Rounds'
  <2>1. \A j \in Slots : Active(j)' => calls'[j].stage # "local" BY <1>1
  <2> QED BY <2>1, Zenon DEF Rounds
<1>4. OneExchange'
  <2>1. \A j \in Slots : Active(j)' => Active(j) /\ calls'[j].kind = calls[j].kind BY <1>1, Zenon
  <2> QED BY <2>1, Zenon DEF Exchange, OneExchange
<1> QED BY <1>2, <1>3, <1>4 DEF Exchange

LEMMA CreatedExchange ==
    ASSUME Exchange, NEW k \in Slots, NEW c, Created(k, c), c2s' = c2s, s2c' = s2c
    PROVE  Exchange'
<1>1. \A j \in Slots : Active(j)' =>
         /\ Active(j) /\ j = k /\ calls'[j] = c /\ c.kind = calls[j].kind /\ c.offer = pc'.created
  BY Zenon DEF Created, Put, Active, Exchange, Alone, Stepped
<1>2. Alone' BY <1>1, Zenon DEF Exchange, Alone, Created
<1>3. Rounds'
  <2>1. \A j \in Slots : Active(j)' => calls'[j].offer = pc'.created BY <1>1
  <2> QED BY <2>1, Zenon DEF Rounds
<1>4. OneExchange'
  <2>1. \A j \in Slots : Active(j)' => Active(j) /\ calls'[j].kind = calls[j].kind BY <1>1, Zenon
  <2> QED BY <2>1, Zenon DEF Exchange, OneExchange
<1> QED BY <1>2, <1>3, <1>4 DEF Exchange

Others == Asks \ {"subscribe", "unsubscribe"}

LEMMA AsksOffer ==
    /\ Offering \subseteq Asks /\ Others \subseteq Asks \ {"unsubscribe"} /\ Asks \ {"unsubscribe"} \subseteq Asks
    /\ \A q : (Has(q, Asks \ {"unsubscribe"}) => Has(q, Asks)) /\ (Has(q, Others) => Has(q, Asks \ {"unsubscribe"}))
<1>1. Offering \subseteq Asks BY DEF Offering, Asks
<1>2. \A q : Has(q, Asks \ {"unsubscribe"}) => Has(q, Asks) BY DEF Has
<1>3. \A q : Has(q, Others) => Has(q, Asks \ {"unsubscribe"}) BY DEF Has, Others
<1>4. Others \subseteq Asks \ {"unsubscribe"} BY DEF Others
<1> QED BY <1>1, <1>2, <1>3, <1>4

LEMMA ProceededSends ==
    ASSUME Typed, Begun, pc # None, NEW k, NEW p, NEW m, NEW c, Proceeded(k, p, m, c)
    PROVE  c2s' = Append(c2s, m) /\ m \in Request /\ c2s \in Seq(Request)
<1>1. ws /\ socket = "open"
  <2>1. socket = "open" BY Zenon DEF Begun, Linked
  <2>2. ws BY <2>1 DEF Begun, Linked
  <2> QED BY <2>1, <2>2
<1> QED BY <1>1, Zenon DEF Proceeded, sendMessage, Typed, MessagesOK

\* The call c that remains of the one that sent its request: the second round of a switch.
Remains(k, c) ==
    /\ \A j \in Slots : Active(j)' => j = k /\ calls'[j] = c /\ c # Idle
    /\ c # Idle => /\ calls[k].kind = "switch" /\ c.kind = "subscribe" /\ c.stage = "create"
                   /\ c.streams = subscribed \ calls[k].previous

LEMMA ProceededCall ==
    ASSUME Exchange, NEW k \in Slots, Active(k), NEW p, NEW m, NEW c, Proceeded(k, p, m, c)
    PROVE  Remains(k, c)
<1>1. \A j \in Slots : Active(j)' => j = k /\ calls'[j] = c /\ c # Idle
  BY Zenon DEF Proceeded, Put, Active, Exchange, Alone
<1>2. PICK new : new = subscribed \ calls[k].previous OBVIOUS
<1>3. c # Idle => calls[k].kind = "switch" /\ c = Subscribe(new) BY <1>2, Zenon DEF Proceeded
<1>4. Subscribe(new) # Idle =>
         /\ Subscribe(new).kind = "subscribe" /\ Subscribe(new).stage = "create"
         /\ Subscribe(new).streams = new
  BY SubscribeFacts, Zenon
<1> QED BY <1>1, <1>2, <1>3, <1>4, Zenon DEF Remains

LEMMA ProceededExchange ==
    ASSUME Typed, Begun, Exchange, NEW k \in Slots, Active(k), pc # None,
           NEW p, NEW m, NEW c, Proceeded(k, p, m, c), s2c' = s2c
    PROVE  Exchange'
<1>1. c2s' = Append(c2s, m) /\ m \in Request /\ c2s \in Seq(Request) BY ProceededSends, Zenon
<1>2. /\ \A j \in Slots : Active(j)' => j = k /\ calls'[j] = c /\ c # Idle
      /\ c # Idle => calls[k].kind = "switch" /\ c.kind = "subscribe" /\ c.stage = "create"
  <2>1. Remains(k, c) BY ProceededCall, Zenon
  <2> QED BY <2>1, Zenon DEF Remains
<1>3. Alone' BY <1>2, Zenon DEF Alone, Proceeded
<1>4. Rounds'
  <2>1. \A j \in Slots : Active(j)' => calls'[j].stage # "local" BY <1>2
  <2> QED BY <2>1, Zenon DEF Rounds
<1>5. /\ \A T : Has(c2s', T) <=> Has(c2s, T) \/ m.type \in T
      /\ \A T : Single(c2s, T) /\ ~ (Has(c2s, T) /\ m.type \in T) => Single(c2s', T)
  BY <1>1, QueueAppend, Zenon
<1>6. CASE calls[k].kind = "subscribe"
  <2>1. ~ Has(c2s, Asks \ {"unsubscribe"})
    <3>1. CASE Has(c2s, Asks) BY <3>1, Zenon DEF Exchange, OneExchange
    <3>2. CASE ~ Has(c2s, Asks) BY <3>2, AsksOffer, Zenon
    <3> QED BY <3>1, <3>2
  <2>2. m.type = "subscribe" BY <1>6 DEF Proceeded
  <2>3. ~ Has(c2s', Others)
    <3>1. m.type \notin Others BY <2>2 DEF Others
    <3> QED BY <1>5, <2>1, <3>1, AsksOffer, Zenon
  <2>4. \A j \in Slots : ~ Active(j)'
    <3>1. calls[k].kind # "switch" BY <1>6
    <3> QED BY <1>2, <3>1, Zenon
  <2>5. OneExchange' BY <2>3, <2>4, Zenon DEF OneExchange, Others
  <2> QED BY <1>3, <1>4, <2>5 DEF Exchange
<1>7. CASE calls[k].kind # "subscribe"
  <2>1. ~ Has(c2s, Asks) /\ ~ Has(s2c, Answers) BY <1>7, Zenon DEF Exchange, OneExchange
  <2>2. Single(c2s, Asks) BY <2>1 DEF Has, Single, Elems
  <2>3. Single(c2s', Asks) BY <1>5, <2>1, <2>2, Zenon
  <2>4. calls[k].kind = "switch" => m.type = "unsubscribe" BY DEF Proceeded
  <2>5. calls[k].kind = "switch" => ~ Has(c2s', Asks \ {"unsubscribe"})
    <3>1. ~ Has(c2s, Asks \ {"unsubscribe"}) BY <2>1, AsksOffer, Zenon
    <3>2. m.type = "unsubscribe" => m.type \notin Asks \ {"unsubscribe"} OBVIOUS
    <3> QED BY <1>5, <2>4, <3>1, <3>2, Zenon
  <2>6. OneExchange' BY <1>2, <2>3, <2>5, Zenon DEF OneExchange
  <2> QED BY <1>3, <1>4, <2>6 DEF Exchange
<1> QED BY <1>6, <1>7

\* What the server puts on the socket for the message m: no answer, or one to m's offer.
RepliedTo(m) ==
    \/ \A x \in Elems(s2c') : x \in Elems(s2c) \/ x.type # "answer"
    \/ m.type \in Offering

LEMMA RepliedPlainly ==
    ASSUME Typed, NEW m, NEW r \in Reply, r.type # "answer", s2c' = Append(s2c, r)
    PROVE  RepliedTo(m)
<1>1. s2c \in Seq(Reply) BY DEF Typed, MessagesOK
<1>2. Elems(s2c') = Elems(s2c) \cup {r} BY <1>1, QueueAppend, Zenon
<1>3. \A x \in Elems(s2c') : x \in Elems(s2c) \/ x.type # "answer" BY <1>2
<1> QED BY <1>3, Zenon DEF RepliedTo

LEMMA GoReplies ==
    ASSUME Typed, NEW m \in Request, Handled(m)
    PROVE  RepliedTo(m)
<1>1. CASE FirstOffer(m) \/ handleSubscribe(m) \/ handleUnsubscribe(m)
  <2>1. m.type = "offer" \/ m.type = "subscribe" \/ m.type = "unsubscribe"
    BY <1>1, Zenon DEF FirstOffer, handleSubscribe, handleUnsubscribe
  <2> QED BY <2>1 DEF RepliedTo, Offering
<1>2. CASE handlePublish(m) \/ handleUnpublish(m)
  <2>1. s2c' = Append(s2c, Error) /\ Error \in Reply /\ Error.type = "error" BY <1>2, PublisherTyped
  <2>2. Error.type # "answer" BY <2>1
  <2> QED BY <2>1, <2>2, RepliedPlainly, Zenon
<1>3. CASE handleGetStreamList(m)
  <2>1. PICK r : r = [type |-> "streamList"] OBVIOUS
  <2>2. r \in Reply /\ r.type # "answer" BY <2>1 DEF Reply
  <2>3. s2c' = Append(s2c, r) BY <1>3, <2>1, Zenon DEF handleGetStreamList
  <2> QED BY <2>2, <2>3, RepliedPlainly, Zenon
<1> QED BY <1>1, <1>2, <1>3, Zenon DEF Handled

\* The server takes a message.
LEMMA GoExchange == ASSUME Typed, Exchange, Go PROVE Exchange'
<1>1. PICK m \in Request : m = Head(c2s) /\ Handled(m) BY GoTakes, Zenon
<1>2. RepliedTo(m) BY <1>1, GoReplies, Zenon
<1>3. c2s # <<>> /\ c2s' = Tail(c2s) /\ c2s \in Seq(Request) BY DEF Go, Typed, MessagesOK
<1>4. calls' = calls /\ pc' = pc BY Zenon DEF Go, client
<1>5. /\ \A T : Has(c2s, T) <=> Has(c2s', T) \/ m.type \in T
      /\ Single(c2s, Asks) => Single(c2s', Asks)
  BY <1>1, <1>3, QueueTail, Zenon
<1>6. Alone' /\ Rounds' BY <1>4, Zenon DEF Exchange, Alone, Rounds, Active
<1>7. \A k \in Slots : Active(k)' <=> Active(k) BY <1>4, Zenon DEF Active
<1>8. Has(s2c', Answers) => Has(s2c, Answers) \/ Has(c2s, Asks)
  <2>1. CASE \A x \in Elems(s2c') : x \in Elems(s2c) \/ x.type # "answer" BY <2>1 DEF Has, Answers
  <2>2. CASE m.type \in Offering BY <1>5, <2>2, AsksOffer
  <2> QED BY <1>2, <2>1, <2>2, Zenon DEF RepliedTo
<1>9. OneExchange' BY <1>4, <1>5, <1>7, <1>8, Zenon DEF Exchange, OneExchange
<1> QED BY <1>6, <1>9 DEF Exchange

\* A message arrives at the client.
LEMMA HandleWebSocketMessageExchange ==
    ASSUME Typed, Exchange, handleWebSocketMessage PROVE Exchange'
<1>1. /\ s2c # <<>> /\ s2c' = Tail(s2c) /\ s2c \in Seq(Reply) /\ calls' = calls /\ c2s' = c2s
  BY Zenon DEF handleWebSocketMessage, Typed, MessagesOK
<1>2. PICK m : m = Head(s2c) OBVIOUS
<1>3. \A T : Has(s2c, T) <=> Has(s2c', T) \/ m.type \in T BY <1>1, <1>2, QueueTail, Zenon
<1>4. \A k \in Slots : Active(k)' <=> Active(k) BY <1>1, Zenon DEF Active
<1>5. OneExchange' BY <1>1, <1>3, <1>4, Zenon DEF Exchange, OneExchange
<1>6. CASE m.type = "answer" /\ AnswerFits(m)
  <2>1. PICK recv : Applied(m, recv) BY <1>2, <1>6, AnswerApplied, Zenon
  <2>2. Alone' /\ Rounds' BY <1>1, <1>4, <2>1, Zenon DEF Exchange, Alone, Rounds, Applied
  <2> QED BY <1>5, <2>2 DEF Exchange
<1>7. CASE ~ (m.type = "answer" /\ AnswerFits(m))
  <2>1. pc' = pc BY <1>2, <1>7, Zenon DEF handleWebSocketMessage
  <2>2. Alone' /\ Rounds' BY <1>1, <1>4, <2>1, Zenon DEF Exchange, Alone, Rounds
  <2> QED BY <1>5, <2>2 DEF Exchange
<1> QED BY <1>6, <1>7

LEMMA ConnectingExchange ==
    ASSUME Typed, Begun, Patient, patient', connect \/ onopen \/ disconnect \/ onerror \/ onclose
    PROVE  Exchange'
<1>1. CASE connect
  <2>1. UNCHANGED <<pc, calls, c2s, s2c, patient>> BY <1>1, Zenon DEF connect, server, history
  <2>2. Exchange BY <2>1, Zenon DEF Patient
  <2> QED BY <2>1, <2>2, Zenon DEF Exchange, Alone, OneExchange, Rounds, Active
<1>2. CASE onopen
  <2>1. socket = "connecting" /\ UNCHANGED <<c2s, s2c, patient>>
        /\ calls' = [calls EXCEPT ![0] = [kind |-> "open", stage |-> "create"]]
    BY <1>2, Zenon DEF onopen, history
  <2>2. pc' # None BY <1>2, Opened
  <2>3. PICK c : c = [kind |-> "open", stage |-> "create"] OBVIOUS
  <2>4. c.stage \notin {"local", "ice"} BY <2>3
  <2>5. 0 \in Slots BY BatchV2Assumption DEF Slots
  <2>6. Put(0, c)
    <3>1. calls' = [calls EXCEPT ![0] = c] /\ CallsOK BY <2>1, <2>3, Zenon DEF Typed
    <3> QED BY <2>5, <3>1, CallsPut, Zenon DEF Put
  <2>7. (\A j \in Slots : ~ Active(j)) /\ c2s' = <<>> /\ s2c' = <<>>
    BY <2>1, Zenon DEF Begun, Fresh
  <2> QED BY <2>2, <2>4, <2>5, <2>6, <2>7, FirstExchange, Zenon
<1>3. CASE disconnect \/ onclose
  <2>1. patient /\ Quiet /\ UNCHANGED <<calls, c2s, s2c>>
    BY <1>3, Zenon DEF disconnect, onclose, server
  <2>2. c2s = <<>> /\ s2c = <<>> /\ \A k \in Slots : ~ Active(k) BY <2>1, IdleActive, Zenon
  <2>3. \A k \in Slots : ~ Active(k)' BY <2>1, <2>2, Zenon DEF Active
  <2> QED BY <2>1, <2>2, <2>3, QuietExchange, Zenon
<1>4. CASE onerror BY <1>4, Zenon DEF onerror
<1> QED BY <1>1, <1>2, <1>3, <1>4

LEMMA BeginningExchange ==
    ASSUME Typed, Begun, Patient, patient', NEW k \in Slots,
           \/ startPublishing(k) \/ stopPublishing(k)
           \/ \E S \in SUBSET Streams : subscribeToStreams(k, S)
           \/ \E s \in Streams : unsubscribeFromStream(k, s)
    PROVE  Exchange'
<1>1. CASE startPublishing(k)
  <2>1. PICK c : c = [kind |-> "publish", stage |-> "media"] OBVIOUS
  <2>2. c.stage \notin {"local", "ice"} BY <2>1
  <2>3. Began(k, c) BY <1>1, <2>1, StartPublishingBegun, Zenon
  <2> QED BY <2>2, <2>3, BeganExchange, Zenon
<1>2. CASE stopPublishing(k)
  <2>1. PICK c, d : c = [kind |-> "unpublish", stage |-> "replace"]
                    /\ d = [kind |-> "unpublish", stage |-> "create"]
    OBVIOUS
  <2>2. c.stage \notin {"local", "ice"} /\ d.stage \notin {"local", "ice"} BY <2>1
  <2>3. Began(k, c) \/ Began(k, d) BY <1>2, <2>1, StopPublishingBegun, Zenon
  <2> QED BY <2>2, <2>3, BeganExchange, Zenon
<1>3. ASSUME NEW S \in SUBSET Streams, subscribeToStreams(k, S) PROVE Exchange'
  <2>1. PICK c : c = Listing(S) OBVIOUS
  <2>2. c # Idle => c.stage = "create" BY <2>1, ListingFacts, Zenon
  <2>3. c # Idle => c.stage \notin {"local", "ice"} BY <2>2
  <2>4. Began(k, c) BY <1>3, <2>1, SubscribeToStreamsBegun, Zenon
  <2> QED BY <2>3, <2>4, BeganExchange, Zenon
<1>4. ASSUME NEW s \in Streams, unsubscribeFromStream(k, s) PROVE Exchange'
  <2>1. PICK c : c = [kind |-> "unsubscribe", stage |-> "create", streams |-> {s}] OBVIOUS
  <2>2. c.stage \notin {"local", "ice"} BY <2>1
  <2>3. Began(k, Idle) \/ Began(k, c) BY <1>4, <2>1, UnsubscribeFromStreamBegun, Zenon
  <2> QED BY <2>2, <2>3, BeganExchange, Zenon
<1> QED BY <1>1, <1>2, <1>3, <1>4

LEMMA SetLocalDescriptionExchange ==
    ASSUME Typed, Begun, Exchange, NEW k \in Slots, setLocalDescription(k)
    PROVE  Exchange'
<1>1. s2c' = s2c BY Zenon DEF setLocalDescription, server
<1>2. /\ Active(k) /\ calls[k].stage = "local" /\ pc # None
      /\ (calls[k].offer # pc.created \/ \E p : LocalSet(k, p))
  BY LocalSetBy, Zenon
<1>3. calls[k].offer = pc.created BY <1>2, Zenon DEF Exchange, Rounds
<1>4. PICK p : LocalSet(k, p) BY <1>2, <1>3
<1>5. CASE \E m, c : Proceeded(k, p, m, c)
  <2>1. PICK m, c : Proceeded(k, p, m, c) BY <1>5
  <2> QED BY <1>1, <1>2, <2>1, ProceededExchange
<1>6. CASE pc' = p /\ c2s' = c2s /\ \E c : Put(k, c) /\ Stepped(calls[k], c, "ice")
  <2>1. PICK c : Put(k, c) /\ Stepped(calls[k], c, "ice") BY <1>6
  <2>2. pc' # None BY <1>4, <1>6, Zenon DEF LocalSet, Localised
  <2> QED BY <1>1, <1>2, <1>6, <2>1, <2>2, SteppedExchange
<1> QED BY <1>4, <1>5, <1>6, Zenon DEF LocalSet

LEMMA WaitForIceGatheringExchange ==
    ASSUME Typed, Begun, Exchange, NEW k \in Slots, waitForIceGathering(k)
    PROVE  Exchange'
<1>1. s2c' = s2c BY Zenon DEF waitForIceGathering, server
<1>2. Active(k) /\ (pc = None \/ \E m, c : Proceeded(k, pc, m, c)) BY GatheredBy, Zenon
<1>3. pc # None BY <1>2, Zenon DEF Exchange, Alone
<1>4. PICK m, c : Proceeded(k, pc, m, c) BY <1>2, <1>3
<1> QED BY <1>1, <1>2, <1>3, <1>4, ProceededExchange

LEMMA MethodExchange ==
    ASSUME Typed, Begun, Exchange, NEW k \in Slots,
           getUserMedia(k) \/ replaceTrack(k) \/ createOffer(k) \/ setLocalDescription(k)
             \/ waitForIceGathering(k)
    PROVE  Exchange'
<1>1. CASE getUserMedia(k)
  <2>1. PICK c : UserMedia(k, c) BY <1>1, UserMediaBy
  <2>2. c2s' = c2s /\ s2c' = s2c /\ pc' = pc BY <1>1, Zenon DEF getUserMedia, server
  <2>3. /\ Active(k) /\ Put(k, c)
        /\ c = Idle \/ Stepped(calls[k], c, "create") \/ Stepped(calls[k], c, "replace")
    BY <2>1, Zenon DEF UserMedia
  <2>4. pc' # None BY <2>2, <2>3, Zenon DEF Exchange, Alone
  <2> QED BY <2>2, <2>3, <2>4, SteppedExchange
<1>2. CASE replaceTrack(k)
  <2>1. PICK c : Replaced(k, c) BY <1>2, ReplacedBy
  <2>2. c2s' = c2s /\ s2c' = s2c /\ pc' = pc /\ pc # None BY <1>2, Zenon DEF replaceTrack, server
  <2>3. Active(k) /\ Put(k, c) /\ Stepped(calls[k], c, "create") BY <2>1, Zenon DEF Replaced
  <2> QED BY <2>2, <2>3, SteppedExchange
<1>3. CASE createOffer(k)
  <2>1. PICK c : Created(k, c) BY <1>3, CreatedBy
  <2>2. c2s' = c2s /\ s2c' = s2c BY <1>3, Zenon DEF createOffer, server
  <2> QED BY <2>1, <2>2, CreatedExchange
<1>4. CASE setLocalDescription(k) BY <1>4, SetLocalDescriptionExchange
<1>5. CASE waitForIceGathering(k) BY <1>5, WaitForIceGatheringExchange
<1> QED BY <1>1, <1>2, <1>3, <1>4, <1>5

LEMMA GetStreamListSends ==
    ASSUME Typed, getStreamList
    PROVE  /\ c2s' = c2s \/ \E m \in Request : m.type = "getStreamList" /\ c2s' = Append(c2s, m)
           /\ UNCHANGED <<calls, pc, subscribed, map, srv, s2c, skipped, patient, socket, ws>>
<1>1. PICK m : m = [type |-> "getStreamList"] OBVIOUS
<1>2. m \in Request /\ m.type = "getStreamList" BY <1>1, Requests
<1>3. c2s' = c2s \/ c2s' = Append(c2s, m) BY <1>1, Zenon DEF getStreamList, sendMessage
<1>4. UNCHANGED <<calls, pc, subscribed, map, srv, s2c, skipped, patient, socket, ws>>
  BY Zenon DEF getStreamList, client, server, history
<1> QED BY <1>2, <1>3, <1>4, Zenon

LEMMA GetStreamListExchange == ASSUME Typed, Exchange, getStreamList PROVE Exchange'
<1>1. UNCHANGED <<calls, pc, s2c>> BY GetStreamListSends, Zenon
<1>2. /\ \A T : T \subseteq Asks => (Has(c2s', T) => Has(c2s, T))
      /\ Single(c2s, Asks) => Single(c2s', Asks)
  <2>1. CASE c2s' = c2s BY <2>1, Zenon
  <2>2. CASE c2s' # c2s
    <3>1. PICK m \in Request : m.type = "getStreamList" /\ c2s' = Append(c2s, m)
      BY <2>2, GetStreamListSends, Zenon
    <3>2. c2s \in Seq(Request) BY DEF Typed, MessagesOK
    <3>3. /\ \A T : Has(c2s', T) <=> Has(c2s, T) \/ m.type \in T
          /\ \A T : Single(c2s, T) /\ ~ (Has(c2s, T) /\ m.type \in T) => Single(c2s', T)
      BY <3>1, <3>2, QueueAppend, Zenon
    <3>4. m.type \notin Asks BY <3>1 DEF Asks
    <3>5. \A T : T \subseteq Asks => m.type \notin T BY <3>4
    <3> QED BY <3>3, <3>4, <3>5, Zenon
  <2> QED BY <2>1, <2>2
<1>3. Alone' /\ Rounds' BY <1>1, Zenon DEF Exchange, Alone, Rounds, Active
<1>4. /\ Has(c2s', Asks) => Has(c2s, Asks)
      /\ Has(c2s', Asks \ {"unsubscribe"}) => Has(c2s, Asks \ {"unsubscribe"})
      /\ Has(c2s', Asks \ {"subscribe", "unsubscribe"}) => Has(c2s, Asks \ {"subscribe", "unsubscribe"})
  <2>1. /\ Asks \subseteq Asks /\ Asks \ {"unsubscribe"} \subseteq Asks
        /\ Asks \ {"subscribe", "unsubscribe"} \subseteq Asks
    OBVIOUS
  <2> QED BY <1>2, <2>1, Zenon
<1>5. OneExchange' BY <1>1, <1>2, <1>4, Zenon DEF Exchange, OneExchange, Active
<1> QED BY <1>3, <1>5 DEF Exchange

LEMMA ServerExchange ==
    ASSUME Typed, Exchange, patient', Go \/ RemoteStreamEnds \/ Dispose \/ \E s \in Streams : StreamEnds(s)
    PROVE  Exchange'
<1>1. CASE Go BY <1>1, GoExchange
<1>2. CASE RemoteStreamEnds
  <2>1. UNCHANGED <<calls, pc, c2s, s2c>> BY <1>2, Zenon DEF RemoteStreamEnds, client
  <2> QED BY <2>1, Zenon DEF Exchange, Alone, OneExchange, Rounds, Active
<1>3. CASE Dispose
  <2>1. UNCHANGED <<calls, pc>> /\ c2s' = c2s /\ c2s = <<>> /\ s2c' = <<>>
    BY <1>3, Zenon DEF Dispose, client
  <2>2. c2s' = <<>> BY <2>1
  <2>3. Alone' /\ Rounds' BY <2>1, Zenon DEF Exchange, Alone, Rounds, Active
  <2>4. OneExchange' BY <2>1, <2>2, QueueEmpty, Zenon DEF OneExchange
  <2> QED BY <2>3, <2>4, Zenon DEF Exchange
<1>4. CASE \E s \in Streams : StreamEnds(s) BY <1>4, Zenon DEF StreamEnds
<1> QED BY <1>1, <1>2, <1>3, <1>4

LEMMA NextExchange == ASSUME Typed, Begun, Patient, Next, patient' PROVE Exchange'
<1>1. patient BY PatientSteps
<1>2. Exchange BY <1>1, Zenon DEF Patient
<1>3. CASE connect \/ onopen \/ disconnect \/ onerror \/ onclose BY <1>3, ConnectingExchange
<1>4. CASE getStreamList BY <1>2, <1>4, GetStreamListExchange
<1>5. ASSUME NEW k \in Slots,
             \/ startPublishing(k) \/ stopPublishing(k)
             \/ \E S \in SUBSET Streams : subscribeToStreams(k, S)
             \/ \E s \in Streams : unsubscribeFromStream(k, s)
      PROVE  Exchange'
  BY <1>5, BeginningExchange
<1>6. ASSUME NEW k \in Slots,
             getUserMedia(k) \/ replaceTrack(k) \/ createOffer(k) \/ setLocalDescription(k)
               \/ waitForIceGathering(k)
      PROVE  Exchange'
  BY <1>2, <1>6, MethodExchange
<1>7. CASE handleWebSocketMessage BY <1>2, <1>7, HandleWebSocketMessageExchange
<1>8. CASE Go \/ RemoteStreamEnds \/ Dispose \/ \E s \in Streams : StreamEnds(s)
  BY <1>2, <1>8, ServerExchange
<1> QED BY <1>3, <1>4, <1>5, <1>6, <1>7, <1>8, Zenon DEF Next

-------------------------------------------------------------------------------
(***************************************************************************)
(* Every action keeps Camera, for a user who waits.                        *)
(***************************************************************************)
\* A step of something else: the methods that publish or unpublish go on, if they do,
\* between stages that have nothing to do with the camera.
LEMMA CameraFrame ==
    ASSUME Camera, UNCHANGED <<cameras, localStream, sender, ws, socket>>,
           "publishing" \in ui' <=> "publishing" \in ui, pc' # None => pc # None,
           \A j \in Slots : Changing(j) => Changing(j)',
           \A j \in Slots : Changing(j)' =>
              /\ Changing(j) /\ calls'[j].kind = calls[j].kind
              /\ \/ calls'[j].stage = calls[j].stage
                 \/ calls'[j].stage \notin {"media", "replace"} /\ calls[j].stage \notin {"media", "replace"},
           srv'.publisher \/ Has(c2s', {"publish"}) =>
              /\ srv.publisher \/ Has(c2s, {"publish"})
              /\ Has(c2s, {"unpublish"}) => Has(c2s', {"unpublish"})
    PROVE  Camera'
<1>1. OneCamera' /\ SenderKept' BY Zenon DEF Camera, OneCamera, SenderKept
<1>2. \A j \in Slots : Active(j)' /\ calls'[j].kind \in {"publish", "unpublish"} =>
         /\ Active(j) /\ calls'[j].kind = calls[j].kind
         /\ \/ calls'[j].stage = calls[j].stage
            \/ calls'[j].stage \notin {"media", "replace"} /\ calls[j].stage \notin {"media", "replace"}
  BY Zenon DEF Changing
<1>3. PublishStages'
  <2>1. \A j \in Slots : Active(j)' /\ calls'[j].kind = "publish" =>
           /\ Active(j) /\ calls[j].kind = "publish"
           /\ calls'[j].stage # "media" <=> calls[j].stage # "media"
           /\ calls'[j].stage \in {"media", "replace"} <=> calls[j].stage \in {"media", "replace"}
    BY <1>2
  <2> QED BY <2>1, Zenon DEF Camera, PublishStages
<1>4. UnpublishStages'
  <2>1. \A j \in Slots : Active(j)' /\ calls'[j].kind = "unpublish" =>
           /\ Active(j) /\ calls[j].kind = "unpublish"
           /\ calls'[j].stage = "replace" <=> calls[j].stage = "replace"
    BY <1>2
  <2> QED BY <2>1, Zenon DEF Camera, UnpublishStages
<1>5. Rested' BY Zenon DEF Camera, Rested
<1>6. Published'
  <2>1. ASSUME NEW j \in Slots, Active(j), calls[j].kind = "unpublish"
        PROVE  Active(j)' /\ calls'[j].kind = "unpublish"
    <3>1. Changing(j) BY <2>1 DEF Changing
    <3>2. Changing(j)' BY <3>1, Zenon
    <3>3. calls'[j].kind = calls[j].kind BY <3>2, Zenon
    <3> QED BY <2>1, <3>2, <3>3 DEF Changing
  <2> QED BY <2>1, Zenon DEF Camera, Published
<1> QED BY <1>1, <1>3, <1>4, <1>5, <1>6 DEF Camera

\* The same when no method moves.
LEMMA CameraStill ==
    ASSUME Camera, UNCHANGED <<cameras, localStream, sender, ws, socket, ui, calls>>,
           pc' # None => pc # None,
           srv'.publisher \/ Has(c2s', {"publish"}) =>
              /\ srv.publisher \/ Has(c2s, {"publish"})
              /\ Has(c2s, {"unpublish"}) => Has(c2s', {"unpublish"})
    PROVE  Camera'
<1>1. \A j \in Slots : (Changing(j) <=> Changing(j)') /\ calls'[j] = calls[j]
  BY Zenon DEF Changing, Active
<1>2. "publishing" \in ui' <=> "publishing" \in ui OBVIOUS
<1> QED BY <1>1, <1>2, CameraFrame, Zenon

\* With no method under way that publishes or unpublishes, and no publisher.
LEMMA CameraRested ==
    ASSUME OneCamera', \A j \in Slots : ~ Changing(j)', localStream' <=> sender' = "path",
           ws' => ("publishing" \in ui' <=> sender' = "path"),
           pc' # None => sender' \in {"placeholder", "path"}, Published'
    PROVE  Camera'
<1>1. PublishStages' /\ UnpublishStages'
  <2>1. \A j \in Slots : Active(j)' => calls'[j].kind # "publish" /\ calls'[j].kind # "unpublish"
    BY DEF Changing
  <2> QED BY <2>1, Zenon DEF PublishStages, UnpublishStages
<1>2. Rested' /\ SenderKept' BY Zenon DEF Rested, SenderKept
<1> QED BY <1>1, <1>2, Zenon DEF Camera

LEMMA ConnectingCamera ==
    ASSUME Typed, Begun, Patient, patient', connect \/ onopen \/ disconnect \/ onerror \/ onclose
    PROVE  Camera'
<1>1. CASE connect
  <2>1. /\ UNCHANGED <<pc, cameras, localStream, sender, ui, calls, patient>>
        /\ socket = "none" /\ socket' = "connecting"
    BY <1>1, Zenon DEF connect, history
  <2>2. Camera BY <2>1, Zenon DEF Patient
  <2>3. (\A j \in Slots : ~ Active(j)) /\ ui = {} /\ ~ localStream BY <2>1, Zenon DEF Begun, Fresh
  <2>4. \A j \in Slots : ~ Changing(j) /\ ~ Changing(j)' BY <2>1, <2>3, Zenon DEF Changing, Active
  <2>5. sender # "path" BY <2>2, <2>3, <2>4, Zenon DEF Camera, Rested
  <2>6. OneCamera' BY <2>1, <2>2, Zenon DEF Camera, OneCamera
  <2>7. Published' BY <2>1 DEF Published
  <2>8. "publishing" \notin ui' BY <2>1, <2>3
  <2>9. pc' = None BY <2>1 DEF Begun, Linked
  <2> QED BY <2>1, <2>3, <2>4, <2>5, <2>6, <2>7, <2>8, <2>9, CameraRested, Zenon
<1>2. CASE onopen
  <2>1. /\ UNCHANGED <<cameras, localStream, ui, c2s>> /\ socket = "connecting"
        /\ sender' = "placeholder"
        /\ calls' = [calls EXCEPT ![0] = [kind |-> "open", stage |-> "create"]]
        /\ srv' = [srv EXCEPT !.stage = "first"]
    BY <1>2, Zenon DEF onopen
  <2>2. /\ (\A j \in Slots : ~ Active(j)) /\ ui = {} /\ ~ localStream /\ cameras = 0
        /\ c2s = <<>> /\ srv = NewServer
    BY <2>1, Zenon DEF Begun, Fresh
  <2>3. PICK c : c = [kind |-> "open", stage |-> "create"] OBVIOUS
  <2>4. c.kind \notin {"publish", "unpublish"} BY <2>3
  <2>5. 0 \in Slots BY BatchV2Assumption DEF Slots
  <2>6. Put(0, c)
    <3>1. calls' = [calls EXCEPT ![0] = c] /\ CallsOK BY <2>1, <2>3, Zenon DEF Typed
    <3> QED BY <2>5, <3>1, CallsPut, Zenon DEF Put
  <2>7. \A j \in Slots : ~ Changing(j)' BY <2>2, <2>4, <2>6, Zenon DEF Changing, Active, Put
  <2>8. srv'.publisher = FALSE BY <2>1, <2>2 DEF NewServer
  <2>9. ~ Has(c2s', {"publish"}) BY <2>1, <2>2, QueueEmpty, Zenon
  <2>10. Published' BY <2>8, <2>9 DEF Published
  <2>11. OneCamera' BY <2>1, <2>2, Zenon DEF OneCamera
  <2>12. sender' # "path" /\ sender' \in {"placeholder", "path"} BY <2>1
  <2>13. "publishing" \notin ui' BY <2>1, <2>2
  <2> QED BY <2>1, <2>2, <2>7, <2>10, <2>11, <2>12, <2>13, CameraRested, Zenon
<1>3. CASE disconnect \/ onclose
  <2>1. patient /\ Quiet /\ cleanup /\ calls' = calls /\ socket' # "open"
    BY <1>3 DEF disconnect, onclose
  <2>2. \A k \in Slots : ~ Active(k) BY <2>1, IdleActive, Zenon
  <2>3. \A k \in Slots : ~ Changing(k)' BY <2>1, <2>2, Zenon DEF Changing, Active
  <2>4. /\ ws' = FALSE /\ pc' = None /\ localStream' = FALSE /\ sender' = "none"
        /\ cameras' = IF localStream THEN cameras - 1 ELSE cameras
    BY <2>1 DEF cleanup
  <2>5. cameras = IF localStream THEN 1 ELSE 0 BY <2>1, Zenon DEF Patient, Camera, OneCamera
  <2>6. cameras' = 0 BY <2>4, <2>5
  <2>7. OneCamera' BY <2>4, <2>6 DEF OneCamera
  <2>8. Published' BY <2>1 DEF Published
  <2>9. sender' # "path" BY <2>4
  <2> QED BY <2>3, <2>4, <2>7, <2>8, <2>9, CameraRested, Zenon
<1>4. CASE onerror BY <1>4, Zenon DEF onerror
<1> QED BY <1>1, <1>2, <1>3, <1>4

\* Before a method begins, for a user who waits.
LEMMA BeforeCamera ==
    ASSUME Patient, NEW k \in Slots, NEW c, Began(k, c), patient'
    PROVE  /\ Camera /\ \A j \in Slots : ~ Active(j) /\ ~ Changing(j)
           /\ localStream <=> sender = "path"
           /\ "publishing" \in ui <=> sender = "path"
           /\ sender \in {"placeholder", "path"}
           /\ ~ Has(c2s, {"publish"}) /\ ~ Has(c2s, {"unpublish"})
           /\ srv.publisher => sender = "path"
<1>1. patient /\ Quiet /\ ws /\ pc # None /\ socket = "open" BY Zenon DEF Began
<1>2. Camera BY <1>1, Zenon DEF Patient
<1>3. c2s = <<>> /\ \A j \in Slots : ~ Active(j) BY <1>1, IdleActive, Zenon
<1>4. \A j \in Slots : ~ Changing(j) BY <1>3, Zenon DEF Changing
<1>5. ~ Has(c2s, {"publish"}) /\ ~ Has(c2s, {"unpublish"}) BY <1>3, QueueEmpty, Zenon
<1>6. srv.publisher => sender = "path" BY <1>1, <1>2, <1>3, <1>5, Zenon DEF Camera, Published
<1>7. (localStream <=> sender = "path") /\ ("publishing" \in ui <=> sender = "path")
  BY <1>1, <1>2, <1>4, Zenon DEF Camera, Rested
<1>8. sender \in {"placeholder", "path"} BY <1>1, <1>2, Zenon DEF Camera, SenderKept
<1> QED BY <1>2, <1>3, <1>4, <1>5, <1>6, <1>7, <1>8, Zenon

\* The step that publishes or unpublishes leaves one such method under way.
LEMMA CameraMoves ==
    ASSUME NEW k \in Slots, NEW c, \A j \in Slots : Active(j)' => j = k /\ calls'[j] = c,
           calls'[k] = c, c # Idle, c.kind \in {"publish", "unpublish"},
           c.kind = "publish" =>
              /\ localStream' <=> c.stage # "media"
              /\ sender' = IF c.stage \in {"media", "replace"} THEN "placeholder" ELSE "path"
              /\ "publishing" \notin ui',
           c.kind = "unpublish" =>
              /\ localStream' <=> c.stage = "replace"
              /\ sender' = IF c.stage = "replace" THEN "path" ELSE "placeholder"
              /\ "publishing" \in ui',
           OneCamera', Published'
    PROVE  Camera'
<1>1. PublishStages' /\ UnpublishStages' BY Zenon DEF PublishStages, UnpublishStages
<1>2. Rested'
  <2>1. Changing(k)' BY Zenon DEF Changing, Active
  <2> QED BY <2>1, Zenon DEF Rested
<1>3. SenderKept'
  <2>1. sender' \in {"placeholder", "path"} OBVIOUS
  <2> QED BY <2>1 DEF SenderKept
<1> QED BY <1>1, <1>2, <1>3, Zenon DEF Camera

LEMMA BeginningCamera ==
    ASSUME Typed, Begun, Patient, patient', NEW k \in Slots,
           \/ startPublishing(k) \/ stopPublishing(k)
           \/ \E S \in SUBSET Streams : subscribeToStreams(k, S)
           \/ \E s \in Streams : unsubscribeFromStream(k, s)
    PROVE  Camera'
<1>1. CASE startPublishing(k)
  <2>1. PICK c : c = [kind |-> "publish", stage |-> "media"] OBVIOUS
  <2>2. c.kind = "publish" /\ c.stage = "media" /\ c # Idle BY <2>1, NewCalls
  <2>3. Began(k, c) BY <1>1, <2>1, StartPublishingBegun, Zenon
  <2>4. "publishing" \notin ui /\ UNCHANGED <<cameras, localStream, sender>>
    BY <1>1, Zenon DEF startPublishing, client
  <2>5. /\ Camera /\ \A j \in Slots : ~ Active(j) /\ ~ Changing(j)
        /\ localStream <=> sender = "path"
        /\ "publishing" \in ui <=> sender = "path"
        /\ sender \in {"placeholder", "path"}
        /\ ~ Has(c2s, {"publish"}) /\ ~ Has(c2s, {"unpublish"})
        /\ srv.publisher => sender = "path"
    BY <2>3, BeforeCamera
  <2>6. sender' = "placeholder" /\ ~ localStream' /\ ~ srv.publisher BY <2>4, <2>5
  <2>7. (\A j \in Slots : Active(j)' => j = k /\ calls'[j] = c) /\ calls'[k] = c
    BY <2>3, <2>5, Zenon DEF Began, Put, Active
  <2>8. OneCamera' BY <2>4, <2>5, Zenon DEF Camera, OneCamera
  <2>9. Published' BY <2>3, <2>5, <2>6, Zenon DEF Published, Began
  <2>10. ui' = ui BY <2>3, Zenon DEF Began
  <2> QED BY <2>2, <2>4, <2>6, <2>7, <2>8, <2>9, <2>10, CameraMoves
<1>2. CASE stopPublishing(k)
  <2>1. PICK c, d : c = [kind |-> "unpublish", stage |-> "replace"]
                    /\ d = [kind |-> "unpublish", stage |-> "create"]
    OBVIOUS
  <2>2. c.kind = "unpublish" /\ c.stage = "replace" /\ c # Idle BY <2>1, NewCalls
  <2>3. /\ "publishing" \in ui
        /\ \/ sender = "path" /\ Began(k, c) /\ UNCHANGED <<cameras, localStream>>
           \/ sender # "path" /\ Began(k, d)
    BY <1>2, <2>1, StopPublishingBegun, Zenon DEF stopPublishing
  <2>4. sender = "path" /\ Began(k, c) /\ UNCHANGED <<cameras, localStream>>
    <3>1. ASSUME sender # "path", Began(k, d) PROVE FALSE
      <4>1. "publishing" \in ui <=> sender = "path" BY <3>1, BeforeCamera
      <4> QED BY <2>3, <3>1, <4>1
    <3> QED BY <2>3, <3>1
  <2>5. Camera /\ (\A j \in Slots : ~ Active(j)) /\ (localStream <=> sender = "path")
    BY <2>4, BeforeCamera
  <2>6. sender' = sender BY <1>2, Zenon DEF stopPublishing
  <2>7. (\A j \in Slots : Active(j)' => j = k /\ calls'[j] = c) /\ calls'[k] = c
    BY <2>4, <2>5, Zenon DEF Began, Put, Active
  <2>8. OneCamera' BY <2>4, <2>5, Zenon DEF Camera, OneCamera
  <2>9. Published' BY <2>4, <2>6, Zenon DEF Published
  <2>10. ui' = ui BY <2>4, Zenon DEF Began
  <2> QED BY <2>2, <2>3, <2>4, <2>5, <2>6, <2>7, <2>8, <2>9, <2>10, CameraMoves
<1>3. ASSUME NEW c, Began(k, c), c # Idle => c.kind \notin {"publish", "unpublish"},
             UNCHANGED <<sender, localStream, cameras>>
      PROVE  Camera'
  <2>1. /\ Camera /\ \A j \in Slots : ~ Active(j) /\ ~ Changing(j)
    BY <1>3, BeforeCamera, Zenon
  <2>2. \A j \in Slots : ~ Changing(j)' BY <1>3, <2>1, Zenon DEF Began, Put, Changing, Active
  <2>3. /\ UNCHANGED <<ws, socket, ui, c2s, srv>> /\ pc # None BY <1>3, Zenon DEF Began
  <2>4. "publishing" \in ui' <=> "publishing" \in ui BY <2>3
  <2>5. srv'.publisher \/ Has(c2s', {"publish"}) =>
              /\ srv.publisher \/ Has(c2s, {"publish"})
              /\ Has(c2s, {"unpublish"}) => Has(c2s', {"unpublish"})
    BY <2>3, Zenon
  <2> QED BY <1>3, <2>1, <2>2, <2>3, <2>4, <2>5, CameraFrame, Zenon
<1>4. ASSUME NEW S \in SUBSET Streams, subscribeToStreams(k, S) PROVE Camera'
  <2>1. PICK c : c = Listing(S) OBVIOUS
  <2>2. c # Idle => c.kind \in {"subscribe", "switch"} BY <2>1, ListingFacts
  <2>3. c # Idle => c.kind \notin {"publish", "unpublish"} BY <2>2
  <2>4. Began(k, c) /\ UNCHANGED <<sender, localStream, cameras>>
    BY <1>4, <2>1, SubscribeToStreamsBegun, Zenon
  <2> QED BY <1>3, <2>3, <2>4, Zenon
<1>5. ASSUME NEW s \in Streams, unsubscribeFromStream(k, s) PROVE Camera'
  <2>1. PICK c : c = [kind |-> "unsubscribe", stage |-> "create", streams |-> {s}] OBVIOUS
  <2>2. c.kind \notin {"publish", "unpublish"} BY <2>1
  <2>3. (Began(k, Idle) \/ Began(k, c)) /\ UNCHANGED <<sender, localStream, cameras>>
    BY <1>5, <2>1, UnsubscribeFromStreamBegun, Zenon
  <2> QED BY <1>3, <2>2, <2>3, Zenon
<1> QED BY <1>1, <1>2, <1>4, <1>5

LEMMA GetUserMediaCamera ==
    ASSUME Typed, Begun, Exchange, Camera, NEW k \in Slots, getUserMedia(k) PROVE Camera'
<1>1. PICK c : UserMedia(k, c) BY UserMediaBy
<1>2. Active(k) /\ calls[k].kind = "publish" /\ calls[k].stage = "media" /\ Put(k, c)
  BY <1>1, Zenon DEF UserMedia
<1>3. UNCHANGED <<ws, pc, socket, ui, c2s, srv>> BY Zenon DEF getUserMedia, server
<1>4. ~ localStream /\ sender = "placeholder" /\ "publishing" \notin ui
  BY <1>2 DEF Camera, PublishStages
<1>5. \A j \in Slots : Active(j)' => j = k /\ calls'[j] = c
  BY <1>2, Zenon DEF Put, Active, Exchange, Alone
<1>6. calls'[k] = c BY <1>2, Zenon DEF Put
<1>7. \A j \in Slots : Active(j) => calls[j].kind # "unpublish"
  <2>1. \A j \in Slots : Active(j) => j = k BY <1>2, Zenon DEF Exchange, Alone
  <2> QED BY <1>2, <2>1
<1>8. sender' = sender => Published'
  BY <1>3, <1>4, <1>7, Zenon DEF Camera, Published
<1>9. cameras = 0 BY <1>4, Zenon DEF Camera, OneCamera
<1>10. CASE c = Idle /\ UNCHANGED <<localStream, cameras, sender>>
  <2>1. \A j \in Slots : ~ Changing(j)' BY <1>5, <1>10, Zenon DEF Changing, Active
  <2>2. sender' = "placeholder" /\ sender' # "path" /\ sender' \in {"placeholder", "path"}
    BY <1>4, <1>10
  <2>3. OneCamera' BY <1>4, <1>9, <1>10, Zenon DEF OneCamera
  <2> QED BY <1>3, <1>4, <1>8, <1>10, <2>1, <2>2, <2>3, CameraRested, Zenon
<1>11. CASE /\ localStream' = TRUE /\ cameras' = cameras + 1
            /\ sender' = sender /\ Stepped(calls[k], c, "replace")
  <2>1. c.kind = "publish" /\ c.stage = "replace" /\ c # Idle BY <1>2, <1>11, Zenon DEF Stepped
  <2>2. OneCamera' BY <1>9, <1>11 DEF OneCamera
  <2>3. Published' /\ "publishing" \notin ui' BY <1>3, <1>4, <1>8, <1>11
  <2> QED BY <1>4, <1>5, <1>6, <1>11, <2>1, <2>2, <2>3, CameraMoves
<1> QED BY <1>1, <1>4, <1>10, <1>11, Zenon DEF UserMedia

LEMMA ReplaceTrackCamera ==
    ASSUME Typed, Begun, Exchange, Camera, NEW k \in Slots, replaceTrack(k) PROVE Camera'
<1>1. PICK c : Replaced(k, c) BY ReplacedBy
<1>2. /\ Active(k) /\ calls[k].stage = "replace" /\ Put(k, c) /\ c # Idle
      /\ c.kind = calls[k].kind /\ c.stage = "create"
  BY <1>1, Zenon DEF Replaced, Stepped
<1>3. UNCHANGED <<ws, pc, socket, ui, c2s, srv>> BY Zenon DEF replaceTrack, server
<1>4. (\A j \in Slots : Active(j)' => j = k /\ calls'[j] = c) /\ calls'[k] = c
  BY <1>2, Zenon DEF Put, Active, Exchange, Alone
<1>5. CASE calls[k].kind = "publish" /\ sender' = "path" /\ UNCHANGED <<cameras, localStream>>
  <2>1. localStream /\ "publishing" \notin ui BY <1>2, <1>5 DEF Camera, PublishStages
  <2>2. OneCamera' BY <1>5, Zenon DEF Camera, OneCamera
  <2>3. Published' BY <1>5, Zenon DEF Published
  <2> QED BY <1>2, <1>3, <1>4, <1>5, <2>1, <2>2, <2>3, CameraMoves
<1>6. CASE /\ calls[k].kind = "unpublish" /\ sender' = "placeholder"
           /\ cameras' = (IF localStream THEN cameras - 1 ELSE cameras) /\ localStream' = FALSE
  <2>1. "publishing" \in ui BY <1>2, <1>6, Zenon DEF Camera, UnpublishStages
  <2>2. cameras = IF localStream THEN 1 ELSE 0 BY DEF Camera, OneCamera
  <2>3. cameras' = 0 BY <1>6, <2>2
  <2>4. OneCamera' BY <1>6, <2>3 DEF OneCamera
  <2>5. Active(k)' /\ calls'[k].kind = "unpublish" BY <1>2, <1>4, <1>6, Zenon DEF Active
  <2>6. Published' BY <2>5, Zenon DEF Published
  <2> QED BY <1>2, <1>3, <1>4, <1>6, <2>1, <2>4, <2>6, CameraMoves
<1> QED BY <1>1, <1>5, <1>6, Zenon DEF Replaced

\* A method that does not touch the camera in this step goes on as c.
LEMMA CameraStepped ==
    ASSUME Camera, NEW k \in Slots, NEW c, Active(k), Put(k, c),
           calls[k].kind \in {"publish", "unpublish"} =>
              /\ c # Idle /\ c.kind = calls[k].kind
              /\ calls[k].stage \notin {"media", "replace"} /\ c.stage \notin {"media", "replace"},
           calls[k].kind \notin {"publish", "unpublish"} =>
              (c # Idle => c.kind \notin {"publish", "unpublish"}),
           UNCHANGED <<cameras, localStream, sender, ws, socket>>,
           "publishing" \in ui' <=> "publishing" \in ui, pc # None,
           srv'.publisher \/ Has(c2s', {"publish"}) =>
              /\ srv.publisher \/ Has(c2s, {"publish"})
              /\ Has(c2s, {"unpublish"}) => Has(c2s', {"unpublish"})
    PROVE  Camera'
<1>1. calls'[k] = c /\ \A j \in Slots : j # k => calls'[j] = calls[j] BY Zenon DEF Put
<1>2. \A j \in Slots : j # k => (Changing(j)' <=> Changing(j)) BY <1>1, Zenon DEF Changing, Active
<1>3. CASE calls[k].kind \in {"publish", "unpublish"}
  <2>1. Changing(k) /\ Changing(k)' BY <1>1, <1>3, Zenon DEF Changing, Active
  <2>2. \A j \in Slots : Changing(j) => Changing(j)' BY <1>2, <2>1, Zenon
  <2>3. \A j \in Slots : Changing(j)' =>
              /\ Changing(j) /\ calls'[j].kind = calls[j].kind
              /\ \/ calls'[j].stage = calls[j].stage
                 \/ calls'[j].stage \notin {"media", "replace"} /\ calls[j].stage \notin {"media", "replace"}
    BY <1>1, <1>2, <1>3, <2>1, Zenon
  <2> QED BY <2>2, <2>3, CameraFrame, Zenon
<1>4. CASE calls[k].kind \notin {"publish", "unpublish"}
  <2>1. ~ Changing(k) /\ ~ Changing(k)' BY <1>1, <1>4, Zenon DEF Changing, Active
  <2>2. \A j \in Slots : Changing(j) => Changing(j)' BY <1>2, <2>1, Zenon
  <2>3. \A j \in Slots : Changing(j)' => Changing(j) /\ calls'[j] = calls[j]
    BY <1>1, <1>2, <2>1, Zenon
  <2>4. \A j \in Slots : Changing(j)' =>
              /\ Changing(j) /\ calls'[j].kind = calls[j].kind
              /\ \/ calls'[j].stage = calls[j].stage
                 \/ calls'[j].stage \notin {"media", "replace"} /\ calls[j].stage \notin {"media", "replace"}
    BY <2>3, Zenon
  <2> QED BY <2>2, <2>4, CameraFrame, Zenon
<1> QED BY <1>3, <1>4

\* A method sends its message and goes on.
LEMMA ProceededCamera ==
    ASSUME Typed, Begun, Exchange, Camera, NEW k \in Slots, Active(k), pc # None,
           calls[k].stage \in {"local", "ice"},
           NEW p, NEW m, NEW c, Proceeded(k, p, m, c),
           UNCHANGED <<socket, ws, sender, localStream, cameras, srv>>
    PROVE  Camera'
<1>1. c2s' = Append(c2s, m) /\ m \in Request /\ c2s \in Seq(Request) BY ProceededSends, Zenon
<1>2. \A T : Has(c2s', T) <=> Has(c2s, T) \/ m.type \in T BY <1>1, QueueAppend, Zenon
<1>3. CallOK(calls[k]) /\ calls[k] # Idle BY Zenon DEF Typed, CallsOK, Active
<1>4. calls[k].kind \in {"open", "publish", "unpublish", "subscribe", "unsubscribe", "switch"}
  BY <1>3, CallFacts
<1>5. Put(k, c) /\ pc' # None BY Zenon DEF Proceeded
<1>6. ASSUME c = Idle PROVE \A j \in Slots : ~ Changing(j)'
  BY <1>5, <1>6, Zenon DEF Put, Active, Changing, Exchange, Alone
<1>7. OneCamera' BY Zenon DEF Camera, OneCamera
<1>8. CASE calls[k].kind = "publish"
  <2>1. c = Idle /\ "publishing" \in ui' BY <1>8 DEF Proceeded
  <2>2. localStream /\ sender = "path" BY <1>8 DEF Camera, PublishStages
  <2>3. Published' BY <2>2, Zenon DEF Published
  <2>4. sender \in {"placeholder", "path"} BY <2>2
  <2> QED BY <1>6, <1>7, <2>1, <2>2, <2>3, <2>4, CameraRested, Zenon
<1>9. CASE calls[k].kind = "unpublish"
  <2>1. c = Idle /\ "publishing" \notin ui' /\ m.type = "unpublish" BY <1>9 DEF Proceeded
  <2>2. ~ localStream /\ sender = "placeholder" BY <1>9 DEF Camera, UnpublishStages
  <2>3. Has(c2s', {"unpublish"}) BY <1>2, <2>1
  <2>4. Published' BY <2>3, Zenon DEF Published
  <2>5. sender \in {"placeholder", "path"} /\ sender # "path" BY <2>2
  <2> QED BY <1>6, <1>7, <2>1, <2>2, <2>4, <2>5, CameraRested, Zenon
<1>10. CASE calls[k].kind \notin {"publish", "unpublish"}
  <2>1. m.type \in {"offer", "subscribe", "unsubscribe"} BY <1>4, <1>10 DEF Proceeded
  <2>2. m.type \notin {"publish"} BY <2>1
  <2>3. "publishing" \in ui' <=> "publishing" \in ui
    <3>1. CASE calls[k].kind = "open"
      <4>1. ui' = {"connected"} BY <3>1 DEF Proceeded
      <4>2. ui = {}
        <5>1. 0 \in Slots BY BatchV2Assumption DEF Slots
        <5>2. Active(0) BY <3>1, <5>1, Zenon DEF Begun, Openings
        <5> QED BY <5>2, Zenon DEF Begun, Openings
      <4> QED BY <4>1, <4>2
    <3>2. CASE calls[k].kind # "open" BY <1>10, <3>2 DEF Proceeded
    <3> QED BY <3>1, <3>2
  <2>4. c # Idle => c.kind \notin {"publish", "unpublish"}
    <3>1. PICK new : new = subscribed \ calls[k].previous OBVIOUS
    <3>2. c # Idle => c = Subscribe(new) BY <3>1, Zenon DEF Proceeded
    <3>3. Subscribe(new) # Idle => Subscribe(new).kind = "subscribe" BY SubscribeFacts, Zenon
    <3>4. c # Idle => c.kind = "subscribe" BY <3>2, <3>3, Zenon
    <3> QED BY <3>4
  <2>5. srv'.publisher \/ Has(c2s', {"publish"}) =>
              /\ srv.publisher \/ Has(c2s, {"publish"})
              /\ Has(c2s, {"unpublish"}) => Has(c2s', {"unpublish"})
    BY <1>2, <2>2, Zenon
  <2> QED BY <1>5, <1>10, <2>3, <2>4, <2>5, CameraStepped, Zenon
<1> QED BY <1>8, <1>9, <1>10

LEMMA MethodCamera ==
    ASSUME Typed, Begun, Exchange, Camera, NEW k \in Slots,
           getUserMedia(k) \/ replaceTrack(k) \/ createOffer(k) \/ setLocalDescription(k)
             \/ waitForIceGathering(k)
    PROVE  Camera'
<1>1. CASE getUserMedia(k) BY <1>1, GetUserMediaCamera
<1>2. CASE replaceTrack(k) BY <1>2, ReplaceTrackCamera
<1>3. ASSUME NEW c, Active(k), Put(k, c), NEW stage \in {"local", "ice"}, Stepped(calls[k], c, stage),
             calls[k].stage \in {"create", "local"}, pc # None,
             UNCHANGED <<cameras, localStream, sender, ws, socket, ui, c2s, srv>>
      PROVE  Camera'
  <2>1. c # Idle /\ c.kind = calls[k].kind /\ c.stage = stage BY <1>3, Zenon DEF Stepped
  <2>2. calls[k].stage \notin {"media", "replace"} /\ c.stage \notin {"media", "replace"}
    BY <1>3, <2>1
  <2>3. "publishing" \in ui' <=> "publishing" \in ui BY <1>3
  <2>4. srv'.publisher \/ Has(c2s', {"publish"}) =>
              /\ srv.publisher \/ Has(c2s, {"publish"})
              /\ Has(c2s, {"unpublish"}) => Has(c2s', {"unpublish"})
    BY <1>3, Zenon
  <2> QED BY <1>3, <2>1, <2>2, <2>3, <2>4, CameraStepped, Zenon
<1>4. CASE createOffer(k)
  <2>1. PICK c : Created(k, c) BY <1>4, CreatedBy
  <2>2. UNCHANGED <<cameras, localStream, sender, ws, socket, ui, c2s, srv>>
    BY <1>4, Zenon DEF createOffer, server
  <2>3. Active(k) /\ Put(k, c) /\ Stepped(calls[k], c, "local") /\ calls[k].stage = "create" /\ pc # None
    BY <2>1, Zenon DEF Created
  <2> QED BY <1>3, <2>2, <2>3, Zenon
<1>5. CASE setLocalDescription(k)
  <2>1. /\ Active(k) /\ calls[k].stage = "local" /\ pc # None
        /\ (calls[k].offer # pc.created \/ \E p : LocalSet(k, p))
    BY <1>5, LocalSetBy, Zenon
  <2>2. calls[k].offer = pc.created BY <2>1, Zenon DEF Exchange, Rounds
  <2>3. PICK p : LocalSet(k, p) BY <2>1, <2>2
  <2>4. UNCHANGED <<socket, ws, sender, localStream, cameras, srv>>
    BY <1>5, Zenon DEF setLocalDescription, server
  <2>5. ASSUME NEW m, NEW c, Proceeded(k, p, m, c) PROVE Camera'
    BY <2>1, <2>4, <2>5, ProceededCamera, Zenon
  <2>6. ASSUME NEW c, Put(k, c), Stepped(calls[k], c, "ice"), UNCHANGED <<ui, c2s>> PROVE Camera'
    BY <1>3, <2>1, <2>4, <2>6, Zenon
  <2> QED BY <2>3, <2>5, <2>6, Zenon DEF LocalSet
<1>6. CASE waitForIceGathering(k)
  <2>1. /\ Active(k) /\ calls[k].stage = "ice"
        /\ (pc = None \/ \E m, c : Proceeded(k, pc, m, c))
    BY <1>6, GatheredBy, Zenon
  <2>2. pc # None BY <2>1, Zenon DEF Exchange, Alone
  <2>3. UNCHANGED <<socket, ws, sender, localStream, cameras, srv>>
    BY <1>6, Zenon DEF waitForIceGathering, server
  <2>4. PICK m, c : Proceeded(k, pc, m, c) BY <2>1, <2>2
  <2> QED BY <2>1, <2>2, <2>3, <2>4, ProceededCamera, Zenon
<1> QED BY <1>1, <1>2, <1>4, <1>5, <1>6

LEMMA GetStreamListCamera == ASSUME Typed, Camera, getStreamList PROVE Camera'
<1>1. UNCHANGED <<cameras, localStream, sender, ws, socket, ui, calls, pc, srv>>
  BY Zenon DEF getStreamList, client, server
<1>2. PICK m : m = [type |-> "getStreamList"] OBVIOUS
<1>3. m \in Request /\ m.type = "getStreamList" BY <1>2, Requests
<1>4. c2s \in Seq(Request) /\ (c2s' = c2s \/ c2s' = Append(c2s, m))
  BY <1>2, Zenon DEF getStreamList, sendMessage, Typed, MessagesOK
<1>5. \A T : Has(Append(c2s, m), T) <=> Has(c2s, T) \/ m.type \in T
  BY <1>3, <1>4, QueueAppend, Zenon
<1>6. m.type \notin {"publish"} BY <1>3
<1>7. (Has(c2s', {"publish"}) => Has(c2s, {"publish"})) /\ (Has(c2s, {"unpublish"}) => Has(c2s', {"unpublish"}))
  BY <1>4, <1>5, <1>6, Zenon
<1> QED BY <1>1, <1>7, CameraStill, Zenon

LEMMA HandleWebSocketMessageCamera ==
    ASSUME Typed, Begun, Camera, handleWebSocketMessage PROVE Camera'
<1>1. UNCHANGED <<cameras, localStream, sender, ws, socket, ui, calls, srv, c2s>>
  BY Zenon DEF handleWebSocketMessage
<1>2. Begun' BY HandleWebSocketMessageBegun
<1>3. pc' # None => pc # None BY <1>1, <1>2, Zenon DEF Begun, Linked
<1> QED BY <1>1, <1>3, CameraStill, Zenon

LEMMA GoCamera == ASSUME Typed, Exchange, Camera, Go PROVE Camera'
<1>1. PICK m \in Request : m = Head(c2s) /\ Handled(m) BY GoTakes, Zenon
<1>2. c2s # <<>> /\ c2s' = Tail(c2s) /\ c2s \in Seq(Request) BY DEF Go, Typed, MessagesOK
<1>3. UNCHANGED <<cameras, localStream, sender, ws, socket, ui, calls, pc>> BY Zenon DEF Go, client
<1>4. /\ \A T : Has(c2s, T) <=> Has(c2s', T) \/ m.type \in T
      /\ Single(c2s, Asks) => ~ (m.type \in Asks /\ Has(c2s', Asks))
  BY <1>1, <1>2, QueueTail, Zenon
<1>5. m.type # "unpublish" => (Has(c2s, {"unpublish"}) => Has(c2s', {"unpublish"})) BY <1>4
<1>6. Has(c2s', {"publish"}) => Has(c2s, {"publish"}) BY <1>4, Zenon
<1>7. CASE handlePublish(m)
  <2>1. m.type = "publish" BY <1>7 DEF handlePublish
  <2>2. Has(c2s, {"publish"}) /\ m.type # "unpublish" BY <1>4, <2>1
  <2> QED BY <1>3, <1>5, <2>2, CameraStill, Zenon
<1>8. CASE handleUnpublish(m)
  <2>1. srv'.publisher = FALSE /\ m.type = "unpublish" BY <1>8, PublisherTyped DEF handleUnpublish
  <2>2. ~ Has(c2s', Asks)
    <3>1. m.type \in Asks \ {"subscribe", "unsubscribe"} /\ m.type \in Asks BY <2>1 DEF Asks
    <3>2. Single(c2s, Asks) BY <1>4, <3>1, Zenon DEF Exchange, OneExchange
    <3> QED BY <1>4, <3>1, <3>2, Zenon
  <2>3. ~ Has(c2s', {"publish"}) BY <2>2 DEF Has, Asks
  <2> QED BY <1>3, <2>1, <2>3, CameraStill, Zenon
<1>9. CASE FirstOffer(m) \/ handleSubscribe(m) \/ handleUnsubscribe(m) \/ handleGetStreamList(m)
  <2>1. m.type # "unpublish"
    <3>1. \/ m.type = "offer" \/ m.type = "subscribe" \/ m.type = "unsubscribe"
          \/ m.type = "getStreamList"
      BY <1>9, Zenon DEF FirstOffer, handleSubscribe, handleUnsubscribe, handleGetStreamList
    <3> QED BY <3>1
  <2>2. srv'.publisher = srv.publisher
    <3>1. CASE FirstOffer(m) BY <3>1, FirstOfferTyped, Zenon
    <3>2. CASE handleSubscribe(m)
      <4>1. PICK added, senders, refused : Subscribed(m, added, senders, refused)
        BY <3>2, SubscribedBy, Zenon
      <4> QED BY <4>1, Zenon DEF Subscribed
    <3>3. CASE handleUnsubscribe(m)
      <4>1. PICK removed, padded, senders : Unsubscribed(m, removed, padded, senders)
        BY <3>3, UnsubscribedBy, Zenon
      <4> QED BY <4>1, Zenon DEF Unsubscribed
    <3>4. CASE handleGetStreamList(m) BY <3>4, Zenon DEF handleGetStreamList
    <3> QED BY <1>9, <3>1, <3>2, <3>3, <3>4
  <2> QED BY <1>3, <1>5, <1>6, <2>1, <2>2, CameraStill, Zenon
<1> QED BY <1>1, <1>7, <1>8, <1>9, Zenon DEF Handled

LEMMA ServerCamera ==
    ASSUME Typed, Exchange, Camera, patient',
           Go \/ RemoteStreamEnds \/ Dispose \/ \E s \in Streams : StreamEnds(s)
    PROVE  Camera'
<1>1. CASE Go BY <1>1, GoCamera
<1>2. CASE RemoteStreamEnds
  <2>1. UNCHANGED <<cameras, localStream, sender, ws, socket, ui, calls, pc, c2s>>
    BY <1>2, Zenon DEF RemoteStreamEnds, client
  <2>2. srv'.publisher = srv.publisher BY <1>2 DEF RemoteStreamEnds, Typed, Handler
  <2> QED BY <2>1, <2>2, CameraStill, Zenon
<1>3. CASE Dispose
  <2>1. UNCHANGED <<cameras, localStream, sender, ws, socket, ui, calls, pc, c2s>>
    BY <1>3, Zenon DEF Dispose, client
  <2>2. srv'.publisher = FALSE BY <1>3 DEF Dispose, NewServer
  <2> QED BY <2>1, <2>2, CameraStill, Zenon
<1>4. CASE \E s \in Streams : StreamEnds(s) BY <1>4, Zenon DEF StreamEnds
<1> QED BY <1>1, <1>2, <1>3, <1>4

LEMMA NextCamera == ASSUME Typed, Begun, Patient, Next, patient' PROVE Camera'
<1>1. patient BY PatientSteps
<1>2. Exchange /\ Camera BY <1>1, Zenon DEF Patient
<1>3. CASE connect \/ onopen \/ disconnect \/ onerror \/ onclose BY <1>3, ConnectingCamera
<1>4. CASE getStreamList BY <1>2, <1>4, GetStreamListCamera
<1>5. ASSUME NEW k \in Slots,
             \/ startPublishing(k) \/ stopPublishing(k)
             \/ \E S \in SUBSET Streams : subscribeToStreams(k, S)
             \/ \E s \in Streams : unsubscribeFromStream(k, s)
      PROVE  Camera'
  BY <1>5, BeginningCamera
<1>6. ASSUME NEW k \in Slots,
             getUserMedia(k) \/ replaceTrack(k) \/ createOffer(k) \/ setLocalDescription(k)
               \/ waitForIceGathering(k)
      PROVE  Camera'
  BY <1>2, <1>6, MethodCamera
<1>7. CASE handleWebSocketMessage BY <1>2, <1>7, HandleWebSocketMessageCamera
<1>8. CASE Go \/ RemoteStreamEnds \/ Dispose \/ \E s \in Streams : StreamEnds(s)
  BY <1>2, <1>8, ServerCamera
<1> QED BY <1>3, <1>4, <1>5, <1>6, <1>7, <1>8, Zenon DEF Next

-------------------------------------------------------------------------------
LEMMA InitPatient == Init => Patient
<1> SUFFICES ASSUME Init PROVE Exchange /\ Camera BY DEF Patient
<1>1. /\ pc = None /\ c2s = <<>> /\ s2c = <<>> /\ ui = {} /\ sender = "none" /\ localStream = FALSE
      /\ cameras = 0 /\ socket = "none" /\ ws = FALSE
  BY Zenon DEF Init
<1>2. \A k \in Slots : ~ Active(k) BY Zenon DEF Init, Active
<1>3. Alone /\ Rounds BY <1>2, Zenon DEF Alone, Rounds
<1>4. OneExchange BY <1>1, <1>2, QueueEmpty, Zenon DEF OneExchange
<1>6. OneCamera BY <1>1 DEF OneCamera
<1>7. PublishStages /\ UnpublishStages BY <1>2, Zenon DEF PublishStages, UnpublishStages
<1>8. Rested /\ SenderKept /\ Published BY <1>1 DEF Rested, SenderKept, Published
<1> QED BY <1>3, <1>4, <1>6, <1>7, <1>8, Zenon DEF Exchange, Camera

LEMMA StutterPatient == ASSUME Patient, UNCHANGED vars PROVE Patient'
<1> USE DEF vars, client, server, history
<1> SUFFICES ASSUME patient' PROVE Exchange' /\ Camera' BY DEF Patient
<1>1. Exchange /\ Camera BY Zenon DEF Patient
<1>2. Exchange' BY <1>1, Zenon DEF Exchange, Alone, OneExchange, Rounds, Active
<1>3. UNCHANGED <<cameras, localStream, sender, ws, socket, ui, calls, pc, srv, c2s>> BY Zenon
<1>4. Camera' BY <1>1, <1>3, CameraStill, Zenon
<1> QED BY <1>2, <1>4

LEMMA NextPatient == ASSUME Typed, Begun, Patient, [Next]_vars PROVE Patient'
<1>1. CASE Next BY <1>1, NextExchange, NextCamera DEF Patient
<1>2. CASE UNCHANGED vars BY <1>2, StutterPatient
<1> QED BY <1>1, <1>2

LEMMA PatientAlways == Spec => [](Typed /\ Begun /\ Patient)
<1>1. Init => Typed /\ Begun /\ Patient BY InitTyped, InitBegun, InitPatient
<1>2. Typed /\ Begun /\ Patient /\ [Next]_vars => (Typed /\ Begun /\ Patient)'
  BY NextTyped, NextBegun, NextPatient
<1> QED BY <1>1, <1>2, PTL DEF Spec

\* At rest exactly one camera runs while the sender is registered under the path, and
\* none otherwise, and the server's publisher is gone with it; through a refused
\* camera, a disconnect, and a publish and an unpublish in a row (startPublishing,
\* stopPublishing, cleanup, handlePublish, handleUnpublish).
THEOREM CameraFollowsPublishing == Spec => []CameraWhilePublishing
<1>1. ASSUME Patient, patient, Quiet
      PROVE  /\ cameras = (IF sender = "path" THEN 1 ELSE 0)
             /\ (socket = "open" /\ srv.publisher) => sender = "path"
  <2>1. Camera BY <1>1 DEF Patient
  <2>2. c2s = <<>> /\ \A k \in Slots : ~ Active(k) BY <1>1, IdleActive, Zenon
  <2>3. \A k \in Slots : ~ Changing(k) BY <2>2, Zenon DEF Changing
  <2>4. ~ Has(c2s, {"unpublish"}) BY <2>2, QueueEmpty, Zenon
  <2>5. localStream <=> sender = "path" BY <2>1, <2>3, Zenon DEF Camera, Rested
  <2>6. cameras = IF localStream THEN 1 ELSE 0 BY <2>1 DEF Camera, OneCamera
  <2>7. (socket = "open" /\ srv.publisher) => sender = "path"
    BY <2>1, <2>2, <2>4, Zenon DEF Camera, Published
  <2> QED BY <2>5, <2>6, <2>7
<1>2. Patient => CameraWhilePublishing BY <1>1 DEF CameraWhilePublishing
<1> QED BY <1>2, PatientAlways, PTL

===============================================================================
