--------------------- MODULE BatchV2Subscriptions_proofs ---------------------
(***************************************************************************)
(* The list of the client, its map and its transceivers against the        *)
(* subscribers and the senders of the server, for a user who waits.        *)
(***************************************************************************)
EXTENDS BatchV2Client_proofs

Hears(dirs, i) == i \in 1 .. Len(dirs) /\ Receives(dirs[i])
Carries(seq, i, s) == i \in 1 .. Len(seq) /\ seq[i] = s
Within(d, e) == \A i \in 1 .. Len(d) : Receives(d[i]) => Hears(e, i)

Calling(kinds, s) == \E k \in Slots : Active(k) /\ calls[k].kind \in kinds /\ s \in calls[k].streams
Awaiting(s) == \E k \in Slots : Active(k) /\ calls[k].kind = "switch" /\ s \in subscribed \ calls[k].previous
Told(type, s) == \E m \in Elems(c2s) : m.type = type /\ s \in m.streams

\* A stream that the server has to be told to add; one off the list that it still
\* has to be told of; such a one, or one about to be taken off the list.
Coming(s) == Calling({"subscribe"}, s) \/ Awaiting(s) \/ Told("subscribe", s)
Gone(s) == Calling({"switch"}, s) \/ Told("unsubscribe", s)
Leaving(s) == Calling({"switch", "unsubscribe"}, s) \/ Told("unsubscribe", s)

\* What the server lacks of the list is under way, refused or passed over.
Lists ==
    \A s \in subscribed :
       /\ ~ Gone(s)
       /\ s \in srv.subs \cup Refusable \cup skipped \/ Coming(s)

\* Whatever is sent has a subscriber.
Placed ==
    /\ \A i \in 1 .. Len(srv.senders) : srv.senders[i] \in srv.subs \cup {None}
    /\ srv.stage # "loop" => srv.senders = <<>>

\* The stream s is sent and heard on transceiver i, now and after every message
\* that is on its way.
Heeded(i) == \A m \in Elems(c2s) : m.type \in Offering => Hears(m.offer.dirs, i)
Borne(s, i) == \A m \in Elems(s2c) : m.type = "answer" => Carries(m.sending, i, s)

Leads(s, i) ==
    /\ Carries(pc.recv, i, s) /\ Carries(srv.senders, i, s)
    /\ Hears(pc.dirs, i) /\ Hears(pc.local.dirs, i)
    /\ ~ Leaving(s) /\ Heeded(i) /\ Borne(s, i)

Mapped == \A s \in Streams : map[s] # 0 => Leads(s, map[s])

\* The offers against the transceivers: the one just created, the one set, those
\* on their way.
Drawn == \A k \in Slots : Active(k) /\ calls[k].stage = "local" => pc.created = pc.dirs

Underway ==
    (Has(c2s, Offering) \/ Has(s2c, Answers) \/ \E k \in Slots : Active(k) /\ calls[k].stage = "ice")
       => Within(pc.local.dirs, pc.dirs)

Asked ==
    \A m \in Elems(c2s) : m.type \in Offering =>
       Within(m.offer.dirs, pc.local.dirs) /\ (m.type # "unsubscribe" => m.offer = pc.local)

\* An answer on its way tells of what is still sent and listened to, and so does
\* the answer after it: the second round of a switch takes nothing away.
Answering ==
    \A m \in Elems(s2c) : m.type = "answer" =>
       \A s \in Streams : \A i \in 1 .. Len(m.sending) : m.sending[i] = s =>
          Carries(srv.senders, i, s) /\ Hears(pc.local.dirs, i)

InTurn ==
    \A p, q \in 1 .. Len(s2c) : p < q /\ s2c[p].type = "answer" /\ s2c[q].type = "answer" =>
       \A s \in Streams : \A i \in 1 .. Len(s2c[p].sending) :
           s2c[p].sending[i] = s => Carries(s2c[q].sending, i, s)

\* An unsubscription goes before all other requests and answers.
FirstOut ==
    /\ Has(c2s, {"unsubscribe"}) => ~ Has(s2c, Answers)
    /\ \A p, q \in 1 .. Len(c2s) : c2s[q].type = "unsubscribe" /\ c2s[p].type \in Asks => q <= p

Maps == Placed /\ Mapped /\ Drawn /\ Underway /\ Asked /\ Answering /\ InTurn /\ FirstOut

Subscriptions ==
    /\ pc = None => subscribed = {}
    /\ (patient /\ pc # None) => Lists /\ Maps

-------------------------------------------------------------------------------
(***************************************************************************)
(* Directions.                                                             *)
(***************************************************************************)
LEMMA WithinFacts ==
    /\ \A d : Within(d, d)
    /\ \A d, e, f : Within(d, e) /\ Within(e, f) => Within(d, f)
    /\ \A d, e, i : Within(d, e) /\ Hears(d, i) => Hears(e, i)
<1>1. \A d : Within(d, d) BY Zenon DEF Within, Hears
<1>2. \A d, e, i : Within(d, e) /\ Hears(d, i) => Hears(e, i) BY Zenon DEF Within, Hears
<1>3. \A d, e, f : Within(d, e) /\ Within(e, f) => Within(d, f) BY Zenon DEF Within, Hears
<1> QED BY <1>1, <1>2, <1>3, Zenon

LEMMA PaddedCarries ==
    ASSUME NEW recv \in Seq(Carried), NEW dirs \in Seq(Direction), NEW i \in 1 .. Len(dirs), NEW s,
           Carries(recv, i, s)
    PROVE  Carries(Padded(recv, dirs), i, s)
<1>1. PICK r : r = Padded(recv, dirs) OBVIOUS
<1>2. Len(r) = Len(dirs) /\ \A j \in 1 .. Len(dirs) : r[j] = IF j <= Len(recv) THEN recv[j] ELSE None
  BY <1>1, PaddedTyped, Zenon
<1>3. Len(recv) \in Nat /\ Len(dirs) \in Nat BY SeqFacts
<1>4. Carries(r, i, s) BY <1>2, <1>3 DEF Carries
<1> QED BY <1>1, <1>4

LEMMA ActivatedWidens ==
    ASSUME NEW dirs \in Seq(Direction), NEW n \in Nat
    PROVE  Within(dirs, Activated(dirs, n))
<1>1. PICK e : e = Activated(dirs, n) OBVIOUS
<1>2. PICK l \in Nat : l = More(dirs, n) BY ActivatedTyped, Zenon
<1>3. /\ Len(e) = Len(dirs) + l
      /\ \A i \in 1 .. Len(dirs) + l : e[i] =
            IF i > Len(dirs) \/ (i \in Inactive(dirs) /\ Behind(dirs, i) < n) THEN "recvonly" ELSE dirs[i]
  BY <1>1, <1>2, ActivatedTyped, Zenon
<1>4. Len(dirs) \in Nat BY SeqFacts
<1>5. ASSUME NEW i \in 1 .. Len(dirs), Receives(dirs[i]) PROVE Hears(e, i)
  <2>1. i \in 1 .. Len(dirs) + l /\ i \in 1 .. Len(e) BY <1>3, <1>4
  <2>2. e[i] = "recvonly" \/ e[i] = dirs[i] BY <1>3, <2>1, Zenon
  <2>3. Receives(e[i]) BY <1>5, <2>2 DEF Receives
  <2> QED BY <2>1, <2>3 DEF Hears
<1>6. Within(dirs, e) BY <1>5, Zenon DEF Within
<1> QED BY <1>1, <1>6

(***************************************************************************)
(* The types of what the invariant speaks of.                              *)
(***************************************************************************)
LEMMA Shapes ==
    ASSUME Typed, pc # None
    PROVE  /\ pc \in Connection /\ pc.dirs \in Seq(Direction) /\ Len(pc.dirs) \in Nat
           /\ pc.recv \in Seq(Carried) /\ Len(pc.recv) = Len(pc.dirs)
           /\ pc.local \in Description /\ pc.local.dirs \in Seq(Direction) /\ Len(pc.local.dirs) \in Nat
           /\ map \in [Streams -> Nat] /\ \A s \in Streams : map[s] \in 0 .. Len(pc.dirs)
           /\ subscribed \in SUBSET Streams /\ c2s \in Seq(Request) /\ s2c \in Seq(Reply)
<1>1. pc \in Connection /\ Len(pc.recv) = Len(pc.dirs) /\ \A s \in Streams : map[s] \in 0 .. Len(pc.dirs)
  BY Zenon DEF Typed, PcOK
<1>2. map \in [Streams -> Nat] /\ subscribed \in SUBSET Streams /\ c2s \in Seq(Request) /\ s2c \in Seq(Reply)
  BY Zenon DEF Typed, PcOK, Plain, MessagesOK
<1>3. pc.dirs \in Seq(Direction) /\ pc.recv \in Seq(Carried) /\ pc.local \in Description
  BY <1>1, ConnectionFacts
<1>4. pc.local.dirs \in Seq(Direction) BY <1>3 DEF Description
<1>5. Len(pc.dirs) \in Nat /\ Len(pc.local.dirs) \in Nat BY <1>3, <1>4, SeqFacts
<1> QED BY <1>1, <1>2, <1>3, <1>4, <1>5, Zenon

LEMMA Sending ==
    ASSUME Typed
    PROVE  /\ srv.senders \in Seq(Carried) /\ Len(srv.senders) \in Nat /\ srv.subs \in SUBSET Streams
           /\ None \notin Streams
<1>1. srv.senders \in Seq(Carried) /\ srv.subs \in SUBSET Streams BY HandlerFacts DEF Typed
<1>2. Len(srv.senders) \in Nat BY <1>1, SeqFacts
<1>3. None \notin Streams BY BatchV2Assumption
<1> QED BY <1>1, <1>2, <1>3

-------------------------------------------------------------------------------
(***************************************************************************)
(* Steps of the client that turn no transceiver off.                       *)
(***************************************************************************)
\* The connection keeps what it receives, and its offer is the old one or one of
\* the transceivers as they were.
Kept ==
    /\ pc' # None /\ map' = map /\ s2c' = s2c
    /\ srv'.subs = srv.subs /\ srv'.senders = srv.senders /\ srv'.stage = srv.stage
    /\ \A i, s : Carries(pc.recv, i, s) => Carries(pc'.recv, i, s)
    /\ Within(pc.dirs, pc'.dirs)
    /\ \/ pc'.local = pc.local
       \/ pc'.local.dirs = pc.dirs /\ ~ Has(c2s, Asks \ {"unsubscribe"})
    /\ \A s \in Streams : Leaving(s)' => Leaving(s)

\* Nothing is sent, or m, which carries the offer that is set.
Sends(m) ==
    \/ c2s' = c2s
    \/ /\ m \in Request /\ c2s \in Seq(Request) /\ c2s' = Append(c2s, m)
       /\ m.type \in Offering => m.offer = pc'.local
       /\ m.type = "unsubscribe" => ~ Has(c2s, Asks) /\ ~ Has(s2c, Answers)

LEMMA SentFirstOut ==
    ASSUME Maps, NEW m, Sends(m), s2c' = s2c
    PROVE  FirstOut'
<1>1. FirstOut BY DEF Maps
<1>2. CASE c2s' = c2s BY <1>1, <1>2, Zenon DEF FirstOut
<1>3. CASE c2s' # c2s
  <2>1. /\ m \in Request /\ c2s \in Seq(Request) /\ c2s' = Append(c2s, m)
        /\ m.type = "unsubscribe" => ~ Has(c2s, Asks) /\ ~ Has(s2c, Answers)
    BY <1>3, Zenon DEF Sends
  <2>2. Has(c2s', {"unsubscribe"}) <=> Has(c2s, {"unsubscribe"}) \/ m.type \in {"unsubscribe"}
    BY <2>1, QueueAppend, Zenon
  <2>3. Has(c2s', {"unsubscribe"}) => ~ Has(s2c', Answers) BY <1>1, <2>1, <2>2 DEF FirstOut
  <2>4. /\ Len(c2s) \in Nat /\ Len(c2s') = Len(c2s) + 1
        /\ \A i \in 1 .. Len(c2s) : c2s'[i] = c2s[i]
        /\ c2s'[Len(c2s) + 1] = m
    BY <2>1, Appended, SeqFacts
  <2>5. ASSUME NEW p \in 1 .. Len(c2s'), NEW q \in 1 .. Len(c2s'),
               c2s'[q].type = "unsubscribe", c2s'[p].type \in Asks
        PROVE  q <= p
    <3>1. CASE p = Len(c2s) + 1 BY <2>4, <3>1
    <3>2. CASE p # Len(c2s) + 1
      <4>1. p \in 1 .. Len(c2s) /\ c2s[p].type \in Asks BY <2>4, <2>5, <3>2
      <4>2. Has(c2s, Asks) BY <4>1 DEF Has, Elems
      <4>3. q # Len(c2s) + 1 BY <2>1, <2>4, <2>5, <4>2
      <4>4. q \in 1 .. Len(c2s) /\ c2s[q].type = "unsubscribe" BY <2>4, <2>5, <4>3
      <4> QED BY <1>1, <4>1, <4>4, Zenon DEF FirstOut
    <3> QED BY <3>1, <3>2
  <2> QED BY <2>3, <2>5, Zenon DEF FirstOut
<1> QED BY <1>2, <1>3

LEMMA KeptMaps ==
    ASSUME Maps, Kept, NEW m, Sends(m), Drawn', Underway'
    PROVE  Maps'
<1>1. Placed /\ Mapped /\ Underway /\ Asked /\ Answering /\ InTurn BY DEF Maps
<1>2. /\ map' = map /\ s2c' = s2c
      /\ srv'.subs = srv.subs /\ srv'.senders = srv.senders /\ srv'.stage = srv.stage
  BY DEF Kept
<1>3. /\ \A d : Within(d, d)
      /\ \A d, e, f : Within(d, e) /\ Within(e, f) => Within(d, f)
      /\ \A d, e, i : Within(d, e) /\ Hears(d, i) => Hears(e, i)
  BY WithinFacts, Zenon
<1>4. (Has(c2s, Offering) \/ Has(s2c, Answers)) => Within(pc.local.dirs, pc'.local.dirs)
  <2>1. CASE pc'.local = pc.local BY <1>3, <2>1, Zenon
  <2>2. CASE pc'.local # pc.local
    <3>1. pc'.local.dirs = pc.dirs BY <2>2, Zenon DEF Kept
    <3> QED BY <1>1, <3>1, Zenon DEF Underway
  <2> QED BY <2>1, <2>2
<1>5. \A x \in Elems(c2s') : x.type \in Offering => x \in Elems(c2s) \/ x.offer = pc'.local
  <2>1. CASE c2s' = c2s BY <2>1, Zenon
  <2>2. CASE c2s' # c2s
    <3>1. /\ m \in Request /\ c2s \in Seq(Request) /\ c2s' = Append(c2s, m)
          /\ m.type \in Offering => m.offer = pc'.local
      BY <2>2, Zenon DEF Sends
    <3>2. Elems(c2s') = Elems(c2s) \cup {m} BY <3>1, QueueAppend, Zenon
    <3> QED BY <3>1, <3>2
  <2> QED BY <2>1, <2>2
<1>6. Placed' BY <1>1, <1>2, Zenon DEF Placed
<1>7. Mapped'
  <2>1. ASSUME NEW s \in Streams, NEW i, Leads(s, i) PROVE Leads(s, i)'
    <3>1. /\ Carries(pc.recv, i, s) /\ Carries(srv.senders, i, s)
          /\ Hears(pc.dirs, i) /\ Hears(pc.local.dirs, i)
          /\ ~ Leaving(s) /\ Heeded(i) /\ Borne(s, i)
      BY <2>1, Zenon DEF Leads
    <3>2. Carries(pc'.recv, i, s) /\ Carries(srv'.senders, i, s) BY <1>2, <3>1, Zenon DEF Kept
    <3>3. Hears(pc'.dirs, i) BY <1>3, <3>1, Zenon DEF Kept
    <3>4. Hears(pc'.local.dirs, i)
      <4>1. pc'.local = pc.local \/ pc'.local.dirs = pc.dirs BY Zenon DEF Kept
      <4> QED BY <3>1, <4>1
    <3>5. ~ Leaving(s)' BY <3>1, Zenon DEF Kept
    <3>6. Heeded(i)'
      <4>1. ASSUME NEW x \in Elems(c2s'), x.type \in Offering PROVE Hears(x.offer.dirs, i)
        BY <1>5, <3>1, <3>4, <4>1, Zenon DEF Heeded
      <4> QED BY <4>1, Zenon DEF Heeded
    <3>7. Borne(s, i)' BY <1>2, <3>1, Zenon DEF Borne
    <3> QED BY <3>2, <3>3, <3>4, <3>5, <3>6, <3>7, Zenon DEF Leads
  <2> QED BY <1>1, <1>2, <2>1, Zenon DEF Mapped
<1>8. Asked'
  <2>1. ASSUME NEW x \in Elems(c2s'), x.type \in Offering
        PROVE  Within(x.offer.dirs, pc'.local.dirs) /\ (x.type # "unsubscribe" => x.offer = pc'.local)
    <3>1. CASE x.offer = pc'.local BY <1>3, <3>1, Zenon
    <3>2. CASE x \in Elems(c2s)
      <4>1. Within(x.offer.dirs, pc.local.dirs) /\ (x.type # "unsubscribe" => x.offer = pc.local)
        BY <1>1, <2>1, <3>2, Zenon DEF Asked
      <4>2. Has(c2s, Offering) BY <2>1, <3>2, Zenon DEF Has
      <4>3. Within(x.offer.dirs, pc'.local.dirs) BY <1>3, <1>4, <4>1, <4>2, Zenon
      <4>4. x.type # "unsubscribe" => pc'.local = pc.local
        <5>1. ASSUME x.type # "unsubscribe" PROVE Has(c2s, Asks \ {"unsubscribe"})
          <6>1. x.type \in Asks \ {"unsubscribe"} BY <2>1, <5>1, AsksOffer
          <6> QED BY <3>2, <6>1, Zenon DEF Has
        <5> QED BY <5>1, Zenon DEF Kept
      <4> QED BY <4>1, <4>3, <4>4, Zenon
    <3> QED BY <1>5, <2>1, <3>1, <3>2, Zenon
  <2> QED BY <2>1, Zenon DEF Asked
<1>9. Answering'
  <2>1. ASSUME NEW x \in Elems(s2c), x.type = "answer", NEW s \in Streams, NEW i \in 1 .. Len(x.sending),
               x.sending[i] = s
        PROVE  Carries(srv.senders, i, s) /\ Hears(pc'.local.dirs, i)
    <3>1. Carries(srv.senders, i, s) /\ Hears(pc.local.dirs, i) BY <1>1, <2>1, Zenon DEF Answering
    <3>2. Has(s2c, Answers) BY <2>1 DEF Has, Answers
    <3> QED BY <1>3, <1>4, <3>1, <3>2, Zenon
  <2> QED BY <1>2, <2>1, Zenon DEF Answering
<1>10. InTurn' BY <1>1, <1>2, Zenon DEF InTurn
<1>11. FirstOut' BY <1>2, SentFirstOut, Zenon
<1> QED BY <1>6, <1>7, <1>8, <1>9, <1>10, <1>11, Zenon DEF Maps

-------------------------------------------------------------------------------
(***************************************************************************)
(* The one method under way.                                               *)
(***************************************************************************)
LEMMA OneCall ==
    ASSUME NEW k \in Slots, NEW c, Put(k, c), \A j \in Slots : Active(j) => j = k
    PROVE  /\ \A j \in Slots : Active(j)' <=> (j = k /\ c # Idle)
           /\ \A j \in Slots : Active(j)' => calls'[j] = c
           /\ \A kinds, s : Calling(kinds, s)' <=> (c # Idle /\ c.kind \in kinds /\ s \in c.streams)
           /\ \A s : Awaiting(s)' <=> (c # Idle /\ c.kind = "switch" /\ s \in subscribed' \ c.previous)
<1>1. \A j \in Slots : calls'[j] = IF j = k THEN c ELSE calls[j] BY DEF Put
<1>2. \A j \in Slots : j # k => calls[j] = Idle BY DEF Active
<1>3. calls'[k] = c /\ \A j \in Slots : j # k => calls'[j] = Idle BY <1>1, <1>2, Zenon
<1>4. \A j \in Slots : Active(j)' <=> (j = k /\ c # Idle) BY <1>3, Zenon DEF Active
<1>5. \A kinds, s : Calling(kinds, s)' <=> (c # Idle /\ c.kind \in kinds /\ s \in c.streams)
  BY <1>3, <1>4, Zenon DEF Calling
<1>6. \A s : Awaiting(s)' <=> (c # Idle /\ c.kind = "switch" /\ s \in subscribed' \ c.previous)
  BY <1>3, <1>4, Zenon DEF Awaiting
<1>7. \A j \in Slots : Active(j)' => calls'[j] = c BY <1>3, <1>4, Zenon
<1> QED BY <1>4, <1>5, <1>6, <1>7

LEMMA OnlyCall ==
    ASSUME NEW k \in Slots, Active(k), \A j \in Slots : Active(j) => j = k
    PROVE  /\ \A kinds, s : Calling(kinds, s) <=> (calls[k].kind \in kinds /\ s \in calls[k].streams)
           /\ \A s : Awaiting(s) <=> (calls[k].kind = "switch" /\ s \in subscribed \ calls[k].previous)
<1>1. \A kinds, s : Calling(kinds, s) <=> (calls[k].kind \in kinds /\ s \in calls[k].streams)
  BY Zenon DEF Calling
<1>2. \A s : Awaiting(s) <=> (calls[k].kind = "switch" /\ s \in subscribed \ calls[k].previous)
  BY Zenon DEF Awaiting
<1> QED BY <1>1, <1>2

LEMMA NoCall ==
    ASSUME \A j \in Slots : ~ Active(j)
    PROVE  (\A kinds, s : ~ Calling(kinds, s)) /\ \A s : ~ Awaiting(s)
BY Zenon DEF Calling, Awaiting

Asker(c) == c # Idle /\ c.kind \in {"subscribe", "unsubscribe", "switch"}

\* The calls c and d say the same of the streams.
Akin(c, d) ==
    /\ Asker(c) <=> Asker(d)
    /\ Asker(c) => d.kind = c.kind /\ d.streams = c.streams /\ (c.kind = "switch" => d.previous = c.previous)

Unmoved == \A s : (Gone(s)' <=> Gone(s)) /\ (Leaving(s)' <=> Leaving(s)) /\ (Coming(s)' <=> Coming(s))

LEMMA SameSets ==
    ASSUME \A j \in Slots : Akin(calls[j], calls'[j]), subscribed' = subscribed,
           \A x : x.type \in {"subscribe", "unsubscribe"} => (x \in Elems(c2s') <=> x \in Elems(c2s))
    PROVE  Unmoved
<1>1. ASSUME NEW j \in Slots, NEW kinds \in SUBSET {"subscribe", "unsubscribe", "switch"}
      PROVE  /\ Active(j) /\ calls[j].kind \in kinds <=> Active(j)' /\ calls'[j].kind \in kinds
             /\ Active(j) /\ calls[j].kind \in kinds => calls'[j].streams = calls[j].streams
  BY DEF Akin, Asker, Active
<1>2. \A kinds \in SUBSET {"subscribe", "unsubscribe", "switch"} : \A s :
         Calling(kinds, s)' <=> Calling(kinds, s)
  BY <1>1, Zenon DEF Calling
<1>3. \A s : Awaiting(s)' <=> Awaiting(s)
  <2>1. \A j \in Slots :
           /\ Active(j) /\ calls[j].kind = "switch" <=> Active(j)' /\ calls'[j].kind = "switch"
           /\ Active(j) /\ calls[j].kind = "switch" => calls'[j].previous = calls[j].previous
    BY DEF Akin, Asker, Active
  <2> QED BY <2>1, Zenon DEF Awaiting
<1>4. \A type \in {"subscribe", "unsubscribe"} : \A s : Told(type, s)' <=> Told(type, s)
  BY DEF Told
<1>5. /\ {"subscribe"} \in SUBSET {"subscribe", "unsubscribe", "switch"}
      /\ {"switch"} \in SUBSET {"subscribe", "unsubscribe", "switch"}
      /\ {"switch", "unsubscribe"} \in SUBSET {"subscribe", "unsubscribe", "switch"}
      /\ "subscribe" \in {"subscribe", "unsubscribe"} /\ "unsubscribe" \in {"subscribe", "unsubscribe"}
  OBVIOUS
<1>6. \A s : Gone(s)' <=> Gone(s) BY <1>2, <1>4, <1>5, Zenon DEF Gone
<1>7. \A s : Leaving(s)' <=> Leaving(s) BY <1>2, <1>4, <1>5, Zenon DEF Leaving
<1>8. \A s : Coming(s)' <=> Coming(s) BY <1>2, <1>3, <1>4, <1>5, Zenon DEF Coming
<1> QED BY <1>6, <1>7, <1>8, Zenon DEF Unmoved

LEMMA UnmovedLists ==
    ASSUME Lists, Unmoved, subscribed' = subscribed, srv'.subs = srv.subs, skipped' = skipped
    PROVE  Lists'
BY Zenon DEF Lists, Unmoved

LEMMA AkinPut ==
    ASSUME NEW k \in Slots, NEW c, Put(k, c), Akin(calls[k], c)
    PROVE  \A j \in Slots : Akin(calls[j], calls'[j])
<1>1. \A d : Akin(d, d) BY DEF Akin
<1> QED BY <1>1, Zenon DEF Put

LEMMA SteppedAkin ==
    ASSUME NEW c, NEW d, NEW stage, c # Idle, Stepped(c, d, stage)
    PROVE  Akin(c, d)
BY DEF Stepped, Akin, Asker

LEMMA PlainAkin == ASSUME NEW c, NEW d, ~ Asker(c), ~ Asker(d) PROVE Akin(c, d)
BY Zenon DEF Akin

\* A method goes on, and nothing is sent.
LEMMA SteppedAgrees ==
    ASSUME Lists, Maps, NEW k \in Slots, NEW c, Put(k, c), \A j \in Slots : Active(j) => j = k,
           Akin(calls[k], c), UNCHANGED <<subscribed, map, srv, c2s, s2c, skipped>>,
           pc' # None, pc'.dirs = pc.dirs, pc'.recv = pc.recv,
           pc'.local = pc.local \/ (pc'.local.dirs = pc.dirs /\ ~ Has(c2s, Asks \ {"unsubscribe"})),
           c # Idle /\ c.stage = "local" => pc'.created = pc'.dirs,
           c # Idle /\ c.stage = "ice" => pc'.local.dirs = pc.dirs
    PROVE  Lists' /\ Maps'
<1>1. \A j \in Slots : Active(j)' => c # Idle /\ calls'[j] = c BY OneCall, SMT
<1>2. Drawn' BY <1>1, Zenon DEF Drawn
<1>3. \A j \in Slots : Akin(calls[j], calls'[j]) BY AkinPut, Zenon
<1>4. Unmoved BY <1>3, SameSets, Zenon
<1>5. Lists' BY <1>4, UnmovedLists, Zenon
<1>6. Underway'
  <2>1. ASSUME Has(c2s, Offering) \/ Has(s2c, Answers) \/ \E j \in Slots : Active(j)' /\ calls'[j].stage = "ice"
        PROVE  Within(pc'.local.dirs, pc'.dirs)
    <3>1. CASE pc'.local.dirs = pc.dirs BY <3>1, WithinFacts, Zenon
    <3>2. CASE pc'.local.dirs # pc.dirs
      <4>1. pc'.local = pc.local BY <3>2
      <4>2. Has(c2s, Offering) \/ Has(s2c, Answers) BY <1>1, <2>1, <3>2, Zenon
      <4> QED BY <4>1, <4>2, Zenon DEF Maps, Underway
    <3> QED BY <3>1, <3>2
  <2> QED BY <2>1, Zenon DEF Underway
<1>7. Kept BY <1>4, WithinFacts, Zenon DEF Kept, Unmoved
<1>8. Sends(c) BY Zenon DEF Sends
<1>9. Maps' BY <1>2, <1>6, <1>7, <1>8, KeptMaps, Zenon
<1> QED BY <1>5, <1>9

-------------------------------------------------------------------------------
(***************************************************************************)
(* The stages of a method.                                                 *)
(***************************************************************************)
\* The camera comes or a track is replaced.
LEMMA TrackAgrees ==
    ASSUME Typed, Exchange, Lists, Maps, NEW k \in Slots, getUserMedia(k) \/ replaceTrack(k)
    PROVE  Lists' /\ Maps'
<1>1. /\ pc' = pc /\ UNCHANGED <<subscribed, map, srv, c2s, s2c, skipped>>
  BY Zenon DEF getUserMedia, replaceTrack, server, history
<1>2. PICK c : /\ Active(k) /\ Put(k, c) /\ calls[k].kind \in {"publish", "unpublish"}
               /\ c = Idle \/ Stepped(calls[k], c, "create") \/ Stepped(calls[k], c, "replace")
  <2>1. CASE getUserMedia(k)
    <3>1. PICK c : UserMedia(k, c) BY <2>1, UserMediaBy
    <3>2. calls[k].kind \in {"publish", "unpublish"} BY <3>1 DEF UserMedia
    <3> QED BY <3>1, <3>2, Zenon DEF UserMedia
  <2>2. CASE replaceTrack(k)
    <3>1. PICK c : Replaced(k, c) BY <2>2, ReplacedBy
    <3>2. calls[k].kind \in {"publish", "unpublish"} BY <3>1 DEF Replaced
    <3> QED BY <3>1, <3>2, Zenon DEF Replaced
  <2> QED BY <2>1, <2>2
<1>3. \A j \in Slots : Active(j) => j = k BY <1>2, Zenon DEF Exchange, Alone
<1>4. Akin(calls[k], c)
  <2>1. ~ Asker(calls[k]) /\ ~ Asker(Idle) BY <1>2 DEF Asker
  <2>2. calls[k] # Idle BY <1>2, Zenon DEF Active
  <2> QED BY <1>2, <2>1, <2>2, PlainAkin, SteppedAkin, Zenon
<1>5. c # Idle => c.stage \notin {"local", "ice"} BY <1>2 DEF Stepped
<1>6. pc' # None BY <1>1, <1>2, Zenon DEF Exchange, Alone
<1>7. /\ c # Idle /\ c.stage = "local" => pc'.created = pc'.dirs
      /\ c # Idle /\ c.stage = "ice" => pc'.local.dirs = pc.dirs
  BY <1>5
<1> QED BY <1>1, <1>2, <1>3, <1>4, <1>6, <1>7, SteppedAgrees, Zenon

LEMMA CreateOfferAgrees ==
    ASSUME Typed, Exchange, Lists, Maps, NEW k \in Slots, createOffer(k) PROVE Lists' /\ Maps'
<1>1. UNCHANGED <<subscribed, map, srv, c2s, s2c, skipped>> BY Zenon DEF createOffer, server, history
<1>2. PICK c : Created(k, c) BY CreatedBy
<1>3. /\ Active(k) /\ Put(k, c) /\ Stepped(calls[k], c, "local") /\ pc' # None
      /\ pc'.dirs = pc.dirs /\ pc'.recv = pc.recv /\ pc'.created = pc.dirs /\ pc'.local = pc.local
  BY <1>2, Zenon DEF Created
<1>4. \A j \in Slots : Active(j) => j = k BY <1>3, Zenon DEF Exchange, Alone
<1>5. Akin(calls[k], c)
  <2>1. calls[k] # Idle BY <1>3, Zenon DEF Active
  <2> QED BY <1>3, <2>1, SteppedAkin, Zenon
<1>6. c.stage # "ice" BY <1>3 DEF Stepped
<1> QED BY <1>1, <1>3, <1>4, <1>5, <1>6, SteppedAgrees, Zenon

\* Where a request is sent from: the connection and its offer, and the queues.
Ready(k, p) ==
    /\ p \in Connection /\ p.dirs = pc.dirs /\ p.recv = pc.recv
    /\ Within(p.local.dirs, pc.dirs)
    /\ p.local = pc.local \/ (p.local.dirs = pc.dirs /\ ~ Has(c2s, Asks \ {"unsubscribe"}))
    /\ calls[k].kind # "subscribe" => ~ Has(c2s, Asks) /\ ~ Has(s2c, Answers)

LEMMA ProceededWidens ==
    ASSUME Typed, pc # None, NEW k, NEW p, NEW m, NEW c, Proceeded(k, p, m, c), Ready(k, p)
    PROVE  Within(pc.dirs, pc'.dirs) /\ \A i, s : Carries(pc.recv, i, s) => Carries(pc'.recv, i, s)
<1>1. CASE calls[k].kind # "switch"
  <2>1. pc'.dirs = pc.dirs /\ pc'.recv = pc.recv BY <1>1, Zenon DEF Proceeded, Ready
  <2> QED BY <2>1, WithinFacts, Zenon
<1>2. CASE calls[k].kind = "switch"
  <2>1. PICK old \in Seq(Direction), recv \in Seq(Carried) :
           old = pc.dirs /\ recv = pc.recv /\ Len(recv) = Len(old)
    BY Shapes, Zenon
  <2>2. PICK new : new = subscribed \ calls[k].previous OBVIOUS
  <2>3. PICK n \in Nat : n = Cardinality(new)
    <3>1. new \in SUBSET Streams BY <2>2, Shapes
    <3> QED BY <3>1, BatchV2Assumption, FS_Subset, FS_CardinalityType
  <2>4. PICK dirs : dirs = Activated(old, n) OBVIOUS
  <2>5. dirs \in Seq(Direction) /\ Len(dirs) >= Len(old) BY <2>4, ActivatedLonger
  <2>6. Redirected(pc', p, dirs) /\ p \in Connection
    BY <1>2, <2>1, <2>2, <2>3, <2>4, Zenon DEF Proceeded, Ready
  <2>7. pc'.dirs = dirs /\ pc'.recv = Padded(p.recv, dirs) BY <2>5, <2>6, WithDirsTyped, Zenon
  <2>8. Within(old, dirs) BY <2>4, ActivatedWidens, Zenon
  <2>9. ASSUME NEW i, NEW s, Carries(recv, i, s) PROVE Carries(Padded(recv, dirs), i, s)
    <3>1. i \in 1 .. Len(dirs) BY <2>1, <2>5, <2>9, SeqFacts DEF Carries
    <3> QED BY <2>5, <2>9, <3>1, PaddedCarries, Zenon
  <2> QED BY <2>1, <2>7, <2>8, <2>9, Zenon DEF Ready
<1> QED BY <1>1, <1>2

\* What the request m, of the method k, says to the server, and what remains of k.
LEMMA ProceededTells ==
    ASSUME Typed, Begun, Exchange, pc # None, NEW k \in Slots, Active(k),
           NEW p, NEW m, NEW c, Proceeded(k, p, m, c)
    PROVE  /\ \A type, s : Told(type, s)' <=> Told(type, s) \/ (m.type = type /\ s \in m.streams)
           /\ \A kinds, s : Calling(kinds, s)' <=>
                 /\ c # Idle /\ "subscribe" \in kinds /\ calls[k].kind = "switch"
                 /\ s \in subscribed \ calls[k].previous
           /\ \A s : ~ Awaiting(s)'
           /\ \A kinds, s : Calling(kinds, s) <=> (calls[k].kind \in kinds /\ s \in calls[k].streams)
           /\ \A s : Awaiting(s) <=> (calls[k].kind = "switch" /\ s \in subscribed \ calls[k].previous)
<1>1. c2s' = Append(c2s, m) /\ m \in Request /\ c2s \in Seq(Request) BY ProceededSends, Zenon
<1>2. Elems(c2s') = Elems(c2s) \cup {m} BY <1>1, QueueAppend, Zenon
<1>3. \A type, s : Told(type, s)' <=> Told(type, s) \/ (m.type = type /\ s \in m.streams)
  <2>1. \A x : x \in Elems(c2s') <=> x \in Elems(c2s) \/ x = m BY <1>2
  <2> QED BY <2>1, Zenon DEF Told
<1>4. \A j \in Slots : Active(j) => j = k BY Zenon DEF Exchange, Alone
<1>5. Put(k, c) BY DEF Proceeded
<1>6. /\ \A kinds, s : Calling(kinds, s)' <=> (c # Idle /\ c.kind \in kinds /\ s \in c.streams)
      /\ \A s : Awaiting(s)' <=> (c # Idle /\ c.kind = "switch" /\ s \in subscribed' \ c.previous)
  BY <1>4, <1>5, OneCall, Zenon
<1>7. c # Idle => /\ calls[k].kind = "switch" /\ c.kind = "subscribe"
                  /\ c.streams = subscribed \ calls[k].previous
  <2>1. Remains(k, c) BY ProceededCall, Zenon
  <2> QED BY <2>1, Zenon DEF Remains
<1>8. \A kinds, s : Calling(kinds, s)' <=>
         /\ c # Idle /\ "subscribe" \in kinds /\ calls[k].kind = "switch"
         /\ s \in subscribed \ calls[k].previous
  BY <1>6, <1>7, Zenon
<1>9. \A s : ~ Awaiting(s)'
  <2>1. c # Idle => c.kind # "switch" BY <1>7
  <2> QED BY <1>6, <2>1, Zenon
<1>10. /\ \A kinds, s : Calling(kinds, s) <=> (calls[k].kind \in kinds /\ s \in calls[k].streams)
       /\ \A s : Awaiting(s) <=> (calls[k].kind = "switch" /\ s \in subscribed \ calls[k].previous)
  BY <1>4, OnlyCall, Zenon
<1> QED BY <1>3, <1>8, <1>9, <1>10, Zenon

LEMMA SubscribeNone == ASSUME NEW S, Subscribe(S) = Idle PROVE S = {}
<1>1. ASSUME S # {} PROVE FALSE
  <2>1. Subscribe(S) = [kind |-> "subscribe", stage |-> "create", streams |-> S]
    BY <1>1, Zenon DEF Subscribe
  <2>2. Subscribe(S).kind = "subscribe" /\ Subscribe(S).kind = "none" BY <2>1 DEF Idle
  <2> QED BY <2>2
<1> QED BY <1>1

\* The type and the streams of the request m.
LEMMA ProceededRequest ==
    ASSUME Typed, NEW k \in Slots, Active(k), NEW p, NEW m, NEW c, Proceeded(k, p, m, c)
    PROVE  /\ m.type = "unsubscribe" <=> calls[k].kind \in {"unsubscribe", "switch"}
           /\ m.type = "subscribe" <=> calls[k].kind = "subscribe"
           /\ m.type \in {"subscribe", "unsubscribe"} => m.streams = calls[k].streams
           /\ m.type \in Offering => m.offer = pc'.local
           /\ calls[k].kind # "unsubscribe" => subscribed' = subscribed
           /\ calls[k].kind = "unsubscribe" => subscribed' = subscribed \ calls[k].streams
<1>1. CallOK(calls[k]) /\ calls[k] # Idle BY Zenon DEF Typed, CallsOK, Active
<1>2. calls[k].kind \in {"open", "publish", "unpublish", "subscribe", "unsubscribe", "switch"}
  BY <1>1, CallFacts
<1>3. m.type = (CASE calls[k].kind = "open" -> "offer" [] calls[k].kind = "switch" -> "unsubscribe"
                  [] OTHER -> calls[k].kind)
  BY Zenon DEF Proceeded
<1>4. calls[k].kind \in {"subscribe", "unsubscribe", "switch"} => m.streams = calls[k].streams
  BY Zenon DEF Proceeded
<1>5. m.type \in Offering => m.offer = pc'.local BY Zenon DEF Proceeded
<1>6. subscribed' = IF calls[k].kind = "unsubscribe" THEN subscribed \ calls[k].streams ELSE subscribed
  BY Zenon DEF Proceeded
<1> QED BY <1>2, <1>3, <1>4, <1>5, <1>6

LEMMA ProceededLists ==
    ASSUME Typed, Begun, Exchange, Lists, pc # None, NEW k \in Slots, Active(k),
           NEW p, NEW m, NEW c, Proceeded(k, p, m, c), srv' = srv, skipped' = skipped
    PROVE  Lists'
<1>1. /\ \A type, s : Told(type, s)' <=> Told(type, s) \/ (m.type = type /\ s \in m.streams)
      /\ \A kinds, s : Calling(kinds, s)' <=>
            /\ c # Idle /\ "subscribe" \in kinds /\ calls[k].kind = "switch"
            /\ s \in subscribed \ calls[k].previous
      /\ \A s : ~ Awaiting(s)'
      /\ \A kinds, s : Calling(kinds, s) <=> (calls[k].kind \in kinds /\ s \in calls[k].streams)
      /\ \A s : Awaiting(s) <=> (calls[k].kind = "switch" /\ s \in subscribed \ calls[k].previous)
  BY ProceededTells, Zenon
<1>2. /\ m.type = "unsubscribe" <=> calls[k].kind \in {"unsubscribe", "switch"}
      /\ m.type = "subscribe" <=> calls[k].kind = "subscribe"
      /\ m.type \in {"subscribe", "unsubscribe"} => m.streams = calls[k].streams
      /\ calls[k].kind # "unsubscribe" => subscribed' = subscribed
      /\ calls[k].kind = "unsubscribe" => subscribed' = subscribed \ calls[k].streams
  BY ProceededRequest, Zenon
<1>3. PICK new : new = subscribed \ calls[k].previous OBVIOUS
<1>4. calls[k].kind = "switch" /\ c = Idle => new = {}
  <2>1. calls[k].kind = "switch" => c = Subscribe(new) BY <1>3, Zenon DEF Proceeded
  <2> QED BY <2>1, SubscribeNone, Zenon
<1> SUFFICES ASSUME NEW s \in subscribed'
             PROVE  /\ ~ Gone(s)'
                    /\ s \in srv.subs \cup Refusable \cup skipped \/ Coming(s)'
  BY Zenon DEF Lists
<1>5. s \in subscribed /\ (calls[k].kind = "unsubscribe" => s \notin calls[k].streams) BY <1>2
<1>6. ~ Gone(s) /\ (s \in srv.subs \cup Refusable \cup skipped \/ Coming(s)) BY <1>5, Zenon DEF Lists
<1>7. ~ Gone(s)'
  <2>1. "subscribe" \notin {"switch"} /\ "switch" \in {"switch"} OBVIOUS
  <2>2. ~ Calling({"switch"}, s)' BY <1>1, <2>1, Zenon
  <2>3. ~ Told("unsubscribe", s) /\ ~ (calls[k].kind = "switch" /\ s \in calls[k].streams)
    BY <1>1, <1>6, <2>1, Zenon DEF Gone
  <2>4. ~ (m.type = "unsubscribe" /\ s \in m.streams) BY <1>2, <1>5, <2>3
  <2>5. ~ Told("unsubscribe", s)' BY <1>1, <2>3, <2>4, Zenon
  <2> QED BY <2>2, <2>5, Zenon DEF Gone
<1>8. ASSUME Coming(s) PROVE Coming(s)'
  <2>1. "subscribe" \in {"subscribe"} OBVIOUS
  <2>2. CASE Calling({"subscribe"}, s)
    <3>1. calls[k].kind \in {"subscribe"} /\ s \in calls[k].streams BY <1>1, <2>2, Zenon
    <3>2. m.type = "subscribe" /\ s \in m.streams BY <1>2, <3>1
    <3>3. Told("subscribe", s)' BY <1>1, <3>2, Zenon
    <3> QED BY <3>3, Zenon DEF Coming
  <2>3. CASE Awaiting(s)
    <3>1. calls[k].kind = "switch" /\ s \in new BY <1>1, <1>3, <2>3, Zenon
    <3>2. c # Idle BY <1>4, <3>1
    <3>3. Calling({"subscribe"}, s)' BY <1>1, <1>3, <2>1, <3>1, <3>2, Zenon
    <3> QED BY <3>3, Zenon DEF Coming
  <2>4. CASE Told("subscribe", s)
    <3>1. Told("subscribe", s)' BY <1>1, <2>4, Zenon
    <3> QED BY <3>1, Zenon DEF Coming
  <2> QED BY <1>8, <2>2, <2>3, <2>4, Zenon DEF Coming
<1> QED BY <1>6, <1>7, <1>8, Zenon

LEMMA ProceededMaps ==
    ASSUME Typed, Begun, Exchange, Maps, pc # None, NEW k \in Slots, Active(k),
           NEW p, NEW m, NEW c, Proceeded(k, p, m, c), Ready(k, p), UNCHANGED <<map, srv, s2c>>
    PROVE  Maps'
<1>1. c2s' = Append(c2s, m) /\ m \in Request /\ c2s \in Seq(Request) BY ProceededSends, Zenon
<1>2. /\ m.type = "unsubscribe" <=> calls[k].kind \in {"unsubscribe", "switch"}
      /\ m.type \in {"subscribe", "unsubscribe"} => m.streams = calls[k].streams
      /\ m.type \in Offering => m.offer = pc'.local
  BY ProceededRequest, Zenon
<1>3. Sends(m)
  <2>1. m.type = "unsubscribe" => calls[k].kind # "subscribe" BY <1>2
  <2> QED BY <1>1, <1>2, <2>1, Zenon DEF Sends, Ready
<1>4. Within(pc.dirs, pc'.dirs) /\ \A i, s : Carries(pc.recv, i, s) => Carries(pc'.recv, i, s)
  BY ProceededWidens, Zenon
<1>5. pc' # None /\ pc'.local = p.local BY Zenon DEF Proceeded
<1>6. \A s \in Streams : Leaving(s)' => Leaving(s)
  <2>1. ASSUME NEW s \in Streams, Leaving(s)' PROVE Leaving(s)
    <3>1. /\ ~ Calling({"switch", "unsubscribe"}, s)'
          /\ Told("unsubscribe", s)' <=> Told("unsubscribe", s) \/ (m.type = "unsubscribe" /\ s \in m.streams)
          /\ Calling({"switch", "unsubscribe"}, s) <=>
                (calls[k].kind \in {"switch", "unsubscribe"} /\ s \in calls[k].streams)
      <4>1. "subscribe" \notin {"switch", "unsubscribe"} OBVIOUS
      <4> QED BY <4>1, ProceededTells, Zenon
    <3>2. Told("unsubscribe", s) \/ (m.type = "unsubscribe" /\ s \in m.streams)
      BY <2>1, <3>1, Zenon DEF Leaving
    <3>3. m.type = "unsubscribe" /\ s \in m.streams => Calling({"switch", "unsubscribe"}, s)
      BY <1>2, <3>1
    <3> QED BY <3>2, <3>3, Zenon DEF Leaving
  <2> QED BY <2>1
<1>7. Kept BY <1>4, <1>5, <1>6, Zenon DEF Kept, Ready
<1>8. Underway'
  <2>1. Within(pc'.local.dirs, pc'.dirs) BY <1>4, <1>5, WithinFacts, Zenon DEF Ready
  <2> QED BY <2>1, Zenon DEF Underway
<1>9. Drawn'
  <2>1. Remains(k, c) BY ProceededCall, Zenon
  <2>2. \A j \in Slots : Active(j)' => calls'[j].stage = "create" BY <2>1, Zenon DEF Remains
  <2>3. \A j \in Slots : Active(j)' => calls'[j].stage # "local" BY <2>2
  <2> QED BY <2>3, Zenon DEF Drawn
<1> QED BY <1>3, <1>7, <1>8, <1>9, KeptMaps, Zenon

\* A description is set of the transceivers as they are.
LEMMA SetLocalDescriptionAgrees ==
    ASSUME Typed, Begun, Exchange, Lists, Maps, NEW k \in Slots, setLocalDescription(k)
    PROVE  Lists' /\ Maps'
<1>1. UNCHANGED <<map, srv, s2c, skipped>> BY Zenon DEF setLocalDescription, server, history
<1>2. /\ Active(k) /\ calls[k].stage = "local" /\ pc # None
      /\ (calls[k].offer # pc.created \/ \E p : LocalSet(k, p))
  BY LocalSetBy, Zenon
<1>3. calls[k].offer = pc.created BY <1>2, Zenon DEF Exchange, Rounds
<1>4. PICK p : LocalSet(k, p) BY <1>2, <1>3
<1>5. pc.created = pc.dirs BY <1>2, Zenon DEF Maps, Drawn
<1>6. p \in Connection /\ p # None /\ p.dirs = pc.dirs /\ p.recv = pc.recv /\ p.local.dirs = pc.dirs
  BY <1>4, <1>5, Zenon DEF LocalSet, Localised
<1>7. \A j \in Slots : Active(j) => j = k BY <1>2, Zenon DEF Exchange, Alone
<1>8. /\ ~ Has(c2s, Asks \ {"unsubscribe"})
      /\ calls[k].kind # "subscribe" => ~ Has(c2s, Asks) /\ ~ Has(s2c, Answers)
  <2>1. Has(c2s, Asks) \/ Has(s2c, Answers) =>
           calls[k].kind = "subscribe" /\ ~ Has(c2s, Asks \ {"unsubscribe"})
    BY <1>2, Zenon DEF Exchange, OneExchange
  <2>2. Has(c2s, Asks \ {"unsubscribe"}) => Has(c2s, Asks) BY AsksOffer, Zenon
  <2> QED BY <2>1, <2>2, Zenon
<1>9. CASE \E m, c : Proceeded(k, p, m, c)
  <2>1. PICK m, c : Proceeded(k, p, m, c) BY <1>9
  <2>2. Within(p.local.dirs, pc.dirs) BY <1>6, WithinFacts, Zenon
  <2>3. Ready(k, p) BY <1>6, <1>8, <2>2, Zenon DEF Ready
  <2> QED BY <1>1, <1>2, <2>1, <2>3, ProceededLists, ProceededMaps, Zenon
<1>10. CASE /\ pc' = p /\ UNCHANGED <<c2s, subscribed>>
            /\ \E c : Put(k, c) /\ Stepped(calls[k], c, "ice")
  <2>1. PICK c : Put(k, c) /\ Stepped(calls[k], c, "ice") BY <1>10
  <2>2. calls[k] # Idle BY <1>2, Zenon DEF Active
  <2>3. Akin(calls[k], c) BY <2>1, <2>2, SteppedAkin, Zenon
  <2>4. c.stage # "local" BY <2>1 DEF Stepped
  <2>5. /\ pc' # None /\ pc'.dirs = pc.dirs /\ pc'.recv = pc.recv /\ pc'.local.dirs = pc.dirs
    BY <1>6, <1>10, Zenon
  <2> QED BY <1>1, <1>7, <1>8, <1>10, <2>1, <2>3, <2>4, <2>5, SteppedAgrees, Zenon
<1> QED BY <1>4, <1>9, <1>10, Zenon DEF LocalSet

LEMMA WaitForIceGatheringAgrees ==
    ASSUME Typed, Begun, Exchange, Lists, Maps, NEW k \in Slots, waitForIceGathering(k)
    PROVE  Lists' /\ Maps'
<1>1. UNCHANGED <<map, srv, s2c, skipped>> BY Zenon DEF waitForIceGathering, server, history
<1>2. /\ Active(k) /\ calls[k].stage = "ice"
      /\ (pc = None \/ \E m, c : Proceeded(k, pc, m, c))
  BY GatheredBy, Zenon
<1>3. pc # None BY <1>2, Zenon DEF Exchange, Alone
<1>4. pc \in Connection BY <1>3, Zenon DEF Typed, PcOK
<1>5. PICK m, c : Proceeded(k, pc, m, c) BY <1>2, <1>3
<1>6. calls[k].kind # "subscribe"
  <2>1. CallOK(calls[k]) /\ calls[k] # Idle BY <1>2, Zenon DEF Typed, CallsOK, Active
  <2> QED BY <1>2, <2>1, CallFacts
<1>7. ~ Has(c2s, Asks) /\ ~ Has(s2c, Answers) BY <1>2, <1>6, Zenon DEF Exchange, OneExchange
<1>8. Within(pc.local.dirs, pc.dirs) BY <1>2, Zenon DEF Maps, Underway
<1>9. Ready(k, pc) BY <1>4, <1>7, <1>8, Zenon DEF Ready
<1> QED BY <1>1, <1>2, <1>3, <1>5, <1>9, ProceededLists, ProceededMaps, Zenon

-------------------------------------------------------------------------------
(***************************************************************************)
(* Steps that have nothing to do with the subscriptions.                   *)
(***************************************************************************)
LEMMA PlainAgrees ==
    ASSUME Lists, Maps, pc # None, UNCHANGED <<pc, subscribed, map, calls, skipped, s2c>>,
           srv'.subs = srv.subs, srv'.senders = srv.senders, srv'.stage = srv.stage,
           c2s' = c2s \/ \E m \in Request : /\ m.type = "getStreamList" /\ c2s \in Seq(Request)
                                            /\ c2s' = Append(c2s, m)
    PROVE  Lists' /\ Maps'
<1>1. PICK m : /\ Sends(m)
               /\ \A x : x.type \in Asks => (x \in Elems(c2s') <=> x \in Elems(c2s))
  <2>1. CASE c2s' = c2s BY <2>1, Zenon DEF Sends
  <2>2. CASE c2s' # c2s
    <3>1. PICK m \in Request : m.type = "getStreamList" /\ c2s \in Seq(Request) /\ c2s' = Append(c2s, m)
      BY <2>2
    <3>2. Elems(c2s') = Elems(c2s) \cup {m} BY <3>1, QueueAppend, Zenon
    <3>3. m.type \notin Asks /\ m.type \notin Offering /\ m.type # "unsubscribe"
      BY <3>1 DEF Asks, Offering
    <3>4. \A x : x.type \in Asks => (x \in Elems(c2s') <=> x \in Elems(c2s)) BY <3>2, <3>3
    <3>5. Sends(m) BY <3>1, <3>3, Zenon DEF Sends
    <3> QED BY <3>4, <3>5
  <2> QED BY <2>1, <2>2
<1>2. \A j \in Slots : Akin(calls[j], calls'[j]) BY DEF Akin
<1>3. Unmoved
  <2>1. "subscribe" \in Asks /\ "unsubscribe" \in Asks BY DEF Asks
  <2>2. \A x : x.type \in {"subscribe", "unsubscribe"} => (x \in Elems(c2s') <=> x \in Elems(c2s))
    BY <1>1, <2>1
  <2> QED BY <1>2, <2>2, SameSets, Zenon
<1>4. Lists' BY <1>3, UnmovedLists, Zenon
<1>5. Has(c2s', Offering) <=> Has(c2s, Offering)
  <2>1. \A x : x.type \in Offering => (x \in Elems(c2s') <=> x \in Elems(c2s)) BY <1>1, AsksOffer
  <2> QED BY <2>1, Zenon DEF Has
<1>6. Drawn' /\ Underway' BY <1>5, Zenon DEF Maps, Drawn, Underway, Active
<1>7. Kept BY <1>3, WithinFacts, Zenon DEF Kept, Unmoved
<1>8. Maps' BY <1>1, <1>6, <1>7, KeptMaps, Zenon
<1> QED BY <1>4, <1>8

LEMMA GetStreamListAgrees == ASSUME Typed, Lists, Maps, pc # None, getStreamList PROVE Lists' /\ Maps'
<1>1. /\ c2s' = c2s \/ \E m \in Request : m.type = "getStreamList" /\ c2s' = Append(c2s, m)
      /\ UNCHANGED <<calls, pc, subscribed, map, srv, s2c, skipped>>
  BY GetStreamListSends, Zenon
<1>2. c2s \in Seq(Request) BY DEF Typed, MessagesOK
<1> QED BY <1>1, <1>2, PlainAgrees, Zenon

LEMMA RemoteStreamEndsAgrees ==
    ASSUME Typed, Lists, Maps, pc # None, RemoteStreamEnds PROVE Lists' /\ Maps'
<1>1. UNCHANGED <<pc, subscribed, map, calls, c2s, s2c, skipped>>
  BY Zenon DEF RemoteStreamEnds, client, history
<1>2. srv'.subs = srv.subs /\ srv'.senders = srv.senders /\ srv'.stage = srv.stage
  BY DEF RemoteStreamEnds, Typed, Handler
<1> QED BY <1>1, <1>2, PlainAgrees, Zenon

\* A method begins that publishes or has nothing to negotiate.
LEMMA BeganAgrees ==
    ASSUME Lists, Maps, NEW k \in Slots, NEW c, Began(k, c), patient', ~ Asker(c),
           c # Idle => c.stage \notin {"local", "ice"}, pc' = pc, UNCHANGED <<subscribed, map>>
    PROVE  Lists' /\ Maps'
<1>1. /\ Quiet /\ Put(k, c) /\ ~ Active(k) /\ UNCHANGED <<srv, c2s, s2c, skipped>> /\ pc' # None
  BY Zenon DEF Began
<1>2. \A j \in Slots : Active(j) => j = k BY <1>1, IdleActive, Zenon
<1>3. calls[k] = Idle BY <1>1, Zenon DEF Active
<1>4. ~ Asker(calls[k]) BY <1>3 DEF Asker
<1>5. Akin(calls[k], c) BY <1>4, PlainAkin, Zenon
<1>6. /\ c # Idle /\ c.stage = "local" => pc'.created = pc'.dirs
      /\ c # Idle /\ c.stage = "ice" => pc'.local.dirs = pc.dirs
  BY SMT
<1> QED BY <1>1, <1>2, <1>5, <1>6, SteppedAgrees, Zenon

-------------------------------------------------------------------------------
(***************************************************************************)
(* The user subscribes and unsubscribes.                                   *)
(***************************************************************************)
\* The first step of a method is taken at rest.
Calm(c) ==
    /\ UNCHANGED <<srv, c2s, s2c, skipped>> /\ Elems(c2s') = {} /\ Elems(s2c') = {}
    /\ \A s : ~ Coming(s)
    /\ \A s : Gone(s)' <=> c # Idle /\ c.kind = "switch" /\ s \in c.streams
    /\ \A s : Leaving(s)' <=> c # Idle /\ c.kind \in {"switch", "unsubscribe"} /\ s \in c.streams
    /\ \A s : Coming(s)' <=> c # Idle /\ \/ c.kind = "subscribe" /\ s \in c.streams
                                         \/ c.kind = "switch" /\ s \in subscribed' \ c.previous
    /\ Drawn' /\ Underway' /\ Asked' /\ Answering' /\ InTurn' /\ FirstOut'

LEMMA BeganCalm ==
    ASSUME NEW k \in Slots, NEW c, Began(k, c), patient', c # Idle => c.stage \notin {"local", "ice"}
    PROVE  Calm(c)
<1>1. Quiet /\ Put(k, c) /\ UNCHANGED <<srv, c2s, s2c, skipped>> BY Zenon DEF Began
<1>2. c2s = <<>> /\ s2c = <<>> /\ \A j \in Slots : ~ Active(j) BY <1>1, IdleActive, Zenon
<1>3. c2s' = <<>> /\ s2c' = <<>> BY <1>1, <1>2, Zenon
<1>4. Elems(<<>>) = {} /\ \A T : ~ Has(<<>>, T) BY QueueEmpty, Zenon
<1>5. Elems(c2s') = {} /\ Elems(s2c') = {} /\ \A T : ~ Has(c2s', T) /\ ~ Has(s2c', T)
  BY <1>3, <1>4, Zenon
<1>6. \A type, s : ~ Told(type, s) /\ ~ Told(type, s)'
  <2>1. Elems(c2s) = {} BY <1>2, <1>4, Zenon
  <2> QED BY <1>5, <2>1, Zenon DEF Told
<1>7. (\A kinds, s : ~ Calling(kinds, s)) /\ \A s : ~ Awaiting(s) BY <1>2, NoCall, Zenon
<1>8. /\ \A j \in Slots : Active(j)' <=> (j = k /\ c # Idle)
      /\ \A j \in Slots : Active(j)' => calls'[j] = c
      /\ \A kinds, s : Calling(kinds, s)' <=> (c # Idle /\ c.kind \in kinds /\ s \in c.streams)
      /\ \A s : Awaiting(s)' <=> (c # Idle /\ c.kind = "switch" /\ s \in subscribed' \ c.previous)
  BY <1>1, <1>2, OneCall, Zenon
<1>9. \A s : ~ Coming(s) BY <1>6, <1>7, Zenon DEF Coming
<1>10. \A s : Gone(s)' <=> c # Idle /\ c.kind = "switch" /\ s \in c.streams
  <2>1. \A s : Gone(s)' <=> c # Idle /\ c.kind \in {"switch"} /\ s \in c.streams
    BY <1>6, <1>8, Zenon DEF Gone
  <2> QED BY <2>1
<1>11. \A s : Leaving(s)' <=> c # Idle /\ c.kind \in {"switch", "unsubscribe"} /\ s \in c.streams
  BY <1>6, <1>8, Zenon DEF Leaving
<1>12. \A s : Coming(s)' <=> c # Idle /\ \/ c.kind = "subscribe" /\ s \in c.streams
                                         \/ c.kind = "switch" /\ s \in subscribed' \ c.previous
  <2>1. \A s : Coming(s)' <=> \/ c # Idle /\ c.kind \in {"subscribe"} /\ s \in c.streams
                              \/ c # Idle /\ c.kind = "switch" /\ s \in subscribed' \ c.previous
    BY <1>6, <1>8, Zenon DEF Coming
  <2> QED BY <2>1
<1>13. \A j \in Slots : Active(j)' => calls'[j].stage # "local" /\ calls'[j].stage # "ice" BY <1>8
<1>14. Drawn' /\ Underway' BY <1>5, <1>13, Zenon DEF Drawn, Underway
<1>15. Asked' /\ Answering' BY <1>5, Zenon DEF Asked, Answering
<1>16. InTurn' /\ FirstOut'
  <2>1. 1 .. Len(c2s') = {} /\ 1 .. Len(s2c') = {} BY <1>3
  <2>2. InTurn' BY <2>1, Zenon DEF InTurn
  <2>3. FirstOut' BY <1>5, <2>1, Zenon DEF FirstOut
  <2> QED BY <2>2, <2>3
<1> QED BY <1>1, <1>5, <1>9, <1>10, <1>11, <1>12, <1>14, <1>15, <1>16, Zenon DEF Calm

\* The streams of R leave the map, and the others are still heard.
LEMMA CalmMaps ==
    ASSUME Maps, NEW c, Calm(c), NEW R,
           \A s \in Streams : map'[s] = IF s \in R THEN 0 ELSE map[s],
           \A i, s : Carries(pc.recv, i, s) => Carries(pc'.recv, i, s), pc'.local = pc.local,
           \A s \in Streams : s \notin R /\ map[s] # 0 => Hears(pc'.dirs, map[s]),
           \A s \in Streams : Leaving(s)' => s \in R
    PROVE  Maps'
<1>1. Placed' BY Zenon DEF Maps, Placed, Calm
<1>2. Mapped'
  <2>1. ASSUME NEW s \in Streams, NEW i, i # 0, map'[s] = i PROVE Leads(s, i)'
    <3>1. s \notin R /\ map[s] = i BY <2>1
    <3>2. Leads(s, i) BY <2>1, <3>1, Zenon DEF Maps, Mapped
    <3>3. Carries(pc'.recv, i, s) BY <3>2, Zenon DEF Leads
    <3>4. Carries(srv'.senders, i, s) BY <3>2, Zenon DEF Leads, Calm
    <3>5. Hears(pc'.dirs, i) BY <2>1, <3>1, Zenon
    <3>6. Hears(pc'.local.dirs, i) BY <3>2, Zenon DEF Leads
    <3>7. ~ Leaving(s)' BY <3>1, Zenon
    <3>8. Heeded(i)' /\ Borne(s, i)' BY Zenon DEF Heeded, Borne, Calm
    <3> QED BY <3>3, <3>4, <3>5, <3>6, <3>7, <3>8, Zenon DEF Leads
  <2> QED BY <2>1, Zenon DEF Mapped
<1> QED BY <1>1, <1>2, Zenon DEF Maps, Calm

LEMMA TurnedCarries ==
    ASSUME Typed, pc # None, NEW dirs, Turned(dirs)
    PROVE  \A i, s : Carries(pc.recv, i, s) => Carries(pc'.recv, i, s)
<1>1. PICK recv \in Seq(Carried) : recv = pc.recv /\ Len(recv) = Len(pc.dirs) BY Shapes, Zenon
<1>2. dirs \in Seq(Direction) /\ Len(dirs) >= Len(pc.dirs) /\ pc'.recv = Padded(recv, dirs)
  BY <1>1, Zenon DEF Turned
<1>3. ASSUME NEW i, NEW s, Carries(recv, i, s) PROVE Carries(Padded(recv, dirs), i, s)
  <2>1. i \in 1 .. Len(dirs) BY <1>1, <1>2, <1>3, SeqFacts DEF Carries
  <2> QED BY <1>2, <1>3, <2>1, PaddedCarries, Zenon
<1> QED BY <1>1, <1>2, <1>3, Zenon

\* Two streams of the map have two transceivers, and only those of R are turned off.
LEMMA DeactivatedHears ==
    ASSUME Typed, pc # None, Maps, NEW R \in SUBSET Streams, NEW s \in Streams, s \notin R, map[s] # 0
    PROVE  Hears(Deactivated(pc.dirs, R), map[s])
<1>1. PICK old \in Seq(Direction) : old = pc.dirs BY Shapes, Zenon
<1>2. PICK dirs : dirs = Deactivated(old, R) OBVIOUS
<1>3. /\ Len(dirs) = Len(old)
      /\ \A i \in 1 .. Len(old) : dirs[i] = IF \E u \in R : map[u] = i THEN "inactive" ELSE old[i]
  BY <1>2, DeactivatedTyped, SMT
<1>4. Leads(s, map[s]) BY Zenon DEF Maps, Mapped
<1>5. ~ \E u \in R : map[u] = map[s]
  <2>1. ASSUME NEW t \in R, map[t] = map[s] PROVE FALSE
    <3>1. Leads(t, map[t]) BY <2>1 DEF Maps, Mapped
    <3>2. t # s BY <2>1
    <3> QED BY <1>4, <2>1, <3>1, <3>2, Zenon DEF Leads, Carries
  <2> QED BY <2>1, Zenon
<1>6. map[s] \in 1 .. Len(old) /\ Receives(old[map[s]]) BY <1>1, <1>4, Zenon DEF Leads, Hears
<1>7. Hears(dirs, map[s]) BY <1>3, <1>5, <1>6, Zenon DEF Hears
<1> QED BY <1>1, <1>2, <1>7, Zenon

LEMMA SubscribeToStreamsAgrees ==
    ASSUME Typed, Begun, Lists, Maps, NEW k \in Slots, NEW S \in SUBSET Streams,
           subscribeToStreams(k, S), patient'
    PROVE  Lists' /\ Maps'
<1>1. PICK c : c = Listing(S) OBVIOUS
<1>2. PICK R : R = subscribed \ S OBVIOUS
<1>3. Began(k, c) BY <1>1, SubscribeToStreamsBegun, Zenon
<1>4. c # Idle => /\ c.kind = IF R = {} THEN "subscribe" ELSE "switch"
                  /\ c.stage = "create"
                  /\ c.streams = IF R = {} THEN S \ subscribed ELSE R
                  /\ R # {} => c.previous = subscribed
  BY <1>1, <1>2, ListingFacts, Zenon
<1>5. c = Idle => S \ subscribed = {} /\ R = {}
  <2>1. ASSUME R # {} PROVE c.kind = "switch"
    <3>1. c = [kind |-> "switch", stage |-> "create", streams |-> R, previous |-> subscribed]
      BY <1>1, <1>2, <2>1, Zenon DEF Listing
    <3> QED BY <3>1
  <2>2. Idle.kind # "switch" BY DEF Idle
  <2>3. ASSUME c = Idle PROVE R = {} BY <2>1, <2>2, <2>3
  <2>4. R = {} => c = Subscribe(S \ subscribed) BY <1>1, <1>2, Zenon DEF Listing
  <2> QED BY <2>3, <2>4, SubscribeNone, Zenon
<1>6. Calm(c)
  <2>1. c # Idle => c.stage \notin {"local", "ice"} BY <1>4
  <2> QED BY <1>3, <2>1, BeganCalm, Zenon
<1>7. subscribed' = S /\ \A s \in Streams : map'[s] = IF s \in R THEN 0 ELSE map[s]
  BY <1>2, Zenon DEF subscribeToStreams
<1>8. srv' = srv /\ skipped' = skipped BY <1>6, Zenon DEF Calm
<1>9. Lists'
  <2>1. ASSUME NEW s \in S PROVE ~ Gone(s)'
    <3>1. s \notin R BY <1>2
    <3>2. ~ (c # Idle /\ c.kind = "switch" /\ s \in c.streams) BY <1>4, <3>1
    <3> QED BY <1>6, <3>2, Zenon DEF Calm
  <2>2. ASSUME NEW s \in S PROVE s \in srv.subs \cup Refusable \cup skipped \/ Coming(s)'
    <3>1. CASE s \in subscribed BY <1>6, <3>1, Zenon DEF Lists, Calm
    <3>2. CASE s \notin subscribed
      <4>1. c # Idle BY <1>5, <3>2
      <4>2. CASE R = {}
        <5>1. c.kind = "subscribe" /\ s \in c.streams BY <1>4, <3>2, <4>1, <4>2
        <5> QED BY <1>6, <4>1, <5>1, Zenon DEF Calm
      <4>3. CASE R # {}
        <5>1. c.kind = "switch" /\ c.previous = subscribed BY <1>4, <4>1, <4>3
        <5>2. s \in subscribed' \ c.previous BY <1>7, <3>2, <5>1
        <5> QED BY <1>6, <4>1, <5>1, <5>2, Zenon DEF Calm
      <4> QED BY <4>2, <4>3
    <3> QED BY <3>1, <3>2
  <2> QED BY <1>7, <1>8, <2>1, <2>2, Zenon DEF Lists
<1>10. PICK dirs :
          Turned(dirs) /\ dirs = IF R = {} THEN Activated(pc.dirs, Cardinality(S \ subscribed))
                                 ELSE Deactivated(pc.dirs, R)
  BY <1>2, SubscribeTurns, Zenon
<1>11. pc # None /\ pc'.local = pc.local BY <1>10, Zenon DEF Turned
<1>12. ASSUME NEW s \in Streams, s \notin R, map[s] # 0 PROVE Hears(pc'.dirs, map[s])
  <2>1. pc'.dirs = dirs BY <1>10, Zenon DEF Turned
  <2>2. CASE R = {}
    <3>1. S \ subscribed \in SUBSET Streams OBVIOUS
    <3>2. Cardinality(S \ subscribed) \in Nat BY <3>1, BatchV2Assumption, FS_Subset, FS_CardinalityType
    <3>3. pc.dirs \in Seq(Direction) BY <1>11, Shapes, Zenon
    <3>4. Within(pc.dirs, dirs) BY <1>10, <2>2, <3>2, <3>3, ActivatedWidens, Zenon
    <3>5. Hears(pc.dirs, map[s]) BY <1>12, Zenon DEF Maps, Mapped, Leads
    <3> QED BY <2>1, <3>4, <3>5, WithinFacts, Zenon
  <2>3. CASE R # {}
    <3>1. dirs = Deactivated(pc.dirs, R) BY <1>10, <2>3, Zenon
    <3>2. R \in SUBSET Streams BY <1>2, <1>11, Shapes
    <3> QED BY <1>11, <1>12, <2>1, <3>1, <3>2, DeactivatedHears, Zenon
  <2> QED BY <2>2, <2>3
<1>13. \A s \in Streams : Leaving(s)' => s \in R
  <2>1. \A s : c # Idle /\ c.kind \in {"switch", "unsubscribe"} /\ s \in c.streams => s \in R BY <1>4
  <2> QED BY <1>6, <2>1, Zenon DEF Calm
<1>14. \A i, s : Carries(pc.recv, i, s) => Carries(pc'.recv, i, s) BY <1>10, <1>11, TurnedCarries, Zenon
<1>15. Maps' BY <1>6, <1>7, <1>11, <1>12, <1>13, <1>14, CalmMaps, Zenon
<1> QED BY <1>9, <1>15

LEMMA UnsubscribeFromStreamAgrees ==
    ASSUME Typed, Begun, Lists, Maps, NEW k \in Slots, NEW t \in Streams,
           unsubscribeFromStream(k, t), patient'
    PROVE  Lists' /\ Maps'
<1>1. CASE map[t] = 0
  <2>1. Began(k, Idle) /\ pc' = pc BY <1>1, UnsubscribeFromStreamBegun, Zenon
  <2>2. Calm(Idle) BY <2>1, BeganCalm, Zenon
  <2>3. subscribed' = subscribed \ {t} /\ map' = map BY <1>1, Zenon DEF unsubscribeFromStream
  <2>4. \A s : ~ Gone(s)' /\ ~ Leaving(s)' /\ ~ Coming(s) BY <2>2, Zenon DEF Calm
  <2>5. srv' = srv /\ skipped' = skipped BY <2>2, Zenon DEF Calm
  <2>6. \A s \in subscribed' : s \in subscribed BY <2>3
  <2>7. Lists' BY <2>4, <2>5, <2>6, Zenon DEF Lists
  <2>8. \A s \in Streams : map[s] # 0 => Hears(pc'.dirs, map[s])
    BY <2>1, Zenon DEF Maps, Mapped, Leads
  <2>9. PICK R : R = {} OBVIOUS
  <2>10. \A s \in Streams : s \notin R /\ map'[s] = IF s \in R THEN 0 ELSE map[s] BY <2>3, <2>9
  <2>11. Maps' BY <2>1, <2>2, <2>4, <2>8, <2>10, CalmMaps, Zenon
  <2> QED BY <2>7, <2>11
<1>2. CASE map[t] # 0
  <2>1. PICK c : c = [kind |-> "unsubscribe", stage |-> "create", streams |-> {t}] OBVIOUS
  <2>2. c.kind = "unsubscribe" /\ c.stage = "create" /\ c.streams = {t} BY <2>1
  <2>3. Began(k, c) /\ Turned(Deactivated(pc.dirs, {t}))
    BY <1>2, <2>1, UnsubscribeFromStreamBegun, Zenon
  <2>4. Calm(c)
    <3>1. c.stage \notin {"local", "ice"} BY <2>2
    <3> QED BY <2>3, <3>1, BeganCalm, Zenon
  <2>5. subscribed' = subscribed /\ map' = [map EXCEPT ![t] = 0]
    BY <1>2, Zenon DEF unsubscribeFromStream
  <2>6. pc # None /\ pc'.local = pc.local /\ pc'.dirs = Deactivated(pc.dirs, {t})
    BY <2>3, Zenon DEF Turned
  <2>7. \A s \in Streams : map'[s] = IF s \in {t} THEN 0 ELSE map[s]
    <3>1. map \in [Streams -> Nat] BY <2>6, Shapes, Zenon
    <3> QED BY <2>5, <3>1
  <2>8. srv' = srv /\ skipped' = skipped /\ \A s : ~ Coming(s) BY <2>4, Zenon DEF Calm
  <2>9. \A s : ~ Gone(s)'
    <3>1. c.kind # "switch" BY <2>2
    <3> QED BY <2>4, <3>1, Zenon DEF Calm
  <2>10. Lists' BY <2>5, <2>8, <2>9, Zenon DEF Lists
  <2>11. \A s \in Streams : Leaving(s)' => s \in {t} BY <2>2, <2>4, Zenon DEF Calm
  <2>12. \A i, s : Carries(pc.recv, i, s) => Carries(pc'.recv, i, s)
    BY <2>3, <2>6, TurnedCarries, Zenon
  <2>13. \A s \in Streams : s \notin {t} /\ map[s] # 0 => Hears(pc'.dirs, map[s])
    <3>1. {t} \in SUBSET Streams OBVIOUS
    <3> QED BY <2>6, <3>1, DeactivatedHears, Zenon
  <2>14. Maps' BY <2>4, <2>6, <2>7, <2>11, <2>12, <2>13, CalmMaps, Zenon
  <2> QED BY <2>10, <2>14
<1> QED BY <1>1, <1>2

LEMMA BeginningAgrees ==
    ASSUME Typed, Begun, Lists, Maps, patient', NEW k \in Slots,
           \/ startPublishing(k) \/ stopPublishing(k)
           \/ \E S \in SUBSET Streams : subscribeToStreams(k, S)
           \/ \E s \in Streams : unsubscribeFromStream(k, s)
    PROVE  Lists' /\ Maps'
<1>1. CASE startPublishing(k) \/ stopPublishing(k)
  <2>1. pc' = pc /\ UNCHANGED <<subscribed, map>>
    BY <1>1, Zenon DEF startPublishing, stopPublishing, client
  <2>2. PICK c : /\ Began(k, c)
                 /\ \/ c = [kind |-> "publish", stage |-> "media"]
                    \/ c = [kind |-> "unpublish", stage |-> "replace"]
                    \/ c = [kind |-> "unpublish", stage |-> "create"]
    BY <1>1, StartPublishingBegun, StopPublishingBegun, Zenon
  <2>3. ~ Asker(c) /\ c.stage \notin {"local", "ice"} BY <2>2 DEF Asker
  <2> QED BY <2>1, <2>2, <2>3, BeganAgrees, Zenon
<1>2. CASE \E S \in SUBSET Streams : subscribeToStreams(k, S)
  <2>1. PICK S : S \in SUBSET Streams /\ subscribeToStreams(k, S) BY <1>2, Zenon
  <2> QED BY <2>1, SubscribeToStreamsAgrees, Zenon
<1>3. CASE \E s \in Streams : unsubscribeFromStream(k, s)
  BY <1>3, UnsubscribeFromStreamAgrees, Zenon
<1> QED BY <1>1, <1>2, <1>3

-------------------------------------------------------------------------------
(***************************************************************************)
(* The server takes the message m.                                         *)
(***************************************************************************)
\* What was on its way to the server still is, but for m.
Took(m) ==
    /\ m \in Elems(c2s) /\ Elems(c2s) = Elems(c2s') \cup {m}
    /\ m.type \in Asks => ~ Has(c2s', {"unsubscribe"})
    /\ UNCHANGED <<pc, map, subscribed, calls>>
    /\ m.type # "subscribe" => skipped' = skipped
    /\ Drawn' /\ Asked' /\ Underway' /\ FirstOut'
    /\ \A i : Heeded(i) => Heeded(i)'
    /\ \A s : (Leaving(s)' => Leaving(s)) /\ (Gone(s)' => Gone(s))
    /\ \A s : Coming(s) => Coming(s)' \/ (m.type = "subscribe" /\ s \in m.streams)

LEMMA TookFirst ==
    ASSUME NEW q \in Seq(Request), q # <<>>,
           \A i, j \in 1 .. Len(q) : q[j].type = "unsubscribe" /\ q[i].type \in Asks => j <= i
    PROVE  /\ Head(q).type \in Asks => ~ Has(Tail(q), {"unsubscribe"})
           /\ \A i, j \in 1 .. Len(Tail(q)) :
                 Tail(q)[j].type = "unsubscribe" /\ Tail(q)[i].type \in Asks => j <= i
<1>1. PICK p : p = Tail(q) OBVIOUS
<1>2. /\ Len(q) \in Nat /\ Len(q) > 0 /\ Len(p) = Len(q) - 1 /\ Head(q) = q[1]
      /\ \A i \in 1 .. Len(q) - 1 : p[i] = q[i + 1]
  BY <1>1, Taken, SeqFacts
<1>3. \A i \in 1 .. Len(p) : i + 1 \in 1 .. Len(q) /\ p[i] = q[i + 1] BY <1>2
<1>4. ASSUME Head(q).type \in Asks, Has(p, {"unsubscribe"}) PROVE FALSE
  <2>1. PICK j \in 1 .. Len(p) : p[j].type = "unsubscribe" BY <1>4 DEF Has, Elems
  <2>2. j + 1 \in 1 .. Len(q) /\ q[j + 1].type = "unsubscribe" BY <1>3, <2>1
  <2>3. 1 \in 1 .. Len(q) /\ q[1].type \in Asks BY <1>2, <1>4
  <2>4. j + 1 <= 1 BY <2>2, <2>3, Zenon
  <2> QED BY <1>2, <2>1, <2>4
<1>5. ASSUME NEW i \in 1 .. Len(p), NEW j \in 1 .. Len(p), p[j].type = "unsubscribe", p[i].type \in Asks
      PROVE  j <= i
  <2>1. j + 1 <= i + 1 BY <1>3, <1>5, Zenon
  <2> QED BY <1>2, <2>1
<1> QED BY <1>1, <1>4, <1>5, Zenon

LEMMA GoTook ==
    ASSUME Typed, Begun, Maps, Go
    PROVE  \E m \in Request : Took(m) /\ Handled(m)
<1>1. PICK m \in Request : m = Head(c2s) /\ Handled(m) BY GoTakes, Zenon
<1>2. RepliedTo(m) BY <1>1, GoReplies, Zenon
<1>3. c2s # <<>> /\ c2s' = Tail(c2s) /\ c2s \in Seq(Request) BY DEF Go, Typed, MessagesOK
<1>4. UNCHANGED <<pc, map, subscribed, calls>> BY Zenon DEF Go, client
<1>5. Elems(c2s) = Elems(c2s') \cup {m} BY <1>1, <1>3, QueueTail, Zenon
<1>6. m \in Elems(c2s) /\ \A x \in Elems(c2s') : x \in Elems(c2s) BY <1>5
<1>7. FirstOut /\ Asked /\ Underway /\ Drawn BY Zenon DEF Maps
<1>8. /\ m.type \in Asks => ~ Has(c2s', {"unsubscribe"})
      /\ \A p, q \in 1 .. Len(c2s') : c2s'[q].type = "unsubscribe" /\ c2s'[p].type \in Asks => q <= p
  <2>1. \A i, j \in 1 .. Len(c2s) : c2s[j].type = "unsubscribe" /\ c2s[i].type \in Asks => j <= i
    BY <1>7, Zenon DEF FirstOut
  <2> QED BY <1>1, <1>3, <2>1, TookFirst, Zenon
<1>9. m.type # "subscribe" => skipped' = skipped
  BY <1>1, Zenon DEF Go, handleSubscribe
<1>10. \A T : Has(c2s', T) => Has(c2s, T) BY <1>6, Zenon DEF Has
<1>11. Has(s2c', Answers) => Has(s2c, Answers) \/ (m.type \in Offering /\ Has(c2s, Offering))
  <2>1. CASE \A x \in Elems(s2c') : x \in Elems(s2c) \/ x.type # "answer" BY <2>1 DEF Has, Answers
  <2>2. CASE m.type \in Offering BY <1>6, <2>2, Zenon DEF Has
  <2> QED BY <1>2, <2>1, <2>2, Zenon DEF RepliedTo
<1>12. FirstOut'
  <2>1. ASSUME Has(c2s', {"unsubscribe"}) PROVE ~ Has(s2c', Answers)
    <3>1. ~ Has(s2c, Answers) BY <1>7, <1>10, <2>1, Zenon DEF FirstOut
    <3>2. m.type \notin Offering BY <1>8, <2>1, AsksOffer, Zenon
    <3> QED BY <1>11, <3>1, <3>2, Zenon
  <2> QED BY <1>8, <2>1, Zenon DEF FirstOut
<1>13. Drawn' BY <1>4, <1>7, Zenon DEF Drawn, Active
<1>14. Underway'
  <2>1. \A k \in Slots : Active(k)' <=> Active(k) BY <1>4, Zenon DEF Active
  <2> QED BY <1>4, <1>7, <1>10, <1>11, <2>1, Zenon DEF Underway
<1>15. Asked' BY <1>4, <1>6, <1>7, Zenon DEF Asked
<1>16. \A i : Heeded(i) => Heeded(i)' BY <1>6, Zenon DEF Heeded
<1>17. /\ \A kinds, s : Calling(kinds, s)' <=> Calling(kinds, s)
       /\ \A s : Awaiting(s)' <=> Awaiting(s)
  BY <1>4, Zenon DEF Calling, Awaiting, Active
<1>18. \A type, s : Told(type, s)' => Told(type, s) BY <1>6, Zenon DEF Told
<1>19. \A s : Told("subscribe", s) => Told("subscribe", s)' \/ (m.type = "subscribe" /\ s \in m.streams)
  <2>1. \A x \in Elems(c2s) : x \in Elems(c2s') \/ x = m BY <1>5
  <2> QED BY <2>1, Zenon DEF Told
<1>20. \A s : (Leaving(s)' => Leaving(s)) /\ (Gone(s)' => Gone(s))
  BY <1>17, <1>18, Zenon DEF Leaving, Gone
<1>21. \A s : Coming(s) => Coming(s)' \/ (m.type = "subscribe" /\ s \in m.streams)
  BY <1>17, <1>19, Zenon DEF Coming
<1>22. Took(m)
  BY <1>4, <1>5, <1>6, <1>8, <1>9, <1>12, <1>13, <1>14, <1>15, <1>16, <1>20, <1>21, Zenon DEF Took
<1> QED BY <1>1, <1>22, Zenon

\* The reply ends with a, and no other answer is added.
Replied(a) ==
    /\ Len(s2c') > Len(s2c)
    /\ \A i \in 1 .. Len(s2c) : i \in 1 .. Len(s2c') /\ s2c'[i] = s2c[i]
    /\ \A i \in 1 .. Len(s2c') : i \notin 1 .. Len(s2c) =>
          s2c'[i].type # "answer" \/ (i = Len(s2c') /\ s2c'[i] = a)

LEMMA RepliedLast ==
    ASSUME s2c \in Seq(Reply), NEW a \in Reply, s2c' = Append(s2c, a)
    PROVE  Replied(a)
<1>1. /\ Len(s2c) \in Nat /\ Len(s2c') = Len(s2c) + 1
      /\ \A i \in 1 .. Len(s2c) : s2c'[i] = s2c[i]
      /\ s2c'[Len(s2c) + 1] = a
  BY Appended, SeqFacts
<1> QED BY <1>1 DEF Replied

LEMMA RepliedAfterErrors ==
    ASSUME s2c \in Seq(Reply), NEW r \in Seq(Reply), \A i \in 1 .. Len(r) : r[i].type = "error",
           NEW a \in Reply, s2c' = s2c \o r \o <<a>>
    PROVE  Replied(a)
<1>1. PICK p \in Seq(Reply) : p = s2c \o r BY Joined
<1>2. /\ Len(s2c) \in Nat /\ Len(r) \in Nat /\ Len(p) = Len(s2c) + Len(r)
      /\ \A i \in 1 .. Len(s2c) : p[i] = s2c[i]
      /\ \A i \in 1 .. Len(r) : p[Len(s2c) + i] = r[i]
  BY <1>1, Joined, SeqFacts
<1>3. s2c' = Append(p, a) BY <1>1
<1>4. /\ Len(p) \in Nat /\ Len(s2c') = Len(p) + 1 /\ \A i \in 1 .. Len(p) : s2c'[i] = p[i]
      /\ s2c'[Len(p) + 1] = a
  <2>1. PICK q : q = Append(p, a) OBVIOUS
  <2>2. Len(q) = Len(p) + 1 /\ (\A i \in 1 .. Len(p) : q[i] = p[i]) /\ q[Len(p) + 1] = a
    BY <2>1, Appended
  <2>3. s2c' = q BY <1>3, <2>1
  <2> QED BY <1>2, <2>2, <2>3
<1>5. ASSUME NEW i \in 1 .. Len(p), i \notin 1 .. Len(s2c) PROVE s2c'[i].type # "answer"
  <2>1. i - Len(s2c) \in 1 .. Len(r) /\ i = Len(s2c) + (i - Len(s2c)) BY <1>2, <1>5
  <2>2. p[i] = r[i - Len(s2c)] BY <1>2, <2>1
  <2>3. s2c'[i].type = "error" BY <1>4, <2>1, <2>2
  <2> QED BY <2>3
<1>6. \A i \in 1 .. Len(s2c) : i \in 1 .. Len(s2c') /\ s2c'[i] = s2c[i] BY <1>2, <1>4
<1>7. \A i \in 1 .. Len(s2c') : i \notin 1 .. Len(s2c) =>
          s2c'[i].type # "answer" \/ (i = Len(s2c') /\ s2c'[i] = a)
  <2>1. \A i \in 1 .. Len(s2c') : i \in 1 .. Len(p) \/ i = Len(p) + 1 BY <1>2, <1>4
  <2> QED BY <1>4, <1>5, <2>1
<1>8. Len(s2c') > Len(s2c) BY <1>2, <1>4
<1> QED BY <1>6, <1>7, <1>8, Zenon DEF Replied

\* The senders are now h, and the last reply is a: whatever is heard and was sent
\* is still sent, and a says so.
Tells(a, h) ==
    /\ \A s \in Streams : map[s] # 0 =>
          Carries(h, map[s], s) /\ (a.type = "answer" => Carries(a.sending, map[s], s))
    /\ a.type = "answer" => \A s \in Streams : \A i :
          Carries(a.sending, i, s) => Carries(h, i, s) /\ Hears(pc.local.dirs, i)
    /\ \A x \in Elems(s2c) : x.type = "answer" => \A s \in Streams : \A i :
          Carries(x.sending, i, s) =>
             Carries(h, i, s) /\ (a.type = "answer" => Carries(a.sending, i, s))

LEMMA ReplyMaps ==
    ASSUME Maps, NEW m, Took(m), NEW a, Replied(a), Tells(a, srv'.senders), Placed'
    PROVE  Maps'
<1>1. /\ pc' = pc /\ map' = map /\ Drawn' /\ Asked' /\ Underway' /\ FirstOut'
      /\ \A i : Heeded(i) => Heeded(i)'
      /\ \A s : Leaving(s)' => Leaving(s)
  BY Zenon DEF Took
<1>2. Mapped /\ Answering /\ InTurn BY Zenon DEF Maps
<1>3. /\ \A s \in Streams : map[s] # 0 =>
            Carries(srv'.senders, map[s], s) /\ (a.type = "answer" => Carries(a.sending, map[s], s))
      /\ a.type = "answer" => \A s \in Streams : \A i :
            Carries(a.sending, i, s) => Carries(srv'.senders, i, s) /\ Hears(pc.local.dirs, i)
      /\ \A x \in Elems(s2c) : x.type = "answer" => \A s \in Streams : \A i :
            Carries(x.sending, i, s) =>
               Carries(srv'.senders, i, s) /\ (a.type = "answer" => Carries(a.sending, i, s))
  BY Zenon DEF Tells
<1>4. \A x \in Elems(s2c') : x.type = "answer" => x \in Elems(s2c) \/ x = a
  <2>1. ASSUME NEW n \in 1 .. Len(s2c'), s2c'[n].type = "answer"
        PROVE  s2c'[n] \in Elems(s2c) \/ s2c'[n] = a
    <3>1. CASE n \in 1 .. Len(s2c)
      <4>1. s2c'[n] = s2c[n] BY <3>1, Zenon DEF Replied
      <4>2. s2c[n] \in Elems(s2c) BY <3>1, Zenon DEF Elems
      <4> QED BY <4>1, <4>2, Zenon
    <3>2. CASE n \notin 1 .. Len(s2c) BY <2>1, <3>2, Zenon DEF Replied
    <3> QED BY <3>1, <3>2
  <2> QED BY <2>1, Zenon DEF Elems
<1>5. Mapped'
  <2>1. ASSUME NEW s \in Streams, NEW i, i # 0, map[s] = i PROVE Leads(s, i)'
    <3>1. Leads(s, i) BY <1>2, <2>1, Zenon DEF Mapped
    <3>2. Carries(pc'.recv, i, s) /\ Hears(pc'.dirs, i) /\ Hears(pc'.local.dirs, i)
      BY <1>1, <3>1, Zenon DEF Leads
    <3>3. ~ Leaving(s)' /\ Heeded(i)' BY <1>1, <3>1, Zenon DEF Leads
    <3>4. Carries(srv'.senders, i, s) /\ (a.type = "answer" => Carries(a.sending, i, s))
      BY <1>3, <2>1, Zenon
    <3>5. \A x \in Elems(s2c) : x.type = "answer" => Carries(x.sending, i, s)
      BY <3>1, Zenon DEF Leads, Borne
    <3>6. Borne(s, i)' BY <1>4, <3>4, <3>5, Zenon DEF Borne
    <3> QED BY <3>2, <3>3, <3>4, <3>6, Zenon DEF Leads
  <2> QED BY <1>1, <2>1, Zenon DEF Mapped
<1>6. Answering'
  <2>1. ASSUME NEW x \in Elems(s2c'), x.type = "answer", NEW s \in Streams, NEW i \in 1 .. Len(x.sending),
               x.sending[i] = s
        PROVE  Carries(srv'.senders, i, s) /\ Hears(pc.local.dirs, i)
    <3>1. Carries(x.sending, i, s) BY <2>1, Zenon DEF Carries
    <3>2. CASE x \in Elems(s2c)
      <4>1. Carries(srv'.senders, i, s) BY <1>3, <2>1, <3>1, <3>2, Zenon
      <4>2. Hears(pc.local.dirs, i) BY <1>2, <2>1, <3>2, Zenon DEF Answering
      <4> QED BY <4>1, <4>2
    <3>3. CASE x = a BY <1>3, <2>1, <3>1, <3>3, Zenon
    <3> QED BY <1>4, <2>1, <3>2, <3>3, Zenon
  <2> QED BY <1>1, <2>1, Zenon DEF Answering
<1>7. InTurn'
  <2>1. ASSUME NEW p \in 1 .. Len(s2c'), NEW q \in 1 .. Len(s2c'), p < q,
               s2c'[p].type = "answer", s2c'[q].type = "answer",
               NEW s \in Streams, NEW i \in 1 .. Len(s2c'[p].sending), s2c'[p].sending[i] = s
        PROVE  Carries(s2c'[q].sending, i, s)
    <3>1. p \in 1 .. Len(s2c) /\ s2c'[p] = s2c[p]
      <4>1. p # Len(s2c') BY <2>1
      <4>2. p \in 1 .. Len(s2c) BY <2>1, <4>1, Zenon DEF Replied
      <4> QED BY <4>2, Zenon DEF Replied
    <3>2. CASE q \in 1 .. Len(s2c)
      <4>1. s2c'[q] = s2c[q] BY <3>2, Zenon DEF Replied
      <4> QED BY <1>2, <2>1, <3>1, <3>2, <4>1, Zenon DEF InTurn
    <3>3. CASE q \notin 1 .. Len(s2c)
      <4>1. s2c'[q] = a BY <2>1, <3>3, Zenon DEF Replied
      <4>2. s2c[p] \in Elems(s2c) /\ Carries(s2c[p].sending, i, s)
        BY <2>1, <3>1, Zenon DEF Elems, Carries
      <4> QED BY <1>3, <2>1, <3>1, <4>1, <4>2, Zenon
    <3> QED BY <3>2, <3>3
  <2> QED BY <2>1, Zenon DEF InTurn
<1> QED BY <1>1, <1>5, <1>6, <1>7, Zenon DEF Maps

\* What the answer to an offer says.
LEMMA AnswerCarries ==
    ASSUME NEW offer \in Description, NEW h \in Seq(Carried), Len(h) = Len(offer.dirs)
    PROVE  /\ Answer(offer, h).type = "answer"
           /\ \A s \in Streams : \A i :
                 Carries(Answer(offer, h).sending, i, s) <=> Carries(h, i, s) /\ Hears(offer.dirs, i)
<1>1. Len(offer.dirs) \in Nat BY SeqFacts DEF Description
<1>2. Len(offer.dirs) <= Len(h) BY <1>1
<1>3. PICK a : a = Answer(offer, h) OBVIOUS
<1>4. /\ a.type = "answer" /\ Len(a.sending) = Len(offer.dirs)
      /\ \A i \in 1 .. Len(offer.dirs) : a.sending[i] = IF Receives(offer.dirs[i]) THEN h[i] ELSE None
  BY <1>2, <1>3, AnswerTyped, Zenon
<1>5. None \notin Streams BY BatchV2Assumption
<1>6. \A s \in Streams : \A i : Carries(a.sending, i, s) <=> Carries(h, i, s) /\ Hears(offer.dirs, i)
  BY <1>4, <1>5 DEF Carries, Hears
<1> QED BY <1>3, <1>4, <1>6, Zenon

\* The parts of Maps that Tells rests on.
LEMMA Before ==
    ASSUME Maps
    PROVE  /\ \A s \in Streams : map[s] # 0 =>
                 /\ Carries(srv.senders, map[s], s) /\ Hears(pc.local.dirs, map[s])
                 /\ ~ Leaving(s) /\ Heeded(map[s])
           /\ \A x \in Elems(s2c) : x.type = "answer" => \A s \in Streams : \A i :
                 Carries(x.sending, i, s) => Carries(srv.senders, i, s) /\ Hears(pc.local.dirs, i)
<1>1. \A s \in Streams : map[s] # 0 =>
         /\ Carries(srv.senders, map[s], s) /\ Hears(pc.local.dirs, map[s])
         /\ ~ Leaving(s) /\ Heeded(map[s])
  BY Zenon DEF Maps, Mapped, Leads
<1>2. ASSUME NEW x \in Elems(s2c), x.type = "answer", NEW s \in Streams, NEW i, Carries(x.sending, i, s)
      PROVE  Carries(srv.senders, i, s) /\ Hears(pc.local.dirs, i)
  <2>1. i \in 1 .. Len(x.sending) /\ x.sending[i] = s BY <1>2, Zenon DEF Carries
  <2> QED BY <1>2, <2>1, Zenon DEF Maps, Answering
<1> QED BY <1>1, <1>2, Zenon

-------------------------------------------------------------------------------
(***************************************************************************)
(* The handlers of the server.                                             *)
(***************************************************************************)
LEMMA FirstOfferAgrees ==
    ASSUME Typed, Lists, Maps, NEW m \in Request, Took(m), FirstOffer(m) PROVE Lists' /\ Maps'
<1>1. m.type = "offer" /\ srv.stage # "loop" BY DEF FirstOffer
<1>2. m.offer \in Description BY <1>1, RequestFacts
<1>3. PICK h \in Seq(Carried) :
         /\ Len(h) = Len(m.offer.dirs) /\ \A i \in 1 .. Len(m.offer.dirs) : h[i] = None
         /\ srv'.stage = "loop" /\ srv'.senders = h /\ srv'.subs = srv.subs
         /\ Answer(m.offer, h) \in Reply /\ s2c' = Append(s2c, Answer(m.offer, h))
  BY FirstOfferTyped, Zenon
<1>4. PICK a : a = Answer(m.offer, h) OBVIOUS
<1>5. Replied(a)
  <2>1. s2c \in Seq(Reply) BY DEF Typed, MessagesOK
  <2> QED BY <1>3, <1>4, <2>1, RepliedLast, Zenon
<1>6. srv.senders = <<>> BY <1>1, Zenon DEF Maps, Placed
<1>7. \A i, s : ~ Carries(srv.senders, i, s) BY <1>6 DEF Carries
<1>8. \A s \in Streams : \A i : ~ Carries(h, i, s)
  <2>1. None \notin Streams BY BatchV2Assumption
  <2> QED BY <1>3, <2>1 DEF Carries
<1>9. \A s \in Streams : \A i : ~ Carries(a.sending, i, s)
  BY <1>2, <1>3, <1>4, <1>8, AnswerCarries, Zenon
<1>10. Tells(a, srv'.senders) BY <1>7, <1>9, Before, Zenon DEF Tells
<1>11. Placed' BY <1>3 DEF Placed
<1>12. Maps' BY <1>5, <1>10, <1>11, ReplyMaps, Zenon
<1>13. m.type # "subscribe" BY <1>1
<1>14. Lists' BY <1>3, <1>13, Zenon DEF Lists, Took
<1> QED BY <1>12, <1>14

LEMMA OtherReplyAgrees ==
    ASSUME Typed, Lists, Maps, NEW m \in Request, Took(m), m.type # "subscribe",
           NEW a \in Reply, a.type # "answer", s2c' = Append(s2c, a),
           srv'.subs = srv.subs, srv'.senders = srv.senders, srv'.stage = srv.stage
    PROVE  Lists' /\ Maps'
<1>1. Replied(a)
  <2>1. s2c \in Seq(Reply) BY DEF Typed, MessagesOK
  <2> QED BY <2>1, RepliedLast, Zenon
<1>2. Tells(a, srv'.senders) BY Before, Zenon DEF Tells
<1>3. Placed' BY Zenon DEF Maps, Placed
<1>4. Maps' BY <1>1, <1>2, <1>3, ReplyMaps, Zenon
<1>5. Lists' BY Zenon DEF Lists, Took
<1> QED BY <1>4, <1>5

LEMMA HandleSubscribeAgrees ==
    ASSUME Typed, Lists, Maps, NEW m \in Request, Took(m), handleSubscribe(m), srv.stage = "loop"
    PROVE  Lists' /\ Maps'
<1>1. m.type = "subscribe" /\ m.type \in Offering BY DEF handleSubscribe, Offering
<1>2. m.offer \in Description /\ m.streams \in SUBSET Streams BY <1>1, RequestFacts
<1>3. m \in Elems(c2s) BY Zenon DEF Took
<1>4. m.offer = pc.local
  <2>1. m.type # "unsubscribe" BY <1>1
  <2> QED BY <1>1, <1>3, <2>1, Zenon DEF Maps, Asked
<1>5. PICK added, h, refused : added \in SUBSET Streams /\ Subscribed(m, added, h, refused)
  BY SubscribedBy, Zenon
<1>6. /\ srv'.stage = srv.stage /\ srv'.subs = srv.subs \cup added /\ srv'.senders = h
      /\ refused \in SUBSET (m.streams \cap Refusable)
      /\ added = {s \in m.streams \ refused : ~ HasSubscriber(s)}
      /\ h \in Seq(Carried) /\ Len(h) = Len(m.offer.dirs)
      /\ Answer(m.offer, h) \in Reply
      /\ skipped' = (skipped \ added) \cup (m.streams \cap srv.stopping)
  BY <1>5, Zenon DEF Subscribed
<1>7. PICK a \in Reply : a = Answer(m.offer, h) BY <1>6
<1>8. Replied(a)
  <2>1. s2c \in Seq(Reply) BY DEF Typed, MessagesOK
  <2>2. refused \in SUBSET Streams BY <1>6, BatchV2Assumption
  <2>3. IsFiniteSet(refused) BY <2>2, BatchV2Assumption, FS_Subset
  <2>4. PICK r \in Seq(Reply) : /\ r = [i \in 1 .. Cardinality(refused) |-> Error]
                                /\ \A i \in 1 .. Len(r) : r[i].type = "error"
    BY <2>3, ErrorsTyped, Zenon
  <2>5. s2c' = s2c \o r \o <<a>> BY <1>5, <1>7, <2>4, Zenon DEF Subscribed
  <2> QED BY <2>1, <2>4, <2>5, RepliedAfterErrors, Zenon
<1>9. PICK dirs \in Seq(Direction) : dirs = m.offer.dirs BY <1>2 DEF Description
<1>10. PICK padded : padded = Padded(srv.senders, dirs) OBVIOUS
<1>11. /\ padded \in Seq(Carried) /\ Len(padded) = Len(dirs)
       /\ \A i \in 1 .. Len(dirs) : padded[i] = IF i <= Len(srv.senders) THEN srv.senders[i] ELSE None
  BY <1>9, <1>10, Sending, PaddedTyped, Zenon
<1>12. \A i \in 1 .. Len(dirs) : h[i] = padded[i] \/ (padded[i] = None /\ h[i] \in added)
  <2>1. h \in AddTracks(padded, added) BY <1>5, <1>9, <1>10, Zenon DEF Subscribed
  <2>2. \A i \in 1 .. Len(padded) : h[i] = padded[i] \/ (padded[i] = None /\ h[i] \in added)
    BY <1>5, <1>11, <2>1, AddTracksTyped, Zenon
  <2> QED BY <1>11, <2>2
<1>13. ASSUME NEW s \in Streams, NEW i, Carries(srv.senders, i, s), Hears(dirs, i)
       PROVE  Carries(h, i, s)
  <2>1. i \in 1 .. Len(dirs) BY <1>13, Zenon DEF Hears
  <2>2. Carries(padded, i, s) BY <1>9, <1>10, <1>13, <2>1, Sending, PaddedCarries, Zenon
  <2>3. padded[i] = s /\ None \notin Streams BY <2>2, Sending DEF Carries
  <2>4. h[i] = s BY <1>12, <2>1, <2>3
  <2> QED BY <1>6, <1>9, <2>1, <2>4 DEF Carries
<1>14. /\ a.type = "answer"
       /\ \A s \in Streams : \A i : Carries(a.sending, i, s) <=> Carries(h, i, s) /\ Hears(dirs, i)
  BY <1>2, <1>6, <1>7, <1>9, AnswerCarries, Zenon
<1>15. dirs = pc.local.dirs BY <1>4, <1>9, Zenon
<1>16. Tells(a, h) BY <1>13, <1>14, <1>15, Before, Zenon DEF Tells
<1>17. Placed'
  <2>1. ASSUME NEW i \in 1 .. Len(h) PROVE h[i] \in srv'.subs \cup {None}
    <3>1. i \in 1 .. Len(dirs) BY <1>6, <1>9
    <3>2. padded[i] \in srv.subs \cup {None}
      <4>1. \A j \in 1 .. Len(srv.senders) : srv.senders[j] \in srv.subs \cup {None}
        BY Zenon DEF Maps, Placed
      <4>2. Len(srv.senders) \in Nat /\ Len(dirs) \in Nat BY <1>9, Sending, SeqFacts
      <4> QED BY <1>11, <3>1, <4>1, <4>2
    <3> QED BY <1>6, <1>12, <3>1, <3>2
  <2> QED BY <1>6, <2>1 DEF Placed
<1>18. Maps' BY <1>6, <1>8, <1>16, <1>17, ReplyMaps, Zenon
<1>19. Lists'
  <2>1. ASSUME NEW s \in subscribed
        PROVE  /\ ~ Gone(s)'
               /\ s \in srv'.subs \cup Refusable \cup skipped' \/ Coming(s)'
    <3>1. ~ Gone(s)' BY <2>1, Zenon DEF Lists, Took
    <3>2. s \in srv.subs \cup Refusable \cup skipped \/ Coming(s) BY <2>1, Zenon DEF Lists
    <3>3. Coming(s) => Coming(s)' \/ s \in m.streams BY Zenon DEF Took
    <3>4. s \in m.streams => s \in srv'.subs \cup Refusable \cup skipped' BY <1>6 DEF HasSubscriber
    <3>5. s \in srv.subs \cup Refusable \cup skipped => s \in srv'.subs \cup Refusable \cup skipped'
      BY <1>6
    <3> QED BY <3>1, <3>2, <3>3, <3>4, <3>5, Zenon
  <2>2. subscribed' = subscribed BY Zenon DEF Took
  <2> QED BY <2>1, <2>2, Zenon DEF Lists
<1> QED BY <1>18, <1>19

LEMMA HandleUnsubscribeAgrees ==
    ASSUME Typed, Lists, Maps, NEW m \in Request, Took(m), handleUnsubscribe(m), srv.stage = "loop"
    PROVE  Lists' /\ Maps'
<1>1. m.type = "unsubscribe" /\ m.type \in Offering BY DEF handleUnsubscribe, Offering
<1>2. m.offer \in Description /\ m.streams \in SUBSET Streams BY <1>1, RequestFacts
<1>3. m \in Elems(c2s) BY Zenon DEF Took
<1>4. PICK removed, padded, h : Unsubscribed(m, removed, padded, h) BY UnsubscribedBy, Zenon
<1>5. /\ srv'.stage = srv.stage /\ srv'.subs = srv.subs \ removed /\ srv'.senders = h
      /\ removed = m.streams \cap srv.subs /\ padded = Padded(srv.senders, m.offer.dirs)
      /\ h \in Seq(Carried) /\ Len(h) = Len(m.offer.dirs)
      /\ \A i \in 1 .. Len(m.offer.dirs) : h[i] = IF padded[i] \in removed THEN None ELSE padded[i]
      /\ Answer(m.offer, h) \in Reply /\ s2c' = Append(s2c, Answer(m.offer, h))
  BY <1>4, Zenon DEF Unsubscribed
<1>6. PICK a \in Reply : a = Answer(m.offer, h) BY <1>5
<1>7. Replied(a)
  <2>1. s2c \in Seq(Reply) BY DEF Typed, MessagesOK
  <2> QED BY <1>5, <1>6, <2>1, RepliedLast, Zenon
<1>8. PICK dirs \in Seq(Direction) : dirs = m.offer.dirs BY <1>2 DEF Description
<1>9. /\ padded \in Seq(Carried) /\ Len(padded) = Len(dirs)
      /\ \A i \in 1 .. Len(dirs) : padded[i] = IF i <= Len(srv.senders) THEN srv.senders[i] ELSE None
  <2>1. padded = Padded(srv.senders, dirs) BY <1>5, <1>8, Zenon
  <2> QED BY <2>1, Sending, PaddedTyped, Zenon
<1>10. \A s \in m.streams : Told("unsubscribe", s) BY <1>1, <1>3, Zenon DEF Told
<1>11. ASSUME NEW s \in Streams, s \notin m.streams, NEW i, Carries(srv.senders, i, s), Hears(dirs, i)
       PROVE  Carries(h, i, s)
  <2>1. i \in 1 .. Len(dirs) BY <1>11, Zenon DEF Hears
  <2>2. Carries(padded, i, s) BY <1>5, <1>8, <1>11, <2>1, Sending, PaddedCarries, Zenon
  <2>3. padded[i] = s BY <2>2, Zenon DEF Carries
  <2>4. h[i] = s BY <1>5, <1>8, <1>11, <2>1, <2>3
  <2> QED BY <1>5, <1>8, <2>1, <2>4 DEF Carries
<1>12. /\ a.type = "answer"
       /\ \A s \in Streams : \A i : Carries(a.sending, i, s) <=> Carries(h, i, s) /\ Hears(dirs, i)
  BY <1>2, <1>5, <1>6, <1>8, AnswerCarries, Zenon
<1>13. Tells(a, h)
  <2>1. ASSUME NEW s \in Streams, map[s] # 0
        PROVE  Carries(h, map[s], s) /\ Carries(a.sending, map[s], s)
    <3>1. Carries(srv.senders, map[s], s) /\ ~ Leaving(s) /\ Heeded(map[s])
      BY <2>1, Before, Zenon
    <3>2. s \notin m.streams BY <1>10, <3>1, Zenon DEF Leaving
    <3>3. Hears(dirs, map[s]) BY <1>1, <1>3, <1>8, <3>1, Zenon DEF Heeded
    <3> QED BY <1>11, <1>12, <3>1, <3>2, <3>3, Zenon
  <2>2. Within(dirs, pc.local.dirs) BY <1>1, <1>3, <1>8, Zenon DEF Maps, Asked
  <2>3. \A s \in Streams : \A i :
           Carries(a.sending, i, s) => Carries(h, i, s) /\ Hears(pc.local.dirs, i)
    BY <1>12, <2>2, WithinFacts, Zenon
  <2>4. \A x \in Elems(s2c) : x.type # "answer"
    <3>1. Has(c2s, {"unsubscribe"}) BY <1>1, <1>3 DEF Has
    <3>2. ~ Has(s2c, Answers) BY <3>1, Zenon DEF Maps, FirstOut
    <3> QED BY <3>2 DEF Has, Answers
  <2> QED BY <2>1, <2>3, <2>4, Zenon DEF Tells
<1>14. Placed'
  <2>1. ASSUME NEW i \in 1 .. Len(h) PROVE h[i] \in srv'.subs \cup {None}
    <3>1. i \in 1 .. Len(dirs) BY <1>5, <1>8
    <3>2. padded[i] \in srv.subs \cup {None}
      <4>1. \A j \in 1 .. Len(srv.senders) : srv.senders[j] \in srv.subs \cup {None}
        BY Zenon DEF Maps, Placed
      <4>2. Len(srv.senders) \in Nat /\ Len(dirs) \in Nat BY <1>8, Sending, SeqFacts
      <4> QED BY <1>9, <3>1, <4>1, <4>2
    <3> QED BY <1>5, <1>8, <3>1, <3>2
  <2> QED BY <1>5, <2>1 DEF Placed
<1>15. Maps' BY <1>5, <1>7, <1>13, <1>14, ReplyMaps, Zenon
<1>16. Lists'
  <2>1. m.type # "subscribe" BY <1>1
  <2>2. subscribed' = subscribed /\ skipped' = skipped BY <2>1, Zenon DEF Took
  <2>3. ASSUME NEW s \in subscribed
        PROVE  /\ ~ Gone(s)'
               /\ s \in srv'.subs \cup Refusable \cup skipped \/ Coming(s)'
    <3>1. ~ Gone(s)' /\ ~ Gone(s) BY <2>3, Zenon DEF Lists, Took
    <3>2. s \notin m.streams BY <1>10, <3>1, Zenon DEF Gone
    <3>3. s \in srv.subs => s \in srv'.subs BY <1>5, <3>2
    <3>4. Coming(s) => Coming(s)' BY <2>1, Zenon DEF Took
    <3>5. s \in srv.subs \cup Refusable \cup skipped \/ Coming(s) BY <2>3, Zenon DEF Lists
    <3> QED BY <3>1, <3>3, <3>4, <3>5
  <2> QED BY <2>2, <2>3, Zenon DEF Lists
<1> QED BY <1>15, <1>16

LEMMA GoAgrees == ASSUME Typed, Begun, Lists, Maps, Go PROVE Lists' /\ Maps'
<1>1. PICK m \in Request : Took(m) /\ Handled(m) BY GoTook, Zenon
<1>2. CASE FirstOffer(m) BY <1>1, <1>2, FirstOfferAgrees, Zenon
<1>3. CASE handlePublish(m) \/ handleUnpublish(m)
  <2>1. /\ srv'.stage = srv.stage /\ srv'.subs = srv.subs /\ srv'.senders = srv.senders
        /\ s2c' = Append(s2c, Error) /\ Error \in Reply /\ Error.type = "error"
    BY <1>3, PublisherTyped, Zenon
  <2>2. Error.type # "answer" BY <2>1
  <2>3. m.type # "subscribe" BY <1>3 DEF handlePublish, handleUnpublish
  <2> QED BY <1>1, <2>1, <2>2, <2>3, OtherReplyAgrees, Zenon
<1>4. CASE handleGetStreamList(m)
  <2>1. PICK a : a = [type |-> "streamList"] OBVIOUS
  <2>2. a \in Reply /\ a.type # "answer" BY <2>1 DEF Reply
  <2>3. srv' = srv /\ s2c' = Append(s2c, a) /\ m.type # "subscribe"
    BY <1>4, <2>1 DEF handleGetStreamList
  <2> QED BY <1>1, <2>2, <2>3, OtherReplyAgrees, Zenon
<1>5. CASE srv.stage = "loop" /\ handleSubscribe(m) BY <1>1, <1>5, HandleSubscribeAgrees, Zenon
<1>6. CASE srv.stage = "loop" /\ handleUnsubscribe(m) BY <1>1, <1>6, HandleUnsubscribeAgrees, Zenon
<1> QED BY <1>1, <1>2, <1>3, <1>4, <1>5, <1>6, Zenon DEF Handled

-------------------------------------------------------------------------------
(***************************************************************************)
(* A message for the client.                                               *)
(***************************************************************************)
\* The message m is taken out of the queue.
Came(m) ==
    /\ m \in Elems(s2c) /\ \A x \in Elems(s2c') : x \in Elems(s2c)
    /\ UNCHANGED <<subscribed, calls, c2s, srv, skipped>>
    /\ InTurn'
    /\ m.type = "answer" => \A s \in Streams : \A i : Carries(m.sending, i, s) =>
          \A x \in Elems(s2c') : x.type = "answer" => Carries(x.sending, i, s)

LEMMA CameFirst ==
    ASSUME Typed, InTurn, handleWebSocketMessage
    PROVE  Came(Head(s2c))
<1>1. /\ s2c # <<>> /\ s2c' = Tail(s2c) /\ s2c \in Seq(Reply)
      /\ UNCHANGED <<subscribed, calls, c2s, srv, skipped>>
  BY Zenon DEF handleWebSocketMessage, Typed, MessagesOK
<1>2. PICK m, q : m = Head(s2c) /\ q = Tail(s2c) OBVIOUS
<1>3. Elems(s2c) = Elems(q) \cup {m} BY <1>1, <1>2, QueueTail, Zenon
<1>4. m \in Elems(s2c) /\ \A x \in Elems(q) : x \in Elems(s2c) BY <1>3
<1>5. /\ Len(s2c) \in Nat /\ Len(s2c) > 0 /\ Len(q) = Len(s2c) - 1 /\ m = s2c[1]
      /\ \A i \in 1 .. Len(s2c) - 1 : q[i] = s2c[i + 1]
  BY <1>1, <1>2, Taken, SeqFacts
<1>6. \A i \in 1 .. Len(q) : i + 1 \in 1 .. Len(s2c) /\ q[i] = s2c[i + 1] /\ 1 < i + 1 BY <1>5
<1>7. ASSUME NEW i \in 1 .. Len(q), NEW j \in 1 .. Len(q), i < j, q[i].type = "answer",
             q[j].type = "answer", NEW s \in Streams, NEW n \in 1 .. Len(q[i].sending),
             q[i].sending[n] = s
      PROVE  Carries(q[j].sending, n, s)
  <2>1. i + 1 < j + 1 BY <1>5, <1>7
  <2> QED BY <1>6, <1>7, <2>1, Zenon DEF InTurn
<1>8. ASSUME m.type = "answer", NEW s \in Streams, NEW n, Carries(m.sending, n, s),
             NEW j \in 1 .. Len(q), q[j].type = "answer"
      PROVE  Carries(q[j].sending, n, s)
  <2>1. 1 \in 1 .. Len(s2c) BY <1>5
  <2>2. n \in 1 .. Len(s2c[1].sending) /\ s2c[1].sending[n] = s BY <1>5, <1>8, Zenon DEF Carries
  <2> QED BY <1>5, <1>6, <1>8, <2>1, <2>2, Zenon DEF InTurn
<1>9. q = s2c' BY <1>1, <1>2
<1>10. InTurn' BY <1>7, <1>9, Zenon DEF InTurn
<1>11. m.type = "answer" => \A s \in Streams : \A i : Carries(m.sending, i, s) =>
          \A x \in Elems(s2c') : x.type = "answer" => Carries(x.sending, i, s)
  BY <1>8, <1>9, Zenon DEF Elems
<1>12. Came(m) BY <1>1, <1>4, <1>9, <1>10, <1>11, Zenon DEF Came
<1> QED BY <1>2, <1>12, Zenon

\* The connection keeps its offer and its transceivers, and the map leads.
LEMMA CameMaps ==
    ASSUME Maps, NEW m, Came(m), Mapped',
           pc'.dirs = pc.dirs, pc'.local = pc.local, pc'.created = pc.created
    PROVE  Maps'
<1>1. /\ \A x \in Elems(s2c') : x \in Elems(s2c)
      /\ UNCHANGED <<subscribed, calls, c2s, srv, skipped>> /\ InTurn'
  BY Zenon DEF Came
<1>2. Placed /\ Drawn /\ Underway /\ Asked /\ Answering /\ FirstOut BY Zenon DEF Maps
<1>3. Has(s2c', Answers) => Has(s2c, Answers) BY <1>1, Zenon DEF Has
<1>4. \A k \in Slots : Active(k)' <=> Active(k) BY <1>1, Zenon DEF Active
<1>5. Placed' BY <1>1, <1>2, Zenon DEF Placed
<1>6. Drawn' BY <1>1, <1>2, <1>4, Zenon DEF Drawn
<1>7. Underway' BY <1>1, <1>2, <1>3, <1>4, Zenon DEF Underway
<1>8. Asked' BY <1>1, <1>2, Zenon DEF Asked
<1>9. Answering' BY <1>1, <1>2, Zenon DEF Answering
<1>10. FirstOut' BY <1>1, <1>2, <1>3, Zenon DEF FirstOut
<1> QED BY <1>1, <1>5, <1>6, <1>7, <1>8, <1>9, <1>10, Zenon DEF Maps

\* The answer m tells that s is sent on i, so the client may enter it into the map.
LEMMA Enters ==
    ASSUME Exchange, Maps, NEW m, Came(m), m.type = "answer", NEW s \in Streams, NEW i,
           Carries(m.sending, i, s)
    PROVE  /\ Carries(srv.senders, i, s) /\ Hears(pc.dirs, i) /\ Hears(pc.local.dirs, i)
           /\ ~ Leaving(s) /\ Heeded(i)
           /\ \A x \in Elems(s2c') : x.type = "answer" => Carries(x.sending, i, s)
<1>1. m \in Elems(s2c) BY Zenon DEF Came
<1>2. Has(s2c, Answers) BY <1>1 DEF Has, Answers
<1>3. Carries(srv.senders, i, s) /\ Hears(pc.local.dirs, i)
  BY <1>1, Zenon DEF Carries, Maps, Answering
<1>4. Hears(pc.dirs, i) BY <1>2, <1>3, WithinFacts, Zenon DEF Maps, Underway
<1>5. ~ Has(c2s, {"unsubscribe"}) BY <1>2, Zenon DEF Maps, FirstOut
<1>6. \A x \in Elems(c2s) : x.type # "unsubscribe" BY <1>5 DEF Has
<1>7. ~ Leaving(s)
  <2>1. \A k \in Slots : Active(k) => calls[k].kind = "subscribe"
    BY <1>2, Zenon DEF Exchange, OneExchange
  <2>2. \A k \in Slots : Active(k) => calls[k].kind \notin {"switch", "unsubscribe"} BY <2>1
  <2> QED BY <1>6, <2>2, Zenon DEF Leaving, Calling, Told
<1>8. Heeded(i) BY <1>3, <1>6, Zenon DEF Heeded, Maps, Asked
<1>9. \A x \in Elems(s2c') : x.type = "answer" => Carries(x.sending, i, s) BY Zenon DEF Came
<1> QED BY <1>3, <1>4, <1>7, <1>8, <1>9

LEMMA HandleWebSocketMessageAgrees ==
    ASSUME Typed, Begun, Exchange, Lists, Maps, pc # None, handleWebSocketMessage
    PROVE  Lists' /\ Maps'
<1>1. PICK m : m = Head(s2c) OBVIOUS
<1>2. Came(m) BY <1>1, CameFirst, Zenon DEF Maps
<1>3. /\ \A x \in Elems(s2c') : x \in Elems(s2c)
      /\ UNCHANGED <<subscribed, calls, c2s, srv, skipped>>
  BY <1>2, Zenon DEF Came
<1>4. \A s : (Leaving(s)' <=> Leaving(s)) /\ (Gone(s)' <=> Gone(s)) /\ (Coming(s)' <=> Coming(s))
  BY <1>3, Zenon DEF Leaving, Gone, Coming, Calling, Awaiting, Told, Active
<1>5. Lists' BY <1>3, <1>4, UnmovedLists, Zenon DEF Unmoved
<1>6. \A i : Heeded(i)' <=> Heeded(i) BY <1>3, Zenon DEF Heeded
<1>7. \A s, i : Borne(s, i) => Borne(s, i)' BY <1>3, Zenon DEF Borne
<1>8. CASE m.type = "answer" /\ AnswerFits(m)
  <2>1. PICK recv : Applied(m, recv) BY <1>1, <1>8, AnswerApplied, Zenon
  <2>2. /\ recv \in Seq(Carried) /\ Len(recv) = Len(pc.recv)
        /\ \A i \in 1 .. Len(pc.recv) : recv[i] =
              IF i <= Len(m.sending) /\ Receives(pc.local.dirs[i]) THEN m.sending[i] ELSE None
        /\ handleTrackEvent(recv)
        /\ pc' # None /\ pc'.dirs = pc.dirs /\ pc'.recv = recv
        /\ pc'.created = pc.created /\ pc'.local = pc.local
    BY <2>1, Zenon DEF Applied
  <2>3. ASSUME NEW s \in Streams, NEW i, i # 0, map'[s] = i PROVE Leads(s, i)'
    <3>1. \/ map'[s] = map[s]
          \/ map'[s] \in 1 .. Len(recv) /\ recv[map'[s]] = s
      BY <2>2, MapEntered, Zenon
    <3>2. CASE map[s] = i
      <4>1. Leads(s, i) BY <2>3, <3>2, Zenon DEF Maps, Mapped
      <4>2. m \in Elems(s2c) BY <1>2, Zenon DEF Came
      <4>3. Carries(m.sending, i, s) BY <1>8, <4>1, <4>2, Zenon DEF Leads, Borne
      <4>4. i \in 1 .. Len(pc.recv) /\ Receives(pc.local.dirs[i])
        BY <4>1, Zenon DEF Leads, Carries, Hears
      <4>5. i \in 1 .. Len(m.sending) /\ m.sending[i] = s BY <4>3, Zenon DEF Carries
      <4>6. i <= Len(m.sending)
        <5>1. Len(pc.recv) \in Nat BY Shapes
        <5> QED BY <4>4, <4>5, <5>1
      <4>7. recv[i] = s BY <2>2, <4>4, <4>5, <4>6, Zenon
      <4>8. Carries(pc'.recv, i, s) BY <2>2, <4>4, <4>7 DEF Carries
      <4>9. /\ Carries(srv'.senders, i, s) /\ Hears(pc'.dirs, i) /\ Hears(pc'.local.dirs, i)
            /\ ~ Leaving(s)' /\ Heeded(i)' /\ Borne(s, i)'
        BY <1>3, <1>4, <1>6, <1>7, <2>2, <4>1, Zenon DEF Leads
      <4> QED BY <4>8, <4>9, Zenon DEF Leads
    <3>3. CASE i \in 1 .. Len(recv) /\ recv[i] = s
      <4>1. s # None BY Sending
      <4>2. i <= Len(m.sending) /\ Receives(pc.local.dirs[i]) /\ m.sending[i] = s
        BY <2>2, <3>3, <4>1
      <4>3. Carries(m.sending, i, s)
        <5>1. Len(pc.recv) \in Nat BY Shapes
        <5>2. m \in Reply
          <6>1. s2c # <<>> /\ s2c \in Seq(Reply) BY DEF handleWebSocketMessage, Typed, MessagesOK
          <6> QED BY <1>1, <6>1, Taken
        <5>3. Len(m.sending) \in Nat BY <1>8, <5>2, ReplyFacts, SeqFacts
        <5> QED BY <2>2, <3>3, <4>2, <5>1, <5>3 DEF Carries
      <4>4. /\ Carries(srv.senders, i, s) /\ Hears(pc.dirs, i) /\ Hears(pc.local.dirs, i)
            /\ ~ Leaving(s) /\ Heeded(i)
            /\ \A x \in Elems(s2c') : x.type = "answer" => Carries(x.sending, i, s)
        BY <1>2, <1>8, <4>3, Enters, Zenon
      <4>5. Carries(pc'.recv, i, s) BY <2>2, <3>3, Zenon DEF Carries
      <4>6. /\ Carries(srv'.senders, i, s) /\ Hears(pc'.dirs, i) /\ Hears(pc'.local.dirs, i)
            /\ ~ Leaving(s)' /\ Heeded(i)'
        BY <1>3, <1>4, <1>6, <2>2, <4>4, Zenon
      <4>7. Borne(s, i)' BY <4>4, Zenon DEF Borne
      <4> QED BY <4>5, <4>6, <4>7, Zenon DEF Leads
    <3> QED BY <2>3, <3>1, <3>2, <3>3, Zenon
  <2>4. Mapped' BY <2>3, Zenon DEF Mapped
  <2>5. Maps' BY <1>2, <2>2, <2>4, CameMaps, Zenon
  <2> QED BY <1>5, <2>5
<1>9. CASE ~ (m.type = "answer" /\ AnswerFits(m))
  <2>1. pc' = pc /\ map' = map BY <1>1, <1>9, Zenon DEF handleWebSocketMessage
  <2>2. ASSUME NEW s \in Streams, NEW i, i # 0, map[s] = i PROVE Leads(s, i)'
    <3>1. Leads(s, i) BY <2>2, Zenon DEF Maps, Mapped
    <3> QED BY <1>3, <1>4, <1>6, <1>7, <2>1, <3>1, Zenon DEF Leads
  <2>3. Mapped' BY <2>1, <2>2, Zenon DEF Mapped
  <2>4. Maps' BY <1>2, <2>1, <2>3, CameMaps, Zenon
  <2> QED BY <1>5, <2>4
<1> QED BY <1>8, <1>9

-------------------------------------------------------------------------------
(***************************************************************************)
(* The connection is made: nothing is subscribed.                          *)
(***************************************************************************)
LEMMA OnopenAgrees ==
    ASSUME Typed, Begun, subscribed = {}, onopen PROVE Lists' /\ Maps'
<1>1. socket = "connecting" /\ UNCHANGED <<subscribed, map, c2s, s2c>> BY Zenon DEF onopen
<1>2. /\ \A j \in Slots : ~ Active(j)
      /\ srv = NewServer /\ c2s = <<>> /\ s2c = <<>>
  BY <1>1, Zenon DEF Begun, Fresh
<1>3. srv'.senders = <<>> BY <1>2 DEF onopen, NewServer
<1>4. PICK c : c = [kind |-> "open", stage |-> "create"] OBVIOUS
<1>5. 0 \in Slots BY BatchV2Assumption DEF Slots
<1>6. Put(0, c)
  <2>1. calls' = [calls EXCEPT ![0] = c] /\ CallsOK BY <1>4, Zenon DEF onopen, Typed
  <2> QED BY <1>5, <2>1, CallsPut, Zenon DEF Put
<1>7. \A j \in Slots : Active(j) => j = 0 BY <1>2, Zenon
<1>8. \A j \in Slots : Active(j)' => calls'[j] = c BY <1>5, <1>6, <1>7, OneCall, Zenon
<1>9. c2s' = <<>> /\ s2c' = <<>> BY <1>1, <1>2, Zenon
<1>10. Elems(c2s') = {} /\ \A T : ~ Has(c2s', T) /\ ~ Has(s2c', T) BY <1>9, QueueEmpty, Zenon
<1>11. Elems(s2c') = {} BY <1>9, QueueEmpty, Zenon
<1>12. \A j \in Slots : Active(j)' => calls'[j].stage # "local" /\ calls'[j].stage # "ice"
  <2>1. c.stage # "local" /\ c.stage # "ice" BY <1>4
  <2> QED BY <1>8, <2>1, Zenon
<1>13. Lists' BY <1>1, Zenon DEF Lists
<1>14. Placed' BY <1>3 DEF Placed
<1>15. \A s \in Streams : map'[s] = 0
  <2>1. pc = None BY <1>1 DEF Begun, Linked
  <2> QED BY <1>1, <2>1, Zenon DEF Typed, PcOK
<1>16. Mapped' BY <1>15, Zenon DEF Mapped
<1>17. Drawn' /\ Underway' BY <1>10, <1>12, Zenon DEF Drawn, Underway
<1>18. Asked' /\ Answering' BY <1>10, <1>11, Zenon DEF Asked, Answering
<1>19. InTurn' /\ FirstOut'
  <2>1. 1 .. Len(c2s') = {} /\ 1 .. Len(s2c') = {} BY <1>9
  <2> QED BY <1>10, <2>1, Zenon DEF InTurn, FirstOut
<1>20. Maps' BY <1>14, <1>16, <1>17, <1>18, <1>19, Zenon DEF Maps
<1> QED BY <1>13, <1>20

-------------------------------------------------------------------------------
(***************************************************************************)
(* Every action keeps Subscriptions.                                       *)
(***************************************************************************)
\* Without a peer connection the list is empty.
LEMMA EmptyList == ASSUME Typed, Begun, Subscriptions, Next PROVE (pc = None => subscribed = {})'
<1>1. CASE disconnect \/ onerror \/ onclose
  BY <1>1, Zenon DEF disconnect, onerror, onclose, cleanup
<1>2. CASE \/ connect \/ getStreamList \/ Go \/ RemoteStreamEnds \/ Dispose
           \/ \E s \in Streams : StreamEnds(s)
           \/ \E k \in Slots : startPublishing(k) \/ stopPublishing(k) \/ getUserMedia(k) \/ replaceTrack(k)
  <2>1. pc' = pc /\ subscribed' = subscribed
    BY <1>2, Zenon DEF connect, getStreamList, Go, RemoteStreamEnds, Dispose, StreamEnds, startPublishing,
       stopPublishing, getUserMedia, replaceTrack, client
  <2> QED BY <2>1, Zenon DEF Subscriptions
<1>3. CASE onopen BY <1>3, Opened, Zenon
<1>4. ASSUME NEW k \in Slots, NEW S \in SUBSET Streams, subscribeToStreams(k, S) PROVE pc' # None
  BY <1>4, SubscribeToStreamsBegun, Zenon DEF Began
<1>5. ASSUME NEW k \in Slots, NEW s \in Streams, unsubscribeFromStream(k, s) PROVE pc' # None
  BY <1>5, UnsubscribeFromStreamBegun, Zenon DEF Began
<1>6. ASSUME NEW k \in Slots, createOffer(k) PROVE pc' # None BY <1>6, CreatedBy, Zenon DEF Created
<1>7. ASSUME NEW k \in Slots, setLocalDescription(k) PROVE pc' # None
  <2>1. \/ pc' = pc
        \/ \E p : LocalSet(k, p)
    BY <1>7, LocalSetBy, Zenon
  <2>2. pc # None BY <1>7, LocalSetBy, Zenon
  <2> QED BY <2>1, <2>2, Zenon DEF LocalSet, Localised, Proceeded
<1>8. ASSUME NEW k \in Slots, waitForIceGathering(k) PROVE (pc = None => subscribed = {})'
  <2>1. \/ pc' = pc /\ subscribed' = subscribed
        \/ pc' # None
    BY <1>8, GatheredBy, Zenon DEF Proceeded
  <2> QED BY <2>1, Zenon DEF Subscriptions
<1>9. CASE handleWebSocketMessage
  <2>1. subscribed' = subscribed BY <1>9, Zenon DEF handleWebSocketMessage
  <2>2. pc' = pc \/ pc' # None
    <3>1. CASE Head(s2c).type = "answer" /\ AnswerFits(Head(s2c))
      BY <1>9, <3>1, AnswerApplied, Zenon DEF Applied
    <3>2. CASE ~ (Head(s2c).type = "answer" /\ AnswerFits(Head(s2c)))
      BY <1>9, <3>2, Zenon DEF handleWebSocketMessage
    <3> QED BY <3>1, <3>2
  <2> QED BY <2>1, <2>2, Zenon DEF Subscriptions
<1> QED BY <1>1, <1>2, <1>3, <1>4, <1>5, <1>6, <1>7, <1>8, <1>9, Zenon DEF Next

LEMMA NextAgrees ==
    ASSUME Typed, Typed', Begun, Begun', Patient, Subscriptions, Next, patient', pc' # None PROVE Lists' /\ Maps'
<1>1. patient BY PatientSteps
<1>2. Exchange BY <1>1, Zenon DEF Patient
<1>3. socket' = "open" BY Zenon DEF Begun, Linked
<1>4. CASE connect \/ disconnect \/ onerror \/ onclose BY <1>3, <1>4 DEF connect, disconnect, onerror, onclose
<1>5. CASE onopen
  <2>1. socket = "connecting" BY <1>5 DEF onopen
  <2>2. pc = None BY <2>1 DEF Begun, Linked
  <2>3. subscribed = {} BY <2>2, Zenon DEF Subscriptions
  <2> QED BY <1>5, <2>3, OnopenAgrees, Zenon
\* The others go on with the connection that is there.
<1>6. CASE ~ (connect \/ onopen \/ disconnect \/ onerror \/ onclose)
  <2>1. socket' = socket
    BY <1>6, Zenon DEF Next, getStreamList,
       startPublishing, stopPublishing, subscribeToStreams, unsubscribeFromStream, getUserMedia,
       replaceTrack, createOffer, setLocalDescription, waitForIceGathering, handleWebSocketMessage,
       Go, RemoteStreamEnds, Dispose, StreamEnds
  <2>2. pc # None BY <1>3, <2>1, Zenon DEF Begun, Linked
  <2>3. Lists /\ Maps BY <1>1, <2>2, Zenon DEF Subscriptions
  <2>4. CASE getStreamList BY <2>2, <2>3, <2>4, GetStreamListAgrees
  <2>5. ASSUME NEW k \in Slots,
               \/ startPublishing(k) \/ stopPublishing(k)
               \/ \E S \in SUBSET Streams : subscribeToStreams(k, S)
               \/ \E s \in Streams : unsubscribeFromStream(k, s)
        PROVE  Lists' /\ Maps'
    BY <2>3, <2>5, BeginningAgrees, Zenon
  <2>6. ASSUME NEW k \in Slots, getUserMedia(k) \/ replaceTrack(k) PROVE Lists' /\ Maps'
    BY <1>2, <2>3, <2>6, TrackAgrees, Zenon
  <2>7. ASSUME NEW k \in Slots, createOffer(k) \/ setLocalDescription(k) \/ waitForIceGathering(k)
        PROVE  Lists' /\ Maps'
    BY <1>2, <2>3, <2>7, CreateOfferAgrees, SetLocalDescriptionAgrees, WaitForIceGatheringAgrees, Zenon
  <2>8. CASE handleWebSocketMessage BY <1>2, <2>2, <2>3, <2>8, HandleWebSocketMessageAgrees, Zenon
  <2>9. CASE Go BY <1>2, <2>3, <2>9, GoAgrees, Zenon
  <2>10. CASE RemoteStreamEnds BY <2>2, <2>3, <2>10, RemoteStreamEndsAgrees, Zenon
  <2>11. CASE Dispose BY <1>3, <2>1, <2>11 DEF Dispose
  <2>12. CASE \E s \in Streams : StreamEnds(s) BY <2>12, Zenon DEF StreamEnds
  <2> QED BY <1>6, <2>4, <2>5, <2>6, <2>7, <2>8, <2>9, <2>10, <2>11, <2>12, Zenon DEF Next
<1> QED BY <1>4, <1>5, <1>6

LEMMA StutterSubscriptions == ASSUME Subscriptions, UNCHANGED vars PROVE Subscriptions'
<1>1. UNCHANGED <<pc, subscribed, map, calls, srv, c2s, s2c, patient, skipped>>
  BY Zenon DEF vars, client, server, history
<1>2. ASSUME pc # None, Lists, Maps PROVE Lists' /\ Maps' BY <1>1, <1>2, PlainAgrees, Zenon
<1> QED BY <1>1, <1>2, Zenon DEF Subscriptions

LEMMA NextSubscriptions ==
    ASSUME Typed, Typed', Begun, Begun', Patient, Subscriptions, [Next]_vars PROVE Subscriptions'
<1>1. CASE Next
  <2>1. (pc = None => subscribed = {})' BY <1>1, EmptyList, Zenon
  <2>2. ASSUME patient', pc' # None PROVE Lists' /\ Maps' BY <1>1, <2>2, NextAgrees, Zenon
  <2> QED BY <2>1, <2>2, Zenon DEF Subscriptions
<1>2. CASE UNCHANGED vars BY <1>2, StutterSubscriptions
<1> QED BY <1>1, <1>2

LEMMA SubscriptionsAlways == Spec => [](Typed /\ Begun /\ Patient /\ Subscriptions)
<1>1. Init => Subscriptions BY Zenon DEF Init, Subscriptions
<1>2. /\ Typed /\ Begun /\ Patient /\ Subscriptions
      /\ (Typed /\ Begun /\ Patient)' /\ [Next]_vars
      => Subscriptions'
  BY NextSubscriptions
<1> QED BY <1>1, <1>2, PatientAlways, PTL DEF Spec

\* At rest nothing is under way to the server.
LEMMA AtRest ==
    ASSUME Begun, Subscriptions, Settled
    PROVE  pc # None /\ Lists /\ Maps /\ \A s : ~ Coming(s)
<1>1. patient /\ Quiet /\ socket = "open" BY DEF Settled
<1>2. pc # None BY <1>1, Zenon DEF Begun, Linked
<1>3. Lists /\ Maps BY <1>1, <1>2, Zenon DEF Subscriptions
<1>4. c2s = <<>> /\ \A k \in Slots : ~ Active(k) BY <1>1, IdleActive, Zenon
<1>5. Elems(c2s) = {} BY <1>4, QueueEmpty, Zenon
<1>6. \A s : ~ Told("subscribe", s) BY <1>5, Zenon DEF Told
<1>7. (\A kinds, s : ~ Calling(kinds, s)) /\ \A s : ~ Awaiting(s) BY <1>4, NoCall, Zenon
<1>8. \A s : ~ Coming(s) BY <1>6, <1>7, Zenon DEF Coming
<1> QED BY <1>2, <1>3, <1>8

\* What the client lists the server sends, for a user who waits and whatever the list
\* was before: a stream that the server lacks is still to be asked for by a method or
\* a request under way, or it was refused, or the handler passed it over because the
\* task of its old subscriber had not ended; and no request under way takes a listed
\* stream away.  A switch may send its second request before or after the answer to
\* its first, and the old subscribers may end at any moment (subscribeToStreams and
\* its second round, unsubscribeFromStream, handleSubscribe, handleUnsubscribe).
THEOREM ListsAgree == Spec => []Agreement
<1>1. ASSUME Begun, Subscriptions, Settled, NEW s \in subscribed
      PROVE  s \in srv.subs \cup Refusable \cup skipped
  BY <1>1, AtRest, Zenon DEF Lists
<1>2. Begun /\ Subscriptions => Agreement BY <1>1 DEF Agreement
<1> QED BY <1>2, SubscriptionsAlways, PTL

\* Wherever the map leads, the stream arrives, the transceiver is turned on and the
\* server has the subscriber, so that an unsubscription turns off the stream's own
\* transceiver and no other; also when AddTrack puts the streams on other
\* transceivers than the client turned on again, and when the answer to a switch's
\* first offer comes in while the second is pending: it is applied to the wrong
\* offer, but tells only of streams that the next answer tells of, too
\* (handleTrackEvent against subscribeToStreams, unsubscribeFromStream and AddTrack).
THEOREM MapLeadsToItsStream == Spec => []MapIsRight
<1>1. ASSUME Typed, Begun, Subscriptions, Settled, NEW s \in Streams, map[s] # 0
      PROVE  pc.recv[map[s]] = s /\ Receives(pc.dirs[map[s]]) /\ s \in srv.subs
  <2>1. Maps BY <1>1, AtRest, Zenon
  <2>2. /\ Carries(pc.recv, map[s], s) /\ Carries(srv.senders, map[s], s) /\ Hears(pc.dirs, map[s])
    BY <1>1, <2>1, Zenon DEF Maps, Mapped, Leads
  <2>3. pc.recv[map[s]] = s /\ Receives(pc.dirs[map[s]]) BY <2>2, Zenon DEF Carries, Hears
  <2>4. s \in srv.subs \cup {None} BY <2>1, <2>2, Zenon DEF Maps, Placed, Carries
  <2>5. s # None BY BatchV2Assumption
  <2> QED BY <2>3, <2>4, <2>5
<1>2. Typed /\ Begun /\ Subscriptions => MapIsRight BY <1>1 DEF MapIsRight
<1> QED BY <1>2, SubscriptionsAlways, PTL

===============================================================================
