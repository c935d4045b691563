--------------------------- MODULE StreamRouting_proofs ---------------------------
(***************************************************************************)
(* Proofs about StreamRouting, for any publishers, subscribers, paths and  *)
(* limits.  StreamsInv holds of every configuration; HeldInv of those that *)
(* do not kick, as long as ChangeSubscribe is called for readers only;     *)
(* RouteInv if besides no alias has a stream's name or is redirected.      *)
(***************************************************************************)
EXTENDS StreamRouting, FiniteSetTheorems, TLAPS

----------------------------------------------------------------------------
(* The bookkeeping of a publisher. *)

LEMMA RecordFields ==
    ASSUME NEW r \in Record
    PROVE  /\ r.state \in States
           /\ r.subs \subseteq Sub
           /\ r.server \in Int
           /\ r.vod \in Int
  BY DEF Record

LEMMA Counted ==
    ASSUME NEW S, S \subseteq Sub, NEW T
    PROVE  IsFiniteSet(S \cap T) /\ Cardinality(S \cap T) \in Nat
  BY SubFinite, FS_Subset, FS_CardinalityType

\* AddSubscriber adds the set, whoever was there before, and leaves the state
\* alone only if nobody is new.
LEMMA AddFacts ==
    ASSUME NEW r \in Record, NEW S \in SUBSET Sub
    PROVE  /\ AddSubscriber(r, S) \in Record
           /\ AddSubscriber(r, S).subs = r.subs \cup S
           /\ S \ r.subs = {} => AddSubscriber(r, S) = r
           /\ S \ r.subs # {} => AddSubscriber(r, S).state = "Subscribed"
  <1> DEFINE new == S \ r.subs
  <1>1. /\ Cardinality(new \cap ServerSub) \in Nat
        /\ Cardinality(new \cap VodSub) \in Nat
    BY Counted
  <1>2. CASE new = {}
    <2>1. AddSubscriber(r, S) = r
      BY <1>2 DEF AddSubscriber
    <2> QED BY <2>1, <1>2
  <1>3. CASE new # {}
    <2>1. AddSubscriber(r, S) =
             [state  |-> "Subscribed",
              subs   |-> r.subs \cup new,
              server |-> r.server + Cardinality(new \cap ServerSub),
              vod    |-> r.vod + Cardinality(new \cap VodSub)]
      BY <1>3 DEF AddSubscriber
    <2>2. r.subs \cup new = r.subs \cup S
      OBVIOUS
    <2> HIDE DEF new
    <2>3. r.subs \cup new \in SUBSET Sub
      BY <2>2, RecordFields
    <2>4. AddSubscriber(r, S) \in Record
      BY <2>1, <2>3, <1>1, RecordFields DEF Record, States
    <2>5. AddSubscriber(r, S).subs = r.subs \cup S /\ AddSubscriber(r, S).state = "Subscribed"
      BY <2>1, <2>2
    <2> QED BY <2>4, <2>5, <1>3 DEF new
  <1> QED BY <1>2, <1>3

LEMMA RemoveFacts ==
    ASSUME NEW r \in Record, NEW s \in Sub
    PROVE  /\ RemoveSubscriber(r, s) \in Record
           /\ RemoveSubscriber(r, s).subs = r.subs \ {s}
           /\ r.state # "Disposed" => RemoveSubscriber(r, s).state # "Disposed"
           /\ r.state = "Disposed" => RemoveSubscriber(r, s).state = "Disposed"
  BY RecordFields DEF RemoveSubscriber, Record, States

LEMMA TransferFacts ==
    ASSUME NEW r \in Record
    PROVE  /\ TransferFrom(r) \in Record
           /\ TransferFrom(r).subs = r.subs \ ServerSub
           /\ r.state # "Disposed" => TransferFrom(r).state # "Disposed"
  BY RecordFields DEF TransferFrom, Record, States

LEMMA EmptiedFacts ==
    ASSUME NEW r \in Record
    PROVE  /\ Emptied(r) \in Record
           /\ Emptied(r).subs = {}
           /\ Emptied(r).state = "Disposed"
  BY RecordFields DEF Emptied, Record, States

LEMMA AliasFields ==
    ASSUME NEW e \in AliasStream
    PROVE  /\ e.target \in Path \cup {NoPath}
           /\ e.pub \in Pub \cup {NoPub}
           /\ e.auto \in BOOLEAN
  BY DEF AliasStream

LEMMA AliasFacts ==
    ASSUME NEW e \in AliasStream, NEW q \in Pub \cup {NoPub}
    PROVE  /\ [e EXCEPT !.pub = q] \in AliasStream
           /\ [e EXCEPT !.pub = q].target = e.target
           /\ [e EXCEPT !.pub = q].pub = q
  BY DEF AliasStream

LEMMA NoAliasFacts ==
    /\ NoAlias \in AliasStream
    /\ NoAlias.target = NoPath /\ NoAlias.pub = NoPub
    /\ \A t \in Path : /\ [NoAlias EXCEPT !.target = t] \in AliasStream
                       /\ [NoAlias EXCEPT !.target = t].target = t
                       /\ [NoAlias EXCEPT !.target = t].pub = NoPub
  BY DEF AliasStream, NoAlias

----------------------------------------------------------------------------
(* Types. *)

\* The publishers that a Start empties were started before and are not p.
LEMMA ReplacedPubs ==
    ASSUME TypeOK, NEW p \in Pub
    PROVE  Replaced(p) \subseteq Pub \ {p}
  <1> SUFFICES ASSUME NEW q \in Replaced(p) PROVE q \in Pub \ {p}
    OBVIOUS
  <1>1. PICK x \in Path : /\ q = alias[x].pub
                          /\ alias[x].pub # NoPub /\ pubPath[alias[x].pub] # pubPath[p]
    BY DEF Replaced, AliasesOf
  <1>2. alias[x] \in AliasStream
    BY DEF TypeOK
  <1> QED BY <1>1, <1>2, AliasFields

\* The subscribers that a Start attaches to p.
LEMMA GainedSubs ==
    ASSUME TypeOK, NEW p \in Pub
    PROVE  Gained(p) \in SUBSET Sub
  <1> SUFFICES ASSUME NEW s \in Gained(p) PROVE s \in Sub
    OBVIOUS
  <1>1. CASE \E x \in Woken(p) : s \in waiting[x]
    <2>1. PICK x \in Woken(p) : s \in waiting[x]
      BY <1>1
    <2>2. x \in Path
      BY PathsGiven DEF Woken, AliasesOf
    <2> QED BY <2>1, <2>2 DEF TypeOK
  <1>2. CASE \E q \in Replaced(p) : s \in pub[q].subs \cap ServerSub
    BY <1>2, TypesGiven
  <1> DEFINE W == UNION {waiting[x] : x \in Woken(p)}
             T == UNION {pub[q].subs \cap ServerSub : q \in Replaced(p)}
  <1>3. Gained(p) = W \cup T
    BY DEF Gained
  <1>4. s \in W => \E x \in Woken(p) : s \in waiting[x]
    OBVIOUS
  <1>5. s \in T => \E q \in Replaced(p) : s \in pub[q].subs \cap ServerSub
    OBVIOUS
  <1> HIDE DEF W, T
  <1> QED BY <1>1, <1>2, <1>3, <1>4, <1>5

\* What a Start does, in terms of the subscribers it gains.
LEMMA StartEffect ==
    ASSUME TypeOK, NEW p \in Pub, Start(p)
    PROVE  /\ \A q \in Pub : pub'[q] = IF q = p THEN AddSubscriber(pub[p], Gained(p))
                                       ELSE IF q \in Replaced(p) THEN TransferFrom(pub[q])
                                       ELSE pub[q]
           /\ pub' \in [Pub -> Record]
           /\ waiting' \in [Path -> SUBSET Sub]
           /\ \A x \in Path : waiting'[x] = IF x \in Woken(p) THEN {} ELSE waiting[x]
           /\ alias' \in [Path -> AliasStream]
           /\ \A x \in Path : /\ alias'[x].target = alias[x].target
                              /\ alias'[x].pub = alias[x].pub \/ alias'[x].pub = p
           /\ \A s \in Sub : publisherOf'[s] = IF s \in Gained(p) THEN p ELSE publisherOf[s]
           /\ publisherOf' \in [Sub -> Pub \cup {NoPub}]
           /\ waitingPublish' = waitingPublish \ Gained(p)
           /\ streams' = [streams EXCEPT ![pubPath[p]] = p]
           /\ streams' \in [Path -> Pub \cup {NoPub}]
           /\ pubTask' = [pubTask EXCEPT ![p] = "live"]
           /\ pubTask' \in [Pub -> {"new", "live", "gone"}]
  <1>1. pub' = [q \in Pub |-> IF q = p THEN AddSubscriber(pub[p], Gained(p))
                              ELSE IF q \in Replaced(p) THEN TransferFrom(pub[q])
                              ELSE pub[q]]
    BY DEF Start
  <1>2. \A q \in Pub : pub[q] \in Record
    BY DEF TypeOK
  <1>3. pub' \in [Pub -> Record]
    BY <1>1, <1>2, AddFacts, TransferFacts, GainedSubs
  <1>4. \A q \in Pub : pub'[q] = IF q = p THEN AddSubscriber(pub[p], Gained(p))
                                 ELSE IF q \in Replaced(p) THEN TransferFrom(pub[q])
                                 ELSE pub[q]
    BY <1>1
  <1>5. /\ waiting' \in [Path -> SUBSET Sub]
        /\ \A x \in Path : waiting'[x] = IF x \in Woken(p) THEN {} ELSE waiting[x]
    BY DEF Start, ClearWaiting, TypeOK
  <1>6. /\ alias' \in [Path -> AliasStream]
        /\ \A x \in Path : /\ alias'[x].target = alias[x].target
                           /\ alias'[x].pub = alias[x].pub \/ alias'[x].pub = p
    <2>1. \A x \in Path : alias[x] \in AliasStream
      BY DEF TypeOK
    <2>2. /\ alias' = [x \in Path |-> alias'[x]]
          /\ \A x \in Path : alias'[x] = [alias[x] EXCEPT !.pub = p] \/ alias'[x] = alias[x]
      BY DEF Start
    <2>3. \A x \in Path : /\ alias'[x] \in AliasStream
                          /\ alias'[x].target = alias[x].target
                          /\ alias'[x].pub = alias[x].pub \/ alias'[x].pub = p
      <3> SUFFICES ASSUME NEW x \in Path
                   PROVE  /\ alias'[x] \in AliasStream
                          /\ alias'[x].target = alias[x].target
                          /\ alias'[x].pub = alias[x].pub \/ alias'[x].pub = p
        OBVIOUS
      <3> PICK e \in AliasStream : e = alias[x]
        BY <2>1
      <3>1. /\ [e EXCEPT !.pub = p] \in AliasStream
            /\ [e EXCEPT !.pub = p].target = e.target
            /\ [e EXCEPT !.pub = p].pub = p
        BY AliasFacts
      <3> QED BY <2>2, <3>1, Zenon
    <2> QED BY <2>2, <2>3
  <1>7. /\ \A s \in Sub : publisherOf'[s] = IF s \in Gained(p) THEN p ELSE publisherOf[s]
        /\ publisherOf' \in [Sub -> Pub \cup {NoPub}]
        /\ waitingPublish' = waitingPublish \ Gained(p)
    <2>1. Attach(Gained(p), p)
      BY DEF Start
    <2> QED BY <2>1 DEF Attach, TypeOK
  <1>8. /\ streams' = [streams EXCEPT ![pubPath[p]] = p]
        /\ pubTask' = [pubTask EXCEPT ![p] = "live"]
    BY DEF Start
  <1>9. /\ streams' \in [Path -> Pub \cup {NoPub}]
        /\ pubTask' \in [Pub -> {"new", "live", "gone"}]
    BY <1>8 DEF TypeOK
  <1> QED BY <1>3, <1>4, <1>5, <1>6, <1>7, <1>8, <1>9

\* The subscribers of p that its Dispose hands back to q, the stream of their path.
BackTo(p, q) ==
    {s \in pub[p].subs : /\ streamPath[s] \in AliasesOf(p)
                         /\ streams[streamPath[s]] # NoPub
                         /\ streams[streamPath[s]] = q}

GoesBack(p) ==
    {s \in pub[p].subs : /\ streamPath[s] \in AliasesOf(p)
                         /\ streams[streamPath[s]] # NoPub}

LEMMA DisposeEffect ==
    ASSUME TypeOK, NEW p \in Pub, PublisherDispose(p)
    PROVE  /\ \A q \in Pub : pub'[q] = IF q = p THEN Emptied(pub[p])
                                       ELSE AddSubscriber(pub[q], BackTo(p, q))
           /\ \A q \in Pub : BackTo(p, q) \in SUBSET Sub
           /\ pub' \in [Pub -> Record]
           /\ \A s \in Sub : publisherOf'[s] = IF s \in GoesBack(p) THEN streams[streamPath[s]]
                                               ELSE publisherOf[s]
           /\ publisherOf' \in [Sub -> Pub \cup {NoPub}]
           /\ waitingPublish' = (waitingPublish \ GoesBack(p)) \cup (pub[p].subs \ GoesBack(p))
           /\ waitingPublish' \subseteq Sub
           /\ waiting' \in [Path -> SUBSET Sub]
           /\ \A x \in Path : waiting'[x] = waiting[x] \cup
                                 {s \in pub[p].subs \ GoesBack(p) : streamPath[s] = x}
           /\ alias' \in [Path -> AliasStream]
           /\ \A x \in Path : x \notin AliasesOf(p) => alias'[x] = alias[x]
           /\ \A x \in AliasesOf(p) : /\ alias'[x].pub = NoPub
                                      /\ alias'[x].target \in {NoPath, alias[x].target}
           /\ streams' = [streams EXCEPT ![pubPath[p]] = NoPub]
           /\ streams' \in [Path -> Pub \cup {NoPub}]
           /\ pubTask' = [pubTask EXCEPT ![p] = "gone"]
           /\ pubTask' \in [Pub -> {"new", "live", "gone"}]
  <1>0. pub[p].subs \subseteq Sub
    BY RecordFields DEF TypeOK
  <1>1. \A q \in Pub : BackTo(p, q) \in SUBSET Sub
    BY <1>0 DEF BackTo
  <1>2. GoesBack(p) \subseteq Sub
    BY <1>0 DEF GoesBack
  <1>3. \A q \in Pub : {s \in GoesBack(p) : streams[streamPath[s]] = q} = BackTo(p, q)
    BY DEF GoesBack, BackTo
  <1>4. pub' = [q \in Pub |-> IF q = p THEN Emptied(pub[p])
                   ELSE AddSubscriber(pub[q], {s \in GoesBack(p) : streams[streamPath[s]] = q})]
    BY DEF PublisherDispose, HandedBack, GoesBack
  <1>5. \A q \in Pub : pub'[q] = IF q = p THEN Emptied(pub[p])
                                 ELSE AddSubscriber(pub[q], BackTo(p, q))
    BY <1>3, <1>4
  <1>6. \A q \in Pub : pub'[q] \in Record
    BY <1>1, <1>5, AddFacts, EmptiedFacts DEF TypeOK
  <1>7. pub' \in [Pub -> Record]
    BY <1>4, <1>6
  <1>8. publisherOf' = [s \in Sub |-> IF s \in GoesBack(p) THEN streams[streamPath[s]]
                                      ELSE publisherOf[s]]
    BY DEF PublisherDispose, HandedBack, GoesBack
  <1>9. publisherOf' \in [Sub -> Pub \cup {NoPub}]
    BY <1>8 DEF TypeOK
  <1>10. /\ waitingPublish' = (waitingPublish \ GoesBack(p)) \cup (pub[p].subs \ GoesBack(p))
         /\ waiting' = [x \in Path |-> waiting[x] \cup
                           {s \in pub[p].subs \ GoesBack(p) : streamPath[s] = x}]
    BY DEF PublisherDispose, HandedBack, GoesBack
  <1>11. waitingPublish' \subseteq Sub
    BY <1>0, <1>10 DEF TypeOK
  <1>12. waiting' \in [Path -> SUBSET Sub]
    BY <1>0, <1>10 DEF TypeOK
  <1>13. /\ alias' \in [Path -> AliasStream]
         /\ \A x \in Path : x \notin AliasesOf(p) => alias'[x] = alias[x]
         /\ \A x \in AliasesOf(p) : /\ alias'[x].pub = NoPub
                                    /\ alias'[x].target \in {NoPath, alias[x].target}
    <2>1. /\ alias' = [x \in Path |-> alias'[x]]
          /\ \A x \in Path : x \notin AliasesOf(p) => alias'[x] = alias[x]
          /\ \A x \in Path : x \in AliasesOf(p) =>
                alias'[x] = NoAlias \/ alias'[x] = [alias[x] EXCEPT !.pub = NoPub]
      BY DEF PublisherDispose
    <2>2. ASSUME NEW x \in AliasesOf(p)
          PROVE  /\ alias'[x] \in AliasStream
                 /\ alias'[x].pub = NoPub
                 /\ alias'[x].target \in {NoPath, alias[x].target}
      <3>1. x \in Path /\ alias[x] \in AliasStream
        BY DEF AliasesOf, TypeOK
      <3> PICK e \in AliasStream : e = alias[x]
        BY <3>1
      <3>2. /\ [e EXCEPT !.pub = NoPub] \in AliasStream
            /\ [e EXCEPT !.pub = NoPub].target = e.target
            /\ [e EXCEPT !.pub = NoPub].pub = NoPub
        BY AliasFacts
      <3>3. alias'[x] = NoAlias \/ alias'[x] = [e EXCEPT !.pub = NoPub]
        BY <2>1, <3>1, Zenon
      <3> QED BY <3>2, <3>3, NoAliasFacts
    <2>3. \A x \in Path : alias'[x] \in AliasStream
      BY <2>1, <2>2 DEF TypeOK
    <2> QED BY <2>1, <2>2, <2>3
  <1>14. /\ streams' = [streams EXCEPT ![pubPath[p]] = NoPub]
         /\ pubTask' = [pubTask EXCEPT ![p] = "gone"]
    BY DEF PublisherDispose
  <1>15. /\ streams' \in [Path -> Pub \cup {NoPub}]
         /\ pubTask' \in [Pub -> {"new", "live", "gone"}]
    BY <1>14 DEF TypeOK
  <1>16. \A s \in Sub : publisherOf'[s] = IF s \in GoesBack(p) THEN streams[streamPath[s]]
                                          ELSE publisherOf[s]
    BY <1>8
  <1>17. \A x \in Path : waiting'[x] = waiting[x] \cup
                            {s \in pub[p].subs \ GoesBack(p) : streamPath[s] = x}
    BY <1>10
  <1> QED BY <1>1, <1>5, <1>7, <1>9, <1>10, <1>11, <1>12, <1>13, <1>14, <1>15, <1>16, <1>17

\* What the second Streams.Add of a publisher that kicked another leaves behind.
LEMMA AgainEffect ==
    ASSUME TypeOK, NEW p \in Pub, PublishAgain(p)
    PROVE  /\ pub' \in [Pub -> Record]
           /\ alias' \in [Path -> AliasStream]
           /\ waiting' \in [Path -> SUBSET Sub]
           /\ publisherOf' \in [Sub -> Pub \cup {NoPub}]
           /\ waitingPublish' \subseteq Sub
           /\ \A x \in Path : alias'[x].pub \in {alias[x].pub, NoPub}
  <1> DEFINE back == HandedBack(Gained(p), p)
             rest == Gained(p) \ back
             Left(q) == IF q \in Replaced(p) THEN TransferFrom(pub[q]) ELSE pub[q]
             To(q) == {s \in back : streams[streamPath[s]] = q}
  <1>1. back \in SUBSET Sub /\ rest \in SUBSET Sub /\ \A q \in Pub : To(q) \in SUBSET Sub
    BY GainedSubs DEF HandedBack
  <1>2. \A q \in Pub : Left(q) \in Record
    BY TransferFacts DEF TypeOK
  <1>3. AddSubscriber(pub[p], Gained(p)) \in Record
    BY AddFacts, GainedSubs DEF TypeOK
  <1>4. pub' = [q \in Pub |-> IF q = p THEN Emptied(AddSubscriber(pub[p], Gained(p)))
                              ELSE AddSubscriber(Left(q), To(q))]
    BY DEF PublishAgain
  <1>5. /\ Emptied(AddSubscriber(pub[p], Gained(p))) \in Record
        /\ \A q \in Pub : AddSubscriber(Left(q), To(q)) \in Record
    BY <1>1, <1>2, <1>3, AddFacts, EmptiedFacts
  <1>6. pub' \in [Pub -> Record]
    BY <1>4, <1>5
  <1>7. /\ publisherOf' = [s \in Sub |-> IF s \in back THEN streams[streamPath[s]]
                                         ELSE IF s \in rest THEN p ELSE publisherOf[s]]
        /\ waitingPublish' = (waitingPublish \ back) \cup rest
        /\ waiting' = [x \in Path |-> ClearWaiting(p)[x] \cup {s \in rest : streamPath[s] = x}]
    BY DEF PublishAgain
  <1> HIDE DEF back, rest
  <1>8. publisherOf' \in [Sub -> Pub \cup {NoPub}] /\ waitingPublish' \subseteq Sub
    BY <1>1, <1>7 DEF TypeOK
  <1>9. \A x \in Path : ClearWaiting(p)[x] \in SUBSET Sub
    BY DEF ClearWaiting, TypeOK
  <1>10. waiting' \in [Path -> SUBSET Sub]
    BY <1>1, <1>7, <1>9
  <1>11. \A x \in Path : alias'[x] \in AliasStream /\ alias'[x].pub \in {alias[x].pub, NoPub}
    <2> SUFFICES ASSUME NEW x \in Path
                 PROVE  alias'[x] \in AliasStream /\ alias'[x].pub \in {alias[x].pub, NoPub}
      OBVIOUS
    <2> PICK e \in AliasStream : e = alias[x]
      BY DEF TypeOK
    <2>1. alias'[x] = e \/ alias'[x] = NoAlias \/ alias'[x] = [e EXCEPT !.pub = NoPub]
      BY DEF PublishAgain
    <2>2. [e EXCEPT !.pub = NoPub] \in AliasStream /\ [e EXCEPT !.pub = NoPub].pub = NoPub
      BY AliasFacts
    <2> QED BY <2>1, <2>2, NoAliasFacts
  <1>12. alias' = [x \in Path |-> alias'[x]]
    BY DEF PublishAgain
  <1> QED BY <1>6, <1>8, <1>10, <1>11, <1>12

LEMMA WakeEffect ==
    ASSUME TypeOK, NEW x \in Path, NEW p \in Pub, WakeUp(x, p)
    PROVE  /\ \A q \in Pub : pub'[q] = IF q = p THEN AddSubscriber(pub[p], waiting[x])
                                       ELSE pub[q]
           /\ waiting[x] \in SUBSET Sub
           /\ pub' \in [Pub -> Record]
           /\ \A s \in Sub : publisherOf'[s] = IF s \in waiting[x] THEN p ELSE publisherOf[s]
           /\ publisherOf' \in [Sub -> Pub \cup {NoPub}]
           /\ waitingPublish' = waitingPublish \ waiting[x]
           /\ \A y \in Path : waiting'[y] = IF y = x THEN {} ELSE waiting[y]
           /\ waiting' \in [Path -> SUBSET Sub]
  <1>1. waiting[x] \in SUBSET Sub /\ pub[p] \in Record
    BY DEF TypeOK
  <1>2. pub' = [pub EXCEPT ![p] = AddSubscriber(pub[p], waiting[x])]
    BY DEF WakeUp
  <1>3. AddSubscriber(pub[p], waiting[x]) \in Record
    BY <1>1, AddFacts
  <1>4. pub' \in [Pub -> Record]
    BY <1>2, <1>3 DEF TypeOK
  <1>5. \A q \in Pub : pub'[q] = IF q = p THEN AddSubscriber(pub[p], waiting[x]) ELSE pub[q]
    BY <1>2 DEF TypeOK
  <1>6. /\ \A s \in Sub : publisherOf'[s] = IF s \in waiting[x] THEN p ELSE publisherOf[s]
        /\ publisherOf' \in [Sub -> Pub \cup {NoPub}]
        /\ waitingPublish' = waitingPublish \ waiting[x]
    BY DEF WakeUp, Attach, TypeOK
  <1>7. /\ \A y \in Path : waiting'[y] = IF y = x THEN {} ELSE waiting[y]
        /\ waiting' \in [Path -> SUBSET Sub]
    BY DEF WakeUp, TypeOK
  <1> QED BY <1>1, <1>4, <1>5, <1>6, <1>7

Transferred(p, t) ==
    /\ \A q \in Pub : pub'[q] =
          IF q = p THEN TransferFrom(IF p = t THEN AddSubscriber(pub[t], pub[p].subs \cap ServerSub)
                                     ELSE pub[p])
          ELSE IF q = t THEN AddSubscriber(pub[t], pub[p].subs \cap ServerSub)
          ELSE pub[q]
    /\ \A s \in Sub : publisherOf'[s] = IF s \in pub[p].subs \cap ServerSub THEN t
                                        ELSE publisherOf[s]
    /\ waitingPublish' = waitingPublish \ (pub[p].subs \cap ServerSub)
    /\ waiting' = waiting

LEMMA TransferEffect ==
    ASSUME TypeOK, NEW p \in Pub, NEW t \in Pub, Transfer(p, t)
    PROVE  /\ Transferred(p, t)
           /\ pub[p].subs \cap ServerSub \in SUBSET Sub
           /\ pub' \in [Pub -> Record]
           /\ publisherOf' \in [Sub -> Pub \cup {NoPub}]
  <1>0. PICK S : S = pub[p].subs \cap ServerSub
    OBVIOUS
  <1>1. S \in SUBSET Sub /\ pub[p] \in Record /\ pub[t] \in Record
    BY <1>0, TypesGiven DEF TypeOK
  <1>2. /\ pub' = [[pub EXCEPT ![t] = AddSubscriber(pub[t], S)] EXCEPT ![p] = TransferFrom(@)]
        /\ Attach(S, t)
        /\ waiting' = waiting
    BY <1>0 DEF Transfer, TransferSubscribers
  <1>4. \A q \in Pub : pub'[q] =
                 IF q = p THEN TransferFrom(IF p = t THEN AddSubscriber(pub[t], S) ELSE pub[p])
                 ELSE IF q = t THEN AddSubscriber(pub[t], S)
                 ELSE pub[q]
    BY <1>2 DEF TypeOK
  <1>5. AddSubscriber(pub[t], S) \in Record
    BY <1>1, AddFacts
  <1>6. TransferFrom(IF p = t THEN AddSubscriber(pub[t], S) ELSE pub[p]) \in Record
    BY <1>1, <1>5, TransferFacts
  <1>7. pub' \in [Pub -> Record]
    BY <1>2, <1>4, <1>5, <1>6 DEF TypeOK
  <1>8. /\ \A s \in Sub : publisherOf'[s] = IF s \in S THEN t ELSE publisherOf[s]
        /\ publisherOf' \in [Sub -> Pub \cup {NoPub}]
        /\ waitingPublish' = waitingPublish \ S
    BY <1>2 DEF Attach, TypeOK
  <1>9. Transferred(p, t)
    BY <1>0, <1>2, <1>4, <1>8, Zenon DEF Transferred
  <1>10. publisherOf' \in [Sub -> Pub \cup {NoPub}]
    BY <1>8
  <1> QED BY <1>0, <1>1, <1>7, <1>9, <1>10, Zenon

LEMMA PutBackEffect ==
    ASSUME TypeOK, NEW s \in Sub, NEW p \in Pub, PutBack(s, p)
    PROVE  /\ \A q \in Pub : pub'[q] = IF q = p THEN RemoveSubscriber(pub[p], s) ELSE pub[q]
           /\ pub' \in [Pub -> Record]
           /\ publisherOf' = publisherOf
           /\ waitingPublish' = waitingPublish \cup {s}
           /\ \A x \in Path : waiting'[x] = IF x = streamPath[s] THEN waiting[x] \cup {s}
                                            ELSE waiting[x]
           /\ waiting' \in [Path -> SUBSET Sub]
  <1>1. RemoveSubscriber(pub[p], s) \in Record
    BY RemoveFacts DEF TypeOK
  <1>2. pub' = [pub EXCEPT ![p] = RemoveSubscriber(pub[p], s)]
    BY DEF PutBack
  <1>3. /\ \A q \in Pub : pub'[q] = IF q = p THEN RemoveSubscriber(pub[p], s) ELSE pub[q]
        /\ pub' \in [Pub -> Record]
    BY <1>1, <1>2 DEF TypeOK
  <1>4. /\ \A x \in Path : waiting'[x] = IF x = streamPath[s] THEN waiting[x] \cup {s}
                                         ELSE waiting[x]
        /\ waiting' \in [Path -> SUBSET Sub]
    BY DEF PutBack, TypeOK
  <1> QED BY <1>3, <1>4 DEF PutBack

IsBack(s, p) ==
    /\ \A q \in Pub : pub'[q] = IF q = p THEN RemoveSubscriber(pub[p], s) ELSE pub[q]
    /\ publisherOf' = publisherOf
    /\ waitingPublish' = waitingPublish \cup {s}
    /\ \A x \in Path : waiting'[x] = IF x = streamPath[s] THEN waiting[x] \cup {s}
                                     ELSE waiting[x]

LEMMA PutsBack ==
    ASSUME TypeOK, NEW s \in Sub, NEW p \in Pub, PutBack(s, p)
    PROVE  IsBack(s, p)
  BY PutBackEffect, SMT DEF IsBack

\* The publisher that Subscriber.Start finds was started, and so was the one an
\* alias call works with.
LEMMA FoundPub ==
    ASSUME TypeOK, NEW s \in Sub
    PROVE  Found(s) \in Pub \cup {NoPub} /\ AliasPublisher(s) \in Pub \cup {NoPub}
  <1>1. streamPath[s] \in Path /\ alias[streamPath[s]] \in AliasStream
    BY DEF TypeOK
  <1>2. alias[streamPath[s]].pub \in Pub \cup {NoPub}
    BY <1>1, AliasFields
  <1>3. Rewritten(s) => Regex[streamPath[s]] \in Path
    BY <1>1, PathsGiven DEF Rewritten
  <1>4. AliasPublisher(s) \in Pub \cup {NoPub}
    BY <1>2, <1>3 DEF AliasPublisher, TypeOK
  <1> QED BY <1>1, <1>4 DEF Found, TypeOK

LEMMA AliasOnStartEffect ==
    ASSUME TypeOK, NEW s \in Sub, AliasOnStart(s)
    PROVE  /\ alias' \in [Path -> AliasStream]
           /\ \A x \in Path : x # streamPath[s] \/ ~Rewritten(s) => alias'[x] = alias[x]
           /\ Rewritten(s) => /\ alias'[streamPath[s]].target = Regex[streamPath[s]]
                              /\ alias'[streamPath[s]].pub = NoPub
                              /\ Regex[streamPath[s]] \in Path
  <1>1. streamPath[s] \in Path
    BY DEF TypeOK
  <1>2. CASE Rewritten(s)
    <2>1. Regex[streamPath[s]] \in Path
      BY <1>1, <1>2, PathsGiven DEF Rewritten
    <2> PICK t \in Path : t = Regex[streamPath[s]]
      BY <2>1
    <2>2. alias' = [alias EXCEPT ![streamPath[s]] = [NoAlias EXCEPT !.target = t]]
      BY <1>2 DEF AliasOnStart
    <2>3. /\ [NoAlias EXCEPT !.target = t] \in AliasStream
          /\ [NoAlias EXCEPT !.target = t].target = t
          /\ [NoAlias EXCEPT !.target = t].pub = NoPub
      BY NoAliasFacts
    <2> PICK e \in AliasStream : e = [NoAlias EXCEPT !.target = t]
      BY <2>3
    <2>4. alias' = [alias EXCEPT ![streamPath[s]] = e] /\ e.target = t /\ e.pub = NoPub
      BY <2>2, <2>3
    <2>5. alias' \in [Path -> AliasStream]
      BY <2>4 DEF TypeOK
    <2>6. /\ alias'[streamPath[s]] = e
          /\ \A x \in Path : x # streamPath[s] => alias'[x] = alias[x]
      BY <2>4, <1>1 DEF TypeOK
    <2> QED BY <1>2, <2>1, <2>4, <2>5, <2>6
  <1>3. CASE ~Rewritten(s)
    BY <1>3 DEF AliasOnStart, TypeOK
  <1> QED BY <1>2, <1>3

LEMMA CreateEffect ==
    ASSUME TypeOK, NEW x \in Path, NEW t \in Path \cup {NoPath}, NEW auto \in BOOLEAN,
           CreateAlias(x, t, auto)
    PROVE  /\ t \in Path
           /\ alias' \in [Path -> AliasStream]
           /\ \A y \in Path \ {x} : alias'[y] = alias[y]
           /\ alias'[x].target = t
           /\ alias'[x].pub = IF streams[t] # NoPub THEN streams[t] ELSE streams[x]
  <1>1. t \in Path
    BY DEF CreateAlias
  <1> PICK q \in Pub \cup {NoPub} : q = IF streams[t] # NoPub THEN streams[t] ELSE streams[x]
    BY <1>1 DEF TypeOK
  <1>2. alias' = [alias EXCEPT ![x] = [target |-> t, pub |-> q, auto |-> auto]]
    BY DEF CreateAlias
  <1>3. [target |-> t, pub |-> q, auto |-> auto] \in AliasStream
    BY DEF AliasStream
  <1>4. alias' \in [Path -> AliasStream]
    BY <1>2, <1>3 DEF TypeOK
  <1>5. /\ alias'[x] = [target |-> t, pub |-> q, auto |-> auto]
        /\ \A y \in Path \ {x} : alias'[y] = alias[y]
    BY <1>2 DEF TypeOK
  <1> QED BY <1>1, <1>4, <1>5

LEMMA ModifyEffect ==
    ASSUME TypeOK, NEW x \in Path, NEW t \in Path \cup {NoPath}, NEW auto \in BOOLEAN,
           ModifyAlias(x, t, auto)
    PROVE  /\ t \in Path
           /\ alias' \in [Path -> AliasStream]
           /\ \A y \in Path \ {x} : alias'[y] = alias[y]
           /\ alias'[x].target = t
           /\ alias'[x].pub = IF alias[x].target # t /\ streams[t] # NoPub THEN streams[t]
                              ELSE alias[x].pub
  <1>1. t \in Path /\ alias[x] \in AliasStream
    BY DEF ModifyAlias, TypeOK
  <1>2. alias[x].pub \in Pub \cup {NoPub} /\ streams[t] \in Pub \cup {NoPub}
    BY <1>1, AliasFields DEF TypeOK
  <1> PICK q \in Pub \cup {NoPub} :
            q = IF alias[x].target # t /\ streams[t] # NoPub THEN streams[t] ELSE alias[x].pub
    BY <1>2
  <1>3. alias' = [alias EXCEPT ![x] = [target |-> t, pub |-> q, auto |-> auto]]
    BY DEF ModifyAlias
  <1>4. [target |-> t, pub |-> q, auto |-> auto] \in AliasStream
    BY <1>1 DEF AliasStream
  <1>5. alias' \in [Path -> AliasStream]
    BY <1>3, <1>4 DEF TypeOK
  <1>6. /\ alias'[x] = [target |-> t, pub |-> q, auto |-> auto]
        /\ \A y \in Path \ {x} : alias'[y] = alias[y]
    BY <1>3 DEF TypeOK
  <1> QED BY <1>1, <1>5, <1>6

LEMMA RemoveEffect ==
    ASSUME TypeOK, NEW x \in Path, RemoveAlias(x)
    PROVE  /\ alias' \in [Path -> AliasStream]
           /\ \A y \in Path \ {x} : alias'[y] = alias[y]
           /\ alias'[x].target = NoPath
           /\ alias'[x].pub = NoPub
  BY NoAliasFacts DEF RemoveAlias, TypeOK

\* What an alias call does to the subscribers: nothing, or one of WakeUp, Transfer
\* and PutBack, with publishers that Streams or an alias holds.
Reachable == {p \in Pub : \E x \in Path : p = streams[x] \/ p = alias[x].pub}

MovesSubscribers ==
    \/ KeepSubscribers
    \/ \E x \in Path, p \in Reachable : WakeUp(x, p)
    \/ \E p, q \in Reachable : Transfer(p, q)
    \/ \E p \in Reachable, s \in Sub : s \in pub[p].subs /\ PutBack(s, p)

LEMMA AliasCall ==
    ASSUME TypeOK, NEW x \in Path, NEW t \in Path \cup {NoPath}, NEW auto \in BOOLEAN,
           SetStreamAlias(x, t, auto)
    PROVE  /\ MovesSubscribers
           /\ UNCHANGED <<pubTask, pubStopped, streams, streamPath, subTask,
                          subStopped, goVars, panicked>>
           /\ alias' \in [Path -> AliasStream]
           /\ \A y \in Path : alias'[y].pub # NoPub => alias'[y].pub \in Reachable
  <1>1. \A y \in Path : alias[y] \in AliasStream /\ streams[y] \in Pub \cup {NoPub}
    BY DEF TypeOK
  <1>2. \A y \in Path : alias[y].pub \in Pub \cup {NoPub}
    BY <1>1, AliasFields
  <1>3. \A y \in Path : /\ streams[y] # NoPub => streams[y] \in Reachable
                        /\ alias[y].pub # NoPub => alias[y].pub \in Reachable
    BY <1>1, <1>2 DEF Reachable
  <1>4. CASE CreateAlias(x, t, auto)
    <2>1. t \in Path
      BY <1>4, CreateEffect
    <2>2. MovesSubscribers
      BY <1>3, <1>4, <2>1 DEF CreateAlias, MovesSubscribers
    <2>3. \A y \in Path : alias'[y].pub # NoPub => alias'[y].pub \in Reachable
      BY <1>3, <1>4, <2>1, CreateEffect
    <2>4. UNCHANGED <<pubTask, pubStopped, streams, streamPath, subTask,
                      subStopped, goVars, panicked>>
      BY <1>4 DEF CreateAlias
    <2> QED BY <1>4, <2>2, <2>3, <2>4, CreateEffect
  <1>5. CASE ModifyAlias(x, t, auto)
    <2>1. t \in Path
      BY <1>5, ModifyEffect
    <2>2. MovesSubscribers
      BY <1>3, <1>5, <2>1 DEF ModifyAlias, MovesSubscribers
    <2>3. \A y \in Path : alias'[y].pub # NoPub => alias'[y].pub \in Reachable
      BY <1>3, <1>5, <2>1, ModifyEffect
    <2>4. UNCHANGED <<pubTask, pubStopped, streams, streamPath, subTask,
                      subStopped, goVars, panicked>>
      BY <1>5 DEF ModifyAlias
    <2> QED BY <1>5, <2>2, <2>3, <2>4, ModifyEffect
  <1>6. CASE RemoveAlias(x)
    <2>1. MovesSubscribers
      <3>1. CASE alias[x].pub # NoPub /\ streams[x] # NoPub /\ Transfer(alias[x].pub, streams[x])
        BY <1>3, <3>1 DEF MovesSubscribers
      <3>2. CASE /\ alias[x].pub # NoPub
                 /\ \E s \in {u \in pub[alias[x].pub].subs : streamPath[u] = x} :
                       PutBack(s, alias[x].pub)
        <4>1. PICK s \in {u \in pub[alias[x].pub].subs : streamPath[u] = x} :
                      PutBack(s, alias[x].pub)
          BY <3>2
        <4>2. alias[x].pub \in Reachable /\ alias[x].pub \in Pub
          BY <1>2, <1>3, <3>2
        <4>3. s \in Sub
          BY <4>2, RecordFields DEF TypeOK
        <4> QED BY <4>1, <4>2, <4>3 DEF MovesSubscribers
      <3>3. CASE KeepSubscribers
        BY <3>3 DEF MovesSubscribers
      <3> QED BY <1>6, <3>1, <3>2, <3>3 DEF RemoveAlias
    <2>2. \A y \in Path : alias'[y].pub # NoPub => alias'[y].pub \in Reachable
      BY <1>3, <1>6, RemoveEffect
    <2>3. UNCHANGED <<pubTask, pubStopped, streams, streamPath, subTask,
                      subStopped, goVars, panicked>>
      BY <1>6 DEF RemoveAlias
    <2> QED BY <1>6, <2>1, <2>2, <2>3, RemoveEffect
  <1> QED BY <1>4, <1>5, <1>6 DEF SetStreamAlias

LEMMA MovesTyped ==
    ASSUME TypeOK, MovesSubscribers
    PROVE  /\ pub' \in [Pub -> Record]
           /\ publisherOf' \in [Sub -> Pub \cup {NoPub}]
           /\ waitingPublish' \subseteq Sub
           /\ waiting' \in [Path -> SUBSET Sub]
  <1>1. CASE KeepSubscribers
    BY <1>1 DEF KeepSubscribers, TypeOK
  <1>2. CASE \E x \in Path, p \in Reachable : WakeUp(x, p)
    <2>1. PICK x \in Path, p \in Pub : WakeUp(x, p)
      BY <1>2 DEF Reachable
    <2>2. waitingPublish' = waitingPublish \ waiting[x]
      BY <2>1, WakeEffect
    <2> QED BY <2>1, <2>2, WakeEffect DEF TypeOK
  <1>3. CASE \E p, q \in Reachable : Transfer(p, q)
    <2>1. PICK p \in Pub, q \in Pub : Transfer(p, q)
      BY <1>3 DEF Reachable
    <2>2. waitingPublish' = waitingPublish \ (pub[p].subs \cap ServerSub) /\ waiting' = waiting
      BY <2>1, TransferEffect DEF Transferred
    <2>3. waitingPublish' \subseteq Sub /\ waiting' \in [Path -> SUBSET Sub]
      BY <2>2 DEF TypeOK
    <2> QED BY <2>1, <2>3, TransferEffect
  <1>4. CASE \E p \in Reachable, s \in Sub : s \in pub[p].subs /\ PutBack(s, p)
    <2>1. PICK p \in Pub, s \in Sub : PutBack(s, p)
      BY <1>4 DEF Reachable
    <2>2. publisherOf' = publisherOf /\ waitingPublish' = waitingPublish \cup {s}
      BY <2>1, PutBackEffect
    <2> QED BY <2>1, <2>2, PutBackEffect DEF TypeOK
  <1> QED BY <1>1, <1>2, <1>3, <1>4 DEF MovesSubscribers

LEMMA SubscribeEffect ==
    ASSUME TypeOK, NEW s \in Sub, Subscribe(s)
    PROVE  /\ Found(s) \in Pub
           /\ \A q \in Pub : pub'[q] = IF q = Found(s) THEN AddSubscriber(pub[q], {s}) ELSE pub[q]
           /\ pub' \in [Pub -> Record]
           /\ publisherOf' \in [Sub -> Pub \cup {NoPub}]
           /\ \A u \in Sub : publisherOf'[u] = IF u = s THEN Found(s) ELSE publisherOf[u]
           /\ waitingPublish' = waitingPublish \ {s}
  <1> PICK p \in Pub : p = Found(s)
    BY FoundPub DEF Subscribe
  <1>1. pub' = [pub EXCEPT ![p] = AddSubscriber(pub[p], {s})] /\ Attach({s}, p)
    BY DEF Subscribe
  <1>2. AddSubscriber(pub[p], {s}) \in Record
    BY AddFacts DEF TypeOK
  <1>3. /\ \A q \in Pub : pub'[q] = IF q = p THEN AddSubscriber(pub[q], {s}) ELSE pub[q]
        /\ pub' \in [Pub -> Record]
    BY <1>1, <1>2 DEF TypeOK
  <1>4. /\ publisherOf' \in [Sub -> Pub \cup {NoPub}]
        /\ \A u \in Sub : publisherOf'[u] = IF u = s THEN p ELSE publisherOf[u]
        /\ waitingPublish' = waitingPublish \ {s}
    BY <1>1 DEF Attach, TypeOK
  <1> QED BY <1>3, <1>4

\* The publisher that the Dispose of s calls RemoveSubscriber on.
Attached(s) ==
    /\ s \notin waitingPublish
    /\ publisherOf[s] # NoPub
    /\ pub[publisherOf[s]].state # "Disposed"

LEMMA LeaveEffect ==
    ASSUME TypeOK, NEW s \in Sub, SubscriberDispose(s)
    PROVE  /\ waiting' \in [Path -> SUBSET Sub]
           /\ \A x \in Path : waiting'[x] = IF s \in waitingPublish /\ x = streamPath[s]
                                            THEN waiting[x] \ {s} ELSE waiting[x]
           /\ pub' \in [Pub -> Record]
           /\ \A q \in Pub : pub'[q] =
                 IF Attached(s) /\ pubTask[publisherOf[s]] # "new" /\ q = publisherOf[s]
                 THEN RemoveSubscriber(pub[q], s) ELSE pub[q]
           /\ panicked' = (panicked \/ (Attached(s) /\ pubTask[publisherOf[s]] = "new"))
  <1>1. /\ waiting' \in [Path -> SUBSET Sub]
        /\ \A x \in Path : waiting'[x] = IF s \in waitingPublish /\ x = streamPath[s]
                                         THEN waiting[x] \ {s} ELSE waiting[x]
    BY DEF SubscriberDispose, Leave, TypeOK
  <1>2. /\ pub' = IF Attached(s) /\ pubTask[publisherOf[s]] # "new"
                  THEN [pub EXCEPT ![publisherOf[s]] = RemoveSubscriber(@, s)] ELSE pub
        /\ panicked' = (panicked \/ (Attached(s) /\ pubTask[publisherOf[s]] = "new"))
    BY DEF SubscriberDispose, Attached
  <1>3. CASE Attached(s) /\ pubTask[publisherOf[s]] # "new"
    <2> PICK p \in Pub : p = publisherOf[s]
      BY <1>3 DEF Attached, TypeOK
    <2>1. pub' = [pub EXCEPT ![p] = RemoveSubscriber(pub[p], s)]
      BY <1>2, <1>3
    <2>2. RemoveSubscriber(pub[p], s) \in Record
      BY RemoveFacts DEF TypeOK
    <2>3. /\ pub' \in [Pub -> Record]
          /\ \A q \in Pub : pub'[q] = IF q = p THEN RemoveSubscriber(pub[q], s) ELSE pub[q]
      BY <2>1, <2>2 DEF TypeOK
    <2> QED BY <1>1, <1>2, <1>3, <2>3
  <1>4. CASE ~(Attached(s) /\ pubTask[publisherOf[s]] # "new")
    <2>1. pub' = pub
      BY <1>2, <1>4
    <2>2. pub' \in [Pub -> Record]
      BY <2>1 DEF TypeOK
    <2> QED BY <1>1, <1>2, <1>4, <2>1, <2>2
  <1> QED BY <1>3, <1>4

LEMMA ChangeEffect ==
    ASSUME TypeOK, NEW s \in Sub, NEW x \in Path, ChangeSubscribe(s, x)
    PROVE  /\ subTask[s] = "live"
           /\ UNCHANGED <<pubTask, pubStopped, streams, alias, waiting, subTask,
                          subStopped, goVars>>
           /\ streams[x] \in Pub
           /\ \/ /\ publisherOf[s] = NoPub \/ pubTask[publisherOf[s]] = "new"
                 /\ panicked'
                 /\ UNCHANGED <<pub, streamPath, publisherOf, waitingPublish>>
              \/ /\ publisherOf[s] \in Pub /\ pubTask[publisherOf[s]] # "new"
                 /\ panicked' = panicked
                 /\ \A q \in Pub : pub'[q] =
                       IF q = streams[x]
                       THEN AddSubscriber(IF q = publisherOf[s] THEN RemoveSubscriber(pub[q], s)
                                          ELSE pub[q], {s})
                       ELSE IF q = publisherOf[s] THEN RemoveSubscriber(pub[q], s)
                       ELSE pub[q]
                 /\ pub' \in [Pub -> Record]
                 /\ streamPath' \in [Sub -> Path]
                 /\ \A u \in Sub : streamPath'[u] = IF u = s THEN x ELSE streamPath[u]
                 /\ publisherOf' \in [Sub -> Pub \cup {NoPub}]
                 /\ \A u \in Sub : publisherOf'[u] = IF u = s THEN streams[x] ELSE publisherOf[u]
                 /\ waitingPublish' = waitingPublish \ {s}
  <1>1. /\ subTask[s] = "live"
        /\ UNCHANGED <<pubTask, pubStopped, streams, alias, waiting, subTask,
                       subStopped, goVars>>
    BY DEF ChangeSubscribe
  <1>2. streams[x] \in Pub
    BY DEF ChangeSubscribe, TypeOK
  <1> DEFINE nil == publisherOf[s] = NoPub \/ (publisherOf[s] # NoPub /\ pubTask[publisherOf[s]] = "new")
  <1>3. CASE nil
    <2>1. UNCHANGED <<pub, streamPath, publisherOf, waitingPublish>>
      BY <1>3 DEF ChangeSubscribe
    <2>2. panicked'
      BY <1>3 DEF ChangeSubscribe
    <2> QED BY <1>1, <1>2, <1>3, <2>1, <2>2
  <1>4. CASE ~nil
    <2> PICK p \in Pub : p = streams[x]
      BY <1>2
    <2> PICK q \in Pub : q = publisherOf[s]
      BY <1>4 DEF TypeOK
    <2>1. pubTask[q] # "new"
      BY <1>4, NilIsNone
    <2>2. /\ pub' = [[pub EXCEPT ![q] = RemoveSubscriber(pub[q], s)]
                          EXCEPT ![p] = AddSubscriber(@, {s})]
          /\ streamPath' = [streamPath EXCEPT ![s] = x]
          /\ Attach({s}, p)
      BY <1>4 DEF ChangeSubscribe
    <2>3. panicked' = panicked
      BY <1>4 DEF ChangeSubscribe, TypeOK
    <2>4. RemoveSubscriber(pub[q], s) \in Record
      BY RemoveFacts DEF TypeOK
    <2>5. AddSubscriber(IF p = q THEN RemoveSubscriber(pub[p], s) ELSE pub[p], {s}) \in Record
      BY <2>4, AddFacts DEF TypeOK
    <2>6. \A u \in Pub : pub'[u] =
             IF u = p
             THEN AddSubscriber(IF u = q THEN RemoveSubscriber(pub[u], s) ELSE pub[u], {s})
             ELSE IF u = q THEN RemoveSubscriber(pub[u], s)
             ELSE pub[u]
      BY <2>2 DEF TypeOK
    <2>7. pub' \in [Pub -> Record]
      BY <2>2, <2>4, <2>5, <2>6 DEF TypeOK
    <2>8. /\ streamPath' \in [Sub -> Path]
          /\ \A u \in Sub : streamPath'[u] = IF u = s THEN x ELSE streamPath[u]
      BY <2>2 DEF TypeOK
    <2>9. /\ publisherOf' \in [Sub -> Pub \cup {NoPub}]
          /\ \A u \in Sub : publisherOf'[u] = IF u = s THEN p ELSE publisherOf[u]
          /\ waitingPublish' = waitingPublish \ {s}
      BY <2>2 DEF Attach, TypeOK
    <2> QED BY <1>1, <1>2, <2>1, <2>3, <2>6, <2>7, <2>8, <2>9
  <1> QED BY <1>3, <1>4

\* The case of a subscriber that has a started publisher.
Changed(s, x) ==
    /\ UNCHANGED <<pubTask, streams, alias, waiting, subTask>>
    /\ streams[x] \in Pub
    /\ panicked' = panicked
    /\ \A q \in Pub : pub'[q] =
          IF q = streams[x]
          THEN AddSubscriber(IF q = publisherOf[s] THEN RemoveSubscriber(pub[q], s) ELSE pub[q], {s})
          ELSE IF q = publisherOf[s] THEN RemoveSubscriber(pub[q], s)
          ELSE pub[q]
    /\ \A u \in Sub : streamPath'[u] = IF u = s THEN x ELSE streamPath[u]
    /\ \A u \in Sub : publisherOf'[u] = IF u = s THEN streams[x] ELSE publisherOf[u]
    /\ waitingPublish' = waitingPublish \ {s}

LEMMA Changes ==
    ASSUME TypeOK, NEW s \in Sub, NEW x \in Path, ChangeSubscribe(s, x),
           ~(publisherOf[s] = NoPub \/ pubTask[publisherOf[s]] = "new")
    PROVE  Changed(s, x)
  BY ChangeEffect, SMT DEF Changed

----------------------------------------------------------------------------
(* StreamsInv: every configuration. *)

\* Whoever is in Streams or cached by an alias was started.
LEMMA ReachableStarted ==
    ASSUME StreamsInv
    PROVE  Reachable \subseteq Started
  <1> SUFFICES ASSUME NEW p \in Reachable PROVE p \in Started
    OBVIOUS
  <1>1. p \in Pub
    BY DEF Reachable
  <1>2. CASE \E x \in Path : p = streams[x]
    BY <1>1, <1>2, NilIsNone DEF StreamsInv, Live, Started
  <1>3. CASE \E x \in Path : p = alias[x].pub
    BY <1>1, <1>3, NilIsNone DEF StreamsInv
  <1> QED BY <1>2, <1>3 DEF Reachable

LEMMA FoundReachable ==
    ASSUME TypeOK, NEW s \in Sub, Found(s) # NoPub
    PROVE  Found(s) \in Reachable
  <1>1. streamPath[s] \in Path
    BY DEF TypeOK
  <1>2. Rewritten(s) => Regex[streamPath[s]] \in Path
    BY <1>1, PathsGiven DEF Rewritten
  <1>3. Found(s) \in Pub
    BY FoundPub
  <1>4. \E x \in Path : Found(s) = streams[x] \/ Found(s) = alias[x].pub
    BY <1>1, <1>2 DEF Found, AliasPublisher
  <1> QED BY <1>3, <1>4 DEF Reachable

\* Steps that leave Streams, the publishers' tasks and their goroutines alone.
LEMMA StreamsKept ==
    ASSUME StreamsInv, TypeOK', UNCHANGED <<pubTask, streams, pc, old>>,
           \A x \in Path : alias'[x].pub # NoPub => alias'[x].pub \in Started
    PROVE  StreamsInv'
  BY DEF StreamsInv, Live, Started

LEMMA StreamsInit == Init => StreamsInv
  <1> SUFFICES ASSUME Init PROVE StreamsInv
    OBVIOUS
  <1>1. NewPublisher \in Record
    BY DEF NewPublisher, Record, States
  <1>2. TypeOK
    BY <1>1, PathsGiven, NoAliasFacts DEF Init, TypeOK
  <1>3. \A x \in Path : alias[x].pub = NoPub
    BY NoAliasFacts DEF Init
  <1> QED BY <1>2, <1>3 DEF Init, StreamsInv, Live, TakingOver

LEMMA PublishStreams ==
    ASSUME StreamsInv, NEW p \in Pub, Publish(p)
    PROVE  StreamsInv'
  <1>0. TypeOK /\ Start(p) /\ pc' = [pc EXCEPT ![p] = "done"]
        /\ UNCHANGED <<pubStopped, streamPath, subTask, subStopped, old, panicked>>
        /\ pc[p] = "publish" /\ streams[pubPath[p]] = NoPub
    BY DEF Publish, StreamsInv
  <1>1. TypeOK'
    <2>1. waitingPublish' \subseteq Sub
      BY <1>0, StartEffect DEF TypeOK
    <2>2. /\ pub' \in [Pub -> Record]
          /\ pubTask' \in [Pub -> {"new", "live", "gone"}]
          /\ streams' \in [Path -> Pub \cup {NoPub}]
          /\ alias' \in [Path -> AliasStream]
          /\ waiting' \in [Path -> SUBSET Sub]
          /\ publisherOf' \in [Sub -> Pub \cup {NoPub}]
      BY <1>0, StartEffect
    <2>3. pc' \in [Pub -> {"publish", "stop", "subscribers", "clear", "wait", "done"}]
      BY <1>0 DEF TypeOK
    <2> QED BY <1>0, <2>1, <2>2, <2>3 DEF TypeOK
  <1>2. /\ streams' = [streams EXCEPT ![pubPath[p]] = p]
        /\ pubTask' = [pubTask EXCEPT ![p] = "live"]
        /\ \A x \in Path : alias'[x].pub = alias[x].pub \/ alias'[x].pub = p
    BY <1>0, StartEffect
  <1>3. pubPath[p] \in Path
    BY PathsGiven
  <1>4. \A x \in Path : streams'[x] # NoPub => streams'[x] \in Live' /\ pubPath[streams'[x]] = x
    BY <1>0, <1>2, <1>3 DEF StreamsInv, Live, TypeOK
  <1>5. \A q \in Live' : streams'[pubPath[q]] = q
    <2> SUFFICES ASSUME NEW q \in Live' PROVE streams'[pubPath[q]] = q
      OBVIOUS
    <2>1. CASE q = p
      BY <2>1, <1>2, <1>3 DEF StreamsInv, TypeOK
    <2>2. CASE q # p
      <3>1. q \in Live
        BY <2>2, <1>2 DEF Live, StreamsInv, TypeOK
      <3>2. streams[pubPath[q]] = q /\ q \in Pub
        BY <3>1 DEF StreamsInv, Live
      <3>3. pubPath[q] # pubPath[p] /\ pubPath[q] \in Path
        BY <3>2, <1>0, NilIsNone, PathsGiven
      <3> QED BY <3>2, <3>3, <1>2 DEF StreamsInv, TypeOK
    <2> QED BY <2>1, <2>2
  <1>6. \A q \in Pub : pc'[q] # "done" => pubTask'[q] = "new"
    BY <1>0, <1>2 DEF StreamsInv, TypeOK
  <1>7. Started \subseteq Started' /\ p \in Started'
    BY <1>2 DEF Started, StreamsInv, TypeOK
  <1>8. \A q \in Pub : pc'[q] \in TakingOver => old'[q] \in Started'
    BY <1>0, <1>7 DEF StreamsInv, TypeOK, TakingOver
  <1>9. \A x \in Path : alias'[x].pub # NoPub => alias'[x].pub \in Started'
    BY <1>2, <1>7 DEF StreamsInv
  <1> QED BY <1>1, <1>4, <1>5, <1>6, <1>8, <1>9 DEF StreamsInv

LEMMA DisposeStreams ==
    ASSUME StreamsInv, NEW p \in Pub, PublisherDispose(p)
    PROVE  StreamsInv'
  <1>0. /\ TypeOK
        /\ UNCHANGED <<pubStopped, streamPath, subTask, subStopped, goVars, panicked>>
        /\ pubTask[p] = "live"
    BY DEF PublisherDispose, StreamsInv, Live
  <1>1. TypeOK'
    <2>1. /\ pub' \in [Pub -> Record]
          /\ pubTask' \in [Pub -> {"new", "live", "gone"}]
          /\ streams' \in [Path -> Pub \cup {NoPub}]
          /\ alias' \in [Path -> AliasStream]
          /\ waiting' \in [Path -> SUBSET Sub]
          /\ publisherOf' \in [Sub -> Pub \cup {NoPub}]
          /\ waitingPublish' \subseteq Sub
      BY <1>0, DisposeEffect
    <2> QED BY <1>0, <2>1 DEF TypeOK, goVars
  <1>2. /\ streams' = [streams EXCEPT ![pubPath[p]] = NoPub]
        /\ pubTask' = [pubTask EXCEPT ![p] = "gone"]
        /\ \A x \in Path : x \notin AliasesOf(p) => alias'[x] = alias[x]
        /\ \A x \in AliasesOf(p) : alias'[x].pub = NoPub
    BY <1>0, DisposeEffect
  <1>3. pubPath[p] \in Path /\ streams[pubPath[p]] = p
    BY <1>0, PathsGiven DEF StreamsInv, Live
  <1>4. \A x \in Path : streams'[x] # NoPub => streams'[x] \in Live' /\ pubPath[streams'[x]] = x
    <2> SUFFICES ASSUME NEW x \in Path, streams'[x] # NoPub
                 PROVE  streams'[x] \in Live' /\ pubPath[streams'[x]] = x
      OBVIOUS
    <2>1. x # pubPath[p] /\ streams'[x] = streams[x]
      BY <1>2, <1>3 DEF StreamsInv, TypeOK
    <2>2. streams[x] \in Live /\ pubPath[streams[x]] = x
      BY <2>1 DEF StreamsInv
    <2>3. streams[x] # p
      BY <2>1, <2>2
    <2> QED BY <2>1, <2>2, <2>3, <1>2 DEF Live, StreamsInv, TypeOK
  <1>5. \A q \in Live' : streams'[pubPath[q]] = q
    <2> SUFFICES ASSUME NEW q \in Live' PROVE streams'[pubPath[q]] = q
      OBVIOUS
    <2>1. q # p /\ q \in Live
      BY <1>2 DEF Live, StreamsInv, TypeOK
    <2>2. streams[pubPath[q]] = q /\ q \in Pub
      BY <2>1 DEF StreamsInv, Live
    <2>3. pubPath[q] # pubPath[p] /\ pubPath[q] \in Path
      BY <2>1, <2>2, <1>3, PathsGiven
    <2> QED BY <2>2, <2>3, <1>2 DEF StreamsInv, TypeOK
  <1>6. \A q \in Pub : pc'[q] # "done" => pubTask'[q] = "new"
    BY <1>0, <1>2 DEF StreamsInv, TypeOK, goVars
  <1>7. Started \subseteq Started'
    BY <1>2 DEF Started, StreamsInv, TypeOK
  <1>8. \A q \in Pub : pc'[q] \in TakingOver => old'[q] \in Started'
    BY <1>0, <1>7 DEF StreamsInv, goVars
  <1>9. \A x \in Path : alias'[x].pub # NoPub => alias'[x].pub \in Started'
    BY <1>2, <1>7 DEF StreamsInv
  <1> QED BY <1>1, <1>4, <1>5, <1>6, <1>8, <1>9 DEF StreamsInv

LEMMA PublishOther ==
    ASSUME StreamsInv, NEW p \in Pub,
           \/ PublishAgain(p) \/ PublishRefused(p) \/ PublishExists(p) \/ TakeOverStop(p)
           \/ TakeOverSubscribers(p) \/ TakeOverClear(p) \/ TakeOverWaited(p)
           \/ PublisherStop(p)
    PROVE  StreamsInv'
  <1>0. TypeOK /\ pubPath[p] \in Path
    BY PathsGiven DEF StreamsInv
  <1>1. CASE PublishRefused(p)
    <2>1. TypeOK'
      BY <1>0, <1>1 DEF TypeOK, PublishRefused, subVars
    <2>2. pubTask[p] = "new"
      BY <1>1 DEF PublishRefused, StreamsInv
    <2>3. Live' = Live /\ Started \subseteq Started'
      BY <1>0, <1>1, <2>2 DEF Live, Started, PublishRefused, TypeOK
    <2>4. \A q \in Pub : pc'[q] # "done" => q # p /\ pc'[q] = pc[q] /\ pubTask'[q] = pubTask[q]
      BY <1>0, <1>1 DEF PublishRefused, TypeOK
    <2>5. \A q \in Pub : /\ pc'[q] # "done" => pubTask'[q] = "new"
                         /\ pc'[q] \in TakingOver => old'[q] \in Started'
      BY <1>1, <2>3, <2>4 DEF PublishRefused, StreamsInv, TakingOver
    <2>6. streams' = streams /\ alias' = alias
      BY <1>1 DEF PublishRefused
    <2> QED BY <2>1, <2>3, <2>5, <2>6 DEF StreamsInv
  <1>2. CASE PublishExists(p)
    <2>1. streams[pubPath[p]] \in Started
      BY <1>0, <1>2 DEF PublishExists, StreamsInv, Live, Started
    <2>2. TypeOK'
      BY <1>0, <1>2 DEF TypeOK, PublishExists, pubVars, subVars
    <2>3. \A q \in Pub : /\ q # p => pc'[q] = pc[q] /\ old'[q] = old[q]
                         /\ q = p => old'[q] = streams[pubPath[p]] /\ pc[q] # "done"
      BY <1>0, <1>2 DEF PublishExists, TypeOK
    <2>4. UNCHANGED <<pubTask, streams, alias>>
      BY <1>2 DEF PublishExists, pubVars
    <2> QED BY <2>1, <2>2, <2>3, <2>4 DEF StreamsInv, Live, Started
  <1>3. CASE TakeOverStop(p)
    <2>1. old[p] \in Pub
      BY <1>3 DEF TakeOverStop, StreamsInv, TakingOver, Started
    <2>2. TypeOK'
      BY <1>0, <1>3, <2>1 DEF TypeOK, TakeOverStop, subVars
    <2>3. UNCHANGED <<pubTask, streams, alias, old>>
      BY <1>3 DEF TakeOverStop
    <2>4. \A q \in Pub : pc'[q] = pc[q] \/ (q = p /\ pc[q] \in TakingOver)
      BY <1>0, <1>3 DEF TakeOverStop, TypeOK, TakingOver
    <2> QED BY <2>2, <2>3, <2>4 DEF StreamsInv, Live, Started, TakingOver
  <1>4. CASE TakeOverSubscribers(p)
    <2>1. TypeOK'
      BY <1>0, <1>4 DEF TypeOK, TakeOverSubscribers, pubVars
    <2>2. UNCHANGED <<pubTask, streams, alias, old>>
      BY <1>4 DEF TakeOverSubscribers, pubVars
    <2>3. \A q \in Pub : pc'[q] = pc[q] \/ (q = p /\ pc[q] \in TakingOver)
      BY <1>0, <1>4 DEF TakeOverSubscribers, TypeOK, TakingOver
    <2> QED BY <2>1, <2>2, <2>3 DEF StreamsInv, Live, Started, TakingOver
  <1>5. CASE TakeOverClear(p)
    <2>1. old[p] \in Pub
      BY <1>5 DEF TakeOverClear, StreamsInv, TakingOver, Started
    <2>2. pub' = [pub EXCEPT ![old[p]] = [@ EXCEPT !.subs = {}]]
      BY <1>5 DEF TakeOverClear
    <2>3. \A r \in Record : [r EXCEPT !.subs = {}] \in Record
      BY DEF Record
    <2>4. pub' \in [Pub -> Record]
      BY <1>0, <2>1, <2>2, <2>3 DEF TypeOK
    <2>5. TypeOK'
      BY <1>0, <1>5, <2>4 DEF TypeOK, TakeOverClear, subVars
    <2>6. UNCHANGED <<pubTask, streams, alias, old>>
      BY <1>5 DEF TakeOverClear
    <2>7. \A q \in Pub : pc'[q] = pc[q] \/ (q = p /\ pc[q] \in TakingOver)
      BY <1>0, <1>5 DEF TakeOverClear, TypeOK, TakingOver
    <2> QED BY <2>5, <2>6, <2>7 DEF StreamsInv, Live, Started, TakingOver
  <1>6. CASE TakeOverWaited(p)
    <2>1. TypeOK'
      BY <1>0, <1>6 DEF TypeOK, TakeOverWaited, pubVars, subVars
    <2>2. UNCHANGED <<pubTask, streams, alias, old>>
      BY <1>6 DEF TakeOverWaited, pubVars
    <2>3. \A q \in Pub : pc'[q] = pc[q] \/ (q = p /\ pc[q] \in TakingOver)
      BY <1>0, <1>6 DEF TakeOverWaited, TypeOK, TakingOver
    <2> QED BY <2>1, <2>2, <2>3 DEF StreamsInv, Live, Started, TakingOver
  <1>7. CASE PublisherStop(p)
    <2>1. TypeOK'
      BY <1>0, <1>7 DEF TypeOK, PublisherStop, subVars, goVars
    <2> QED BY <1>7, <2>1, StreamsKept DEF PublisherStop, goVars, StreamsInv
  <1>8. CASE PublishAgain(p)
    <2>1. /\ pub' \in [Pub -> Record] /\ alias' \in [Path -> AliasStream]
          /\ waiting' \in [Path -> SUBSET Sub]
          /\ publisherOf' \in [Sub -> Pub \cup {NoPub}] /\ waitingPublish' \subseteq Sub
          /\ \A x \in Path : alias'[x].pub \in {alias[x].pub, NoPub}
      BY <1>0, <1>8, AgainEffect
    <2>2. pubTask[p] = "new"
      BY <1>8 DEF PublishAgain, StreamsInv
    <2>3. /\ pubTask' = [pubTask EXCEPT ![p] = "gone"] /\ pc' = [pc EXCEPT ![p] = "done"]
          /\ pubStopped' = pubStopped \cup {p}
          /\ UNCHANGED <<streams, streamPath, subTask, subStopped, old, panicked>>
      BY <1>8 DEF PublishAgain
    <2>4. TypeOK'
      BY <1>0, <2>1, <2>3 DEF TypeOK
    <2>5. Live' = Live /\ Started \subseteq Started'
      BY <1>0, <2>2, <2>3 DEF Live, Started, TypeOK
    <2>6. \A q \in Pub : pc'[q] # "done" => q # p /\ pc'[q] = pc[q] /\ pubTask'[q] = pubTask[q]
      BY <1>0, <2>3 DEF TypeOK
    <2>7. \A q \in Pub : /\ pc'[q] # "done" => pubTask'[q] = "new"
                         /\ pc'[q] \in TakingOver => old'[q] \in Started'
      BY <2>3, <2>5, <2>6 DEF StreamsInv, TakingOver
    <2>8. \A x \in Path : alias'[x].pub # NoPub => alias'[x].pub \in Started'
      BY <2>1, <2>5 DEF StreamsInv
    <2> QED BY <2>3, <2>4, <2>5, <2>7, <2>8 DEF StreamsInv
  <1> QED BY <1>1, <1>2, <1>3, <1>4, <1>5, <1>6, <1>7, <1>8

LEMMA SubscriberStreams ==
    ASSUME StreamsInv, NEW s \in Sub,
           \/ SubscribeStep(s) \/ StopSubscriber(s) \/ SubscriberDispose(s)
           \/ \E x \in ChangeTo : ChangeSubscribe(s, x)
    PROVE  StreamsInv'
  <1>0. TypeOK /\ \A x \in Path : alias[x].pub # NoPub => alias[x].pub \in Started
    BY DEF StreamsInv
  <1>1. ASSUME AliasOnStart(s)
        PROVE  /\ alias' \in [Path -> AliasStream]
               /\ \A x \in Path : alias'[x].pub # NoPub => alias'[x].pub \in Started
    BY <1>0, <1>1, AliasOnStartEffect
  <1>2. CASE Subscribe(s)
    <2>1. AliasOnStart(s)
      BY <1>2 DEF Subscribe
    <2>2. /\ pub' \in [Pub -> Record]
          /\ publisherOf' \in [Sub -> Pub \cup {NoPub}]
          /\ waitingPublish' = waitingPublish \ {s}
      BY <1>0, <1>2, SubscribeEffect
    <2>3. subTask' = [subTask EXCEPT ![s] = "live"]
          /\ UNCHANGED <<pubTask, pubStopped, streams, waiting, streamPath,
                         subStopped, goVars, panicked>>
      BY <1>2 DEF Subscribe
    <2>4. TypeOK'
      BY <1>0, <1>1, <2>1, <2>2, <2>3 DEF TypeOK, goVars
    <2> QED BY <1>1, <2>1, <2>3, <2>4, StreamsKept DEF goVars
  <1>3. CASE SubscribeRefused(s)
    <2>1. TypeOK'
      BY <1>0, <1>1, <1>3 DEF SubscribeRefused, TypeOK, goVars
    <2> QED BY <1>1, <1>3, <2>1, StreamsKept DEF SubscribeRefused, goVars
  <1>4. CASE SubscribeWait(s)
    <2>1. TypeOK'
      BY <1>0, <1>1, <1>4 DEF SubscribeWait, TypeOK, goVars
    <2> QED BY <1>1, <1>4, <2>1, StreamsKept DEF SubscribeWait, goVars
  <1>5. CASE StopSubscriber(s)
    <2>1. TypeOK'
      BY <1>0, <1>5 DEF StopSubscriber, TypeOK, pubVars, goVars
    <2> QED BY <1>0, <1>5, <2>1, StreamsKept DEF StopSubscriber, pubVars, goVars
  <1>6. CASE SubscriberDispose(s)
    <2>1. waiting' \in [Path -> SUBSET Sub] /\ pub' \in [Pub -> Record]
      BY <1>0, <1>6, LeaveEffect
    <2>2. /\ panicked' \in BOOLEAN
          /\ subTask' = [subTask EXCEPT ![s] = "gone"]
          /\ UNCHANGED <<pubTask, pubStopped, streams, alias, streamPath,
                         publisherOf, waitingPublish, subStopped, goVars>>
      BY <1>6 DEF SubscriberDispose
    <2>3. TypeOK'
      BY <1>0, <2>1, <2>2 DEF TypeOK, goVars
    <2> QED BY <1>0, <2>2, <2>3, StreamsKept DEF goVars
  <1>7. CASE \E x \in ChangeTo : ChangeSubscribe(s, x)
    <2>1. PICK x \in Path : ChangeSubscribe(s, x)
      BY <1>7, PathsGiven
    <2>2. UNCHANGED <<pubTask, pubStopped, streams, alias, waiting, subTask,
                      subStopped, goVars>>
      BY <1>0, <2>1, ChangeEffect
    <2>3. /\ pub' \in [Pub -> Record]
          /\ streamPath' \in [Sub -> Path]
          /\ publisherOf' \in [Sub -> Pub \cup {NoPub}]
          /\ waitingPublish' \subseteq Sub
      <3>1. CASE UNCHANGED <<pub, streamPath, publisherOf, waitingPublish>>
        BY <1>0, <3>1 DEF TypeOK
      <3>2. CASE /\ pub' \in [Pub -> Record]
                 /\ streamPath' \in [Sub -> Path]
                 /\ publisherOf' \in [Sub -> Pub \cup {NoPub}]
                 /\ waitingPublish' = waitingPublish \ {s}
        BY <1>0, <3>2 DEF TypeOK
      <3> QED BY <1>0, <2>1, <3>1, <3>2, ChangeEffect
    <2>4. panicked' \in BOOLEAN
      BY <2>1 DEF ChangeSubscribe
    <2>5. TypeOK'
      BY <1>0, <2>2, <2>3, <2>4 DEF TypeOK, goVars
    <2> QED BY <1>0, <2>2, <2>5, StreamsKept DEF goVars
  <1> QED BY <1>2, <1>3, <1>4, <1>5, <1>6, <1>7 DEF SubscribeStep

LEMMA AliasStreams ==
    ASSUME StreamsInv, NEW x \in Path, NEW t \in Path \cup {NoPath}, NEW auto \in BOOLEAN,
           SetStreamAlias(x, t, auto)
    PROVE  StreamsInv'
  <1>0. TypeOK
    BY DEF StreamsInv
  <1>1. /\ MovesSubscribers
        /\ UNCHANGED <<pubTask, pubStopped, streams, streamPath, subTask,
                       subStopped, goVars, panicked>>
        /\ alias' \in [Path -> AliasStream]
        /\ \A y \in Path : alias'[y].pub # NoPub => alias'[y].pub \in Reachable
    BY <1>0, AliasCall
  <1>2. /\ pub' \in [Pub -> Record]
        /\ publisherOf' \in [Sub -> Pub \cup {NoPub}]
        /\ waitingPublish' \subseteq Sub
        /\ waiting' \in [Path -> SUBSET Sub]
    BY <1>0, <1>1, MovesTyped
  <1>3. TypeOK'
    BY <1>0, <1>1, <1>2 DEF TypeOK, goVars
  <1>4. \A y \in Path : alias'[y].pub # NoPub => alias'[y].pub \in Started
    BY <1>1, ReachableStarted
  <1> QED BY <1>1, <1>3, <1>4, StreamsKept DEF goVars

\* The kinds of steps, with the requests taken apart.
LEMMA Steps ==
    ASSUME Next
    PROVE  \/ \E p \in Pub : \/ Publish(p) \/ PublishAgain(p) \/ PublishRefused(p) \/ PublishExists(p)
                             \/ TakeOverStop(p) \/ TakeOverSubscribers(p) \/ TakeOverClear(p)
                             \/ TakeOverWaited(p) \/ PublisherStop(p)
           \/ \E p \in Pub : PublisherDispose(p)
           \/ \E s \in Sub : \/ SubscribeStep(s) \/ StopSubscriber(s) \/ SubscriberDispose(s)
                             \/ \E x \in ChangeTo : ChangeSubscribe(s, x)
           \/ \E r \in Requests : SetStreamAlias(r[1], r[2], r[3])
  BY DEF Next, PublishStep, SubscriberStop, WaitTimeout, PublisherLost

LEMMA RequestParts ==
    ASSUME NEW r \in Requests
    PROVE  r[1] \in Path /\ r[2] \in Path \cup {NoPath} /\ r[3] \in BOOLEAN
  BY PathsGiven

LEMMA StreamsNext ==
    ASSUME StreamsInv, [Next]_vars
    PROVE  StreamsInv'
  <1>1. CASE \E p \in Pub : \/ Publish(p) \/ PublishAgain(p) \/ PublishRefused(p) \/ PublishExists(p)
                            \/ TakeOverStop(p) \/ TakeOverSubscribers(p) \/ TakeOverClear(p)
                            \/ TakeOverWaited(p) \/ PublisherStop(p)
    BY <1>1, PublishStreams, PublishOther
  <1>2. CASE \E p \in Pub : PublisherDispose(p)
    BY <1>2, DisposeStreams
  <1>3. CASE \E s \in Sub : \/ SubscribeStep(s) \/ StopSubscriber(s) \/ SubscriberDispose(s)
                            \/ \E x \in ChangeTo : ChangeSubscribe(s, x)
    BY <1>3, SubscriberStreams
  <1>4. CASE \E r \in Requests : SetStreamAlias(r[1], r[2], r[3])
    BY <1>4, RequestParts, AliasStreams
  <1>5. CASE UNCHANGED vars
    <2>1. UNCHANGED <<pubTask, streams, pc, old, alias>> /\ TypeOK'
      BY <1>5 DEF vars, pubVars, subVars, goVars, StreamsInv, TypeOK
    <2> QED BY <2>1, StreamsKept DEF StreamsInv
  <1> QED BY <1>1, <1>2, <1>3, <1>4, <1>5, Steps

\* In every configuration, with any number of publishers that kick each other and
\* any use of aliases and ChangeSubscribe, Streams holds exactly the live
\* publishers, each under its own path (PublishWithConfig, Publisher.Dispose), and
\* takeOver waits for a publisher that was started.
THEOREM StreamsExact == Spec => []StreamsInv
  BY StreamsInit, StreamsNext, PTL DEF Spec

\* Every variable keeps its type: what takeOver, RemoveSubscriber and the alias
\* calls follow is a publisher.
THEOREM TypeCorrect == Spec => []TypeOK
  <1>1. StreamsInv => TypeOK
    BY DEF StreamsInv
  <1> QED BY <1>1, StreamsExact, PTL

----------------------------------------------------------------------------
(* HeldInv: no kicks, and ChangeSubscribe for readers only. *)

Placed == ListedWaits /\ HeldReads /\ ReadersHavePublisher

\* HeldReads and ListedWaits for one subscriber.
LEMMA OnePlace ==
    ASSUME TypeOK, Placed, NEW s
    PROVE  /\ \A x \in Path : s \in waiting[x] =>
                 s \in LiveSub /\ s \in waitingPublish /\ streamPath[s] = x
           /\ \A p \in Pub : s \in pub[p].subs =>
                 /\ s \in LiveSub /\ s \notin waitingPublish /\ publisherOf[s] = p
                 /\ p \in Started /\ pub[p].state # "Disposed"
           /\ s \in LiveSub /\ s \notin waitingPublish => publisherOf[s] \in Started
  BY DEF Placed, ListedWaits, HeldReads, ReadersHavePublisher

LEMMA GainedFacts ==
    ASSUME TypeOK, Placed, NEW p \in Pub, NEW s
    PROVE  s \in Gained(p) <=>
              \/ \E x \in Woken(p) : s \in waiting[x]
              \/ s \in ServerSub /\ \E q \in Replaced(p) : s \in pub[q].subs
  <1> DEFINE W == UNION {waiting[x] : x \in Woken(p)}
             T == UNION {pub[q].subs \cap ServerSub : q \in Replaced(p)}
  <1>1. Gained(p) = W \cup T
    BY DEF Gained
  <1>2. s \in W <=> \E x \in Woken(p) : s \in waiting[x]
    OBVIOUS
  <1>3. s \in T <=> \E q \in Replaced(p) : s \in pub[q].subs \cap ServerSub
    OBVIOUS
  <1> HIDE DEF W, T
  <1> QED BY <1>1, <1>2, <1>3

LEMMA WokenPaths ==
    ASSUME NEW p \in Pub
    PROVE  Woken(p) \subseteq Path
  BY PathsGiven DEF Woken, AliasesOf

LEMMA PublishPlaced ==
    ASSUME StreamsInv, Placed, NEW p \in Pub, Publish(p)
    PROVE  Placed'
  <1>0. /\ TypeOK /\ Start(p) /\ pc[p] = "publish" /\ p \notin Started
        /\ UNCHANGED <<streamPath, subTask>>
    BY DEF Publish, StreamsInv, Started
  <1>1. LiveSub' = LiveSub
    BY <1>0 DEF LiveSub
  <1>2. pubTask' = [pubTask EXCEPT ![p] = "live"]
    BY <1>0, StartEffect
  <1>3. Started' = Started \cup {p}
    BY <1>0, <1>2 DEF Started, TypeOK
  <1>4. waitingPublish' = waitingPublish \ Gained(p)
    BY <1>0, StartEffect
  <1>5. ASSUME NEW s PROVE s \in Gained(p) => s \in Sub /\ s \in LiveSub
    BY <1>0, GainedFacts, WokenPaths, ReplacedPubs, OnePlace, GainedSubs
  <1>6. ListedWaits'
    <2> SUFFICES ASSUME NEW x \in Path, NEW s \in waiting'[x]
                 PROVE  s \in LiveSub /\ s \in waitingPublish' /\ streamPath[s] = x
      BY <1>0, <1>1 DEF ListedWaits
    <2>1. waiting'[x] = IF x \in Woken(p) THEN {} ELSE waiting[x]
      BY <1>0, StartEffect
    <2>2. x \notin Woken(p) /\ s \in waiting[x]
      BY <2>1
    <2>3. s \in LiveSub /\ s \in waitingPublish /\ streamPath[s] = x
      BY <1>0, <2>2, OnePlace
    <2>4. s \notin Gained(p)
      BY <1>0, <2>2, <2>3, GainedFacts, OnePlace, WokenPaths, ReplacedPubs
    <2> QED BY <1>4, <2>3, <2>4
  <1>7. HeldReads'
    <2> SUFFICES ASSUME NEW q \in Pub, NEW s \in pub'[q].subs
                 PROVE  /\ s \in LiveSub /\ s \notin waitingPublish'
                        /\ publisherOf'[s] = q
                        /\ q \in Started'
                        /\ pub'[q].state # "Disposed"
      BY <1>1 DEF HeldReads
    <2>1. pub'[q] = IF q = p THEN AddSubscriber(pub[p], Gained(p))
                    ELSE IF q \in Replaced(p) THEN TransferFrom(pub[q])
                    ELSE pub[q]
      BY <1>0, StartEffect
    <2>2. pub[q] \in Record /\ Gained(p) \in SUBSET Sub
      BY <1>0, GainedSubs DEF TypeOK
    <2>3. \A u \in Sub : publisherOf'[u] = IF u \in Gained(p) THEN p ELSE publisherOf[u]
      BY <1>0, StartEffect
    <2>4. CASE q = p
      <3>1. pub[p].subs = {}
        BY <1>0, OnePlace
      <3>2. /\ pub'[p].subs = Gained(p)
            /\ Gained(p) # {} => pub'[p].state = "Subscribed"
        BY <2>1, <2>2, <2>4, <3>1, AddFacts
      <3>3. s \in Gained(p)
        BY <2>4, <3>2
      <3> QED BY <1>3, <1>4, <1>5, <2>3, <2>4, <3>2, <3>3
    <2>5. CASE q # p /\ q \in Replaced(p)
      <3>1. /\ pub'[q].subs = pub[q].subs \ ServerSub
            /\ pub[q].state # "Disposed" => pub'[q].state # "Disposed"
        BY <2>1, <2>2, <2>5, TransferFacts
      <3>2. s \in pub[q].subs /\ s \notin ServerSub
        BY <3>1
      <3>3. s \notin Gained(p)
        BY <1>0, <3>2, GainedFacts, OnePlace, WokenPaths
      <3>4. s \in Sub
        BY <2>2, <3>2, RecordFields
      <3> QED BY <1>0, <1>3, <1>4, <2>3, <3>1, <3>2, <3>3, <3>4, OnePlace
    <2>6. CASE q # p /\ q \notin Replaced(p)
      <3>1. pub'[q] = pub[q] /\ s \in pub[q].subs
        BY <2>1, <2>6
      <3>2. s \notin Gained(p)
        BY <1>0, <2>6, <3>1, GainedFacts, OnePlace, WokenPaths, ReplacedPubs
      <3>3. s \in Sub
        BY <2>2, <3>1, RecordFields
      <3> QED BY <1>0, <1>3, <1>4, <2>3, <3>1, <3>2, <3>3, OnePlace
    <2> QED BY <2>4, <2>5, <2>6
  <1>8. ReadersHavePublisher'
    <2> SUFFICES ASSUME NEW s \in LiveSub, s \notin waitingPublish'
                 PROVE  publisherOf'[s] \in Started'
      BY <1>1 DEF ReadersHavePublisher
    <2>1. s \in Sub
      BY DEF LiveSub
    <2>2. publisherOf'[s] = IF s \in Gained(p) THEN p ELSE publisherOf[s]
      BY <1>0, <2>1, StartEffect
    <2> QED BY <1>0, <1>3, <1>4, <2>2, OnePlace
  <1> QED BY <1>6, <1>7, <1>8 DEF Placed

LEMMA DisposePlaced ==
    ASSUME StreamsInv, Placed, NEW p \in Pub, PublisherDispose(p)
    PROVE  Placed'
  <1>0. /\ TypeOK /\ pubTask[p] = "live"
        /\ UNCHANGED <<streamPath, subTask>>
    BY DEF PublisherDispose, StreamsInv, Live
  <1>1. LiveSub' = LiveSub
    BY <1>0 DEF LiveSub
  <1>2. pubTask' = [pubTask EXCEPT ![p] = "gone"]
    BY <1>0, DisposeEffect
  <1>3. Started' = Started
    BY <1>0, <1>2 DEF Started, TypeOK
  <1>4. waitingPublish' = (waitingPublish \ GoesBack(p)) \cup (pub[p].subs \ GoesBack(p))
    BY <1>0, DisposeEffect
  <1>5. \A s \in Sub : publisherOf'[s] = IF s \in GoesBack(p) THEN streams[streamPath[s]]
                                         ELSE publisherOf[s]
    BY <1>0, DisposeEffect
  <1>6. pub[p].subs \subseteq Sub /\ GoesBack(p) \subseteq pub[p].subs
    BY <1>0, RecordFields DEF TypeOK, GoesBack
  <1>7. ASSUME NEW s \in GoesBack(p)
        PROVE  streams[streamPath[s]] \in Started
    <2>1. s \in Sub /\ streams[streamPath[s]] # NoPub
      BY <1>6 DEF GoesBack
    <2>2. streamPath[s] \in Path
      BY <1>0, <2>1 DEF TypeOK
    <2> QED BY <2>1, <2>2 DEF StreamsInv, Live, Started
  <1>8. ListedWaits'
    <2> SUFFICES ASSUME NEW x \in Path, NEW s \in waiting'[x]
                 PROVE  s \in LiveSub /\ s \in waitingPublish' /\ streamPath[s] = x
      BY <1>0, <1>1 DEF ListedWaits
    <2>1. waiting'[x] = waiting[x] \cup {u \in pub[p].subs \ GoesBack(p) : streamPath[u] = x}
      BY <1>0, DisposeEffect
    <2>2. CASE s \in waiting[x]
      BY <1>0, <1>4, <1>6, <2>2, OnePlace
    <2>3. CASE s \in pub[p].subs \ GoesBack(p) /\ streamPath[s] = x
      BY <1>0, <1>4, <1>6, <2>3, OnePlace
    <2> QED BY <2>1, <2>2, <2>3
  <1>9. HeldReads'
    <2> SUFFICES ASSUME NEW q \in Pub, NEW s \in pub'[q].subs
                 PROVE  /\ s \in LiveSub /\ s \notin waitingPublish'
                        /\ publisherOf'[s] = q
                        /\ q \in Started
                        /\ pub'[q].state # "Disposed"
      BY <1>1, <1>3 DEF HeldReads
    <2>1. pub'[q] = IF q = p THEN Emptied(pub[p]) ELSE AddSubscriber(pub[q], BackTo(p, q))
      BY <1>0, DisposeEffect
    <2>2. pub[q] \in Record /\ BackTo(p, q) \in SUBSET Sub
      BY <1>0, DisposeEffect DEF TypeOK
    <2>3. q # p
      BY <2>1, <2>2, EmptiedFacts
    <2>4. /\ pub'[q].subs = pub[q].subs \cup BackTo(p, q)
          /\ BackTo(p, q) \ pub[q].subs = {} => pub'[q] = pub[q]
          /\ BackTo(p, q) \ pub[q].subs # {} => pub'[q].state = "Subscribed"
      BY <2>1, <2>2, <2>3, AddFacts
    <2>5. CASE s \in pub[q].subs
      <3>1. s \notin pub[p].subs /\ s \in Sub
        BY <1>0, <2>2, <2>3, <2>5, OnePlace, RecordFields
      <3> QED BY <1>0, <1>4, <1>5, <1>6, <2>4, <2>5, <3>1, OnePlace
    <2>6. CASE s \in BackTo(p, q) /\ s \notin pub[q].subs
      <3>1. s \in GoesBack(p) /\ s \in Sub /\ streams[streamPath[s]] = q
        BY <1>6, <2>6 DEF BackTo, GoesBack
      <3>2. s \in LiveSub /\ s \notin waitingPublish
        BY <1>0, <1>6, <3>1, OnePlace
      <3> QED BY <1>4, <1>5, <1>7, <2>4, <2>6, <3>1, <3>2
    <2> QED BY <2>4, <2>5, <2>6
  <1>10. ReadersHavePublisher'
    <2> SUFFICES ASSUME NEW s \in LiveSub, s \notin waitingPublish'
                 PROVE  publisherOf'[s] \in Started
      BY <1>1, <1>3 DEF ReadersHavePublisher
    <2>1. s \in Sub
      BY DEF LiveSub
    <2> QED BY <1>0, <1>4, <1>5, <1>7, <2>1, OnePlace
  <1> QED BY <1>8, <1>9, <1>10 DEF Placed

LEMMA SubscribePlaced ==
    ASSUME StreamsInv, Placed, NEW s \in Sub, SubscribeStep(s)
    PROVE  Placed'
  <1>0. TypeOK /\ subTask[s] = "new" /\ streamPath[s] \in Path
    BY DEF SubscribeStep, Subscribe, SubscribeRefused, SubscribeWait, StreamsInv, TypeOK
  <1>1. s \notin LiveSub
    BY <1>0 DEF LiveSub
  <1>2. /\ \A x \in Path : s \notin waiting[x]
        /\ \A p \in Pub : s \notin pub[p].subs
    BY <1>0, <1>1, OnePlace
  <1>3. pubTask' = pubTask /\ streamPath' = streamPath
    BY DEF SubscribeStep, Subscribe, SubscribeRefused, SubscribeWait
  <1>4. Started' = Started
    BY <1>3 DEF Started
  <1>5. CASE Subscribe(s)
    <2>1. /\ Found(s) \in Pub
          /\ \A q \in Pub : pub'[q] = IF q = Found(s) THEN AddSubscriber(pub[q], {s}) ELSE pub[q]
          /\ \A u \in Sub : publisherOf'[u] = IF u = s THEN Found(s) ELSE publisherOf[u]
          /\ waitingPublish' = waitingPublish \ {s}
      BY <1>0, <1>5, SubscribeEffect
    <2>2. waiting' = waiting /\ LiveSub' = LiveSub \cup {s}
      BY <1>0, <1>5 DEF Subscribe, LiveSub, TypeOK
    <2>3. Found(s) \in Started
      BY <1>0, <2>1, FoundReachable, ReachableStarted, NilIsNone
    <2>4. \A q \in Pub : pub[q] \in Record /\ pub[q].subs \subseteq Sub
      BY <1>0, RecordFields DEF TypeOK
    <2>5. /\ pub'[Found(s)].subs = pub[Found(s)].subs \cup {s}
          /\ pub'[Found(s)].state = "Subscribed"
      BY <1>2, <2>1, <2>4, AddFacts
    <2>6. ListedWaits'
      BY <1>0, <1>2, <1>3, <2>1, <2>2, OnePlace DEF ListedWaits
    <2>7. HeldReads'
      <3> SUFFICES ASSUME NEW q \in Pub, NEW u \in pub'[q].subs
                   PROVE  /\ u \in LiveSub' /\ u \notin waitingPublish'
                          /\ publisherOf'[u] = q
                          /\ q \in Started
                          /\ pub'[q].state # "Disposed"
        BY <1>4 DEF HeldReads
      <3>1. CASE u = s
        <4>1. q = Found(s)
          BY <1>2, <2>1, <3>1
        <4> QED BY <2>1, <2>2, <2>3, <2>5, <3>1, <4>1
      <3>2. CASE u # s
        <4>1. u \in pub[q].subs
          BY <2>1, <2>5, <3>2
        <4> QED BY <1>0, <2>1, <2>2, <2>4, <2>5, <3>2, <4>1, OnePlace
      <3> QED BY <3>1, <3>2
    <2>8. ReadersHavePublisher'
      <3> SUFFICES ASSUME NEW u \in LiveSub', u \notin waitingPublish'
                   PROVE  publisherOf'[u] \in Started
        BY <1>4 DEF ReadersHavePublisher
      <3>1. u \in Sub
        BY DEF LiveSub
      <3> QED BY <1>0, <2>1, <2>2, <2>3, <3>1, OnePlace
    <2> QED BY <2>6, <2>7, <2>8 DEF Placed
  <1>6. CASE SubscribeRefused(s)
    <2>1. LiveSub' = LiveSub /\ UNCHANGED <<pub, waiting, publisherOf, waitingPublish>>
      BY <1>0, <1>6 DEF SubscribeRefused, LiveSub, TypeOK
    <2> QED BY <1>3, <1>4, <2>1 DEF Placed, ListedWaits, HeldReads, ReadersHavePublisher
  <1>7. CASE SubscribeWait(s)
    <2>1. /\ LiveSub' = LiveSub \cup {s}
          /\ waitingPublish' = waitingPublish \cup {s}
          /\ pub' = pub /\ publisherOf' = publisherOf
          /\ \A x \in Path : waiting'[x] = IF x = streamPath[s] THEN waiting[x] \cup {s}
                                           ELSE waiting[x]
      BY <1>0, <1>7 DEF SubscribeWait, LiveSub, TypeOK
    <2>2. ListedWaits'
      <3> SUFFICES ASSUME NEW x \in Path, NEW u \in waiting'[x]
                   PROVE  u \in LiveSub' /\ u \in waitingPublish' /\ streamPath[u] = x
        BY <1>3 DEF ListedWaits
      <3>1. u \in waiting[x] \/ (u = s /\ x = streamPath[s])
        BY <2>1
      <3> QED BY <1>0, <2>1, <3>1, OnePlace
    <2>3. HeldReads'
      BY <1>0, <1>2, <1>4, <2>1, OnePlace DEF HeldReads
    <2>4. ReadersHavePublisher'
      BY <1>0, <1>4, <2>1, OnePlace DEF ReadersHavePublisher
    <2> QED BY <2>2, <2>3, <2>4 DEF Placed
  <1> QED BY <1>5, <1>6, <1>7 DEF SubscribeStep

LEMMA LeavePlaced ==
    ASSUME StreamsInv, Placed, NoPanic, NEW s \in Sub, SubscriberDispose(s)
    PROVE  Placed' /\ NoPanic'
  <1>0. /\ TypeOK /\ subTask[s] = "live" /\ s \in LiveSub
        /\ UNCHANGED <<pubTask, streamPath, publisherOf, waitingPublish>>
    BY DEF SubscriberDispose, StreamsInv, LiveSub
  <1>1. /\ \A x \in Path : waiting'[x] = IF s \in waitingPublish /\ x = streamPath[s]
                                         THEN waiting[x] \ {s} ELSE waiting[x]
        /\ \A q \in Pub : pub'[q] =
              IF Attached(s) /\ pubTask[publisherOf[s]] # "new" /\ q = publisherOf[s]
              THEN RemoveSubscriber(pub[q], s) ELSE pub[q]
        /\ panicked' = (panicked \/ (Attached(s) /\ pubTask[publisherOf[s]] = "new"))
    BY <1>0, LeaveEffect
  <1>2. LiveSub' = LiveSub \ {s}
    BY <1>0 DEF LiveSub, SubscriberDispose, TypeOK
  <1>3. Started' = Started
    BY <1>0 DEF Started
  <1>4. NoPanic'
    <2>1. Attached(s) => pubTask[publisherOf[s]] # "new"
      BY <1>0, OnePlace DEF Attached, Started
    <2> QED BY <1>1, <2>1 DEF NoPanic
  <1>5. ListedWaits'
    <2> SUFFICES ASSUME NEW x \in Path, NEW u \in waiting'[x]
                 PROVE  u \in LiveSub' /\ u \in waitingPublish /\ streamPath[u] = x
      BY <1>0 DEF ListedWaits
    <2>1. u \in waiting[x]
      BY <1>1
    <2>2. u \in LiveSub /\ u \in waitingPublish /\ streamPath[u] = x
      BY <1>0, <2>1, OnePlace
    <2>3. u # s
      BY <1>1, <2>2
    <2> QED BY <1>2, <2>2, <2>3
  <1>6. HeldReads'
    <2> SUFFICES ASSUME NEW q \in Pub, NEW u \in pub'[q].subs
                 PROVE  /\ u \in LiveSub' /\ u \notin waitingPublish
                        /\ publisherOf[u] = q
                        /\ q \in Started
                        /\ pub'[q].state # "Disposed"
      BY <1>0, <1>3 DEF HeldReads
    <2>1. /\ RemoveSubscriber(pub[q], s).subs = pub[q].subs \ {s}
          /\ pub[q].state # "Disposed" => RemoveSubscriber(pub[q], s).state # "Disposed"
      BY <1>0, RemoveFacts DEF TypeOK
    <2>2. /\ u \in pub[q].subs
          /\ pub[q].state # "Disposed" => pub'[q].state # "Disposed"
      BY <1>1, <2>1
    <2>3. /\ u \in LiveSub /\ u \notin waitingPublish /\ publisherOf[u] = q
          /\ q \in Started /\ pub[q].state # "Disposed"
      BY <1>0, <2>2, OnePlace
    <2>4. u # s
      <3> SUFFICES ASSUME u = s PROVE FALSE
        OBVIOUS
      <3>1. Attached(s) /\ pubTask[publisherOf[s]] # "new" /\ q = publisherOf[s]
        BY <2>3, NilIsNone DEF Attached, Started
      <3> QED BY <1>1, <2>1, <3>1
    <2> QED BY <1>2, <2>2, <2>3, <2>4
  <1>7. ReadersHavePublisher'
    BY <1>0, <1>2, <1>3, OnePlace DEF ReadersHavePublisher
  <1> QED BY <1>4, <1>5, <1>6, <1>7 DEF Placed

LEMMA ChangePlaced ==
    ASSUME StreamsInv, Placed, NoPanic, NEW s \in Sub, NEW x \in Path,
           ChangeSubscribe(s, x), s \notin waitingPublish
    PROVE  Placed' /\ NoPanic'
  <1>0. TypeOK /\ s \in LiveSub
    BY DEF ChangeSubscribe, StreamsInv, LiveSub
  <1>1. publisherOf[s] \in Started
    BY <1>0, OnePlace
  <1> PICK q \in Pub : q = publisherOf[s]
    BY <1>1 DEF Started
  <1> PICK p \in Pub : p = streams[x]
    BY <1>0, ChangeEffect
  <1>2. p \in Started
    BY NilIsNone DEF StreamsInv, Live, Started
  <1>3. ~(publisherOf[s] = NoPub \/ pubTask[publisherOf[s]] = "new")
    BY <1>1, NilIsNone DEF Started
  <1>4. /\ UNCHANGED <<pubTask, subTask, waiting>>
        /\ panicked' = panicked
        /\ \A r \in Pub : pub'[r] =
              IF r = p THEN AddSubscriber(IF r = q THEN RemoveSubscriber(pub[r], s) ELSE pub[r], {s})
              ELSE IF r = q THEN RemoveSubscriber(pub[r], s)
              ELSE pub[r]
        /\ \A u \in Sub : streamPath'[u] = IF u = s THEN x ELSE streamPath[u]
        /\ \A u \in Sub : publisherOf'[u] = IF u = s THEN p ELSE publisherOf[u]
        /\ waitingPublish' = waitingPublish \ {s}
    <2>1. Changed(s, x)
      BY <1>0, <1>3, Changes
    <2> QED BY <2>1 DEF Changed
  <1>5. LiveSub' = LiveSub /\ Started' = Started /\ waitingPublish' = waitingPublish
    BY <1>4 DEF LiveSub, Started
  <1>6. \A r \in Pub :
           /\ pub[r] \in Record /\ pub[r].subs \subseteq Sub
           /\ RemoveSubscriber(pub[r], s) \in Record
           /\ RemoveSubscriber(pub[r], s).subs = pub[r].subs \ {s}
           /\ pub[r].state # "Disposed" => RemoveSubscriber(pub[r], s).state # "Disposed"
    BY <1>0, RemoveFacts, RecordFields DEF TypeOK
  <1>7. \A r \in Pub : s \in pub[r].subs => r = q
    BY <1>0, OnePlace
  <1>8. pub'[p].subs = (pub[p].subs \ {s}) \cup {s} /\ pub'[p].state = "Subscribed"
    <2> PICK r \in Record : /\ r = IF p = q THEN RemoveSubscriber(pub[p], s) ELSE pub[p]
                            /\ r.subs = pub[p].subs \ {s}
      BY <1>6, <1>7
    <2>1. pub'[p] = AddSubscriber(r, {s})
      BY <1>4
    <2> QED BY <2>1, AddFacts
  <1>9. ListedWaits'
    <2> SUFFICES ASSUME NEW y \in Path, NEW u \in waiting[y]
                 PROVE  u \in LiveSub /\ u \in waitingPublish /\ streamPath'[u] = y
      BY <1>4, <1>5 DEF ListedWaits
    <2>1. u \in LiveSub /\ u \in waitingPublish /\ streamPath[u] = y /\ u \in Sub
      BY <1>0, OnePlace DEF LiveSub
    <2> QED BY <1>4, <2>1
  <1>10. HeldReads'
    <2> SUFFICES ASSUME NEW r \in Pub, NEW u \in pub'[r].subs
                 PROVE  /\ u \in LiveSub /\ u \notin waitingPublish
                        /\ publisherOf'[u] = r
                        /\ r \in Started
                        /\ pub'[r].state # "Disposed"
      BY <1>5 DEF HeldReads
    <2>1. CASE u = s
      <3>1. r = p
        BY <1>4, <1>6, <1>7, <2>1
      <3> QED BY <1>0, <1>2, <1>4, <1>8, <2>1, <3>1
    <2>2. CASE u # s
      <3>1. u \in pub[r].subs /\ u \in Sub
        BY <1>4, <1>6, <1>8, <2>2
      <3>2. pub[r].state # "Disposed" => pub'[r].state # "Disposed"
        BY <1>4, <1>6, <1>8
      <3> QED BY <1>0, <1>4, <2>2, <3>1, <3>2, OnePlace
    <2> QED BY <2>1, <2>2
  <1>11. ReadersHavePublisher'
    <2> SUFFICES ASSUME NEW u \in LiveSub, u \notin waitingPublish
                 PROVE  publisherOf'[u] \in Started
      BY <1>5 DEF ReadersHavePublisher
    <2>1. u \in Sub
      BY DEF LiveSub
    <2> QED BY <1>0, <1>2, <1>4, <2>1, OnePlace
  <1> QED BY <1>4, <1>9, <1>10, <1>11 DEF Placed, NoPanic

LEMMA MovesPlaced ==
    ASSUME StreamsInv, Placed, MovesSubscribers,
           UNCHANGED <<pubTask, streamPath, subTask>>
    PROVE  Placed'
  <1>0. TypeOK /\ LiveSub' = LiveSub /\ Started' = Started
    BY DEF StreamsInv, LiveSub, Started
  <1>1. \A r \in Pub : pub[r] \in Record /\ pub[r].subs \subseteq Sub
    BY <1>0, RecordFields DEF TypeOK
  <1>2. CASE KeepSubscribers
    BY <1>0, <1>2 DEF KeepSubscribers, Placed, ListedWaits, HeldReads, ReadersHavePublisher
  <1>3. CASE \E x \in Path, p \in Reachable : WakeUp(x, p)
    <2>1. PICK x \in Path, p \in Reachable : WakeUp(x, p)
      BY <1>3
    <2>2. p \in Pub /\ p \in Started
      BY <2>1, ReachableStarted DEF Started
    <2>3. /\ \A q \in Pub : pub'[q] = IF q = p THEN AddSubscriber(pub[p], waiting[x]) ELSE pub[q]
          /\ waiting[x] \in SUBSET Sub
          /\ \A s \in Sub : publisherOf'[s] = IF s \in waiting[x] THEN p ELSE publisherOf[s]
          /\ waitingPublish' = waitingPublish \ waiting[x]
          /\ \A y \in Path : waiting'[y] = IF y = x THEN {} ELSE waiting[y]
      BY <1>0, <2>1, <2>2, WakeEffect
    <2>4. /\ pub'[p].subs = pub[p].subs \cup waiting[x]
          /\ waiting[x] \ pub[p].subs = {} => pub'[p] = pub[p]
          /\ waiting[x] \ pub[p].subs # {} => pub'[p].state = "Subscribed"
      BY <1>1, <2>2, <2>3, AddFacts
    <2>5. ListedWaits'
      <3> SUFFICES ASSUME NEW y \in Path, NEW u \in waiting'[y]
                   PROVE  u \in LiveSub /\ u \in waitingPublish' /\ streamPath[u] = y
        BY <1>0 DEF ListedWaits
      <3>1. y # x /\ u \in waiting[y]
        BY <2>3
      <3>2. u \in LiveSub /\ u \in waitingPublish /\ streamPath[u] = y
        BY <1>0, <3>1, OnePlace
      <3>3. u \notin waiting[x]
        BY <1>0, <3>1, <3>2, OnePlace
      <3> QED BY <2>3, <3>2, <3>3
    <2>6. HeldReads'
      <3> SUFFICES ASSUME NEW r \in Pub, NEW u \in pub'[r].subs
                   PROVE  /\ u \in LiveSub /\ u \notin waitingPublish'
                          /\ publisherOf'[u] = r
                          /\ r \in Started
                          /\ pub'[r].state # "Disposed"
        BY <1>0 DEF HeldReads
      <3>1. CASE u \in waiting[x]
        <4>1. r = p /\ u \notin pub[p].subs
          BY <1>0, <2>2, <2>3, <3>1, OnePlace
        <4> QED BY <1>0, <2>1, <2>2, <2>3, <2>4, <3>1, <4>1, OnePlace
      <3>2. CASE u \notin waiting[x]
        <4>1. u \in pub[r].subs /\ u \in Sub
          BY <1>1, <2>3, <2>4, <3>2
        <4>2. pub[r].state # "Disposed" => pub'[r].state # "Disposed"
          BY <2>3, <2>4
        <4> QED BY <1>0, <2>3, <3>2, <4>1, <4>2, OnePlace
      <3> QED BY <3>1, <3>2
    <2>7. ReadersHavePublisher'
      <3> SUFFICES ASSUME NEW u \in LiveSub, u \notin waitingPublish'
                   PROVE  publisherOf'[u] \in Started
        BY <1>0 DEF ReadersHavePublisher
      <3>1. u \in Sub
        BY DEF LiveSub
      <3> QED BY <1>0, <2>2, <2>3, <3>1, OnePlace
    <2> QED BY <2>5, <2>6, <2>7 DEF Placed
  <1>4. CASE \E p, t \in Reachable : Transfer(p, t)
    <2>1. PICK p \in Reachable, t \in Reachable : Transfer(p, t)
      BY <1>4
    <2>2. p \in Pub /\ t \in Pub /\ t \in Started
      BY <2>1, ReachableStarted DEF Reachable
    <2> PICK S \in SUBSET Sub : S = pub[p].subs \cap ServerSub
      BY <1>1, <2>2
    <2>3. /\ \A q \in Pub : pub'[q] =
                IF q = p THEN TransferFrom(IF p = t THEN AddSubscriber(pub[t], S) ELSE pub[p])
                ELSE IF q = t THEN AddSubscriber(pub[t], S)
                ELSE pub[q]
          /\ \A s \in Sub : publisherOf'[s] = IF s \in S THEN t ELSE publisherOf[s]
          /\ waitingPublish' = waitingPublish \ S
          /\ waiting' = waiting
      <3>1. /\ \A q \in Pub : pub'[q] =
                  IF q = p
                  THEN TransferFrom(IF p = t THEN AddSubscriber(pub[t], pub[p].subs \cap ServerSub)
                                    ELSE pub[p])
                  ELSE IF q = t THEN AddSubscriber(pub[t], pub[p].subs \cap ServerSub)
                  ELSE pub[q]
            /\ \A s \in Sub : publisherOf'[s] = IF s \in pub[p].subs \cap ServerSub THEN t
                                                 ELSE publisherOf[s]
            /\ waitingPublish' = waitingPublish \ (pub[p].subs \cap ServerSub)
            /\ waiting' = waiting
        <4>1. Transferred(p, t)
          BY <1>0, <2>1, <2>2, TransferEffect
        <4> QED BY <4>1, Zenon DEF Transferred
      <3> QED BY <3>1, Zenon
    <2>4. /\ AddSubscriber(pub[t], S) \in Record
          /\ AddSubscriber(pub[t], S).subs = pub[t].subs \cup S
          /\ S \ pub[t].subs = {} => AddSubscriber(pub[t], S) = pub[t]
          /\ S \ pub[t].subs # {} => AddSubscriber(pub[t], S).state = "Subscribed"
      BY <1>1, <2>2, AddFacts
    <2>5. /\ pub'[p].subs = pub[p].subs \ ServerSub
          /\ pub[p].state # "Disposed" => pub'[p].state # "Disposed"
      <3>1. CASE p = t
        <4>1. S \ pub[t].subs = {}
          BY <3>1
        <4>2. pub'[p] = TransferFrom(pub[p])
          BY <2>2, <2>3, <2>4, <3>1, <4>1
        <4> QED BY <1>1, <2>2, <4>2, TransferFacts
      <3>2. CASE p # t
        <4>1. pub'[p] = TransferFrom(pub[p])
          BY <2>2, <2>3, <3>2
        <4> QED BY <1>1, <2>2, <4>1, TransferFacts
      <3> QED BY <3>1, <3>2
    <2>6. \A u \in S : u \in LiveSub /\ u \notin waitingPublish /\ u \in pub[p].subs /\ u \in ServerSub
      BY <1>0, <2>2, OnePlace
    <2>7. ListedWaits'
      <3> SUFFICES ASSUME NEW y \in Path, NEW u \in waiting[y]
                   PROVE  u \in LiveSub /\ u \in waitingPublish' /\ streamPath[u] = y
        BY <1>0, <2>3 DEF ListedWaits
      <3>1. u \in LiveSub /\ u \in waitingPublish /\ streamPath[u] = y
        BY <1>0, OnePlace
      <3> QED BY <2>3, <2>6, <3>1
    <2>8. HeldReads'
      <3> SUFFICES ASSUME NEW r \in Pub, NEW u \in pub'[r].subs
                   PROVE  /\ u \in LiveSub /\ u \notin waitingPublish'
                          /\ publisherOf'[u] = r
                          /\ r \in Started
                          /\ pub'[r].state # "Disposed"
        BY <1>0 DEF HeldReads
      <3>1. CASE r = p
        <4>1. u \in pub[p].subs /\ u \notin S /\ u \in Sub
          BY <1>1, <2>2, <2>5, <3>1
        <4> QED BY <1>0, <2>2, <2>3, <2>5, <3>1, <4>1, OnePlace
      <3>2. CASE r # p /\ r = t /\ u \in S
        <4>1. u \notin pub[t].subs
          BY <1>0, <2>2, <2>6, <3>2, OnePlace
        <4> QED BY <2>2, <2>3, <2>4, <2>6, <3>2, <4>1
      <3>3. CASE r # p /\ (r # t \/ u \notin S)
        <4>1. u \in pub[r].subs /\ u \in Sub
          BY <1>1, <2>3, <2>4, <3>3
        <4>2. u \notin S
          BY <1>0, <2>2, <2>6, <3>3, <4>1, OnePlace
        <4>3. pub[r].state # "Disposed" => pub'[r].state # "Disposed"
          BY <2>3, <2>4, <3>3
        <4> QED BY <1>0, <2>3, <4>1, <4>2, <4>3, OnePlace
      <3> QED BY <3>1, <3>2, <3>3
    <2>9. ReadersHavePublisher'
      <3> SUFFICES ASSUME NEW u \in LiveSub, u \notin waitingPublish'
                   PROVE  publisherOf'[u] \in Started
        BY <1>0 DEF ReadersHavePublisher
      <3>1. u \in Sub
        BY DEF LiveSub
      <3> QED BY <1>0, <2>2, <2>3, <3>1, OnePlace
    <2> QED BY <2>7, <2>8, <2>9 DEF Placed
  <1>5. CASE \E p \in Reachable, s \in Sub : s \in pub[p].subs /\ PutBack(s, p)
    <2>1. PICK p \in Reachable, s \in Sub : s \in pub[p].subs /\ PutBack(s, p)
      BY <1>5
    <2>2. p \in Pub
      BY <2>1 DEF Reachable
    <2>3. /\ \A q \in Pub : pub'[q] = IF q = p THEN RemoveSubscriber(pub[p], s) ELSE pub[q]
          /\ publisherOf' = publisherOf
          /\ waitingPublish' = waitingPublish \cup {s}
          /\ \A x \in Path : waiting'[x] = IF x = streamPath[s] THEN waiting[x] \cup {s}
                                           ELSE waiting[x]
      <3>1. IsBack(s, p)
        BY <1>0, <2>1, <2>2, PutsBack
      <3> QED BY <3>1, Zenon DEF IsBack
    <2>4. /\ pub'[p].subs = pub[p].subs \ {s}
          /\ pub[p].state # "Disposed" => pub'[p].state # "Disposed"
      BY <1>1, <2>2, <2>3, RemoveFacts
    <2>5. s \in LiveSub /\ publisherOf[s] = p
      BY <1>0, <2>1, <2>2, OnePlace
    <2>6. ListedWaits'
      <3> SUFFICES ASSUME NEW y \in Path, NEW u \in waiting'[y]
                   PROVE  u \in LiveSub /\ u \in waitingPublish' /\ streamPath[u] = y
        BY <1>0 DEF ListedWaits
      <3>1. u \in waiting[y] \/ (u = s /\ y = streamPath[s])
        BY <2>3
      <3> QED BY <1>0, <2>3, <2>5, <3>1, OnePlace
    <2>7. HeldReads'
      <3> SUFFICES ASSUME NEW r \in Pub, NEW u \in pub'[r].subs
                   PROVE  /\ u \in LiveSub /\ u \notin waitingPublish'
                          /\ publisherOf[u] = r
                          /\ r \in Started
                          /\ pub'[r].state # "Disposed"
        BY <1>0, <2>3 DEF HeldReads
      <3>1. u \in pub[r].subs
        BY <2>3, <2>4
      <3>2. u # s
        BY <1>0, <2>3, <2>4, <2>5, <3>1, OnePlace
      <3> QED BY <1>0, <2>3, <2>4, <3>1, <3>2, OnePlace
    <2>8. ReadersHavePublisher'
      BY <1>0, <2>3, OnePlace DEF ReadersHavePublisher
    <2> QED BY <2>6, <2>7, <2>8 DEF Placed
  <1> QED BY <1>2, <1>3, <1>4, <1>5 DEF MovesSubscribers

LEMMA HeldInit == Init => HeldInv
  <1> SUFFICES ASSUME Init PROVE HeldInv
    OBVIOUS
  <1>1. NobodyKicks /\ \A p \in Pub : pub[p].subs = {}
    BY DEF Init, NewPublisher, TakingOver, NobodyKicks
  <1>2. LiveSub = {} /\ \A x \in Path : waiting[x] = {}
    BY DEF Init, LiveSub
  <1>3. NoPanic
    BY DEF Init, NoPanic
  <1>4. ListedWaits /\ HeldReads /\ ReadersHavePublisher
    BY <1>1, <1>2 DEF ListedWaits, HeldReads, ReadersHavePublisher
  <1> QED BY <1>1, <1>3, <1>4, StreamsInit DEF HeldInv

LEMMA HeldNext ==
    ASSUME ~KickExist, HeldInv, [Next]_vars, [ReadersChanged]_vars
    PROVE  HeldInv'
  <1>0. StreamsInv /\ TypeOK /\ Placed /\ NoPanic /\ NobodyKicks
    BY DEF HeldInv, StreamsInv, Placed
  <1>1. StreamsInv'
    BY <1>0, StreamsNext
  <1> SUFFICES Placed' /\ NoPanic' /\ NobodyKicks'
    BY <1>1 DEF HeldInv, Placed
  <1>2. ASSUME UNCHANGED <<pub, waiting, publisherOf, waitingPublish, streamPath, subTask, panicked>>,
               Started \subseteq Started'
        PROVE  Placed' /\ NoPanic'
    <2>1. LiveSub' = LiveSub
      BY <1>2 DEF LiveSub
    <2> QED BY <1>0, <1>2, <2>1
            DEF Placed, ListedWaits, HeldReads, ReadersHavePublisher, NoPanic
  <1>3. CASE UNCHANGED vars
    BY <1>0, <1>2, <1>3 DEF vars, pubVars, subVars, goVars, Started, NobodyKicks
  <1>4. CASE Next /\ ReadersChanged
    <2>1. ASSUME NEW p \in Pub, Publish(p)
          PROVE  Placed' /\ NoPanic' /\ NobodyKicks'
      <3>1. /\ panicked' = panicked /\ old' = old
            /\ \A q \in Pub : pc'[q] = pc[q] \/ pc'[q] = "done"
        BY <1>0, <2>1 DEF Publish, TypeOK
      <3> QED BY <1>0, <2>1, <3>1, PublishPlaced DEF NoPanic, TakingOver, NobodyKicks
    <2>2. ASSUME NEW p \in Pub,
                 \/ PublishAgain(p) \/ PublishRefused(p) \/ PublishExists(p) \/ TakeOverStop(p)
                 \/ TakeOverSubscribers(p) \/ TakeOverClear(p) \/ TakeOverWaited(p)
                 \/ PublisherStop(p)
          PROVE  Placed' /\ NoPanic' /\ NobodyKicks'
      <3>1. PublishRefused(p) \/ PublisherStop(p)
        BY <1>0, <2>2 DEF NobodyKicks, PublishAgain, PublishExists, TakeOverStop,
                          TakeOverSubscribers, TakeOverClear, TakeOverWaited, TakingOver
      <3>2. UNCHANGED <<pub, waiting, publisherOf, waitingPublish, streamPath, subTask, panicked>>
        BY <3>1 DEF PublishRefused, PublisherStop, subVars
      <3>3. /\ Started \subseteq Started' /\ old' = old
            /\ \A q \in Pub : pc'[q] = pc[q] \/ pc'[q] = "done"
        BY <1>0, <3>1 DEF PublishRefused, PublisherStop, Started, goVars, TypeOK
      <3> QED BY <1>0, <1>2, <3>2, <3>3 DEF TakingOver, NobodyKicks
    <2>3. ASSUME NEW p \in Pub, PublisherDispose(p)
          PROVE  Placed' /\ NoPanic' /\ NobodyKicks'
      BY <1>0, <2>3, DisposePlaced DEF PublisherDispose, goVars, NoPanic, NobodyKicks
    <2>4. ASSUME NEW s \in Sub, SubscribeStep(s)
          PROVE  Placed' /\ NoPanic' /\ NobodyKicks'
      BY <1>0, <2>4, SubscribePlaced
         DEF SubscribeStep, Subscribe, SubscribeRefused, SubscribeWait, goVars, NoPanic,
             NobodyKicks
    <2>5. ASSUME NEW s \in Sub, StopSubscriber(s)
          PROVE  Placed' /\ NoPanic' /\ NobodyKicks'
      BY <1>0, <1>2, <2>5 DEF StopSubscriber, pubVars, goVars, Started, NobodyKicks
    <2>6. ASSUME NEW s \in Sub, SubscriberDispose(s)
          PROVE  Placed' /\ NoPanic' /\ NobodyKicks'
      BY <1>0, <2>6, LeavePlaced DEF SubscriberDispose, goVars, NobodyKicks
    <2>7. ASSUME NEW s \in Sub, NEW x \in ChangeTo, ChangeSubscribe(s, x)
          PROVE  Placed' /\ NoPanic' /\ NobodyKicks'
      <3>1. s \notin waitingPublish /\ x \in Path
        BY <1>4, <2>7, PathsGiven DEF ReadersChanged
      <3>2. pc' = pc /\ old' = old
        BY <2>7 DEF ChangeSubscribe, goVars
      <3> QED BY <1>0, <2>7, <3>1, <3>2, ChangePlaced DEF NobodyKicks
    <2>8. ASSUME NEW r \in Requests, SetStreamAlias(r[1], r[2], r[3])
          PROVE  Placed' /\ NoPanic' /\ NobodyKicks'
      <3>1. r[1] \in Path /\ r[2] \in Path \cup {NoPath} /\ r[3] \in BOOLEAN
        BY RequestParts
      <3>2. /\ MovesSubscribers
            /\ UNCHANGED <<pubTask, pubStopped, streams, streamPath, subTask,
                           subStopped, goVars, panicked>>
        BY <1>0, <2>8, <3>1, AliasCall
      <3> QED BY <1>0, <3>2, MovesPlaced DEF goVars, NoPanic, NobodyKicks
    <2> QED BY <1>4, <2>1, <2>2, <2>3, <2>4, <2>5, <2>6, <2>7, <2>8, Steps
  <1> QED BY <1>3, <1>4

LEMMA AtMostOne ==
    ASSUME NEW S, NEW e, S \subseteq {e}
    PROVE  Cardinality(S) <= 1
  <1>1. S = {} \/ S = {e}
    OBVIOUS
  <1>2. Cardinality({}) = 0
    BY FS_EmptySet
  <1>3. Cardinality({e}) = 1
    BY FS_Singleton
  <1> QED BY <1>1, <1>2, <1>3

\* Without kicks, however aliases are created, redirected, removed and made by
\* rules, a subscriber that is not called to change while it waits is in the
\* waiting list of its path, or in the collection of the publisher it reads, and
\* RemoveSubscriber is called on started publishers.
THEOREM HeldInvariant ==
    ASSUME ~KickExist
    PROVE  Spec /\ [][ReadersChanged]_vars => []HeldInv
  <1>1. HeldInv /\ [Next]_vars /\ [ReadersChanged]_vars => HeldInv'
    BY HeldNext
  <1> QED BY <1>1, HeldInit, PTL DEF Spec

\* However subscribers are moved (TransferSubscribers, WakeUp, Dispose, alias
\* removal), none is held twice and none is left behind.
THEOREM NobodyHeldTwice ==
    ASSUME ~KickExist
    PROVE  Spec /\ [][ReadersChanged]_vars => []HeldAtMostOnce
  <1>1. HeldInv => HeldAtMostOnce
    <2> SUFFICES ASSUME HeldInv, NEW s \in Sub
                 PROVE  Cardinality({x \in Path : s \in waiting[x]} \cup {p \in Pub : s \in pub[p].subs})
                            <= IF s \in LiveSub THEN 1 ELSE 0
      BY DEF HeldAtMostOnce
    <2> DEFINE W == {x \in Path : s \in waiting[x]}
               P == {p \in Pub : s \in pub[p].subs}
    <2>0. TypeOK /\ Placed
      BY DEF HeldInv, StreamsInv, Placed
    <2>1. CASE s \notin LiveSub
      <3>1. W \cup P = {}
        BY <2>0, <2>1, OnePlace
      <3>2. Cardinality(W \cup P) = 0
        BY <3>1, FS_EmptySet
      <3> QED BY <2>1, <3>2
    <2>2. CASE s \in LiveSub
      <3>1. s \in waitingPublish => W \cup P \subseteq {streamPath[s]}
        BY <2>0, OnePlace
      <3>2. s \notin waitingPublish => W \cup P \subseteq {publisherOf[s]}
        BY <2>0, OnePlace
      <3>3. Cardinality(W \cup P) <= 1
        <4> HIDE DEF W, P
        <4> QED BY <3>1, <3>2, AtMostOne
      <3> QED BY <2>2, <3>3
    <2> QED BY <2>1, <2>2
  <1> QED BY <1>1, HeldInvariant, PTL

\* RemoveSubscriber is never called on a nil publisher or on one that was not
\* started, from Subscriber.Dispose or from ChangeSubscribe of a reader.
THEOREM NoNilPublisher ==
    ASSUME ~KickExist
    PROVE  Spec /\ [][ReadersChanged]_vars => []NoPanic
  <1>1. HeldInv => NoPanic
    BY DEF HeldInv
  <1> QED BY <1>1, HeldInvariant, PTL

----------------------------------------------------------------------------
(* RouteInv: besides, no alias has a stream's name or is redirected. *)

\* The counters are right and an idle state means that nobody counted is there.
Sound(r) ==
    /\ r.server = Cardinality(r.subs \cap ServerSub)
    /\ r.vod = Cardinality(r.subs \cap VodSub)
    /\ r.state # "Disposed"
    /\ r.state \in {"Init", "WaitSubscriber"} => r.subs \cap (ServerSub \cup VodSub) = {}

LEMMA CountGrows ==
    ASSUME NEW A \in SUBSET Sub, NEW B \in SUBSET Sub, NEW T
    PROVE  Cardinality((A \cup B) \cap T) =
              Cardinality(A \cap T) + Cardinality((B \ A) \cap T)
  <1> DEFINE X == A \cap T
             Y == (B \ A) \cap T
  <1>1. IsFiniteSet(X) /\ IsFiniteSet(Y) /\ Cardinality(X) \in Nat /\ Cardinality(Y) \in Nat
    BY Counted
  <1>2. (A \cup B) \cap T = X \cup Y /\ X \cap Y = {}
    OBVIOUS
  <1> HIDE DEF X, Y
  <1>3. Cardinality(X \cup Y) = Cardinality(X) + Cardinality(Y) - Cardinality(X \cap Y)
    BY <1>1, FS_Union
  <1>4. Cardinality(X \cap Y) = 0
    BY <1>2, FS_EmptySet, Zenon
  <1>5. Cardinality(X \cup Y) = Cardinality(X) + Cardinality(Y)
    BY <1>1, <1>3, <1>4
  <1> QED BY <1>2, <1>5 DEF X, Y

LEMMA CountShrinks ==
    ASSUME NEW A \in SUBSET Sub, NEW s \in A, NEW T
    PROVE  Cardinality((A \ {s}) \cap T) =
              Cardinality(A \cap T) - (IF s \in T THEN 1 ELSE 0)
  <1>1. IsFiniteSet(A \cap T)
    BY Counted
  <1>2. CASE s \in T
    <2>1. (A \ {s}) \cap T = (A \cap T) \ {s} /\ s \in A \cap T
      BY <1>2
    <2>2. Cardinality((A \cap T) \ {s}) = Cardinality(A \cap T) - 1
      BY <1>1, <2>1, FS_RemoveElement
    <2> QED BY <1>2, <2>1, <2>2
  <1>3. CASE s \notin T
    <2>1. (A \ {s}) \cap T = A \cap T
      BY <1>3
    <2>2. Cardinality(A \cap T) \in Nat
      BY Counted
    <2> QED BY <1>3, <2>1, <2>2
  <1> QED BY <1>2, <1>3

LEMMA AddSound ==
    ASSUME NEW r \in Record, NEW S \in SUBSET Sub, Sound(r)
    PROVE  Sound(AddSubscriber(r, S))
  <1> PICK A \in SUBSET Sub : A = r.subs
    BY RecordFields
  <1>1. CASE S \ A = {}
    BY <1>1, AddFacts
  <1>2. CASE S \ A # {}
    <2>1. AddSubscriber(r, S) =
             [state  |-> "Subscribed",
              subs   |-> A \cup (S \ A),
              server |-> r.server + Cardinality((S \ A) \cap ServerSub),
              vod    |-> r.vod + Cardinality((S \ A) \cap VodSub)]
      BY <1>2 DEF AddSubscriber
    <2>2. A \cup (S \ A) = A \cup S
      OBVIOUS
    <2>3. /\ Cardinality((A \cup S) \cap ServerSub) =
                r.server + Cardinality((S \ A) \cap ServerSub)
          /\ Cardinality((A \cup S) \cap VodSub) = r.vod + Cardinality((S \ A) \cap VodSub)
      <3>1. /\ Cardinality((A \cup S) \cap ServerSub) =
                  Cardinality(A \cap ServerSub) + Cardinality((S \ A) \cap ServerSub)
            /\ Cardinality((A \cup S) \cap VodSub) =
                  Cardinality(A \cap VodSub) + Cardinality((S \ A) \cap VodSub)
        <4>1. A \in SUBSET Sub /\ S \in SUBSET Sub
          OBVIOUS
        <4>2. Cardinality((A \cup S) \cap ServerSub) =
                 Cardinality(A \cap ServerSub) + Cardinality((S \ A) \cap ServerSub)
          BY ONLY <4>1, CountGrows, Zenon
        <4>3. Cardinality((A \cup S) \cap VodSub) =
                 Cardinality(A \cap VodSub) + Cardinality((S \ A) \cap VodSub)
          BY ONLY <4>1, CountGrows, Zenon
        <4> QED BY <4>2, <4>3, Zenon
      <3>2. r.server = Cardinality(A \cap ServerSub) /\ r.vod = Cardinality(A \cap VodSub)
        BY Zenon DEF Sound
      <3> QED BY <3>1, <3>2, Zenon
    <2> DEFINE a == AddSubscriber(r, S)
    <2>4. /\ a.state = "Subscribed" /\ a.subs = A \cup S
          /\ a.server = r.server + Cardinality((S \ A) \cap ServerSub)
          /\ a.vod = r.vod + Cardinality((S \ A) \cap VodSub)
      BY <2>1, <2>2
    <2> HIDE DEF a
    <2>5. a.server = Cardinality(a.subs \cap ServerSub) /\ a.vod = Cardinality(a.subs \cap VodSub)
      BY <2>3, <2>4, Zenon
    <2>6. a.state # "Disposed" /\ a.state \notin {"Init", "WaitSubscriber"}
      BY <2>4
    <2>7. Sound(a)
      BY <2>5, <2>6, Zenon DEF Sound
    <2> QED BY <2>7 DEF a
  <1> QED BY <1>1, <1>2

LEMMA RemoveSound ==
    ASSUME NEW r \in Record, NEW s \in r.subs, Sound(r)
    PROVE  Sound(RemoveSubscriber(r, s))
  <1> PICK A \in SUBSET Sub : A = r.subs
    BY RecordFields
  <1> DEFINE server == r.server - (IF s \in ServerSub THEN 1 ELSE 0)
             vod    == r.vod - (IF s \in VodSub THEN 1 ELSE 0)
             st     == IF r.state = "Subscribed" /\ server = 0 /\ vod = 0
                       THEN "WaitSubscriber" ELSE r.state
  <1>1. RemoveSubscriber(r, s) =
           [state |-> st, subs |-> A \ {s}, server |-> server, vod |-> vod]
    BY DEF RemoveSubscriber
  <1>2. /\ server = Cardinality((A \ {s}) \cap ServerSub)
        /\ vod = Cardinality((A \ {s}) \cap VodSub)
    <2>1. A \in SUBSET Sub /\ s \in A
      OBVIOUS
    <2>2. /\ Cardinality((A \ {s}) \cap ServerSub) =
                Cardinality(A \cap ServerSub) - (IF s \in ServerSub THEN 1 ELSE 0)
          /\ Cardinality((A \ {s}) \cap VodSub) =
                Cardinality(A \cap VodSub) - (IF s \in VodSub THEN 1 ELSE 0)
      BY ONLY <2>1, CountShrinks, Zenon
    <2>3. r.server = Cardinality(A \cap ServerSub) /\ r.vod = Cardinality(A \cap VodSub)
      BY Zenon DEF Sound
    <2> QED BY <2>2, <2>3, Zenon
  <1>3. st # "Disposed"
    BY DEF Sound
  <1>4. ASSUME st \in {"Init", "WaitSubscriber"}
        PROVE  (A \ {s}) \cap (ServerSub \cup VodSub) = {}
    <2>1. CASE server = 0 /\ vod = 0
      <3>1. /\ IsFiniteSet((A \ {s}) \cap ServerSub)
            /\ IsFiniteSet((A \ {s}) \cap VodSub)
        BY Counted
      <3>2. (A \ {s}) \cap ServerSub = {} /\ (A \ {s}) \cap VodSub = {}
        <4> HIDE DEF server, vod
        <4> QED BY <1>2, <2>1, <3>1, FS_EmptySet
      <3> QED BY <3>2
    <2>2. CASE ~(server = 0 /\ vod = 0)
      <3>1. r.state \in {"Init", "WaitSubscriber"}
        BY <1>4, <2>2
      <3> QED BY <3>1 DEF Sound
    <2> QED BY <2>1, <2>2
  <1> HIDE DEF server, vod, st
  <1> QED BY <1>1, <1>2, <1>3, <1>4 DEF Sound

LEMMA NewSound == Sound(NewPublisher)
  <1>1. {} \cap ServerSub = {} /\ {} \cap VodSub = {}
    OBVIOUS
  <1>2. Cardinality({}) = 0
    BY FS_EmptySet
  <1> QED BY <1>1, <1>2 DEF Sound, NewPublisher

WellRouted(s) ==
    IF s \in waitingPublish THEN s \in waiting[streamPath[s]]
    ELSE /\ publisherOf[s] \in Live
         /\ s \in pub[publisherOf[s]].subs
         /\ pubPath[publisherOf[s]] \in {streamPath[s]} \cup Targets(streamPath[s])

Well ==
    /\ AliasesTrue
    /\ \A s \in LiveSub : WellRouted(s)
    /\ \A p \in Live : Sound(pub[p])
    /\ \A p \in Pub \ Started : pub[p] = NewPublisher

\* RouteInv, one publisher and one subscriber at a time.
LEMMA RouteParts == RouteInv <=> HeldInv /\ Well
  <1>1. ASSUME RouteInv PROVE HeldInv /\ Well
    <2>1. \A s \in LiveSub : WellRouted(s)
      BY <1>1 DEF RouteInv, Routed, ReadsOwnOrTarget, WellRouted
    <2>2. \A p \in Live : Sound(pub[p])
      BY <1>1 DEF RouteInv, CountsMatch, IdleIsEmpty, Sound
    <2> QED BY <1>1, <2>1, <2>2 DEF RouteInv, Well
  <1>2. ASSUME HeldInv, Well PROVE RouteInv
    <2>0. TypeOK /\ Placed
      BY <1>2 DEF HeldInv, StreamsInv, Placed
    <2>1. Routed
      <3> SUFFICES ASSUME NEW s \in LiveSub
                   PROVE  IF s \in waitingPublish
                          THEN s \in waiting[streamPath[s]] /\ \A p \in Pub : s \notin pub[p].subs
                          ELSE publisherOf[s] \in Live /\ s \in pub[publisherOf[s]].subs
        BY DEF Routed
      <3>1. WellRouted(s)
        BY <1>2 DEF Well
      <3> QED BY <2>0, <3>1, OnePlace DEF WellRouted
    <2>2. ReadsOwnOrTarget
      BY <1>2 DEF Well, WellRouted, ReadsOwnOrTarget
    <2>3. CountsMatch /\ IdleIsEmpty
      BY <1>2 DEF Well, Sound, CountsMatch, IdleIsEmpty
    <2> QED BY <1>2, <2>1, <2>2, <2>3 DEF RouteInv, Well
  <1> QED BY <1>1, <1>2

LEMMA TargetOf ==
    ASSUME NEW x \in Path, NEW t, t # NoPath
    PROVE  t \in Targets(x) <=> t = Regex[x] \/ \E r \in Requests : r[1] = x /\ r[2] = t
  BY DEF Targets

LEMMA TargetPaths ==
    ASSUME NEW x \in Path
    PROVE  Targets(x) \subseteq Path
  <1> SUFFICES ASSUME NEW t \in Targets(x) PROVE t \in Path
    OBVIOUS
  <1>1. t # NoPath
    BY DEF Targets
  <1>2. CASE t = Regex[x]
    BY <1>1, <1>2, PathsGiven
  <1>3. CASE \E r \in Requests : r[1] = x /\ r[2] = t
    BY <1>1, <1>3, RequestParts
  <1> QED BY <1>1, <1>2, <1>3, TargetOf

\* An alias never has a stream of its own name.
LEMMA NoOwnStream ==
    ASSUME FixedAliases, StreamsInv, AliasesTrue, NEW x \in Path
    PROVE  /\ Targets(x) # {} => streams[x] = NoPub
           /\ alias[x].target # NoPath => Targets(x) # {} /\ streams[x] = NoPub
  <1>1. Targets(x) # {} => streams[x] = NoPub
    BY DEF FixedAliases, StreamsInv, TypeOK, Live
  <1> QED BY <1>1 DEF AliasesTrue

\* So no Start takes subscribers from another publisher, and no Dispose gives any
\* back to one.
LEMMA NothingReplaced ==
    ASSUME FixedAliases, StreamsInv, AliasesTrue, NEW p \in Pub
    PROVE  Replaced(p) = {} /\ GoesBack(p) = {} /\ \A q \in Pub : BackTo(p, q) = {}
  <1>0. TypeOK /\ pubPath[p] \in Path
    BY PathsGiven DEF StreamsInv
  <1>1. ASSUME NEW x \in AliasesOf(p)
        PROVE  /\ x \in Path /\ streams[x] = NoPub
               /\ alias[x].pub # NoPub => pubPath[alias[x].pub] = pubPath[p]
    <2>1. x \in Path /\ alias[x].target = pubPath[p] /\ alias[x].target # NoPath
      BY <1>0, NilIsNone DEF AliasesOf
    <2>2. alias[x].pub # NoPub => alias[x].pub = streams[pubPath[p]]
      BY <2>1 DEF AliasesTrue
    <2>3. streams[pubPath[p]] # NoPub => pubPath[streams[pubPath[p]]] = pubPath[p]
      BY <1>0 DEF StreamsInv
    <2> QED BY <2>1, <2>2, <2>3, NoOwnStream
  <1>2. Replaced(p) = {}
    BY <1>1 DEF Replaced
  <1>3. GoesBack(p) = {}
    BY <1>1 DEF GoesBack
  <1>4. \A q \in Pub : BackTo(p, q) = {}
    BY <1>1 DEF BackTo
  <1> QED BY <1>2, <1>3, <1>4

LEMMA FoundRight ==
    ASSUME FixedAliases, StreamsInv, AliasesTrue, NEW s \in Sub, Found(s) # NoPub
    PROVE  /\ Found(s) \in Live
           /\ pubPath[Found(s)] \in {streamPath[s]} \cup Targets(streamPath[s])
  <1>0. TypeOK
    BY DEF StreamsInv
  <1> PICK x \in Path : x = streamPath[s]
    BY <1>0 DEF TypeOK
  <1>1. \A y \in Path : streams[y] # NoPub => streams[y] \in Live /\ pubPath[streams[y]] = y
    BY DEF StreamsInv
  <1>2. CASE Found(s) = streams[x]
    BY <1>1, <1>2
  <1>3. CASE Rewritten(s) /\ Found(s) = streams[Regex[x]]
    <2>1. Regex[x] \in Path /\ Regex[x] # NoPath
      BY <1>3, PathsGiven DEF Rewritten
    <2>2. Regex[x] \in Targets(x)
      BY <2>1, TargetOf
    <2> QED BY <1>1, <1>3, <2>1, <2>2
  <1>4. CASE Found(s) = alias[x].pub
    <2>1. /\ alias[x].target # NoPath
          /\ alias[x].pub = streams[alias[x].target]
          /\ alias[x].target \in Targets(x)
      BY <1>4 DEF AliasesTrue
    <2>2. alias[x].target \in Path
      BY <2>1, TargetPaths
    <2> QED BY <1>1, <1>4, <2>1, <2>2
  <1> QED BY <1>2, <1>3, <1>4 DEF Found, AliasPublisher

\* The aliases that point at p after its Start.
LEMMA StartAlias ==
    ASSUME TypeOK, NEW p \in Pub, Start(p), Replaced(p) = {}, NEW x \in Path
    PROVE  /\ alias'[x].target = alias[x].target
           /\ alias'[x].pub = IF x \in AliasesOf(p) /\ alias[x].pub = NoPub
                              THEN p ELSE alias[x].pub
  <1>1. alias'[x] = IF x \in AliasesOf(p) /\ alias[x].pub = NoPub
                    THEN [alias[x] EXCEPT !.pub = p] ELSE alias[x]
    BY DEF Start
  <1> PICK e \in AliasStream : e = alias[x]
    BY DEF TypeOK
  <1>2. /\ [e EXCEPT !.pub = p].target = e.target
        /\ [e EXCEPT !.pub = p].pub = p
    BY AliasFacts
  <1> QED BY <1>1, <1>2

\* WellRouted of a subscriber for which nothing has changed.
LEMMA StaysRouted ==
    ASSUME NEW s \in Sub, WellRouted(s),
           s \in waitingPublish' <=> s \in waitingPublish,
           streamPath'[s] = streamPath[s], publisherOf'[s] = publisherOf[s],
           s \in waitingPublish => s \in waiting'[streamPath[s]],
           s \notin waitingPublish => /\ publisherOf[s] \in Live'
                                      /\ s \in pub'[publisherOf[s]].subs
    PROVE  WellRouted(s)'
  BY DEF WellRouted

LEMMA PublishWell ==
    ASSUME FixedAliases, HeldInv, Well, NEW p \in Pub, Publish(p)
    PROVE  Well'
  <1>0. /\ StreamsInv /\ TypeOK /\ Placed /\ AliasesTrue
        /\ Start(p) /\ p \notin Started /\ streams[pubPath[p]] = NoPub
        /\ UNCHANGED <<streamPath, subTask>>
        /\ pubPath[p] \in Path
    BY PathsGiven DEF HeldInv, StreamsInv, Placed, Well, Publish, Started
  <1>1. Replaced(p) = {}
    BY <1>0, NothingReplaced
  <1>2. /\ \A q \in Pub : pub'[q] = IF q = p THEN AddSubscriber(pub[p], Gained(p)) ELSE pub[q]
        /\ \A x \in Path : waiting'[x] = IF x \in Woken(p) THEN {} ELSE waiting[x]
        /\ \A s \in Sub : publisherOf'[s] = IF s \in Gained(p) THEN p ELSE publisherOf[s]
        /\ waitingPublish' = waitingPublish \ Gained(p)
        /\ streams' = [streams EXCEPT ![pubPath[p]] = p]
        /\ pubTask' = [pubTask EXCEPT ![p] = "live"]
    BY <1>0, <1>1, StartEffect
  <1>3. Live' = Live \cup {p} /\ Started' = Started \cup {p} /\ LiveSub' = LiveSub
    BY <1>0, <1>2 DEF Live, Started, LiveSub, TypeOK
  <1>4. pub[p] = NewPublisher /\ pub[p] \in Record /\ Gained(p) \in SUBSET Sub
    BY <1>0, GainedSubs DEF Well, TypeOK
  <1>5. AliasesTrue'
    <2> SUFFICES ASSUME NEW x \in Path
                 PROVE  /\ alias'[x].target # NoPath => alias'[x].target \in Targets(x)
                        /\ alias'[x].pub # NoPub => /\ alias'[x].target # NoPath
                                                    /\ alias'[x].pub = streams'[alias'[x].target]
      BY DEF AliasesTrue
    <2>1. /\ alias'[x].target = alias[x].target
          /\ alias'[x].pub = IF x \in AliasesOf(p) /\ alias[x].pub = NoPub
                             THEN p ELSE alias[x].pub
      BY <1>0, <1>1, StartAlias
    <2>2. CASE x \in AliasesOf(p) /\ alias[x].pub = NoPub
      <3>1. alias[x].target = pubPath[p] /\ alias[x].target # NoPath
        BY <1>0, <2>2, NilIsNone DEF AliasesOf
      <3>2. streams'[pubPath[p]] = p
        BY <1>0, <1>2 DEF TypeOK
      <3> QED BY <1>0, <2>1, <2>2, <3>1, <3>2 DEF AliasesTrue
    <2>3. CASE ~(x \in AliasesOf(p) /\ alias[x].pub = NoPub) /\ alias[x].pub # NoPub
      <3>1. /\ alias[x].target # NoPath /\ alias[x].target \in Targets(x)
            /\ alias[x].pub = streams[alias[x].target]
        BY <1>0, <2>3 DEF AliasesTrue
      <3>2. alias[x].target # pubPath[p] /\ alias[x].target \in Path
        BY <1>0, <2>3, <3>1, TargetPaths
      <3>3. streams'[alias[x].target] = streams[alias[x].target]
        BY <1>0, <1>2, <3>2 DEF TypeOK
      <3> QED BY <2>1, <2>3, <3>1, <3>3
    <2>4. CASE ~(x \in AliasesOf(p) /\ alias[x].pub = NoPub) /\ alias[x].pub = NoPub
      BY <1>0, <2>1, <2>4 DEF AliasesTrue
    <2> QED BY <2>2, <2>3, <2>4
  <1>6. ASSUME NEW s \in LiveSub PROVE WellRouted(s)'
    <2>0. s \in Sub /\ WellRouted(s) /\ streamPath[s] \in Path
      BY <1>0 DEF LiveSub, Well, TypeOK
    <2>1. CASE s \in Gained(p)
      <3>1. \E x \in Woken(p) : s \in waiting[x]
        BY <1>0, <1>1, <2>1, GainedFacts
      <3>2. PICK x \in Woken(p) : s \in waiting[x]
        BY <3>1
      <3>3. x \in Path /\ streamPath[s] = x
        BY <1>0, <3>2, WokenPaths, OnePlace
      <3>4. x = pubPath[p] \/ alias[x].target = pubPath[p]
        BY <3>2 DEF Woken, AliasesOf
      <3>5. alias[x].target = pubPath[p] => pubPath[p] \in Targets(x)
        BY <1>0, <3>3, NilIsNone DEF AliasesTrue
      <3>6. pub'[p].subs = pub[p].subs \cup Gained(p)
        BY <1>2, <1>4, AddFacts
      <3> QED BY <1>0, <1>2, <1>3, <2>0, <2>1, <3>3, <3>4, <3>5, <3>6 DEF WellRouted
    <2>2. CASE s \notin Gained(p)
      <3>1. s \in waitingPublish => s \in waiting'[streamPath[s]]
        BY <1>0, <1>2, <2>0, <2>2, GainedFacts DEF WellRouted
      <3>2. s \notin waitingPublish => /\ publisherOf[s] \in Live'
                                       /\ s \in pub'[publisherOf[s]].subs
        BY <1>0, <1>2, <1>3, <2>0 DEF WellRouted, Live, Started
      <3> QED BY <1>0, <1>2, <2>0, <2>2, <3>1, <3>2, StaysRouted
    <2> QED BY <2>1, <2>2
  <1>7. \A q \in Live' : Sound(pub'[q])
    <2>1. Sound(pub'[p])
      BY <1>2, <1>4, AddSound, NewSound
    <2>2. \A q \in Live : q \in Pub /\ q # p /\ Sound(pub[q])
      BY <1>0 DEF Live, Started, Well
    <2> QED BY <1>2, <1>3, <2>1, <2>2
  <1>8. \A q \in Pub \ Started' : pub'[q] = NewPublisher
    BY <1>2, <1>3 DEF Well
  <1> QED BY <1>3, <1>5, <1>6, <1>7, <1>8 DEF Well, Sound

LEMMA DisposeWell ==
    ASSUME FixedAliases, HeldInv, Well, NEW p \in Pub, PublisherDispose(p)
    PROVE  Well'
  <1>0. /\ StreamsInv /\ TypeOK /\ Placed /\ AliasesTrue
        /\ pubTask[p] = "live" /\ pubPath[p] \in Path
        /\ UNCHANGED <<streamPath, subTask>>
    BY PathsGiven DEF HeldInv, StreamsInv, Placed, Well, PublisherDispose, Live
  <1>1. GoesBack(p) = {} /\ \A q \in Pub : BackTo(p, q) = {}
    BY <1>0, NothingReplaced
  <1>2. /\ \A q \in Pub : pub'[q] = IF q = p THEN Emptied(pub[p])
                                    ELSE AddSubscriber(pub[q], BackTo(p, q))
        /\ \A s \in Sub : publisherOf'[s] = IF s \in GoesBack(p) THEN streams[streamPath[s]]
                                            ELSE publisherOf[s]
        /\ waitingPublish' = (waitingPublish \ GoesBack(p)) \cup (pub[p].subs \ GoesBack(p))
        /\ \A x \in Path : waiting'[x] = waiting[x] \cup
                              {s \in pub[p].subs \ GoesBack(p) : streamPath[s] = x}
        /\ streams' = [streams EXCEPT ![pubPath[p]] = NoPub]
        /\ pubTask' = [pubTask EXCEPT ![p] = "gone"]
    BY <1>0, DisposeEffect
  <1>3. /\ \A x \in Path : x \notin AliasesOf(p) => alias'[x] = alias[x]
        /\ \A x \in AliasesOf(p) : /\ alias'[x].pub = NoPub
                                   /\ alias'[x].target \in {NoPath, alias[x].target}
    BY <1>0, DisposeEffect
  <1>4. \A q \in Pub : q # p => pub'[q] = pub[q]
    <2> SUFFICES ASSUME NEW q \in Pub, q # p PROVE pub'[q] = pub[q]
      OBVIOUS
    <2>1. pub'[q] = AddSubscriber(pub[q], {}) /\ pub[q] \in Record
      BY <1>0, <1>1, <1>2, Zenon DEF TypeOK
    <2>2. {} \in SUBSET Sub /\ {} \ pub[q].subs = {}
      OBVIOUS
    <2> QED BY <2>1, <2>2, AddFacts
  <1>5. /\ \A s \in Sub : publisherOf'[s] = publisherOf[s]
        /\ waitingPublish' = waitingPublish \cup pub[p].subs
        /\ \A x \in Path : waiting'[x] = waiting[x] \cup {s \in pub[p].subs : streamPath[s] = x}
    BY <1>1, <1>2
  <1>6. Live' = Live \ {p} /\ Started' = Started /\ LiveSub' = LiveSub
    BY <1>0, <1>2 DEF Live, Started, LiveSub, TypeOK
  <1>7. AliasesTrue'
    <2> SUFFICES ASSUME NEW x \in Path
                 PROVE  /\ alias'[x].target # NoPath => alias'[x].target \in Targets(x)
                        /\ alias'[x].pub # NoPub => /\ alias'[x].target # NoPath
                                                    /\ alias'[x].pub = streams'[alias'[x].target]
      BY DEF AliasesTrue
    <2>1. CASE x \in AliasesOf(p)
      BY <1>0, <1>3, <2>1 DEF AliasesTrue
    <2>2. CASE x \notin AliasesOf(p) /\ alias[x].pub # NoPub
      <3>1. /\ alias[x].target # NoPath /\ alias[x].target \in Targets(x)
            /\ alias[x].pub = streams[alias[x].target]
        BY <1>0, <2>2 DEF AliasesTrue
      <3>2. alias[x].target # pubPath[p] /\ alias[x].target \in Path
        BY <2>2, <3>1, TargetPaths DEF AliasesOf
      <3>3. streams'[alias[x].target] = streams[alias[x].target]
        BY <1>0, <1>2, <3>2 DEF TypeOK
      <3> QED BY <1>3, <2>2, <3>1, <3>3
    <2>3. CASE x \notin AliasesOf(p) /\ alias[x].pub = NoPub
      BY <1>0, <1>3, <2>3 DEF AliasesTrue
    <2> QED BY <2>1, <2>2, <2>3
  <1>8. ASSUME NEW s \in LiveSub PROVE WellRouted(s)'
    <2>0. s \in Sub /\ WellRouted(s) /\ streamPath[s] \in Path
      BY <1>0 DEF LiveSub, Well, TypeOK
    <2>1. CASE s \in pub[p].subs
      BY <1>0, <1>5, <2>0, <2>1 DEF WellRouted
    <2>2. CASE s \notin pub[p].subs
      <3>1. s \in waitingPublish => s \in waiting'[streamPath[s]]
        BY <1>5, <2>0 DEF WellRouted
      <3>2. s \notin waitingPublish => /\ publisherOf[s] \in Live'
                                       /\ s \in pub'[publisherOf[s]].subs
        BY <1>4, <1>6, <2>0, <2>2 DEF WellRouted, Live
      <3> QED BY <1>0, <1>5, <2>0, <2>2, <3>1, <3>2, StaysRouted
    <2> QED BY <2>1, <2>2
  <1>9. \A q \in Live' : Sound(pub'[q])
    BY <1>4, <1>6 DEF Well, Live
  <1>10. \A q \in Pub \ Started' : pub'[q] = NewPublisher
    BY <1>0, <1>4, <1>6 DEF Well, Started
  <1> QED BY <1>6, <1>7, <1>8, <1>9, <1>10 DEF Well, Sound

\* A rule gives an alias a target it may have.
LEMMA RuleTrue ==
    ASSUME TypeOK, AliasesTrue, NEW s \in Sub, AliasOnStart(s), streams' = streams
    PROVE  AliasesTrue'
  <1> PICK y \in Path : y = streamPath[s]
    BY DEF TypeOK
  <1>1. /\ \A x \in Path : x # y \/ ~Rewritten(s) => alias'[x] = alias[x]
        /\ Rewritten(s) => /\ alias'[y].target = Regex[y]
                           /\ alias'[y].pub = NoPub
                           /\ Regex[y] \in Path
    BY AliasOnStartEffect
  <1>2. Rewritten(s) => Regex[y] \in Targets(y)
    BY <1>1, NilIsNone, TargetOf
  <1> QED BY <1>1, <1>2 DEF AliasesTrue

LEMMA SubscribeWell ==
    ASSUME FixedAliases, HeldInv, Well, NEW s \in Sub, SubscribeStep(s)
    PROVE  Well'
  <1>0. /\ StreamsInv /\ TypeOK /\ Placed /\ AliasesTrue /\ AliasOnStart(s)
        /\ subTask[s] = "new" /\ streamPath[s] \in Path
        /\ UNCHANGED <<pubTask, streamPath, streams>>
    BY DEF HeldInv, StreamsInv, TypeOK, Placed, Well, SubscribeStep, Subscribe,
           SubscribeRefused, SubscribeWait
  <1>1. AliasesTrue' /\ Live' = Live /\ Started' = Started
    BY <1>0, RuleTrue DEF Live, Started
  <1>2. s \notin LiveSub /\ \A u \in LiveSub : u \in Sub /\ u # s /\ WellRouted(u)
    BY <1>0 DEF LiveSub, Well
  <1>3. CASE Subscribe(s)
    <2>1. /\ Found(s) \in Pub
          /\ \A q \in Pub : pub'[q] = IF q = Found(s) THEN AddSubscriber(pub[q], {s}) ELSE pub[q]
          /\ \A u \in Sub : publisherOf'[u] = IF u = s THEN Found(s) ELSE publisherOf[u]
          /\ waitingPublish' = waitingPublish \ {s}
      BY <1>0, <1>3, SubscribeEffect
    <2>2. waiting' = waiting /\ LiveSub' = LiveSub \cup {s}
      BY <1>0, <1>3 DEF Subscribe, LiveSub, TypeOK
    <2>3. /\ Found(s) \in Live
          /\ pubPath[Found(s)] \in {streamPath[s]} \cup Targets(streamPath[s])
      BY <1>0, <2>1, FoundRight, NilIsNone
    <2>4. \A q \in Pub : pub[q] \in Record
      BY <1>0 DEF TypeOK
    <2>5. /\ pub'[Found(s)].subs = pub[Found(s)].subs \cup {s}
          /\ Sound(pub'[Found(s)])
      BY <2>1, <2>3, <2>4, AddFacts, AddSound DEF Well
    <2>6. \A q \in Pub : pub[q].subs \subseteq pub'[q].subs
      BY <2>1, <2>5
    <2>7. WellRouted(s)'
      BY <1>0, <1>1, <2>1, <2>3, <2>5 DEF WellRouted
    <2>8. ASSUME NEW u \in LiveSub PROVE WellRouted(u)'
      <3>1. u \notin waitingPublish => /\ publisherOf[u] \in Live'
                                       /\ u \in pub'[publisherOf[u]].subs
        BY <1>1, <1>2, <2>6 DEF WellRouted, Live
      <3>2. u \in waitingPublish => u \in waiting'[streamPath[u]]
        BY <1>2, <2>2 DEF WellRouted
      <3> QED BY <1>0, <1>2, <2>1, <3>1, <3>2, StaysRouted
    <2>9. \A q \in Live' : Sound(pub'[q])
      BY <1>1, <2>1, <2>5 DEF Well, Live
    <2>10. \A q \in Pub \ Started' : pub'[q] = NewPublisher
      BY <1>1, <2>1, <2>3 DEF Well, Live, Started
    <2> QED BY <1>1, <2>2, <2>7, <2>8, <2>9, <2>10 DEF Well, Sound
  <1>4. CASE SubscribeRefused(s)
    <2>1. LiveSub' = LiveSub /\ UNCHANGED <<pub, waiting, publisherOf, waitingPublish>>
      BY <1>0, <1>4 DEF SubscribeRefused, LiveSub, TypeOK
    <2>2. ASSUME NEW u \in LiveSub PROVE WellRouted(u)'
      BY <1>0, <1>1, <1>2, <2>1 DEF WellRouted
    <2> QED BY <1>1, <2>1, <2>2 DEF Well, Sound
  <1>5. CASE SubscribeWait(s)
    <2>1. /\ LiveSub' = LiveSub \cup {s}
          /\ waitingPublish' = waitingPublish \cup {s}
          /\ pub' = pub /\ publisherOf' = publisherOf
          /\ \A x \in Path : waiting'[x] = IF x = streamPath[s] THEN waiting[x] \cup {s}
                                           ELSE waiting[x]
      BY <1>0, <1>5 DEF SubscribeWait, LiveSub, TypeOK
    <2>2. WellRouted(s)'
      BY <1>0, <2>1 DEF WellRouted
    <2>3. ASSUME NEW u \in LiveSub PROVE WellRouted(u)'
      <3>1. streamPath[u] \in Path
        BY <1>0, <1>2 DEF TypeOK
      <3>2. u \in waitingPublish => u \in waiting'[streamPath[u]]
        BY <1>2, <2>1, <3>1 DEF WellRouted
      <3>3. u \notin waitingPublish => /\ publisherOf[u] \in Live'
                                       /\ u \in pub'[publisherOf[u]].subs
        BY <1>1, <1>2, <2>1 DEF WellRouted
      <3> QED BY <1>0, <1>2, <2>1, <3>2, <3>3, StaysRouted
    <2> QED BY <1>1, <2>1, <2>2, <2>3 DEF Well, Sound
  <1> QED BY <1>3, <1>4, <1>5 DEF SubscribeStep

LEMMA LeaveWell ==
    ASSUME HeldInv, Well, NEW s \in Sub, SubscriberDispose(s)
    PROVE  Well'
  <1>0. /\ StreamsInv /\ TypeOK /\ Placed /\ AliasesTrue
        /\ s \in LiveSub
        /\ UNCHANGED <<pubTask, streams, alias, streamPath, publisherOf, waitingPublish>>
    BY DEF HeldInv, StreamsInv, Placed, Well, SubscriberDispose, LiveSub
  <1>1. /\ \A x \in Path : waiting'[x] = IF s \in waitingPublish /\ x = streamPath[s]
                                         THEN waiting[x] \ {s} ELSE waiting[x]
        /\ \A q \in Pub : pub'[q] =
              IF Attached(s) /\ pubTask[publisherOf[s]] # "new" /\ q = publisherOf[s]
              THEN RemoveSubscriber(pub[q], s) ELSE pub[q]
    BY <1>0, LeaveEffect
  <1>2. /\ LiveSub' = LiveSub \ {s} /\ Live' = Live /\ Started' = Started
        /\ AliasesTrue'
    BY <1>0 DEF LiveSub, SubscriberDispose, TypeOK, Live, Started, AliasesTrue
  <1>3. \A q \in Pub : /\ pub[q] \in Record
                       /\ RemoveSubscriber(pub[q], s).subs = pub[q].subs \ {s}
    BY <1>0, RemoveFacts DEF TypeOK
  <1>4. ASSUME NEW u \in LiveSub, u # s PROVE WellRouted(u)'
    <2>0. u \in Sub /\ WellRouted(u) /\ streamPath[u] \in Path
      BY <1>0 DEF LiveSub, Well, TypeOK
    <2>1. u \in waitingPublish => u \in waiting'[streamPath[u]]
      BY <1>1, <1>4, <2>0 DEF WellRouted
    <2>2. u \notin waitingPublish => /\ publisherOf[u] \in Live'
                                     /\ u \in pub'[publisherOf[u]].subs
      BY <1>1, <1>2, <1>3, <1>4, <2>0 DEF WellRouted, Live
    <2> QED BY <1>0, <2>0, <2>1, <2>2, StaysRouted
  <1>5. \A q \in Live : Sound(pub'[q])
    <2> SUFFICES ASSUME NEW q \in Live PROVE Sound(pub'[q])
      OBVIOUS
    <2>0. q \in Pub /\ Sound(pub[q])
      BY DEF Live, Well
    <2>1. CASE pub'[q] = pub[q]
      BY <2>0, <2>1
    <2>2. CASE Attached(s) /\ q = publisherOf[s] /\ pub'[q] = RemoveSubscriber(pub[q], s)
      <3>1. s \in pub[q].subs
        BY <1>0, <2>2 DEF Well, WellRouted, Attached
      <3> QED BY <1>3, <2>0, <2>2, <3>1, RemoveSound
    <2> QED BY <1>1, <2>0, <2>1, <2>2
  <1>6. \A q \in Pub \ Started : pub'[q] = NewPublisher
    BY <1>1 DEF Well, Started
  <1> QED BY <1>2, <1>4, <1>5, <1>6 DEF Well, Sound

LEMMA ChangeWell ==
    ASSUME HeldInv, Well, NEW s \in Sub, NEW x \in Path,
           ChangeSubscribe(s, x), s \notin waitingPublish
    PROVE  Well'
  <1>0. /\ StreamsInv /\ TypeOK /\ Placed /\ AliasesTrue
        /\ s \in LiveSub /\ WellRouted(s)
    BY DEF HeldInv, StreamsInv, Placed, Well, ChangeSubscribe, LiveSub
  <1>1. publisherOf[s] \in Live /\ s \in pub[publisherOf[s]].subs
    BY <1>0 DEF WellRouted
  <1> PICK q \in Pub : q = publisherOf[s]
    BY <1>1 DEF Live
  <1> PICK p \in Pub : p = streams[x]
    BY <1>0, ChangeEffect
  <1>2. p \in Live /\ pubPath[p] = x
    BY <1>0, NilIsNone DEF StreamsInv
  <1>3. ~(publisherOf[s] = NoPub \/ pubTask[publisherOf[s]] = "new")
    BY <1>1, NilIsNone DEF Live
  <1>4. /\ UNCHANGED <<pubTask, subTask, waiting, alias, streams>>
        /\ \A r \in Pub : pub'[r] =
              IF r = p THEN AddSubscriber(IF r = q THEN RemoveSubscriber(pub[r], s) ELSE pub[r], {s})
              ELSE IF r = q THEN RemoveSubscriber(pub[r], s)
              ELSE pub[r]
        /\ \A u \in Sub : streamPath'[u] = IF u = s THEN x ELSE streamPath[u]
        /\ \A u \in Sub : publisherOf'[u] = IF u = s THEN p ELSE publisherOf[u]
        /\ waitingPublish' = waitingPublish \ {s}
    <2>1. Changed(s, x)
      BY <1>0, <1>3, Changes
    <2> QED BY <2>1 DEF Changed
  <1>5. /\ LiveSub' = LiveSub /\ Live' = Live /\ Started' = Started
        /\ AliasesTrue' /\ waitingPublish' = waitingPublish
    BY <1>0, <1>4 DEF LiveSub, Live, Started, AliasesTrue
  <1>6. /\ \A r \in Pub : pub[r] \in Record
        /\ RemoveSubscriber(pub[q], s) \in Record
        /\ RemoveSubscriber(pub[q], s).subs = pub[q].subs \ {s}
        /\ Sound(RemoveSubscriber(pub[q], s))
    BY <1>0, <1>1, RemoveFacts, RemoveSound DEF TypeOK, Well
  <1>7. pub'[p].subs = pub[p].subs \cup {s} /\ Sound(pub'[p])
    <2> PICK r \in Record : /\ r = IF p = q THEN RemoveSubscriber(pub[p], s) ELSE pub[p]
                            /\ r.subs \cup {s} = pub[p].subs \cup {s}
                            /\ Sound(r)
      BY <1>2, <1>6 DEF Well
    <2>1. pub'[p] = AddSubscriber(r, {s})
      BY <1>4
    <2> QED BY <2>1, AddFacts, AddSound
  <1>8. WellRouted(s)'
    BY <1>2, <1>4, <1>5, <1>7 DEF WellRouted
  <1>9. ASSUME NEW u \in LiveSub, u # s PROVE WellRouted(u)'
    <2>0. u \in Sub /\ WellRouted(u)
      BY DEF LiveSub, Well
    <2>1. u \in waitingPublish => u \in waiting'[streamPath[u]]
      BY <1>4, <2>0 DEF WellRouted
    <2>2. u \notin waitingPublish => /\ publisherOf[u] \in Live'
                                     /\ u \in pub'[publisherOf[u]].subs
      BY <1>4, <1>5, <1>6, <1>7, <1>9, <2>0 DEF WellRouted, Live
    <2> QED BY <1>4, <1>5, <1>9, <2>0, <2>1, <2>2, StaysRouted
  <1>10. \A r \in Live : Sound(pub'[r])
    <2> SUFFICES ASSUME NEW r \in Live PROVE Sound(pub'[r])
      OBVIOUS
    <2>1. r \in Pub /\ Sound(pub[r])
      BY DEF Live, Well
    <2> QED BY <1>4, <1>6, <1>7, <2>1
  <1>11. \A r \in Pub \ Started : pub'[r] = NewPublisher
    BY <1>1, <1>2, <1>4 DEF Well, Started, Live
  <1> QED BY <1>5, <1>8, <1>9, <1>10, <1>11 DEF Well, Sound

\* Under fixed aliases an alias call makes an alias and wakes its waiting list if
\* its stream is there, leaves everything but autoRemove as it is, or removes an
\* alias and perhaps puts one of its readers back.
Created(x, t) ==
    /\ t \in Targets(x)
    /\ alias[x].target = NoPath
    /\ alias'[x].target = t /\ alias'[x].pub = streams[t]
    /\ \/ streams[t] = NoPub /\ KeepSubscribers
       \/ streams[t] # NoPub /\ WakeUp(x, streams[t])

Confirmed(x) ==
    /\ alias'[x].target = alias[x].target /\ alias'[x].pub = alias[x].pub
    /\ KeepSubscribers

Removed(x) ==
    /\ alias'[x].target = NoPath /\ alias'[x].pub = NoPub
    /\ \/ KeepSubscribers
       \/ \E s \in Sub : /\ alias[x].pub \in Pub /\ s \in pub[alias[x].pub].subs
                         /\ streamPath[s] = x /\ PutBack(s, alias[x].pub)

LEMMA FixedCall ==
    ASSUME FixedAliases, StreamsInv, AliasesTrue,
           NEW x \in Path, NEW t \in Path \cup {NoPath}, NEW auto \in BOOLEAN,
           t # NoPath => t \in Targets(x), SetStreamAlias(x, t, auto)
    PROVE  /\ Created(x, t) \/ Confirmed(x) \/ (t = NoPath /\ Removed(x))
           /\ \A y \in Path \ {x} : alias'[y] = alias[y]
           /\ AliasesTrue'
  <1>0. TypeOK
    BY DEF StreamsInv
  <1>1. CASE CreateAlias(x, t, auto)
    <2>1. t \in Path /\ t \in Targets(x)
      BY <1>0, <1>1, CreateEffect, NilIsNone
    <2>2. streams[x] = NoPub
      BY <2>1, NoOwnStream
    <2>3. \/ streams[t] = NoPub /\ KeepSubscribers
          \/ streams[t] # NoPub /\ WakeUp(x, streams[t])
      BY <1>1, <2>2 DEF CreateAlias
    <2>4. /\ \A y \in Path \ {x} : alias'[y] = alias[y]
          /\ alias[x].target = NoPath /\ alias'[x].target = t
          /\ alias'[x].pub = streams[t]
          /\ streams' = streams
      BY <1>0, <1>1, <2>2, CreateEffect DEF CreateAlias
    <2>5. AliasesTrue'
      BY <2>1, <2>4, NilIsNone DEF AliasesTrue
    <2> QED BY <2>1, <2>3, <2>4, <2>5 DEF Created
  <1>2. CASE ModifyAlias(x, t, auto)
    <2>1. t \in Path /\ t \in Targets(x)
      BY <1>0, <1>2, ModifyEffect, NilIsNone
    <2>2. alias[x].target \in Targets(x)
      BY <1>2 DEF ModifyAlias, AliasesTrue
    <2>3. alias[x].target = t
      BY <2>1, <2>2 DEF FixedAliases
    <2>4. KeepSubscribers
      BY <1>2, <2>3 DEF ModifyAlias
    <2>5. /\ \A y \in Path \ {x} : alias'[y] = alias[y]
          /\ alias'[x].target = t
          /\ alias'[x].pub = alias[x].pub
          /\ streams' = streams
      BY <1>0, <1>2, <2>3, ModifyEffect DEF ModifyAlias
    <2>6. AliasesTrue'
      BY <2>1, <2>3, <2>5 DEF AliasesTrue
    <2> QED BY <2>3, <2>4, <2>5, <2>6 DEF Confirmed
  <1>3. CASE t = NoPath /\ RemoveAlias(x)
    <2>1. streams[x] = NoPub
      BY <1>3, NoOwnStream DEF RemoveAlias
    <2>2. alias[x].pub # NoPub => alias[x].pub \in Pub
      BY <1>0, AliasFields DEF TypeOK
    <2>3. \/ KeepSubscribers
          \/ /\ alias[x].pub # NoPub
             /\ \E s \in {u \in pub[alias[x].pub].subs : streamPath[u] = x} :
                   PutBack(s, alias[x].pub)
      BY <1>3, <2>1 DEF RemoveAlias
    <2>4. alias[x].pub \in Pub => pub[alias[x].pub].subs \subseteq Sub
      BY <1>0, RecordFields DEF TypeOK
    <2>5. /\ \A y \in Path \ {x} : alias'[y] = alias[y]
          /\ alias'[x].target = NoPath /\ alias'[x].pub = NoPub
          /\ streams' = streams
      BY <1>0, <1>3, RemoveEffect DEF RemoveAlias
    <2>6. AliasesTrue'
      BY <2>5 DEF AliasesTrue
    <2> QED BY <1>3, <2>2, <2>3, <2>4, <2>5, <2>6 DEF Removed
  <1> QED BY <1>1, <1>2, <1>3 DEF SetStreamAlias

LEMMA FixedMoves ==
    ASSUME FixedAliases, StreamsInv, AliasesTrue,
           NEW x \in Path, NEW t \in Path \cup {NoPath}, NEW auto \in BOOLEAN,
           t # NoPath => t \in Targets(x), SetStreamAlias(x, t, auto)
    PROVE  \/ KeepSubscribers
           \/ t \in Targets(x) /\ streams[t] # NoPub /\ WakeUp(x, streams[t])
           \/ \E s \in Sub : /\ alias[x].pub \in Pub /\ s \in pub[alias[x].pub].subs
                             /\ PutBack(s, alias[x].pub)
  BY FixedCall DEF Created, Confirmed, Removed

LEMMA AliasWell ==
    ASSUME FixedAliases, HeldInv, Well,
           NEW x \in Path, NEW t \in Path \cup {NoPath}, NEW auto \in BOOLEAN,
           t # NoPath => t \in Targets(x), SetStreamAlias(x, t, auto)
    PROVE  Well'
  <1>0. /\ StreamsInv /\ TypeOK /\ Placed /\ AliasesTrue
    BY DEF HeldInv, StreamsInv, Placed, Well
  <1>1. /\ UNCHANGED <<pubTask, streams, streamPath, subTask>>
        /\ LiveSub' = LiveSub /\ Live' = Live /\ Started' = Started
    BY <1>0, AliasCall DEF LiveSub, Live, Started
  <1>2. AliasesTrue'
    BY <1>0, FixedCall
  <1>3. \A r \in Pub : pub[r] \in Record
    BY <1>0 DEF TypeOK
  <1>4. \A u \in LiveSub : u \in Sub /\ WellRouted(u) /\ streamPath[u] \in Path
    BY <1>0 DEF LiveSub, Well, TypeOK
  <1>5. CASE KeepSubscribers
    <2>1. \A u \in LiveSub : WellRouted(u)'
      BY <1>1, <1>4, <1>5 DEF KeepSubscribers, WellRouted
    <2> QED BY <1>1, <1>2, <1>5, <2>1 DEF Well, Sound, KeepSubscribers
  <1>6. CASE t \in Targets(x) /\ streams[t] # NoPub /\ WakeUp(x, streams[t])
    <2>1. t \in Path
      BY <1>6, TargetPaths
    <2> PICK p \in Pub : p = streams[t]
      BY <1>0, <1>6, <2>1 DEF TypeOK
    <2>2. p \in Live /\ pubPath[p] = t
      BY <1>0, <1>6, <2>1 DEF StreamsInv
    <2>3. /\ \A q \in Pub : pub'[q] = IF q = p THEN AddSubscriber(pub[p], waiting[x]) ELSE pub[q]
          /\ waiting[x] \in SUBSET Sub
          /\ \A s \in Sub : publisherOf'[s] = IF s \in waiting[x] THEN p ELSE publisherOf[s]
          /\ waitingPublish' = waitingPublish \ waiting[x]
          /\ \A y \in Path : waiting'[y] = IF y = x THEN {} ELSE waiting[y]
      BY <1>0, <1>6, WakeEffect
    <2>4. pub'[p].subs = pub[p].subs \cup waiting[x] /\ Sound(pub'[p])
      BY <1>3, <2>2, <2>3, AddFacts, AddSound DEF Well
    <2>5. ASSUME NEW u \in LiveSub PROVE WellRouted(u)'
      <3>1. CASE u \in waiting[x]
        <4>1. streamPath[u] = x
          BY <1>0, <3>1, OnePlace
        <4> QED BY <1>1, <1>4, <1>6, <2>2, <2>3, <2>4, <3>1, <4>1 DEF WellRouted
      <3>2. CASE u \notin waiting[x]
        <4>1. u \in waitingPublish => u \in waiting'[streamPath[u]]
          BY <1>4, <2>3, <3>2 DEF WellRouted
        <4>2. u \notin waitingPublish => /\ publisherOf[u] \in Live'
                                         /\ u \in pub'[publisherOf[u]].subs
          BY <1>1, <1>4, <2>3, <2>4 DEF WellRouted, Live
        <4> QED BY <1>1, <1>4, <2>3, <3>2, <4>1, <4>2, StaysRouted
      <3> QED BY <3>1, <3>2
    <2>6. \A r \in Live : Sound(pub'[r])
      BY <2>3, <2>4 DEF Well, Live
    <2>7. \A r \in Pub \ Started : pub'[r] = NewPublisher
      BY <2>2, <2>3 DEF Well, Started, Live
    <2> QED BY <1>1, <1>2, <2>5, <2>6, <2>7 DEF Well, Sound
  <1>7. CASE \E s \in Sub : /\ alias[x].pub \in Pub /\ s \in pub[alias[x].pub].subs
                            /\ PutBack(s, alias[x].pub)
    <2> PICK p \in Pub : p = alias[x].pub
      BY <1>7
    <2>1. PICK s \in Sub : s \in pub[p].subs /\ PutBack(s, p)
      BY <1>7
    <2>2. /\ \A q \in Pub : pub'[q] = IF q = p THEN RemoveSubscriber(pub[p], s) ELSE pub[q]
          /\ publisherOf' = publisherOf
          /\ waitingPublish' = waitingPublish \cup {s}
          /\ \A y \in Path : waiting'[y] = IF y = streamPath[s] THEN waiting[y] \cup {s}
                                           ELSE waiting[y]
      <3>1. IsBack(s, p)
        BY <1>0, <2>1, PutsBack
      <3> QED BY <3>1, Zenon DEF IsBack
    <2>3. RemoveSubscriber(pub[p], s).subs = pub[p].subs \ {s}
      BY <1>3, RemoveFacts
    <2>4. ASSUME NEW u \in LiveSub PROVE WellRouted(u)'
      <3>1. CASE u = s
        BY <1>1, <1>4, <2>2, <3>1 DEF WellRouted
      <3>2. CASE u # s
        <4>1. u \in waitingPublish => u \in waiting'[streamPath[u]]
          BY <1>4, <2>2, <3>2 DEF WellRouted
        <4>2. u \notin waitingPublish => /\ publisherOf[u] \in Live'
                                         /\ u \in pub'[publisherOf[u]].subs
          BY <1>1, <1>4, <2>2, <2>3, <3>2 DEF WellRouted, Live
        <4> QED BY <1>1, <1>4, <2>2, <3>2, <4>1, <4>2, StaysRouted
      <3> QED BY <3>1, <3>2
    <2>5. \A r \in Live : Sound(pub'[r])
      <3> SUFFICES ASSUME NEW r \in Live PROVE Sound(pub'[r])
        OBVIOUS
      <3>1. r \in Pub /\ Sound(pub[r])
        BY DEF Live, Well
      <3> QED BY <1>3, <2>1, <2>2, <3>1, RemoveSound
    <2>6. \A r \in Pub \ Started : pub'[r] = NewPublisher
      <3>1. p \in Started
        BY <1>0, <2>1, OnePlace
      <3> QED BY <2>2, <3>1 DEF Well, Started
    <2> QED BY <1>1, <1>2, <2>4, <2>5, <2>6 DEF Well, Sound
  <1> QED BY <1>0, <1>5, <1>6, <1>7, FixedMoves

LEMMA RouteInit == Init => RouteInv
  <1> SUFFICES ASSUME Init PROVE RouteInv
    OBVIOUS
  <1>1. HeldInv
    BY HeldInit
  <1>2. AliasesTrue
    BY NoAliasFacts DEF Init, AliasesTrue
  <1>3. LiveSub = {} /\ Live = {} /\ \A p \in Pub : pub[p] = NewPublisher
    BY DEF Init, LiveSub, Live
  <1> QED BY <1>1, <1>2, <1>3, RouteParts DEF Well

LEMMA RouteNext ==
    ASSUME ~KickExist, FixedAliases, RouteInv, [Next]_vars, [ReadersChanged]_vars
    PROVE  RouteInv'
  <1>0. HeldInv /\ Well /\ TypeOK
    BY RouteParts DEF HeldInv, StreamsInv
  <1>1. HeldInv'
    BY <1>0, HeldNext
  <1>2. ASSUME UNCHANGED <<pub, waiting, publisherOf, waitingPublish, streamPath, subTask,
                           streams, alias>>,
               Live' = Live, Started \subseteq Started'
        PROVE  Well'
    <2>1. LiveSub' = LiveSub /\ AliasesTrue'
      BY <1>0, <1>2 DEF LiveSub, Well, AliasesTrue
    <2>2. \A s \in LiveSub : WellRouted(s)'
      BY <1>0, <1>2 DEF Well, WellRouted
    <2> QED BY <1>0, <1>2, <2>1, <2>2 DEF Well, Sound
  <1>3. Well'
    <2>1. CASE UNCHANGED vars
      BY <1>2, <2>1 DEF vars, pubVars, subVars, goVars, Live, Started
    <2>2. CASE Next /\ ReadersChanged
      <3>1. ASSUME NEW p \in Pub, Publish(p) PROVE Well'
        BY <1>0, <3>1, PublishWell
      <3>2. ASSUME NEW p \in Pub,
                   \/ PublishAgain(p) \/ PublishRefused(p) \/ PublishExists(p) \/ TakeOverStop(p)
                   \/ TakeOverSubscribers(p) \/ TakeOverClear(p) \/ TakeOverWaited(p)
                   \/ PublisherStop(p)
            PROVE  Well'
        <4>1. PublishRefused(p) \/ PublisherStop(p)
          BY <1>0, <3>2 DEF HeldInv, NobodyKicks, PublishAgain, PublishExists, TakeOverStop,
                            TakeOverSubscribers, TakeOverClear, TakeOverWaited, TakingOver
        <4>2. UNCHANGED <<pub, waiting, publisherOf, waitingPublish, streamPath, subTask,
                          streams, alias>>
          BY <4>1 DEF PublishRefused, PublisherStop, subVars
        <4>3. PublishRefused(p) => pubTask[p] = "new"
          BY <1>0 DEF HeldInv, StreamsInv, PublishRefused
        <4>4. Live' = Live /\ Started \subseteq Started'
          BY <1>0, <4>1, <4>3 DEF PublishRefused, PublisherStop, Live, Started, TypeOK
        <4> QED BY <1>2, <4>2, <4>4
      <3>3. ASSUME NEW p \in Pub, PublisherDispose(p) PROVE Well'
        BY <1>0, <3>3, DisposeWell
      <3>4. ASSUME NEW s \in Sub, SubscribeStep(s) PROVE Well'
        BY <1>0, <3>4, SubscribeWell
      <3>5. ASSUME NEW s \in Sub, StopSubscriber(s) PROVE Well'
        BY <1>2, <3>5 DEF StopSubscriber, pubVars, Live, Started
      <3>6. ASSUME NEW s \in Sub, SubscriberDispose(s) PROVE Well'
        BY <1>0, <3>6, LeaveWell
      <3>7. ASSUME NEW s \in Sub, NEW x \in ChangeTo, ChangeSubscribe(s, x) PROVE Well'
        <4>1. s \notin waitingPublish /\ x \in Path
          BY <2>2, <3>7, PathsGiven DEF ReadersChanged
        <4> QED BY <1>0, <3>7, <4>1, ChangeWell
      <3>8. ASSUME NEW r \in Requests, SetStreamAlias(r[1], r[2], r[3]) PROVE Well'
        <4>1. r[1] \in Path /\ r[2] \in Path \cup {NoPath} /\ r[3] \in BOOLEAN
          BY RequestParts
        <4>2. r[2] # NoPath => r[2] \in Targets(r[1])
          BY <4>1, TargetOf
        <4> QED BY <1>0, <3>8, <4>1, <4>2, AliasWell
      <3> QED BY <2>2, <3>1, <3>2, <3>3, <3>4, <3>5, <3>6, <3>7, <3>8, Steps
    <2> QED BY <2>1, <2>2
  <1>4. (HeldInv /\ Well)' => RouteInv'
    BY RouteParts, PTL
  <1> QED BY <1>1, <1>3, <1>4

\* Without kicks, with aliases whose names are no streams and whose targets are
\* fixed, and with ChangeSubscribe of readers only, every publisher's books and
\* every subscriber's place are right.
THEOREM RouteInvariant ==
    ASSUME ~KickExist, FixedAliases
    PROVE  Spec /\ [][ReadersChanged]_vars => []RouteInv
  <1>1. RouteInv /\ [Next]_vars /\ [ReadersChanged]_vars => RouteInv'
    BY RouteNext
  <1> QED BY <1>1, RouteInit, PTL DEF Spec

\* No live subscriber is forgotten or left with a stream that has ended
\* (WaitManager.Wait, Publisher.Dispose).
THEOREM NobodyForgotten ==
    ASSUME ~KickExist, FixedAliases
    PROVE  Spec /\ [][ReadersChanged]_vars => []Routed
  <1>1. RouteInv => Routed
    BY DEF RouteInv
  <1> QED BY <1>1, RouteInvariant, PTL

\* serverSubCount and vodSubCount are the numbers of the subscribers they count.
THEOREM CountersRight ==
    ASSUME ~KickExist, FixedAliases
    PROVE  Spec /\ [][ReadersChanged]_vars => []CountsMatch
  <1>1. RouteInv => CountsMatch
    BY DEF RouteInv
  <1> QED BY <1>1, RouteInvariant, PTL

\* The idle timers of Publisher.Go do not close a publisher that somebody of a
\* counted type reads.
THEOREM WatchedIsKept ==
    ASSUME ~KickExist, FixedAliases
    PROVE  Spec /\ [][ReadersChanged]_vars => []IdleMeansUnwatched
  <1>1. RouteInv => IdleMeansUnwatched
    <2> SUFFICES ASSUME RouteInv, NEW p \in Live,
                        pub[p].state \in {"Init", "WaitSubscriber"},
                        NEW s \in Viewers(p), s \in ServerSub \cup VodSub
                 PROVE  FALSE
      BY DEF IdleMeansUnwatched
    <2>1. s \in LiveSub /\ s \notin waitingPublish /\ publisherOf[s] = p
      BY DEF Viewers
    <2>2. s \in pub[p].subs
      BY <2>1 DEF RouteInv, Routed
    <2>3. pub[p].subs \cap (ServerSub \cup VodSub) = {}
      BY DEF RouteInv, IdleIsEmpty
    <2> QED BY <2>2, <2>3
  <1> QED BY <1>1, RouteInvariant, PTL

RightFor(s) ==
    pubPath[publisherOf[s]] \in {streamPath[s], alias[streamPath[s]].target}

LEMMA RightParts ==
    ASSUME RouteInv
    PROVE  RightStream <=> \A s \in LiveSub \ waitingPublish : RightFor(s)
  <1>1. \A s \in LiveSub \ waitingPublish : publisherOf[s] # NoPub
    BY NilIsNone DEF RouteInv, Routed, Live
  <1> QED BY <1>1 DEF RightStream, RightFor

\* A reader whose alias keeps its target, or gets one, stays right.
LEMMA StaysRight ==
    ASSUME NEW s, RightFor(s), pubPath[publisherOf[s]] \in Path,
           publisherOf'[s] = publisherOf[s], streamPath'[s] = streamPath[s],
           \/ alias[streamPath[s]].target = NoPath
           \/ alias'[streamPath[s]].target = alias[streamPath[s]].target
    PROVE  RightFor(s)'
  BY NilIsNone DEF RightFor

LEMMA RightNext ==
    ASSUME ~KickExist, FixedAliases, NoRemovals, RouteInv, RightStream,
           [Next]_vars, [ReadersChanged]_vars
    PROVE  RightStream'
  <1>0. /\ RouteInv' /\ HeldInv /\ Well /\ StreamsInv /\ TypeOK /\ Placed /\ AliasesTrue
        /\ NobodyKicks
    BY RouteNext, RouteParts DEF HeldInv, StreamsInv, Placed, Well
  <1>1. \A s \in LiveSub : s \notin waitingPublish =>
           /\ s \in Sub /\ streamPath[s] \in Path
           /\ publisherOf[s] \in Live /\ s \in pub[publisherOf[s]].subs
           /\ pubPath[publisherOf[s]] \in Path /\ RightFor(s)
    BY <1>0, RightParts, PathsGiven DEF Well, WellRouted, LiveSub, Live, TypeOK
  <1> SUFFICES ASSUME NEW s \in LiveSub', s \notin waitingPublish'
               PROVE  RightFor(s)'
    <2>1. (RouteInv => (RightStream <=> \A s \in LiveSub \ waitingPublish : RightFor(s)))'
      BY RightParts, PTL
    <2> QED BY <1>0, <2>1
  <1>2. s \in Sub
    BY DEF LiveSub
  <1>3. ASSUME UNCHANGED <<subTask, waitingPublish, streamPath, publisherOf, alias>>
        PROVE  RightFor(s)'
    BY <1>1, <1>3, StaysRight DEF LiveSub
  <1>4. CASE UNCHANGED vars
    BY <1>3, <1>4 DEF vars, pubVars, subVars
  <1>5. CASE Next /\ ReadersChanged
    <2>1. ASSUME NEW p \in Pub, Publish(p) PROVE RightFor(s)'
      <3>1. Start(p) /\ UNCHANGED <<streamPath, subTask>> /\ Replaced(p) = {}
        BY <1>0, <2>1, NothingReplaced DEF Publish
      <3>2. /\ publisherOf'[s] = IF s \in Gained(p) THEN p ELSE publisherOf[s]
            /\ waitingPublish' = waitingPublish \ Gained(p)
            /\ \A x \in Path : alias'[x].target = alias[x].target
        BY <1>0, <1>2, <3>1, StartEffect
      <3>3. CASE s \in Gained(p)
        <4>1. \E x \in Woken(p) : s \in waiting[x]
          BY <1>0, <3>1, <3>3, GainedFacts
        <4>2. PICK x \in Woken(p) : s \in waiting[x]
          BY <4>1
        <4>3. x \in Path /\ streamPath[s] = x
          BY <1>0, <4>2, WokenPaths, OnePlace
        <4>4. x = pubPath[p] \/ alias[x].target = pubPath[p]
          BY <4>2 DEF Woken, AliasesOf
        <4> QED BY <3>1, <3>2, <3>3, <4>3, <4>4 DEF RightFor
      <3>4. CASE s \notin Gained(p)
        BY <1>1, <3>1, <3>2, <3>4, StaysRight DEF LiveSub
      <3> QED BY <3>3, <3>4
    <2>2. ASSUME NEW p \in Pub,
                 \/ PublishAgain(p) \/ PublishRefused(p) \/ PublishExists(p) \/ TakeOverStop(p)
                 \/ TakeOverSubscribers(p) \/ TakeOverClear(p) \/ TakeOverWaited(p)
                 \/ PublisherStop(p)
          PROVE  RightFor(s)'
      <3>1. PublishRefused(p) \/ PublisherStop(p)
        BY <1>0, <2>2 DEF NobodyKicks, PublishAgain, PublishExists, TakeOverStop,
                          TakeOverSubscribers, TakeOverClear, TakeOverWaited, TakingOver
      <3> QED BY <1>3, <3>1 DEF PublishRefused, PublisherStop, subVars
    <2>3. ASSUME NEW p \in Pub, PublisherDispose(p) PROVE RightFor(s)'
      <3>1. /\ GoesBack(p) = {} /\ UNCHANGED <<streamPath, subTask>>
            /\ p \in Live
        BY <1>0, <2>3, NothingReplaced DEF PublisherDispose
      <3>2. /\ publisherOf'[s] = publisherOf[s]
            /\ waitingPublish' = waitingPublish \cup pub[p].subs
            /\ \A x \in Path : x \notin AliasesOf(p) => alias'[x] = alias[x]
        BY <1>0, <1>2, <2>3, <3>1, DisposeEffect
      <3>3. s \in LiveSub /\ s \notin waitingPublish /\ s \notin pub[p].subs
        BY <3>1, <3>2 DEF LiveSub
      <3> PICK q \in Pub : q = publisherOf[s]
        BY <1>1, <3>3 DEF Live
      <3>4. q \in Live /\ q # p
        BY <1>1, <3>3
      <3>5. pubPath[q] # pubPath[p]
        BY <1>0, <3>1, <3>4 DEF StreamsInv
      <3>6. CASE streamPath[s] \notin AliasesOf(p)
        BY <1>1, <3>1, <3>2, <3>3, <3>6, StaysRight
      <3>7. CASE streamPath[s] \in AliasesOf(p)
        <4>1. pubPath[q] = streamPath[s]
          BY <1>1, <3>3, <3>5, <3>7 DEF RightFor, AliasesOf
        <4> QED BY <3>1, <3>2, <4>1 DEF RightFor
      <3> QED BY <3>6, <3>7
    <2>4. ASSUME NEW u \in Sub, SubscribeStep(u) PROVE RightFor(s)'
      <3>1. /\ AliasOnStart(u) /\ streamPath' = streamPath /\ streamPath[u] \in Path
            /\ subTask[u] = "new"
        BY <1>0, <2>4 DEF SubscribeStep, Subscribe, SubscribeRefused, SubscribeWait, TypeOK
      <3>2. /\ \A x \in Path : x # streamPath[u] \/ ~Rewritten(u) => alias'[x] = alias[x]
            /\ Rewritten(u) => alias'[streamPath[u]].target = Regex[streamPath[u]]
            /\ Rewritten(u) => alias[streamPath[u]].target = NoPath
        BY <1>0, <3>1, AliasOnStartEffect DEF Rewritten
      <3>3. CASE s = u
        <4>1. Subscribe(u)
          <5>1. SubscribeRefused(u) => u \notin LiveSub'
            BY <1>0 DEF SubscribeRefused, LiveSub, TypeOK
          <5>2. SubscribeWait(u) => u \in waitingPublish'
            BY DEF SubscribeWait
          <5> QED BY <2>4, <3>3, <5>1, <5>2 DEF SubscribeStep
        <4>2. publisherOf'[u] = Found(u) /\ Found(u) \in Pub
          BY <1>0, <4>1, SubscribeEffect
        <4> PICK x \in Path : x = streamPath[u]
          BY <3>1
        <4>3. \A y \in Path : streams[y] # NoPub => pubPath[streams[y]] = y
          BY <1>0 DEF StreamsInv
        <4>4. CASE Found(u) = streams[x]
          BY <3>1, <3>3, <4>2, <4>3, <4>4, NilIsNone DEF RightFor
        <4>5. CASE Rewritten(u) /\ Found(u) = streams[Regex[x]]
          <5>1. Regex[x] \in Path
            BY <4>5, PathsGiven DEF Rewritten
          <5> QED BY <3>1, <3>2, <3>3, <4>2, <4>3, <4>5, <5>1, NilIsNone DEF RightFor
        <4>6. CASE ~Rewritten(u) /\ Found(u) = alias[x].pub
          <5>1. /\ alias[x].target \in Targets(x)
                /\ alias[x].pub = streams[alias[x].target]
            BY <1>0, <4>2, <4>6, NilIsNone DEF AliasesTrue
          <5>2. alias[x].target \in Path /\ alias'[x] = alias[x]
            BY <3>2, <4>6, <5>1, TargetPaths
          <5> QED BY <3>1, <3>3, <4>2, <4>3, <4>6, <5>1, <5>2, NilIsNone DEF RightFor
        <4> QED BY <4>4, <4>5, <4>6 DEF Found, AliasPublisher
      <3>4. CASE s # u
        <4>1. publisherOf'[s] = publisherOf[s]
          BY <1>0, <1>2, <2>4, <3>4, SubscribeEffect
             DEF SubscribeStep, SubscribeRefused, SubscribeWait
        <4>2. s \in LiveSub /\ s \notin waitingPublish
          BY <1>0, <1>2, <2>4, <3>4 DEF SubscribeStep, Subscribe, SubscribeRefused,
                                        SubscribeWait, Attach, LiveSub, TypeOK
        <4> QED BY <1>1, <3>1, <3>2, <4>1, <4>2, StaysRight
      <3> QED BY <3>3, <3>4
    <2>5. ASSUME NEW u \in Sub, StopSubscriber(u) PROVE RightFor(s)'
      BY <1>3, <2>5 DEF StopSubscriber, pubVars
    <2>6. ASSUME NEW u \in Sub, SubscriberDispose(u) PROVE RightFor(s)'
      <3>1. UNCHANGED <<alias, streamPath, publisherOf, waitingPublish>>
        BY <2>6 DEF SubscriberDispose
      <3>2. s \in LiveSub
        BY <1>0, <2>6 DEF SubscriberDispose, LiveSub, TypeOK
      <3> QED BY <1>1, <3>1, <3>2, StaysRight
    <2>7. ASSUME NEW u \in Sub, NEW x \in ChangeTo, ChangeSubscribe(u, x) PROVE RightFor(s)'
      <3>1. u \notin waitingPublish /\ x \in Path /\ u \in LiveSub
        BY <1>5, <2>7, PathsGiven DEF ReadersChanged, ChangeSubscribe, LiveSub
      <3>2. ~(publisherOf[u] = NoPub \/ pubTask[publisherOf[u]] = "new")
        BY <1>1, <3>1, NilIsNone DEF Live
      <3>3. /\ UNCHANGED <<subTask, alias>> /\ streams[x] \in Pub
            /\ \A v \in Sub : streamPath'[v] = IF v = u THEN x ELSE streamPath[v]
            /\ \A v \in Sub : publisherOf'[v] = IF v = u THEN streams[x] ELSE publisherOf[v]
            /\ waitingPublish' = waitingPublish \ {u}
        <4>1. Changed(u, x)
          BY <1>0, <2>7, <3>1, <3>2, Changes
        <4> QED BY <4>1 DEF Changed
      <3>4. pubPath[streams[x]] = x
        BY <1>0, <3>1, <3>3, NilIsNone DEF StreamsInv
      <3>5. CASE s = u
        BY <1>2, <3>3, <3>4, <3>5 DEF RightFor
      <3>6. CASE s # u
        BY <1>1, <1>2, <3>3, <3>6, StaysRight DEF LiveSub
      <3> QED BY <3>5, <3>6
    <2>8. ASSUME NEW r \in Requests, SetStreamAlias(r[1], r[2], r[3]) PROVE RightFor(s)'
      <3> PICK x \in Path, t \in Path, auto \in BOOLEAN : x = r[1] /\ t = r[2] /\ auto = r[3]
        BY RequestParts DEF NoRemovals
      <3>1. t \in Targets(x) /\ t # NoPath /\ SetStreamAlias(x, t, auto)
        BY <2>8, TargetOf, NilIsNone
      <3>2. /\ Created(x, t) \/ Confirmed(x)
            /\ \A y \in Path \ {x} : alias'[y] = alias[y]
        BY <1>0, <3>1, FixedCall
      <3>3. UNCHANGED <<streamPath, subTask>>
        BY <1>0, <3>1, AliasCall
      <3>4. \A y \in Path : \/ alias[y].target = NoPath
                            \/ alias'[y].target = alias[y].target
        BY <3>2 DEF Created, Confirmed
      <3>5. CASE KeepSubscribers
        BY <1>1, <3>3, <3>4, <3>5, StaysRight DEF KeepSubscribers, LiveSub
      <3>6. CASE Created(x, t) /\ streams[t] # NoPub /\ WakeUp(x, streams[t])
        <4> PICK p \in Pub : p = streams[t]
          BY <1>0, <3>6 DEF TypeOK
        <4>1. /\ publisherOf'[s] = IF s \in waiting[x] THEN p ELSE publisherOf[s]
              /\ waitingPublish' = waitingPublish \ waiting[x]
          BY <1>0, <1>2, <3>6, WakeEffect
        <4>2. pubPath[p] = t
          BY <1>0, <3>6 DEF StreamsInv
        <4>3. CASE s \in waiting[x]
          <5>1. streamPath[s] = x
            BY <1>0, <4>3, OnePlace
          <5> QED BY <3>3, <3>6, <4>1, <4>2, <4>3, <5>1 DEF RightFor, Created
        <4>4. CASE s \notin waiting[x]
          BY <1>1, <3>3, <3>4, <4>1, <4>4, StaysRight DEF LiveSub
        <4> QED BY <4>3, <4>4
      <3> QED BY <3>2, <3>5, <3>6 DEF Created, Confirmed
    <2> QED BY <1>5, <2>1, <2>2, <2>3, <2>4, <2>5, <2>6, <2>7, <2>8, Steps
  <1> QED BY <1>4, <1>5

\* If besides no alias is removed by a request, a subscriber reads the stream of
\* its path or the one its alias names, whether the alias was there first or not.
THEOREM ReadsRightStream ==
    ASSUME ~KickExist, FixedAliases, NoRemovals
    PROVE  Spec /\ [][ReadersChanged]_vars => []RightStream
  <1>1. Init => RouteInv /\ RightStream
    BY RouteInit DEF Init, RightStream, LiveSub
  <1>2. /\ RouteInv /\ RightStream /\ [Next]_vars /\ [ReadersChanged]_vars
        => (RouteInv /\ RightStream)'
    BY RouteNext, RightNext
  <1> QED BY <1>1, <1>2, PTL DEF Spec

\* Without rules AliasOnStart finds nothing to create.
LEMMA NothingRewritten ==
    ASSUME NoRules, TypeOK, NEW s \in Sub
    PROVE  ~Rewritten(s) /\ (AliasOnStart(s) => alias' = alias)
  BY DEF NoRules, TypeOK, Rewritten, AliasOnStart

LEMMA ExactNext ==
    ASSUME ~KickExist, FixedAliases, NoRules, RouteInv, AliasesExact, [Next]_vars
    PROVE  AliasesExact'
  <1>0. /\ HeldInv /\ Well /\ StreamsInv /\ TypeOK /\ Placed /\ AliasesTrue
        /\ NobodyKicks
    BY RouteParts DEF HeldInv, StreamsInv, Placed, Well
  <1>1. ASSUME UNCHANGED <<streams, alias>> PROVE AliasesExact'
    BY <1>1 DEF AliasesExact
  <1>2. ASSUME NEW p \in Pub, Publish(p) PROVE AliasesExact'
    <2>1. /\ Start(p) /\ Replaced(p) = {} /\ streams[pubPath[p]] = NoPub
          /\ pubPath[p] \in Path /\ pubPath[p] # NoPath
      BY <1>0, <1>2, NothingReplaced, PathsGiven, NilIsNone DEF Publish
    <2>2. streams' = [streams EXCEPT ![pubPath[p]] = p]
      BY <1>0, <2>1, StartEffect
    <2> SUFFICES ASSUME NEW x \in Path, alias'[x].target # NoPath
                 PROVE  alias'[x].pub = streams'[alias'[x].target]
      BY DEF AliasesExact
    <2>3. /\ alias'[x].target = alias[x].target
          /\ alias'[x].pub = IF x \in AliasesOf(p) /\ alias[x].pub = NoPub
                             THEN p ELSE alias[x].pub
      BY <1>0, <2>1, StartAlias
    <2>4. alias[x].target \in Path /\ alias[x].pub = streams[alias[x].target]
      BY <1>0, <2>3, TargetPaths DEF AliasesTrue, AliasesExact
    <2>5. CASE alias[x].target = pubPath[p]
      BY <1>0, <2>1, <2>2, <2>3, <2>4, <2>5 DEF AliasesOf, TypeOK
    <2>6. CASE alias[x].target # pubPath[p]
      BY <1>0, <2>1, <2>2, <2>3, <2>4, <2>6 DEF AliasesOf, TypeOK
    <2> QED BY <2>5, <2>6
  <1>3. ASSUME NEW p \in Pub, PublisherDispose(p) PROVE AliasesExact'
    <2>1. pubPath[p] \in Path
      BY PathsGiven
    <2>2. /\ streams' = [streams EXCEPT ![pubPath[p]] = NoPub]
          /\ \A x \in Path : x \notin AliasesOf(p) => alias'[x] = alias[x]
          /\ \A x \in AliasesOf(p) : /\ alias'[x].pub = NoPub
                                     /\ alias'[x].target \in {NoPath, alias[x].target}
      BY <1>0, <1>3, DisposeEffect
    <2> SUFFICES ASSUME NEW x \in Path, alias'[x].target # NoPath
                 PROVE  alias'[x].pub = streams'[alias'[x].target]
      BY DEF AliasesExact
    <2>3. alias'[x].target = alias[x].target
      BY <2>2
    <2>4. alias[x].target \in Path /\ alias[x].pub = streams[alias[x].target]
      BY <1>0, <2>3, TargetPaths DEF AliasesTrue, AliasesExact
    <2>5. CASE x \in AliasesOf(p)
      BY <1>0, <2>1, <2>2, <2>3, <2>5 DEF AliasesOf, TypeOK
    <2>6. CASE x \notin AliasesOf(p)
      BY <1>0, <2>1, <2>2, <2>3, <2>4, <2>6 DEF AliasesOf, TypeOK
    <2> QED BY <2>5, <2>6
  <1>4. ASSUME NEW p \in Pub,
               \/ PublishAgain(p) \/ PublishRefused(p) \/ PublishExists(p) \/ TakeOverStop(p)
               \/ TakeOverSubscribers(p) \/ TakeOverClear(p) \/ TakeOverWaited(p)
               \/ PublisherStop(p)
        PROVE  AliasesExact'
    BY <1>0, <1>1, <1>4 DEF NobodyKicks, PublishAgain, PublishRefused, PublishExists,
                            TakeOverStop, TakeOverSubscribers, TakeOverClear, TakeOverWaited,
                            PublisherStop, pubVars
  <1>5. ASSUME NEW s \in Sub, \/ SubscribeStep(s) \/ StopSubscriber(s) \/ SubscriberDispose(s)
                              \/ \E x \in ChangeTo : ChangeSubscribe(s, x)
        PROVE  AliasesExact'
    <2>1. SubscribeStep(s) => AliasOnStart(s) /\ streams' = streams
      BY DEF SubscribeStep, Subscribe, SubscribeRefused, SubscribeWait
    <2>2. ~SubscribeStep(s) => UNCHANGED <<streams, alias>>
      BY <1>5 DEF StopSubscriber, SubscriberDispose, ChangeSubscribe, pubVars
    <2> QED BY <1>0, <1>1, <2>1, <2>2, NothingRewritten
  <1>6. ASSUME NEW r \in Requests, SetStreamAlias(r[1], r[2], r[3]) PROVE AliasesExact'
    <2> PICK x \in Path, t \in Path \cup {NoPath}, auto \in BOOLEAN :
                x = r[1] /\ t = r[2] /\ auto = r[3]
      BY RequestParts
    <2>1. (t # NoPath => t \in Targets(x)) /\ SetStreamAlias(x, t, auto)
      BY <1>6, TargetOf
    <2>2. /\ Created(x, t) \/ Confirmed(x) \/ (t = NoPath /\ Removed(x))
          /\ \A y \in Path \ {x} : alias'[y] = alias[y]
      BY <1>0, <2>1, FixedCall
    <2>3. streams' = streams
      BY <1>0, <2>1, AliasCall
    <2> QED BY <2>2, <2>3 DEF AliasesExact, Created, Confirmed, Removed
  <1>7. CASE UNCHANGED vars
    BY <1>1, <1>7 DEF vars, pubVars
  <1> QED BY <1>2, <1>3, <1>4, <1>5, <1>6, <1>7, Steps

\* There is no stream for those who wait for x.
Silent(x) ==
    /\ streams[x] = NoPub
    /\ alias[x].target # NoPath => streams[alias[x].target] = NoPub

LEMMA MissedNext ==
    ASSUME ~KickExist, FixedAliases, NoRules, RouteInv, AliasesExact, NoMissedStream,
           [Next]_vars, [ReadersChanged]_vars
    PROVE  NoMissedStream'
  <1>0. /\ HeldInv /\ Well /\ StreamsInv /\ TypeOK /\ Placed /\ AliasesTrue
        /\ NobodyKicks
    BY RouteParts DEF HeldInv, StreamsInv, Placed, Well
  <1>1. \A s \in LiveSub : s \in waitingPublish =>
           s \in waiting[streamPath[s]] /\ Silent(streamPath[s])
    BY <1>0 DEF Well, WellRouted, NoMissedStream, Silent
  <1>2. \A s \in Sub : streamPath[s] \in Path
    BY <1>0 DEF TypeOK
  <1> SUFFICES ASSUME NEW s \in LiveSub', s \in waitingPublish'
               PROVE  Silent(streamPath[s])'
    BY DEF NoMissedStream, Silent
  <1>3. s \in Sub
    BY DEF LiveSub
  <1>4. ASSUME s \in LiveSub, s \in waitingPublish,
               streamPath'[s] = streamPath[s], streams' = streams,
               alias'[streamPath[s]].target = alias[streamPath[s]].target
        PROVE  Silent(streamPath[s])'
    BY <1>1, <1>4 DEF Silent
  <1>5. CASE UNCHANGED vars
    BY <1>4, <1>5 DEF vars, pubVars, subVars, LiveSub
  <1>6. CASE Next /\ ReadersChanged
    <2>1. ASSUME NEW p \in Pub, Publish(p) PROVE Silent(streamPath[s])'
      <3>1. /\ Start(p) /\ UNCHANGED <<streamPath, subTask>> /\ Replaced(p) = {}
            /\ pubPath[p] \in Path
        BY <1>0, <2>1, NothingReplaced, PathsGiven DEF Publish
      <3>2. /\ waitingPublish' = waitingPublish \ Gained(p)
            /\ streams' = [streams EXCEPT ![pubPath[p]] = p]
        BY <1>0, <3>1, StartEffect
      <3>3. s \in LiveSub /\ s \in waitingPublish /\ s \notin Gained(p)
        BY <3>1, <3>2 DEF LiveSub
      <3> PICK x \in Path : x = streamPath[s]
        BY <1>2, <1>3
      <3>4. s \in waiting[x] /\ Silent(x)
        BY <1>1, <3>3
      <3>5. x \notin Woken(p)
        BY <1>0, <3>3, <3>4, GainedFacts
      <3>6. alias'[x].target = alias[x].target
        BY <1>0, <3>1, StartAlias
      <3>7. x # pubPath[p]
        BY <3>5 DEF Woken
      <3>8. ASSUME alias[x].target # NoPath
            PROVE  alias[x].target \in Path /\ alias[x].target # pubPath[p]
        <4>1. alias[x].target \in Path /\ alias[x].pub = NoPub
          BY <1>0, <3>4, <3>8, TargetPaths DEF AliasesTrue, AliasesExact, Silent
        <4> QED BY <3>5, <4>1 DEF Woken, AliasesOf
      <3> QED BY <1>0, <3>1, <3>2, <3>4, <3>6, <3>7, <3>8 DEF Silent, TypeOK
    <2>2. ASSUME NEW p \in Pub,
                 \/ PublishAgain(p) \/ PublishRefused(p) \/ PublishExists(p) \/ TakeOverStop(p)
                 \/ TakeOverSubscribers(p) \/ TakeOverClear(p) \/ TakeOverWaited(p)
                 \/ PublisherStop(p)
          PROVE  Silent(streamPath[s])'
      <3>1. UNCHANGED <<streams, alias, waitingPublish, streamPath, subTask>>
        BY <1>0, <2>2 DEF NobodyKicks, PublishAgain, PublishRefused, PublishExists, TakeOverStop,
                          TakeOverSubscribers, TakeOverClear, TakeOverWaited, PublisherStop,
                          pubVars, subVars
      <3> QED BY <1>4, <3>1 DEF LiveSub
    <2>3. ASSUME NEW p \in Pub, PublisherDispose(p) PROVE Silent(streamPath[s])'
      <3>1. /\ GoesBack(p) = {} /\ UNCHANGED <<streamPath, subTask>>
            /\ pubPath[p] \in Path
        BY <1>0, <2>3, NothingReplaced, PathsGiven DEF PublisherDispose
      <3>2. /\ waitingPublish' = waitingPublish \cup pub[p].subs
            /\ streams' = [streams EXCEPT ![pubPath[p]] = NoPub]
            /\ \A x \in Path : x \notin AliasesOf(p) => alias'[x] = alias[x]
            /\ \A x \in AliasesOf(p) : alias'[x].target \in {NoPath, alias[x].target}
        BY <1>0, <2>3, <3>1, DisposeEffect
      <3> PICK x \in Path : x = streamPath[s]
        BY <1>2, <1>3
      <3>3. alias'[x].target \in {NoPath, alias[x].target}
        BY <3>2
      <3>4. alias[x].target # NoPath => alias[x].target \in Path
        BY <1>0, TargetPaths DEF AliasesTrue
      <3>5. CASE s \in waitingPublish
        <4>1. Silent(x)
          BY <1>1, <3>1, <3>5 DEF LiveSub
        <4> QED BY <1>0, <3>1, <3>2, <3>3, <3>4, <4>1 DEF Silent, TypeOK
      <3>6. CASE s \in pub[p].subs
        <4>1. s \in LiveSub /\ s \notin waitingPublish /\ publisherOf[s] = p
          BY <1>0, <3>6, OnePlace
        <4>2. pubPath[p] \in {x} \cup Targets(x)
          BY <1>0, <4>1 DEF Well, WellRouted
        <4>3. x = pubPath[p] \/ streams[x] = NoPub
          BY <1>0, <4>2, NoOwnStream
        <4>4. alias[x].target # NoPath => alias[x].target = pubPath[p]
          <5> SUFFICES ASSUME alias[x].target # NoPath PROVE alias[x].target = pubPath[p]
            OBVIOUS
          <5>1. alias[x].target \in Targets(x)
            BY <1>0 DEF AliasesTrue
          <5>2. x # pubPath[p]
            BY <5>1 DEF FixedAliases
          <5> QED BY <4>2, <5>1, <5>2 DEF FixedAliases
        <4> QED BY <1>0, <3>1, <3>2, <3>3, <4>3, <4>4 DEF Silent, TypeOK
      <3> QED BY <3>2, <3>5, <3>6
    <2>4. ASSUME NEW u \in Sub, SubscribeStep(u) PROVE Silent(streamPath[s])'
      <3>1. AliasOnStart(u) /\ UNCHANGED <<streamPath, streams>>
        BY <2>4 DEF SubscribeStep, Subscribe, SubscribeRefused, SubscribeWait
      <3>2. alias' = alias /\ ~Rewritten(u)
        BY <1>0, <3>1, NothingRewritten
      <3>3. CASE s = u
        <4>1. Found(u) = NoPub
          <5>1. ~SubscribeRefused(u)
            BY <1>0, <3>3 DEF SubscribeRefused, LiveSub, TypeOK
          <5>2. ~Subscribe(u)
            BY <1>0, <3>3, SubscribeEffect
          <5> QED BY <2>4, <5>1, <5>2 DEF SubscribeStep, SubscribeWait
        <4>2. alias[streamPath[u]].pub = NoPub /\ streams[streamPath[u]] = NoPub
          BY <3>2, <4>1 DEF Found, AliasPublisher
        <4>3. Silent(streamPath[u])
          BY <1>2, <4>2 DEF Silent, AliasesExact
        <4> QED BY <3>1, <3>2, <3>3, <4>3 DEF Silent
      <3>4. CASE s # u
        <4>1. s \in LiveSub /\ s \in waitingPublish
          BY <1>0, <1>3, <2>4, <3>4 DEF SubscribeStep, Subscribe, SubscribeRefused,
                                        SubscribeWait, Attach, LiveSub, TypeOK
        <4> QED BY <1>4, <3>1, <3>2, <4>1
      <3> QED BY <3>3, <3>4
    <2>5. ASSUME NEW u \in Sub, StopSubscriber(u) PROVE Silent(streamPath[s])'
      BY <1>4, <2>5 DEF StopSubscriber, pubVars, LiveSub
    <2>6. ASSUME NEW u \in Sub, SubscriberDispose(u) PROVE Silent(streamPath[s])'
      <3>1. UNCHANGED <<alias, streams, streamPath, waitingPublish>>
        BY <2>6 DEF SubscriberDispose
      <3>2. s \in LiveSub
        BY <1>0, <2>6 DEF SubscriberDispose, LiveSub, TypeOK
      <3> QED BY <1>4, <3>1, <3>2
    <2>7. ASSUME NEW u \in Sub, NEW x \in ChangeTo, ChangeSubscribe(u, x)
          PROVE  Silent(streamPath[s])'
      <3>1. u \notin waitingPublish /\ x \in Path /\ u \in LiveSub
        BY <1>6, <2>7, PathsGiven DEF ReadersChanged, ChangeSubscribe, LiveSub
      <3>2. publisherOf[u] \in Started
        BY <1>0, <3>1, OnePlace
      <3>3. ~(publisherOf[u] = NoPub \/ pubTask[publisherOf[u]] = "new")
        BY <3>2, NilIsNone DEF Started
      <3>4. /\ UNCHANGED <<subTask, alias, streams>>
            /\ \A v \in Sub : streamPath'[v] = IF v = u THEN x ELSE streamPath[v]
            /\ waitingPublish' = waitingPublish \ {u}
        <4>1. Changed(u, x)
          BY <1>0, <2>7, <3>1, <3>3, Changes
        <4> QED BY <4>1 DEF Changed
      <3> QED BY <1>3, <1>4, <3>4 DEF LiveSub
    <2>8. ASSUME NEW r \in Requests, SetStreamAlias(r[1], r[2], r[3])
          PROVE  Silent(streamPath[s])'
      <3> PICK x \in Path, t \in Path \cup {NoPath}, auto \in BOOLEAN :
                  x = r[1] /\ t = r[2] /\ auto = r[3]
        BY RequestParts
      <3>1. (t # NoPath => t \in Targets(x)) /\ SetStreamAlias(x, t, auto)
        BY <2>8, TargetOf
      <3>2. /\ Created(x, t) \/ Confirmed(x) \/ (t = NoPath /\ Removed(x))
            /\ \A y \in Path \ {x} : alias'[y] = alias[y]
        BY <1>0, <3>1, FixedCall
      <3>3. UNCHANGED <<streamPath, subTask, streams>>
        BY <1>0, <3>1, AliasCall
      <3>4. s \in LiveSub
        BY <3>3 DEF LiveSub
      <3>5. CASE s \in waitingPublish /\ streamPath[s] # x
        BY <1>2, <1>3, <1>4, <3>2, <3>3, <3>4, <3>5
      <3>6. CASE s \in waitingPublish /\ streamPath[s] = x
        <4>1. s \in waiting[x] /\ Silent(x)
          BY <1>1, <3>4, <3>6
        <4>2. CASE Created(x, t)
          <5>1. t \in Path
            BY <4>2, TargetPaths DEF Created
          <5>2. streams[t] = NoPub
            <6> SUFFICES ASSUME streams[t] # NoPub PROVE FALSE
              OBVIOUS
            <6>1. WakeUp(x, streams[t]) /\ streams[t] \in Pub
              BY <1>0, <4>2, <5>1 DEF Created, TypeOK
            <6>2. s \notin waitingPublish'
              BY <4>1, <6>1 DEF WakeUp, Attach
            <6> QED BY <6>2
          <5> QED BY <3>3, <3>6, <4>1, <4>2, <5>2 DEF Silent, Created
        <4>3. CASE Confirmed(x) \/ Removed(x)
          BY <3>3, <3>6, <4>1, <4>3 DEF Silent, Confirmed, Removed
        <4> QED BY <3>2, <4>2, <4>3
      <3>7. CASE s \notin waitingPublish
        <4>1. Removed(x) /\ streamPath[s] = x
          BY <3>2, <3>7 DEF Created, Confirmed, Removed, KeepSubscribers, WakeUp, Attach, PutBack
        <4>2. alias[x].pub \in Pub
          BY <3>7, <4>1 DEF Removed, KeepSubscribers
        <4>3. alias[x].target # NoPath
          BY <1>0, <4>2, NilIsNone DEF AliasesTrue
        <4>4. streams[x] = NoPub
          BY <1>0, <4>3, NoOwnStream
        <4> QED BY <3>3, <4>1, <4>4 DEF Silent, Removed
      <3> QED BY <3>5, <3>6, <3>7
    <2> QED BY <1>6, <2>1, <2>2, <2>3, <2>4, <2>5, <2>6, <2>7, <2>8, Steps
  <1> QED BY <1>5, <1>6

\* Without rules, and with aliases that requests may make, confirm and remove,
\* nobody waits for a path whose stream, or whose alias's stream, is live: no order
\* of publishing, subscribing and aliasing loses the WakeUp.
THEOREM NoStreamMissed ==
    ASSUME ~KickExist, FixedAliases, NoRules
    PROVE  Spec /\ [][ReadersChanged]_vars => []NoMissedStream
  <1>1. Init => RouteInv /\ AliasesExact /\ NoMissedStream
    BY RouteInit, NoAliasFacts DEF Init, AliasesExact, NoMissedStream
  <1>2. /\ RouteInv /\ AliasesExact /\ NoMissedStream /\ [Next]_vars /\ [ReadersChanged]_vars
        => (RouteInv /\ AliasesExact /\ NoMissedStream)'
    BY RouteNext, ExactNext, MissedNext
  <1> QED BY <1>1, <1>2, PTL DEF Spec

=============================================================================
