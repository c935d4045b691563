------------------------------ MODULE StreamRouting ------------------------------
(***************************************************************************)
(* How publishers and subscribers find each other (publisher.go,           *)
(* subscriber.go, wait_stream.go, alias.go, PublishWithConfig in           *)
(* plugin.go).  A subscriber is attached to the publisher its path names,  *)
(* directly or through an alias, or waits for it; a publisher hands its    *)
(* subscribers over when it ends, when an alias is redirected and when a   *)
(* newer publisher of the same path kicks it.                              *)
(*                                                                         *)
(* Start and Dispose of publishers and subscribers and the alias calls run *)
(* on the event loop of Server.Streams: each is one action.  takeOver runs *)
(* on the goroutine of the newer publisher, so its steps interleave with   *)
(* the event loop.  Stop only cancels a context; the Dispose follows on    *)
(* the event loop.  Abstracted: the queue in front of the event loop (a    *)
(* task is added and started in one step), media data and BufferTime, and  *)
(* the time that passes (a timeout may fire whenever its condition holds). *)
(***************************************************************************)
EXTENDS Integers, FiniteSets

CONSTANTS
    Pub,            \* the publishers, each published once
    Sub,            \* the subscribers, each subscribing once
    Path,           \* the stream paths, which are also the alias names
    pubPath,        \* Publisher.StreamPath
    subPath,        \* the StreamPath each subscriber asks for
    ServerSub,      \* the subscribers of Type "server"
    VodSub,         \* the subscribers of Type "vod"
    KickExist,      \* config.Publish.KickExist
    MaxPub,         \* config.Publish.MaxCount, 0 for no limit
    MaxSub,         \* config.Subscribe.MaxCount, 0 for no limit
    Regex,          \* Server.StreamAlias: the path a path is rewritten to
    Requests,       \* the calls of SetStreamAlias: <<alias, target, autoRemove>>
    ChangeTo,       \* the paths that ChangeSubscribe is called with
    NoPub,          \* the nil publisher
    NoPath          \* the empty path

ASSUME PathsGiven ==
    /\ pubPath \in [Pub -> Path]
    /\ subPath \in [Sub -> Path]
    /\ Regex \in [Path -> Path \cup {NoPath}]
    /\ ChangeTo \subseteq Path
    /\ Requests \subseteq Path \X (Path \cup {NoPath}) \X BOOLEAN
ASSUME TypesGiven == ServerSub \subseteq Sub /\ VodSub \subseteq Sub \ ServerSub
ASSUME LimitsGiven == MaxPub \in Nat /\ MaxSub \in Nat /\ KickExist \in BOOLEAN
ASSUME SubFinite == IsFiniteSet(Sub)
ASSUME NilIsNone == NoPub \notin Pub /\ NoPath \notin Path

VARIABLES
    pub,            \* State, Subscribers, serverSubCount and vodSubCount
    pubTask,        \* the task of each publisher: new, live or gone
    pubStopped,     \* the publishers whose context is cancelled
    streams,        \* Server.Streams
    alias,          \* Server.AliasStreams
    waiting,        \* Server.Waiting
    streamPath,     \* Subscriber.StreamPath
    publisherOf,    \* Subscriber.Publisher
    waitingPublish, \* the subscribers whose waitStartTime is set
    subTask,        \* the task of each subscriber: new, live or gone
    subStopped,     \* the subscribers whose context is cancelled
    pc,             \* where each publisher's PublishWithConfig is
    old,            \* the publisher it takes over
    panicked        \* RemoveSubscriber met a publisher that is nil or not started

pubVars == <<pub, pubTask, pubStopped, streams, alias>>
subVars == <<waiting, streamPath, publisherOf, waitingPublish, subTask, subStopped>>
goVars == <<pc, old>>
vars == <<pubVars, subVars, goVars, panicked>>

States == {"Init", "Subscribed", "WaitSubscriber", "Disposed"}

Record == [state : States, subs : SUBSET Sub, server : Int, vod : Int]

AliasStream ==
    [target : Path \cup {NoPath}, pub : Pub \cup {NoPub}, auto : BOOLEAN]

\* An alias that is not in AliasStreams.
NoAlias == [target |-> NoPath, pub |-> NoPub, auto |-> FALSE]

NewPublisher == [state |-> "Init", subs |-> {}, server |-> 0, vod |-> 0]

Init ==
    /\ pub = [p \in Pub |-> NewPublisher]
    /\ pubTask = [p \in Pub |-> "new"]
    /\ pubStopped = {}
    /\ streams = [x \in Path |-> NoPub]
    /\ alias = [x \in Path |-> NoAlias]
    /\ waiting = [x \in Path |-> {}]
    /\ streamPath = subPath
    /\ publisherOf = [s \in Sub |-> NoPub]
    /\ waitingPublish = {}
    /\ subTask = [s \in Sub |-> "new"]
    /\ subStopped = {}
    /\ pc = [p \in Pub |-> "publish"]
    /\ old = [p \in Pub |-> NoPub]
    /\ panicked = FALSE

----------------------------------------------------------------------------
(* The bookkeeping of a publisher. *)

\* AddSubscriber of each of S: only a new one counts and sets the state.
AddSubscriber(r, S) ==
    LET new == S \ r.subs
    IN  IF new = {} THEN r
        ELSE [state  |-> "Subscribed",
              subs   |-> r.subs \cup new,
              server |-> r.server + Cardinality(new \cap ServerSub),
              vod    |-> r.vod + Cardinality(new \cap VodSub)]

\* Variants: one that looks at serverSubCount only, and one that counts down
\* before it looks whether the subscriber counts.
RemoveIgnoresVod(r, s) ==
    LET server == r.server - (IF s \in ServerSub THEN 1 ELSE 0)
        vod    == r.vod - (IF s \in VodSub THEN 1 ELSE 0)
    IN  [state  |-> IF r.state = "Subscribed" /\ server = 0
                    THEN "WaitSubscriber" ELSE r.state,
         subs   |-> r.subs \ {s},
         server |-> server,
         vod    |-> vod]

RemoveCountsAll(r, s) ==
    LET server == r.server - 1
        vod    == r.vod - (IF s \in VodSub THEN 1 ELSE 0)
    IN  [state  |-> IF r.state = "Subscribed" /\ server = 0 /\ vod = 0
                    THEN "WaitSubscriber" ELSE r.state,
         subs   |-> r.subs \ {s},
         server |-> server,
         vod    |-> vod]

\* RemoveSubscriber decrements whether or not s is in the collection.
RemoveSubscriber(r, s) ==
    LET server == r.server - (IF s \in ServerSub THEN 1 ELSE 0)
        vod    == r.vod - (IF s \in VodSub THEN 1 ELSE 0)
    IN  [state  |-> IF r.state = "Subscribed" /\ server = 0 /\ vod = 0
                    THEN "WaitSubscriber" ELSE r.state,
         subs   |-> r.subs \ {s},
         server |-> server,
         vod    |-> vod]

\* What TransferSubscribers leaves behind in the publisher it empties.
TransferFrom(r) ==
    [state  |-> IF r.state = "Subscribed" THEN "WaitSubscriber" ELSE r.state,
     subs   |-> r.subs \ ServerSub,
     server |-> 0,
     vod    |-> r.vod]

\* All publishers after from.TransferSubscribers(to).
TransferSubscribers(from, to) ==
    [[pub EXCEPT ![to] = AddSubscriber(@, pub[from].subs \cap ServerSub)]
          EXCEPT ![from] = TransferFrom(@)]

\* A variant that does not reset waitStartTime.
AttachStillWaiting(S, p) ==
    /\ publisherOf' = [s \in Sub |-> IF s \in S THEN p ELSE publisherOf[s]]
    /\ UNCHANGED waitingPublish

\* The subscribers S now belong to p and wait no longer.
Attach(S, p) ==
    /\ publisherOf' = [s \in Sub |-> IF s \in S THEN p ELSE publisherOf[s]]
    /\ waitingPublish' = waitingPublish \ S

----------------------------------------------------------------------------
(* Publishers. *)

Live == {p \in Pub : pubTask[p] = "live"}

\* A variant of AliasesOf without the comparison of the paths.
AnyAlias(p) == {x \in Path : alias[x].target # NoPath}

AliasesOf(p) == {x \in Path : alias[x].target = pubPath[p]}

\* The publishers that processAliasOnStart empties for p: their alias names
\* p's path, but they are of another.
Replaced(p) ==
    {alias[x].pub : x \in {y \in AliasesOf(p) :
        alias[y].pub # NoPub /\ pubPath[alias[y].pub] # pubPath[p]}}

\* A variant of Woken that forgets the aliases.
WokenOwnPath(p) == {pubPath[p]}

\* The waiting lists that p's start empties.
Woken(p) == {pubPath[p]} \cup {x \in AliasesOf(p) : alias[x].pub = NoPub}

\* The waiting lists after WakeUp.
ClearWaiting(p) == [x \in Path |-> IF x \in Woken(p) THEN {} ELSE waiting[x]]

\* The subscribers that p's start wakes and takes over from others.
Gained(p) ==
    (UNION {waiting[x] : x \in Woken(p)})
    \cup (UNION {pub[q].subs \cap ServerSub : q \in Replaced(p)})

\* Publisher.Start followed by the entry in Streams: p wakes its waiting
\* subscribers and those of the aliases of its path.
Start(p) ==
    LET S == Gained(p)
    IN  /\ pub' = [q \in Pub |->
                     IF q = p THEN AddSubscriber(pub[p], S)
                     ELSE IF q \in Replaced(p) THEN TransferFrom(pub[q])
                     ELSE pub[q]]
        /\ waiting' = ClearWaiting(p)
        /\ alias' = [x \in Path |->
                       IF /\ x \in AliasesOf(p)
                          /\ alias[x].pub \in Replaced(p) \cup {NoPub}
                       THEN [alias[x] EXCEPT !.pub = p] ELSE alias[x]]
        /\ Attach(S, p)
        /\ streams' = [streams EXCEPT ![pubPath[p]] = p]
        /\ pubTask' = [pubTask EXCEPT ![p] = "live"]

Full == MaxPub > 0 /\ Cardinality(Live) >= MaxPub

\* PublishWithConfig: the path is free and the publisher, which is added to
\* Streams for the first time, starts.
Publish(p) ==
    /\ pc[p] = "publish" /\ old[p] = NoPub
    /\ streams[pubPath[p]] = NoPub
    /\ ~Full
    /\ Start(p)
    /\ pc' = [pc EXCEPT ![p] = "done"]
    /\ UNCHANGED <<pubStopped, streamPath, subTask, subStopped, old, panicked>>

\* ErrStreamExist without KickExist, or ErrPublishMaxCount.
PublishRefused(p) ==
    /\ pc[p] = "publish"
    /\ \/ streams[pubPath[p]] # NoPub /\ ~KickExist
       \/ streams[pubPath[p]] = NoPub /\ Full
    /\ pc' = [pc EXCEPT ![p] = "done"]
    /\ pubTask' = [pubTask EXCEPT ![p] = "gone"]
    /\ UNCHANGED <<pub, pubStopped, streams, alias, subVars, old, panicked>>

\* A variant that takes over without looking whether there is anybody.
ExistsUnchecked(p) ==
    /\ pc[p] = "publish"
    /\ KickExist
    /\ old' = [old EXCEPT ![p] = streams[pubPath[p]]]
    /\ pc' = [pc EXCEPT ![p] = "stop"]
    /\ UNCHANGED <<pubVars, subVars, panicked>>

\* ExistTaskError: the new publisher takes the existing one over.
PublishExists(p) ==
    /\ pc[p] = "publish"
    /\ streams[pubPath[p]] # NoPub
    /\ KickExist
    /\ old' = [old EXCEPT ![p] = streams[pubPath[p]]]
    /\ pc' = [pc EXCEPT ![p] = "stop"]
    /\ UNCHANGED <<pubVars, subVars, panicked>>

\* A variant of takeOver without old.Stop.
TakeOverNoStop(p) ==
    /\ pc[p] = "stop"
    /\ pc' = [pc EXCEPT ![p] = "subscribers"]
    /\ UNCHANGED <<pubVars, subVars, old, panicked>>

TakeOverStop(p) ==
    /\ pc[p] = "stop"
    /\ pubStopped' = pubStopped \cup {old[p]}
    /\ pc' = [pc EXCEPT ![p] = "subscribers"]
    /\ UNCHANGED <<pub, pubTask, streams, alias, subVars, old, panicked>>

\* The subscribers point to the new publisher, which does not count them.
TakeOverSubscribers(p) ==
    /\ pc[p] = "subscribers"
    /\ publisherOf' = [s \in Sub |-> IF s \in pub[old[p]].subs
                                     THEN p ELSE publisherOf[s]]
    /\ pc' = [pc EXCEPT ![p] = "clear"]
    /\ UNCHANGED <<pubVars, waiting, streamPath, waitingPublish, subTask,
                   subStopped, old, panicked>>

TakeOverClear(p) ==
    /\ pc[p] = "clear"
    /\ pub' = [pub EXCEPT ![old[p]].subs = {}]
    /\ pc' = [pc EXCEPT ![p] = "wait"]
    /\ UNCHANGED <<pubTask, pubStopped, streams, alias, subVars, old, panicked>>

\* WaitStopped, then the next round of the loop in PublishWithConfig.
TakeOverWaited(p) ==
    /\ pc[p] = "wait"
    /\ pubTask[old[p]] = "gone"
    /\ pc' = [pc EXCEPT ![p] = "publish"]
    /\ UNCHANGED <<pubVars, subVars, old, panicked>>

\* The publisher ends: its connection, its timers (Go) or an API call.
PublisherStop(p) ==
    /\ p \in Live \ pubStopped
    /\ pubStopped' = pubStopped \cup {p}
    /\ UNCHANGED <<pub, pubTask, streams, alias, subVars, goVars, panicked>>

\* A variant of Emptied that does not set PublisherStateDisposed.
EmptiedOnly(r) == [r EXCEPT !.subs = {}]

\* What Publisher.Dispose leaves of the publisher; the counters stay.
Emptied(r) == [r EXCEPT !.subs = {}, !.state = "Disposed"]

\* Those of S that came through an alias of p's path whose name has a stream.
HandedBack(S, p) ==
    {s \in S : streamPath[s] \in AliasesOf(p) /\ streams[streamPath[s]] # NoPub}

\* Publisher.Dispose: each subscriber of an alias that has a stream of its
\* own goes back to that stream, the others wait for their path.
PublisherDispose(p) ==
    LET related == AliasesOf(p)
        back    == HandedBack(pub[p].subs, p)
        rest    == pub[p].subs \ back
    IN  /\ p \in Live \cap pubStopped
        /\ pub' = [q \in Pub |->
                     IF q = p THEN Emptied(pub[p])
                     ELSE AddSubscriber(pub[q], {s \in back : streams[streamPath[s]] = q})]
        /\ publisherOf' = [s \in Sub |-> IF s \in back THEN streams[streamPath[s]]
                                         ELSE publisherOf[s]]
        /\ waitingPublish' = (waitingPublish \ back) \cup rest
        /\ waiting' = [x \in Path |->
                         waiting[x] \cup {s \in rest : streamPath[s] = x}]
        /\ alias' = [x \in Path |->
                       IF x \notin related THEN alias[x]
                       ELSE IF alias[x].auto THEN NoAlias
                       ELSE [alias[x] EXCEPT !.pub = NoPub]]
        /\ streams' = [streams EXCEPT ![pubPath[p]] = NoPub]
        /\ pubTask' = [pubTask EXCEPT ![p] = "gone"]
        /\ UNCHANGED <<pubStopped, streamPath, subTask, subStopped, goVars, panicked>>

(***************************************************************************)
(* The second Streams.Add of a publisher that kicked another.  The first   *)
(* one has left its listeners on the task, so that p's start is followed   *)
(* by two: one enters p into Streams, the other finds p there under its    *)
(* own key and stops it with ExistTaskError.  The task engine disposes of  *)
(* a task that is stopped in its start in the same step; WaitStarted has   *)
(* been fulfilled before the listeners run, and PublishWithConfig returns. *)
(***************************************************************************)
PublishAgain(p) ==
    LET S       == Gained(p)
        related == AliasesOf(p)
        back    == HandedBack(S, p)
        rest    == S \ back
        Left(q) == IF q \in Replaced(p) THEN TransferFrom(pub[q]) ELSE pub[q]
    IN  /\ pc[p] = "publish" /\ old[p] # NoPub
        /\ streams[pubPath[p]] = NoPub
        /\ ~Full
        /\ pub' = [q \in Pub |->
                     IF q = p THEN Emptied(AddSubscriber(pub[p], S))
                     ELSE AddSubscriber(Left(q), {s \in back : streams[streamPath[s]] = q})]
        /\ publisherOf' = [s \in Sub |-> IF s \in back THEN streams[streamPath[s]]
                                         ELSE IF s \in rest THEN p ELSE publisherOf[s]]
        /\ waitingPublish' = (waitingPublish \ back) \cup rest
        /\ waiting' = [x \in Path |->
                         ClearWaiting(p)[x] \cup {s \in rest : streamPath[s] = x}]
        /\ alias' = [x \in Path |->
                       IF x \notin related THEN alias[x]
                       ELSE IF alias[x].auto THEN NoAlias
                       ELSE [alias[x] EXCEPT !.pub = NoPub]]
        /\ pubTask' = [pubTask EXCEPT ![p] = "gone"]
        /\ pubStopped' = pubStopped \cup {p}
        /\ pc' = [pc EXCEPT ![p] = "done"]
        /\ UNCHANGED <<streams, streamPath, subTask, subStopped, old, panicked>>

----------------------------------------------------------------------------
(* Subscribers. *)

\* processAliasOnStart creates the alias that a configured rule yields.
Rewritten(s) ==
    alias[streamPath[s]].target = NoPath /\ Regex[streamPath[s]] # NoPath

\* The publisher found through an alias, NoPub if there is none.
AliasPublisher(s) ==
    IF Rewritten(s) THEN streams[Regex[streamPath[s]]] ELSE alias[streamPath[s]].pub

AliasOnStart(s) ==
    alias' = IF Rewritten(s)
             THEN [alias EXCEPT ![streamPath[s]] =
                      [NoAlias EXCEPT !.target = Regex[streamPath[s]]]]
             ELSE alias

\* The publisher Subscriber.Start finds: the alias's, else the path's own.
Found(s) ==
    IF AliasPublisher(s) # NoPub THEN AliasPublisher(s) ELSE streams[streamPath[s]]

\* ErrSubscribeMaxCount, which the publisher of an alias is exempt from.
Crowded(s) ==
    /\ AliasPublisher(s) = NoPub
    /\ MaxSub > 0 /\ Cardinality(pub[Found(s)].subs) >= MaxSub

\* Subscriber.Start with a publisher at hand.
Subscribe(s) ==
    LET p == Found(s)
    IN  /\ subTask[s] = "new"
        /\ p # NoPub /\ ~Crowded(s)
        /\ pub' = [pub EXCEPT ![p] = AddSubscriber(@, {s})]
        /\ Attach({s}, p)
        /\ AliasOnStart(s)
        /\ subTask' = [subTask EXCEPT ![s] = "live"]
        /\ UNCHANGED <<pubTask, pubStopped, streams, waiting, streamPath,
                       subStopped, goVars, panicked>>

\* The task of a subscriber that finds its publisher crowded never starts.
SubscribeRefused(s) ==
    /\ subTask[s] = "new"
    /\ Found(s) # NoPub /\ Crowded(s)
    /\ AliasOnStart(s)
    /\ subTask' = [subTask EXCEPT ![s] = "gone"]
    /\ UNCHANGED <<pub, pubTask, pubStopped, streams, waiting, streamPath,
                   publisherOf, waitingPublish, subStopped, goVars, panicked>>

\* Subscriber.Start without a publisher: Waiting.Wait.
SubscribeWait(s) ==
    /\ subTask[s] = "new"
    /\ Found(s) = NoPub
    /\ waiting' = [waiting EXCEPT ![streamPath[s]] = @ \cup {s}]
    /\ waitingPublish' = waitingPublish \cup {s}
    /\ AliasOnStart(s)
    /\ subTask' = [subTask EXCEPT ![s] = "live"]
    /\ UNCHANGED <<pub, pubTask, pubStopped, streams, streamPath, publisherOf,
                   subStopped, goVars, panicked>>

StopSubscriber(s) ==
    /\ subTask[s] = "live" /\ s \notin subStopped
    /\ subStopped' = subStopped \cup {s}
    /\ UNCHANGED <<pubVars, waiting, streamPath, publisherOf, waitingPublish,
                   subTask, goVars, panicked>>

\* The client leaves.
SubscriberStop(s) == StopSubscriber(s)

\* ErrSubscribeTimeout: Tick looks at the subscribers that wait, checkTimeout at
\* those in a waiting list (the time since a zero waitStartTime is over any limit).
WaitTimeout(s) ==
    /\ s \in waitingPublish \/ \E x \in Path : s \in waiting[x]
    /\ StopSubscriber(s)

\* ErrLost of a subscriber whose publisher is disposed.
PublisherLost(s) ==
    /\ s \notin waitingPublish
    /\ publisherOf[s] # NoPub /\ pub[publisherOf[s]].state = "Disposed"
    /\ StopSubscriber(s)

\* A variant of Dispose without Waiting.Leave.
NoLeave(s) == waiting

\* WaitManager.Leave of a subscriber that waits.
Leave(s) ==
    IF s \in waitingPublish THEN [waiting EXCEPT ![streamPath[s]] = @ \ {s}]
    ELSE waiting

\* Subscriber.Dispose.  RemoveSubscriber writes bufferTimeCounts, which is nil
\* until the publisher's Start.
SubscriberDispose(s) ==
    LET p        == publisherOf[s]
        attached == s \notin waitingPublish /\ p # NoPub /\ pub[p].state # "Disposed"
    IN  /\ subTask[s] = "live" /\ s \in subStopped
        /\ subTask' = [subTask EXCEPT ![s] = "gone"]
        /\ waiting' = Leave(s)
        /\ pub' = IF attached /\ pubTask[p] # "new"
                  THEN [pub EXCEPT ![p] = RemoveSubscriber(@, s)] ELSE pub
        /\ panicked' = (panicked \/ (attached /\ pubTask[p] = "new"))
        /\ UNCHANGED <<pubTask, pubStopped, streams, alias, streamPath,
                       publisherOf, waitingPublish, subStopped, goVars>>

\* ChangeSubscribe moves a subscriber to another live stream, whether or not
\* it is in a waiting list.
ChangeSubscribe(s, x) ==
    LET p == streams[x]
        q == publisherOf[s]
        nil == q = NoPub \/ (q # NoPub /\ pubTask[q] = "new")
    IN  /\ subTask[s] = "live" /\ p # NoPub
        /\ panicked' = (panicked \/ nil)
        /\ \/ nil /\ UNCHANGED <<pub, streamPath, publisherOf, waitingPublish>>
           \/ /\ ~nil
              /\ pub' = [[pub EXCEPT ![q] = RemoveSubscriber(@, s)]
                             EXCEPT ![p] = AddSubscriber(@, {s})]
              /\ streamPath' = [streamPath EXCEPT ![s] = x]
              /\ Attach({s}, p)
        /\ UNCHANGED <<pubTask, pubStopped, streams, alias, waiting, subTask,
                       subStopped, goVars>>

----------------------------------------------------------------------------
(* SetStreamAlias. *)

\* WakeUp of the subscribers that wait for x.
WakeUp(x, p) ==
    /\ pub' = [pub EXCEPT ![p] = AddSubscriber(@, waiting[x])]
    /\ Attach(waiting[x], p)
    /\ waiting' = [waiting EXCEPT ![x] = {}]

\* TransferSubscribers and what it does to the subscribers it moves.
Transfer(from, to) ==
    /\ pub' = TransferSubscribers(from, to)
    /\ Attach(pub[from].subs \cap ServerSub, to)
    /\ UNCHANGED waiting

KeepSubscribers == UNCHANGED <<pub, publisherOf, waitingPublish, waiting>>

\* An alias that exists gets a new target and a new autoRemove.
ModifyAlias(x, t, auto) ==
    LET p       == streams[t]
        replace == alias[x].target # t /\ p # NoPub
    IN  /\ alias[x].target # NoPath /\ t # NoPath
        /\ alias' = [alias EXCEPT ![x] =
                       [target |-> t, pub |-> IF replace THEN p ELSE @.pub,
                        auto |-> auto]]
        /\ \/ replace /\ alias[x].pub # NoPub /\ Transfer(alias[x].pub, p)
           \/ replace /\ alias[x].pub = NoPub /\ WakeUp(x, p)
           \/ ~replace /\ KeepSubscribers
        /\ UNCHANGED <<pubTask, pubStopped, streams, streamPath, subTask,
                       subStopped, goVars, panicked>>

\* A new alias takes the subscribers of the stream of its own name, or wakes
\* those that wait for it.
CreateAlias(x, t, auto) ==
    LET p   == streams[t]
        own == streams[x]
    IN  /\ alias[x].target = NoPath /\ t # NoPath
        /\ alias' = [alias EXCEPT ![x] =
                       [target |-> t, pub |-> IF p # NoPub THEN p ELSE own,
                        auto |-> auto]]
        /\ \/ p # NoPub /\ own # NoPub /\ Transfer(own, p)
           \/ p # NoPub /\ own = NoPub /\ WakeUp(x, p)
           \/ p = NoPub /\ KeepSubscribers
        /\ UNCHANGED <<pubTask, pubStopped, streams, streamPath, subTask,
                       subStopped, goVars, panicked>>

\* Without a stream of the alias's name and without saved arguments the first
\* subscriber of the alias is put back to wait.
PutBack(s, p) ==
    /\ pub' = [pub EXCEPT ![p] = RemoveSubscriber(@, s)]
    /\ waiting' = [waiting EXCEPT ![streamPath[s]] = @ \cup {s}]
    /\ waitingPublish' = waitingPublish \cup {s}
    /\ UNCHANGED publisherOf

RemoveAlias(x) ==
    LET p    == alias[x].pub
        own  == streams[x]
        mine == {s \in pub[p].subs : streamPath[s] = x}
    IN  /\ alias[x].target # NoPath
        /\ alias' = [alias EXCEPT ![x] = NoAlias]
        /\ \/ p # NoPub /\ own # NoPub /\ Transfer(p, own)
           \/ p # NoPub /\ own = NoPub /\ \E s \in mine : PutBack(s, p)
           \/ (p = NoPub \/ own = NoPub) /\ KeepSubscribers
        /\ UNCHANGED <<pubTask, pubStopped, streams, streamPath, subTask,
                       subStopped, goVars, panicked>>

----------------------------------------------------------------------------

PublishStep(p) ==
    \/ Publish(p) \/ PublishAgain(p) \/ PublishRefused(p) \/ PublishExists(p)
    \/ TakeOverStop(p) \/ TakeOverSubscribers(p) \/ TakeOverClear(p)
    \/ TakeOverWaited(p)

SubscribeStep(s) == Subscribe(s) \/ SubscribeRefused(s) \/ SubscribeWait(s)

SetStreamAlias(x, t, auto) ==
    \/ CreateAlias(x, t, auto)
    \/ ModifyAlias(x, t, auto)
    \/ t = NoPath /\ RemoveAlias(x)

Next ==
    \/ \E p \in Pub : PublishStep(p) \/ PublisherStop(p) \/ PublisherDispose(p)
    \/ \E s \in Sub : \/ SubscribeStep(s) \/ SubscriberStop(s) \/ WaitTimeout(s)
                      \/ PublisherLost(s) \/ SubscriberDispose(s)
                      \/ \E x \in ChangeTo : ChangeSubscribe(s, x)
    \/ \E r \in Requests : SetStreamAlias(r[1], r[2], r[3])

Spec == Init /\ [][Next]_vars

\* Goroutines and the event loop run on; a wait ends by its timeout; a publisher
\* that has kicked another goes on.  Nothing obliges a publisher or a client to
\* come or to leave.
Fairness ==
    /\ \A p \in Pub : WF_vars(PublisherDispose(p))
    /\ \A p \in Pub : WF_vars(old[p] # NoPub /\ PublishStep(p))
    /\ \A s \in Sub : WF_vars(SubscriberDispose(s))
    /\ \A s \in Sub : WF_vars(WaitTimeout(s)) /\ WF_vars(PublisherLost(s))

FairSpec == Spec /\ Fairness

----------------------------------------------------------------------------
(* Properties. *)

\* Every variable keeps its type; the counters of a Publisher may go negative.
TypeOK ==
    /\ pub \in [Pub -> Record]
    /\ pubTask \in [Pub -> {"new", "live", "gone"}]
    /\ pubStopped \subseteq Pub
    /\ streams \in [Path -> Pub \cup {NoPub}]
    /\ alias \in [Path -> AliasStream]
    /\ waiting \in [Path -> SUBSET Sub]
    /\ streamPath \in [Sub -> Path]
    /\ publisherOf \in [Sub -> Pub \cup {NoPub}]
    /\ waitingPublish \subseteq Sub
    /\ subTask \in [Sub -> {"new", "live", "gone"}]
    /\ subStopped \subseteq Sub
    /\ pc \in [Pub -> {"publish", "stop", "subscribers", "clear", "wait", "done"}]
    /\ old \in [Pub -> Pub \cup {NoPub}]
    /\ panicked \in BOOLEAN

LiveSub == {s \in Sub : subTask[s] = "live"}

\* No live subscriber is forgotten or attached to a stream that has ended:
\* while it waits it is in the waiting list of its path and with no publisher
\* (WaitManager.Wait), otherwise it is among the subscribers of the publisher
\* it reads, which is in Streams (AddSubscriber).
Routed ==
    \A s \in LiveSub :
        IF s \in waitingPublish
        THEN s \in waiting[streamPath[s]] /\ \A p \in Pub : s \notin pub[p].subs
        ELSE publisherOf[s] \in Live /\ s \in pub[publisherOf[s]].subs

\* However subscribers are moved, none is held twice, and Subscriber.Dispose
\* leaves none behind in a collection, where it would count for ever.
HeldAtMostOnce ==
    \A s \in Sub :
        LET places == {x \in Path : s \in waiting[x]}
                      \cup {p \in Pub : s \in pub[p].subs}
        IN  Cardinality(places) <= IF s \in LiveSub THEN 1 ELSE 0

\* The counters of a live publisher (serverSubCount, vodSubCount) are the
\* numbers of its subscribers, so that the last one to leave is noticed.
CountsMatch ==
    \A p \in Live :
        /\ pub[p].server = Cardinality(pub[p].subs \cap ServerSub)
        /\ pub[p].vod = Cardinality(pub[p].subs \cap VodSub)

\* The subscribers that read p.
Viewers(p) ==
    {s \in LiveSub \ waitingPublish : publisherOf[s] = p}

\* The timers that close an idle publisher run only in the states Init and
\* WaitSubscriber (Publisher.Go): nobody of a counted type reads it then.
IdleMeansUnwatched ==
    \A p \in Live : pub[p].state \in {"Init", "WaitSubscriber"}
        => Viewers(p) \cap (ServerSub \cup VodSub) = {}

\* Nobody waits for a path whose stream, or whose alias's stream, is live: the
\* WakeUp that a publisher's start and a new alias owe is not lost.
NoMissedStream ==
    \A s \in LiveSub \cap waitingPublish :
        /\ streams[streamPath[s]] = NoPub
        /\ alias[streamPath[s]].target # NoPath
              => streams[alias[streamPath[s]].target] = NoPub

\* While the aliases stay as they are, a subscriber reads the stream of its path
\* or the one its alias names, whether it was attached at its start, woken by a
\* publisher or by a new alias, or moved by ChangeSubscribe.
RightStream ==
    \A s \in LiveSub \ waitingPublish : publisherOf[s] # NoPub =>
        pubPath[publisherOf[s]] \in {streamPath[s], alias[streamPath[s]].target}

\* RemoveSubscriber is called on publishers that were started: on a nil one it
\* dereferences nil, on a new one it writes a nil map.
NoPanic == ~panicked

Served(s) == s \notin waitingPublish /\ publisherOf[s] \in Live

\* A subscriber that has no live publisher finds one or is stopped
\* (checkTimeout, Tick, checkPublishChanged), as long as the event loop lives.
NobodyHangs ==
    \A s \in Sub : s \in LiveSub ~> (Served(s) \/ s \notin LiveSub \/ panicked)

\* The PublishWithConfig of a publisher that kicks another returns: the one it
\* waits for does end, however many kick each other and whichever of them meets
\* another in its second Streams.Add, as long as the event loop lives.
KickEnds == \A p \in Pub : pc[p] = "stop" ~> (pc[p] = "done" \/ panicked)

----------------------------------------------------------------------------
(* The inductive invariants behind these properties, for the proofs. *)

\* The publishers whose task was started, whether or not it still runs.
Started == {p \in Pub : pubTask[p] # "new"}

TakingOver == {"stop", "subscribers", "clear", "wait"}

\* Whatever kicks, aliases and subscribers do: Streams holds exactly the live
\* publishers, each under its own path, so a path has at most one; a publisher
\* is started once; only a started one is cached by an alias or taken over.
StreamsInv ==
    /\ TypeOK
    /\ \A x \in Path : streams[x] # NoPub =>
          streams[x] \in Live /\ pubPath[streams[x]] = x
    /\ \A p \in Live : streams[pubPath[p]] = p
    /\ \A p \in Pub : pc[p] # "done" => pubTask[p] = "new"
    /\ \A p \in Pub : pc[p] \in TakingOver => old[p] \in Started
    /\ \A x \in Path : alias[x].pub # NoPub => alias[x].pub \in Started

\* A subscriber in a waiting list is live, waits and is listed under its path.
ListedWaits ==
    \A x \in Path : \A s \in waiting[x] :
        s \in LiveSub \cap waitingPublish /\ streamPath[s] = x

\* A subscriber in a publisher's collection is live and reads that publisher,
\* which RemoveSubscriber will be called on.
HeldReads ==
    \A p \in Pub : \A s \in pub[p].subs :
        /\ s \in LiveSub \ waitingPublish
        /\ publisherOf[s] = p
        /\ p \in Started
        /\ pub[p].state # "Disposed"

\* A subscriber that does not wait has a publisher that was started.
ReadersHavePublisher ==
    \A s \in LiveSub \ waitingPublish : publisherOf[s] \in Started

\* No publisher takes another over, or ever has.
NobodyKicks == \A p \in Pub : pc[p] \notin TakingOver /\ old[p] = NoPub

HeldInv ==
    /\ StreamsInv
    /\ NobodyKicks
    /\ ListedWaits
    /\ HeldReads
    /\ ReadersHavePublisher
    /\ NoPanic

\* ChangeSubscribe is called for subscribers that read a stream only.
ReadersChanged ==
    \A s \in Sub, x \in ChangeTo :
        ChangeSubscribe(s, x) => s \notin waitingPublish

\* The streams that requests and rules may make x an alias of.
Targets(x) ==
    ({r[2] : r \in {q \in Requests : q[1] = x}} \cup {Regex[x]}) \ {NoPath}

\* No alias has the name of a stream or is ever redirected.
FixedAliases ==
    \A x \in Path :
        /\ \A t, u \in Targets(x) : t = u
        /\ Targets(x) # {} => \A p \in Pub : pubPath[p] # x

\* No request removes an alias; no rule makes one.
NoRemovals == \A r \in Requests : r[2] # NoPath
NoRules == \A x \in Path : Regex[x] = NoPath

\* An alias has a target it may have, and what it caches is the target's stream.
AliasesTrue ==
    \A x \in Path :
        /\ alias[x].target # NoPath => alias[x].target \in Targets(x)
        /\ alias[x].pub # NoPub => /\ alias[x].target # NoPath
                                  /\ alias[x].pub = streams[alias[x].target]

\* A publisher that could be closed for idleness has no counted subscriber.
IdleIsEmpty ==
    \A p \in Live :
        /\ pub[p].state # "Disposed"
        /\ pub[p].state \in {"Init", "WaitSubscriber"}
              => pub[p].subs \cap (ServerSub \cup VodSub) = {}

\* A subscriber reads the stream of its path or one its path may be an alias of.
ReadsOwnOrTarget ==
    \A s \in LiveSub \ waitingPublish :
        pubPath[publisherOf[s]] \in {streamPath[s]} \cup Targets(streamPath[s])

RouteInv ==
    /\ HeldInv
    /\ AliasesTrue
    /\ Routed
    /\ CountsMatch
    /\ IdleIsEmpty
    /\ ReadsOwnOrTarget
    /\ \A p \in Pub \ Started : pub[p] = NewPublisher

\* Without rules an alias always caches its target's stream.
AliasesExact ==
    \A x \in Path : alias[x].target # NoPath =>
        alias[x].pub = streams[alias[x].target]
==================================================================================
