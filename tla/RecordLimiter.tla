------------------------------ MODULE RecordLimiter ------------------------------
(***************************************************************************)
(* The recording limiter of the MP4 plugin (plugin/mp4/limits.go) and the  *)
(* life of a recording slot around it (RecordWithDispose in plugin.go):    *)
(* a request reserves a slot or queues for one, a released slot is handed  *)
(* to the head of the queue, and a slot lives as long as the record job it *)
(* was acquired for.  The limiter is the one created for max > 0.          *)
(*                                                                         *)
(* Every critical section under RecordLimiter.mu is one action.  A request *)
(* is either an automatic recording (GateRecord, then a                    *)
(* pendingAutoRecordTask) or an API call (StartRecord, EventStart, the     *)
(* GB28181 download), which goes to Acquire directly.  All requests are    *)
(* for one publisher.                                                      *)
(***************************************************************************)
EXTENDS Naturals, Sequences, FiniteSets

CONSTANTS
    Requests,       \* the recording requests
    AutoRecords,    \* those of them that are automatic recordings
    Max,            \* RecordLimiter.max
    QueueFactor     \* recordLimitQueueFactor (4 in the code)

ASSUME RequestsFinite == IsFiniteSet(Requests)
ASSUME AutoRequests == AutoRecords \subseteq Requests
ASSUME MaxPositive == Max \in Nat \ {0}
ASSUME FactorNatural == QueueFactor \in Nat

VARIABLES
    active,         \* RecordLimiter.active
    waiters,        \* RecordLimiter.waiters
    granted,        \* the requests whose channel holds the handed-over token
    pc,             \* where each request's goroutine is
    once,           \* the requests whose sync.Once around Release has fired
    job,            \* the state of each request's RecordJob
    jobStopped,     \* the jobs whose context is cancelled (Stop was called)
    stopRequested,  \* RecordWithDispose's stopRequested, per job
    pubStopped,     \* the publisher's task is stopped
    resources,      \* the jobs the publisher stops when it disposes (Using)
    pubDisposed     \* the publisher's dispose has walked its resources

vars == <<active, waiters, granted, pc, once, job, jobStopped, stopRequested,
          pubStopped, resources, pubDisposed>>

limiter == <<active, waiters, granted>>
jobs == <<job, jobStopped, stopRequested>>
publisher == <<pubStopped, resources, pubDisposed>>

queueCapacity == Max * QueueFactor

PC == {"idle", "queued", "waiting", "expired", "acquired", "registered",
       "using", "rechecked", "watching", "recording", "refused", "skipped", "failed"}

JobState == {"none", "pending", "rejected", "onStart", "started", "startFailed", "disposed"}

(***************************************************************************)
(* A slot is owned from the moment Reserve counts it, or Release hands it  *)
(* over, until the release function of its request runs.                   *)
(***************************************************************************)
Queued == {waiters[i] : i \in DOMAIN waiters}

Owns(r) ==
    \/ r \in granted
    \/ pc[r] \in {"acquired", "registered", "using", "rechecked", "watching",
                "recording"} /\ r \notin once

Owners == {r \in Requests : Owns(r)}

Init ==
    /\ active = 0
    /\ waiters = <<>>
    /\ granted = {}
    /\ pc = [r \in Requests |-> "idle"]
    /\ once = {}
    /\ job = [r \in Requests |-> "none"]
    /\ jobStopped = {}
    /\ stopRequested = {}
    /\ pubStopped = FALSE
    /\ resources = {}
    /\ pubDisposed = FALSE

Goto(r, l) == pc' = [pc EXCEPT ![r] = l]

(* Mutant of Release: the slot is freed although somebody is queued for it. *)
ReleaseWithoutHandOver ==
    /\ active' = IF active > 0 THEN active - 1 ELSE active
    /\ UNCHANGED <<waiters, granted>>

(* Mutant of Release: the slot is handed to the request that queued last. *)
ReleaseToLast ==
    IF waiters # <<>>
    THEN /\ granted' = granted \cup {waiters[Len(waiters)]}
         /\ waiters' = SubSeq(waiters, 1, Len(waiters) - 1)
         /\ UNCHANGED active
    ELSE /\ active' = IF active > 0 THEN active - 1 ELSE active
         /\ UNCHANGED <<waiters, granted>>

(***************************************************************************)
(* Release: the slot goes to the head of the queue, whose channel has      *)
(* capacity one and is written at most once, or active decreases.          *)
(***************************************************************************)
Release ==
    IF waiters # <<>>
    THEN /\ granted' = granted \cup {Head(waiters)}
         /\ waiters' = Tail(waiters)
         /\ UNCHANGED active
    ELSE /\ active' = IF active > 0 THEN active - 1 ELSE active
         /\ UNCHANGED <<waiters, granted>>

(* Mutant of ReleaseOnce: the release function without its sync.Once. *)
ReleaseEveryTime(r) == once' = once \cup {r} /\ Release

(* release: once.Do(l.Release), shared by the error paths and the dispose callback. *)
ReleaseOnce(r) ==
    IF r \in once
    THEN UNCHANGED <<once, limiter>>
    ELSE once' = once \cup {r} /\ Release

CanQueue == active < Max \/ Len(waiters) < queueCapacity

(***************************************************************************)
(* The publish path: GateRecord only looks, it reserves nothing, and the   *)
(* task system may still reject the task.                                  *)
(***************************************************************************)
GateRecord(r) ==
    /\ r \in AutoRecords /\ pc[r] = "idle"
    /\ \/ CanQueue /\ Goto(r, "queued")
       \/ Goto(r, "refused")            \* plugin stopped, queue full or AddTask rejected
    /\ UNCHANGED <<limiter, once, jobs, publisher>>

(* pendingAutoRecordTask.Go gives up when its task has been stopped meanwhile. *)
SkipStopped(r) ==
    /\ r \in AutoRecords /\ pc[r] = "queued"
    /\ Goto(r, "skipped")
    /\ UNCHANGED <<limiter, once, jobs, publisher>>

(* Reserve, the first half of Acquire. *)
Reserve(r) ==
    /\ \/ r \in AutoRecords /\ pc[r] = "queued"    \* the stop check is an earlier step
       \/ r \notin AutoRecords /\ pc[r] = "idle"
    /\ \/ /\ active < Max /\ waiters = <<>>
          /\ active' = active + 1
          /\ Goto(r, "acquired")
          /\ UNCHANGED <<waiters, granted>>
       \/ /\ ~(active < Max /\ waiters = <<>>)
          /\ Len(waiters) >= queueCapacity
          /\ Goto(r, "refused")
          /\ UNCHANGED limiter
       \/ /\ ~(active < Max /\ waiters = <<>>)
          /\ Len(waiters) < queueCapacity
          /\ waiters' = Append(waiters, r)
          /\ Goto(r, "waiting")
          /\ UNCHANGED <<active, granted>>
    /\ UNCHANGED <<once, jobs, publisher>>

(* Wait: the token arrives ... *)
WaitGranted(r) ==
    /\ pc[r] = "waiting" /\ r \in granted
    /\ granted' = granted \ {r}
    /\ Goto(r, "acquired")
    /\ UNCHANGED <<active, waiters, once, jobs, publisher>>

(* ... or its context ends: the 30s timeout, a stopped task, a cancelled call. *)
WaitExpired(r) ==
    /\ pc[r] = "waiting"
    /\ Goto(r, "expired")
    /\ UNCHANGED <<limiter, once, jobs, publisher>>

(* Mutant of RemoveWaiter: the timeout assumes that its waiter is still queued. *)
RemoveOnlyQueued(r) ==
    /\ pc[r] = "expired"
    /\ \E i \in DOMAIN waiters :
          /\ waiters[i] = r
          /\ waiters' = SubSeq(waiters, 1, i - 1) \o SubSeq(waiters, i + 1, Len(waiters))
          /\ Goto(r, "refused")
    /\ UNCHANGED <<active, granted, once, jobs, publisher>>

(* Mutant of RemoveWaiter: the timeout wins although a slot is in the channel. *)
RemoveAndDropSlot(r) ==
    /\ pc[r] = "expired"
    /\ waiters' = SelectSeq(waiters, LAMBDA w : w # r)
    /\ granted' = granted \ {r}
    /\ Goto(r, "refused")
    /\ UNCHANGED <<active, once, jobs, publisher>>

(***************************************************************************)
(* removeWaiter: still queued, so nobody handed a slot over: give up.  Not *)
(* queued any more: the slot is in the channel and Wait succeeds with it.  *)
(***************************************************************************)
RemoveWaiter(r) ==
    /\ pc[r] = "expired"
    /\ \/ \E i \in DOMAIN waiters :
             /\ waiters[i] = r
             /\ waiters' = SubSeq(waiters, 1, i - 1) \o SubSeq(waiters, i + 1, Len(waiters))
             /\ Goto(r, "refused")
             /\ UNCHANGED granted
       \/ /\ r \notin Queued
          /\ granted' = granted \ {r}
          /\ Goto(r, "acquired")
          /\ UNCHANGED waiters
    /\ UNCHANGED <<active, once, jobs, publisher>>

(***************************************************************************)
(* With the slot: Go gives it back when the publisher is stopped, an API   *)
(* call on any error (no such stream, storage not ready); otherwise they   *)
(* create the RecordJob with the release function as its dispose callback. *)
(* The API finds a stopped publisher until it is disposed.  Init's AddTask *)
(* may be rejected.                                                        *)
(***************************************************************************)
PublisherGone(r) ==
    /\ pc[r] = "acquired"
    /\ r \in AutoRecords => pubStopped
    /\ ReleaseOnce(r)
    /\ Goto(r, "skipped")
    /\ UNCHANGED <<jobs, publisher>>

RecordJobInit(r) ==
    /\ pc[r] = "acquired"
    /\ IF r \in AutoRecords THEN ~pubStopped ELSE ~pubDisposed
    /\ \E s \in {"pending", "rejected"} : job' = [job EXCEPT ![r] = s]
    /\ Goto(r, "registered")
    /\ UNCHANGED <<limiter, once, jobStopped, stopRequested, publisher>>

(***************************************************************************)
(* pub.Using(job) appends to the publisher's resources; a publisher that   *)
(* has already disposed never looks at them again.                         *)
(***************************************************************************)
Using(r) ==
    /\ pc[r] = "registered"
    /\ resources' = resources \cup {r}
    /\ Goto(r, "using")
    /\ UNCHANGED <<limiter, once, jobs, pubStopped, pubDisposed>>

(* The re-check after the registration: first stopRequested.Store(true) ... *)
Recheck(r) ==
    /\ pc[r] = "using"
    /\ IF pubStopped
       THEN stopRequested' = stopRequested \cup {r} /\ Goto(r, "rechecked")
       ELSE UNCHANGED stopRequested /\ Goto(r, "watching")
    /\ UNCHANGED <<limiter, once, job, jobStopped, publisher>>

(* ... then started.Load(), and Stop only when OnStart has already run. *)
StopIfStarted(r) ==
    /\ pc[r] = "rechecked"
    /\ jobStopped' = IF job[r] \in {"onStart", "started", "disposed"}
                     THEN jobStopped \cup {r} ELSE jobStopped
    /\ Goto(r, "watching")
    /\ UNCHANGED <<limiter, once, job, stopRequested, publisher>>

(***************************************************************************)
(* job.WaitStarted(): the startup promise is fulfilled by a start and      *)
(* rejected by a refused or failed start and by a Stop that comes first.   *)
(* An error gives the slot back at once.                                   *)
(***************************************************************************)
WaitStarted(r) ==
    /\ pc[r] = "watching"
    /\ \/ /\ job[r] \in {"onStart", "started", "disposed"}
          /\ Goto(r, "recording")
          /\ UNCHANGED <<once, limiter>>
       \/ /\ \/ job[r] \in {"rejected", "startFailed"}
             \/ job[r] = "pending" /\ r \in jobStopped
          /\ ReleaseOnce(r)
          /\ Goto(r, "failed")
    /\ UNCHANGED <<jobs, publisher>>

(***************************************************************************)
(* The RecordJob on its own event loop: started.Store(true) in OnStart,    *)
(* then the look at stopRequested.  A job that fails to start has no       *)
(* dispose; a started one retries for ever (SetRetry(-1)) until somebody   *)
(* stops it, and a job stopped before its start is disposed after it.      *)
(***************************************************************************)
JobStart(r) ==
    /\ job[r] = "pending"
    /\ job' = [job EXCEPT ![r] = "onStart"]
    /\ UNCHANGED <<limiter, pc, once, jobStopped, stopRequested, publisher>>

(* Mutant of JobOnStart: OnStart does not look at stopRequested. *)
OnStartIgnoringStop(r) ==
    /\ job[r] = "onStart"
    /\ job' = [job EXCEPT ![r] = "started"]
    /\ UNCHANGED <<limiter, pc, once, jobStopped, stopRequested, publisher>>

JobOnStart(r) ==
    /\ job[r] = "onStart"
    /\ job' = [job EXCEPT ![r] = "started"]
    /\ jobStopped' = IF r \in stopRequested THEN jobStopped \cup {r} ELSE jobStopped
    /\ UNCHANGED <<limiter, pc, once, stopRequested, publisher>>

JobStartFails(r) ==
    /\ job[r] = "pending"
    /\ job' = [job EXCEPT ![r] = "startFailed"]
    /\ UNCHANGED <<limiter, pc, once, jobStopped, stopRequested, publisher>>

JobDispose(r) ==
    /\ job[r] = "started" /\ r \in jobStopped
    /\ job' = [job EXCEPT ![r] = "disposed"]
    /\ ReleaseOnce(r)
    /\ UNCHANGED <<pc, jobStopped, stopRequested, publisher>>

(* The StopRecord API stops a job it finds among the running ones. *)
StopRecord(r) ==
    /\ job[r] = "started" /\ r \notin jobStopped
    /\ jobStopped' = jobStopped \cup {r}
    /\ UNCHANGED <<limiter, pc, once, job, stopRequested, publisher>>

PublisherStop ==
    /\ ~pubStopped
    /\ pubStopped' = TRUE
    /\ UNCHANGED <<limiter, pc, once, jobs, resources, pubDisposed>>

(* The publisher's dispose stops every job it finds in its resources. *)
PublisherDispose ==
    /\ pubStopped /\ ~pubDisposed
    /\ pubDisposed' = TRUE
    /\ jobStopped' = jobStopped \cup resources
    /\ UNCHANGED <<limiter, pc, once, job, stopRequested, pubStopped, resources>>

Request(r) ==
    \/ GateRecord(r) \/ SkipStopped(r) \/ Reserve(r)
    \/ WaitGranted(r) \/ WaitExpired(r) \/ RemoveWaiter(r)
    \/ PublisherGone(r) \/ RecordJobInit(r) \/ Using(r)
    \/ Recheck(r) \/ StopIfStarted(r) \/ WaitStarted(r)

JobStep(r) == JobStart(r) \/ JobOnStart(r) \/ JobStartFails(r) \/ JobDispose(r)

Next ==
    \/ \E r \in Requests : Request(r) \/ JobStep(r) \/ StopRecord(r)
    \/ PublisherStop
    \/ PublisherDispose

Spec == Init /\ [][Next]_vars

(***************************************************************************)
(* A request that has arrived runs on (its wait ends by the 30s timer at   *)
(* the latest), the event loop of the record jobs runs, and a stopped      *)
(* publisher is disposed.  Arrivals and stops need not happen.             *)
(***************************************************************************)
Fairness ==
    /\ \A r \in Requests : WF_vars(pc[r] # "idle" /\ Request(r)) /\ WF_vars(JobStep(r))
    /\ WF_vars(PublisherDispose)

FairSpec == Spec /\ Fairness

-------------------------------------------------------------------------------
(* Every variable keeps its type; active never goes below zero (the guard in Release). *)
TypeOK ==
    /\ active \in Nat
    /\ waiters \in Seq(Requests)
    /\ granted \subseteq Requests
    /\ pc \in [Requests -> PC]
    /\ once \subseteq Requests
    /\ job \in [Requests -> JobState]
    /\ jobStopped \subseteq Requests
    /\ stopRequested \subseteq Requests
    /\ pubStopped \in BOOLEAN
    /\ resources \subseteq Requests
    /\ pubDisposed \in BOOLEAN

(***************************************************************************)
(* No slot leaks and none is given back twice: active is exactly the       *)
(* number of requests that own a slot, whether they hold it or it is still *)
(* in their channel, through every race of Release with a timeout and of   *)
(* the error paths with the dispose callback.                              *)
(***************************************************************************)
SlotAccounting == active = Cardinality(Owners)

(* At most Max recordings own a slot at a time (RecordLimiter.max). *)
WithinLimit == Cardinality(Owners) <= Max

(***************************************************************************)
(* A slot is never idle while somebody queues for one: the queue is        *)
(* non-empty only when every slot is owned, and it stays within its        *)
(* capacity.                                                               *)
(***************************************************************************)
NoIdleSlot ==
    /\ waiters # <<>> => active = Max
    /\ Len(waiters) <= queueCapacity

(***************************************************************************)
(* FIFO: a request gets a slot while another one waits only if it is the   *)
(* first of the queue (the comment in Reserve, limits.go:154).             *)
(***************************************************************************)
FifoStep ==
    \A r \in Requests : ~Owns(r) /\ Owns(r)' /\ waiters # <<>> => r = Head(waiters)

Fifo == [][FifoStep]_vars

(* Every wait ends: with a slot, or refused at the 30s timeout at the latest. *)
WaitEnds == \A r \in Requests : pc[r] = "waiting" ~> pc[r] \notin {"waiting", "expired"}

(***************************************************************************)
(* No recording outlives its publisher: once the publisher is stopped,     *)
(* every slot comes back, also when the job was registered while the       *)
(* publisher was being disposed (the re-check of RecordWithDispose).       *)
(***************************************************************************)
SlotsComeBack == \A r \in Requests : pubStopped /\ Owns(r) ~> ~Owns(r)

(***************************************************************************)
(* The inductive invariant behind the accounting.  The queue holds exactly *)
(* the requests that wait without a token, each once; a release function   *)
(* has not fired before its request owns a slot, and a job exists only     *)
(* while the request that created it is past that point.                   *)
(***************************************************************************)
BeforeSlot == {"idle", "queued", "waiting", "expired", "acquired", "refused"}

QueueDistinct == \A i, j \in DOMAIN waiters : waiters[i] = waiters[j] => i = j

QueueMatchesWaits ==
    \A r \in Requests : r \in Queued <=> pc[r] \in {"waiting", "expired"} /\ r \notin granted

TokensAwaited == \A r \in granted : pc[r] \in {"waiting", "expired"}

ReleaseNotYetFired ==
    \A r \in Requests :
       /\ pc[r] \in BeforeSlot => r \notin once
       /\ pc[r] \in BeforeSlot \cup {"skipped"} => job[r] = "none"
       /\ pc[r] = "failed" => r \in once

LimiterInv ==
    /\ TypeOK
    /\ QueueDistinct
    /\ QueueMatchesWaits
    /\ TokensAwaited
    /\ ReleaseNotYetFired
    /\ SlotAccounting
    /\ active <= Max
    /\ NoIdleSlot
===============================================================================
