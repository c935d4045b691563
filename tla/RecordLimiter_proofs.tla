-------------------------- MODULE RecordLimiter_proofs --------------------------
(***************************************************************************)
(* The recording limiter keeps its accounts for any number of requests and *)
(* any limit: proofs of the invariants of RecordLimiter by the inductive   *)
(* invariant LimiterInv.                                                   *)
(***************************************************************************)
EXTENDS RecordLimiter, FiniteSetTheorems, SequenceTheorems, TLAPS

(***************************************************************************)
(* The queue as a sequence without duplicates.                             *)
(***************************************************************************)
Members(q) == {q[i] : i \in DOMAIN q}

Distinct(q) == \A i, j \in DOMAIN q : q[i] = q[j] => i = j

(* Release takes the head: exactly the head leaves the queue. *)
LEMMA TailMembers ==
    ASSUME NEW S, NEW q \in Seq(S), q # <<>>, Distinct(q)
    PROVE  /\ Tail(q) \in Seq(S) /\ Head(q) \in S
           /\ Len(Tail(q)) = Len(q) - 1
           /\ Distinct(Tail(q))
           /\ Members(Tail(q)) = Members(q) \ {Head(q)}
           /\ Head(q) \in Members(q)
<1>1. Len(q) \in Nat /\ Len(q) > 0 /\ DOMAIN q = 1 .. Len(q)
  OBVIOUS
<1>2. /\ Tail(q) \in Seq(S) /\ Head(q) \in S /\ Len(Tail(q)) = Len(q) - 1
      /\ Head(q) = q[1]
      /\ DOMAIN Tail(q) = 1 .. Len(q) - 1
      /\ \A i \in 1 .. Len(q) - 1 : Tail(q)[i] = q[i + 1]
  BY <1>1
<1>3. Distinct(Tail(q))
  BY <1>1, <1>2 DEF Distinct
<1>4. Members(Tail(q)) \subseteq Members(q) \ {Head(q)}
  BY <1>1, <1>2 DEF Distinct, Members
<1>5. ASSUME NEW x \in Members(q) \ {Head(q)} PROVE x \in Members(Tail(q))
  <2>1. PICK i \in 1 .. Len(q) : x = q[i] BY <1>1, <1>5 DEF Members
  <2>2. i - 1 \in 1 .. Len(q) - 1 /\ x = Tail(q)[i - 1] BY <2>1, <1>1, <1>2, <1>5
  <2> QED BY <2>2, <1>2 DEF Members
<1>6. Head(q) \in Members(q) BY <1>1, <1>2 DEF Members
<1> QED BY <1>2, <1>3, <1>4, <1>5, <1>6

(* Reserve appends: exactly the new waiter enters the queue. *)
LEMMA AppendMembers ==
    ASSUME NEW S, NEW q \in Seq(S), NEW x \in S, x \notin Members(q), Distinct(q)
    PROVE  /\ Append(q, x) \in Seq(S)
           /\ Len(Append(q, x)) = Len(q) + 1
           /\ Distinct(Append(q, x))
           /\ Members(Append(q, x)) = Members(q) \cup {x}
<1>1. Len(q) \in Nat /\ DOMAIN q = 1 .. Len(q)
  OBVIOUS
<1>2. /\ Append(q, x) \in Seq(S) /\ Len(Append(q, x)) = Len(q) + 1
      /\ DOMAIN Append(q, x) = 1 .. Len(q) + 1
      /\ \A i \in 1 .. Len(q) : Append(q, x)[i] = q[i]
      /\ Append(q, x)[Len(q) + 1] = x
  BY <1>1
<1>3. Distinct(Append(q, x))
  BY <1>1, <1>2 DEF Distinct, Members
<1>4. Members(Append(q, x)) = Members(q) \cup {x}
  BY <1>1, <1>2 DEF Members
<1> QED BY <1>2, <1>3, <1>4

(* removeWaiter cuts one element out: exactly it leaves the queue. *)
LEMMA CutMembers ==
    ASSUME NEW S, NEW q \in Seq(S), NEW k \in DOMAIN q, Distinct(q)
    PROVE  LET c == SubSeq(q, 1, k - 1) \o SubSeq(q, k + 1, Len(q))
           IN  /\ c \in Seq(S)
               /\ Len(c) = Len(q) - 1
               /\ Distinct(c)
               /\ Members(c) = Members(q) \ {q[k]}
<1> DEFINE a == SubSeq(q, 1, k - 1)
           b == SubSeq(q, k + 1, Len(q))
           c == a \o b
<1>1. Len(q) \in Nat /\ DOMAIN q = 1 .. Len(q) /\ k \in 1 .. Len(q)
      /\ \A i \in 1 .. Len(q) : q[i] \in S
  OBVIOUS
<1>2. a \in Seq(S) /\ Len(a) = k - 1 /\ \A i \in 1 .. k - 1 : a[i] = q[i]
  BY <1>1
<1>3. b \in Seq(S) /\ Len(b) = Len(q) - k /\ \A i \in 1 .. Len(q) - k : b[i] = q[i + k]
  <2>1. \A i \in k + 1 .. Len(q) : q[i] \in S BY <1>1
  <2>2. k + 1 \in Int /\ Len(q) \in Int BY <1>1
  <2>3. /\ b \in Seq(S)
        /\ Len(b) = IF k + 1 <= Len(q) THEN Len(q) - (k + 1) + 1 ELSE 0
        /\ \A i \in 1 .. Len(q) - (k + 1) + 1 : b[i] = q[k + 1 + i - 1]
    BY <2>1, <2>2, SubSeqProperties
  <2> HIDE DEF b
  <2>4. Len(b) = Len(q) - k BY <1>1, <2>3
  <2>5. ASSUME NEW i \in 1 .. Len(q) - k PROVE b[i] = q[i + k]
    <3>1. i \in 1 .. Len(q) - (k + 1) + 1 /\ k + 1 + i - 1 = i + k BY <1>1
    <3>2. b[i] = q[k + 1 + i - 1] BY <2>3, <3>1
    <3> QED BY <3>1, <3>2
  <2> QED BY <2>3, <2>4, <2>5
<1> HIDE DEF a, b
<1>4. c \in Seq(S) /\ Len(c) = Len(q) - 1 /\ DOMAIN c = 1 .. Len(q) - 1
  <2>1. c \in Seq(S) /\ Len(c) = Len(a) + Len(b) BY <1>2, <1>3, ConcatProperties
  <2> HIDE DEF c
  <2> QED BY <2>1, <1>1, <1>2, <1>3
<1>5. \A i \in 1 .. Len(q) - 1 : c[i] = IF i < k THEN q[i] ELSE q[i + 1]
  <2>1. \A i \in 1 .. Len(a) + Len(b) : c[i] = IF i <= Len(a) THEN a[i] ELSE b[i - Len(a)]
    BY <1>2, <1>3, ConcatProperties
  <2> HIDE DEF c
  <2>2. ASSUME NEW i \in 1 .. Len(q) - 1 PROVE c[i] = IF i < k THEN q[i] ELSE q[i + 1]
    <3>1. i \in 1 .. Len(a) + Len(b) /\ (i <= Len(a) <=> i < k) BY <1>1, <1>2, <1>3
    <3>2. CASE i < k
      <4>1. c[i] = a[i] /\ i \in 1 .. k - 1 BY <2>1, <3>1, <3>2, <1>1
      <4> QED BY <4>1, <3>2, <1>2
    <3>3. CASE ~(i < k)
      <4>0. c[i] = b[i - Len(a)] BY <2>1, <3>1, <3>3
      <4>1. i - Len(a) \in 1 .. Len(q) - k /\ i - Len(a) + k = i + 1 BY <3>3, <1>1, <1>2
      <4>2. b[i - Len(a)] = q[i - Len(a) + k] BY <4>1, <1>3
      <4> QED BY <4>0, <4>1, <4>2, <3>3
    <3> QED BY <3>2, <3>3
  <2> QED BY <2>2
<1> HIDE DEF c
<1>6. Distinct(c)
  <2> SUFFICES ASSUME NEW i \in 1 .. Len(q) - 1, NEW j \in 1 .. Len(q) - 1, c[i] = c[j]
               PROVE  i = j
    BY <1>4 DEF Distinct
  <2>1. \A x, y \in 1 .. Len(q) : q[x] = q[y] => x = y BY <1>1 DEF Distinct
  <2>2. c[i] = (IF i < k THEN q[i] ELSE q[i + 1]) /\ c[j] = (IF j < k THEN q[j] ELSE q[j + 1])
    BY <1>5
  <2>3. /\ i \in 1 .. Len(q) /\ i + 1 \in 1 .. Len(q) /\ j \in 1 .. Len(q) /\ j + 1 \in 1 .. Len(q)
    BY <1>1
  <2>4. CASE i < k /\ j < k
    <3>1. q[i] = q[j] BY <2>2, <2>4
    <3> QED BY <3>1, <2>1, <2>3, Zenon
  <2>5. CASE i < k /\ ~(j < k)
    <3>1. q[i] = q[j + 1] BY <2>2, <2>5
    <3>2. i = j + 1 BY <3>1, <2>1, <2>3, Zenon
    <3> QED BY <3>2, <2>5, <1>1
  <2>6. CASE ~(i < k) /\ j < k
    <3>1. q[i + 1] = q[j] BY <2>2, <2>6
    <3>2. i + 1 = j BY <3>1, <2>1, <2>3, Zenon
    <3> QED BY <3>2, <2>6, <1>1
  <2>7. CASE ~(i < k) /\ ~(j < k)
    <3>1. q[i + 1] = q[j + 1] BY <2>2, <2>7
    <3>2. i + 1 = j + 1 BY <3>1, <2>1, <2>3, Zenon
    <3> QED BY <3>2
  <2> QED BY <2>4, <2>5, <2>6, <2>7
<1>7. Members(c) \subseteq Members(q) \ {q[k]}
  BY <1>1, <1>4, <1>5 DEF Distinct, Members
<1>8. ASSUME NEW x \in Members(q) \ {q[k]} PROVE x \in Members(c)
  <2>1. PICK i \in 1 .. Len(q) : x = q[i] BY <1>1, <1>8 DEF Members
  <2>2. CASE i < k
    <3>1. i \in 1 .. Len(q) - 1 /\ x = c[i] BY <2>1, <2>2, <1>1, <1>5
    <3> QED BY <3>1, <1>4 DEF Members
  <2>3. CASE i > k
    <3>1. i - 1 \in 1 .. Len(q) - 1 /\ x = c[i - 1] BY <2>1, <2>3, <1>1, <1>5
    <3> QED BY <3>1, <1>4 DEF Members
  <2> QED BY <2>1, <2>2, <2>3, <1>1, <1>8
<1> QED BY <1>4, <1>6, <1>7, <1>8 DEF a, b, c

-------------------------------------------------------------------------------
(* LimiterInv without the counting, and the counting. *)
Shape ==
    /\ TypeOK
    /\ QueueDistinct /\ QueueMatchesWaits /\ TokensAwaited
    /\ ReleaseNotYetFired

Accounts == SlotAccounting /\ active <= Max /\ NoIdleSlot

LEMMA CapacityNatural == queueCapacity \in Nat
BY MaxPositive, FactorNatural DEF queueCapacity

(* The owners are finitely many, so that counting them makes sense. *)
LEMMA OwnersFinite == IsFiniteSet(Owners) /\ Cardinality(Owners) \in Nat
<1>1. Owners \in SUBSET Requests BY DEF Owners
<1>2. IsFiniteSet(Owners) BY <1>1, RequestsFinite, FS_Subset
<1> QED BY <1>2, FS_CardinalityType

LEMMA InitKeeps == Init => LimiterInv
<1> SUFFICES ASSUME Init PROVE LimiterInv
  OBVIOUS
<1>1. TypeOK
  <2>1. pc \in [Requests -> PC] /\ job \in [Requests -> JobState]
    BY DEF Init, PC, JobState
  <2>2. pubStopped \in BOOLEAN /\ pubDisposed \in BOOLEAN BY DEF Init
  <2> QED BY <2>1, <2>2 DEF Init, TypeOK
<1>2. QueueDistinct /\ QueueMatchesWaits /\ TokensAwaited /\ ReleaseNotYetFired
  BY DEF Init, QueueDistinct, QueueMatchesWaits, TokensAwaited, ReleaseNotYetFired,
         BeforeSlot, Queued
<1>3. Owners = {} BY DEF Init, Owners, Owns
<1>4. SlotAccounting BY <1>3, FS_EmptySet DEF SlotAccounting, Init
<1>5. active <= Max /\ NoIdleSlot
  BY CapacityNatural, MaxPositive DEF Init, NoIdleSlot
<1> QED BY <1>1, <1>2, <1>4, <1>5 DEF LimiterInv

(* A step that changes neither the owners nor the queue keeps the accounts. *)
LEMMA AccountsUntouched ==
    ASSUME Accounts, UNCHANGED <<active, waiters>>,
           \A x \in Requests : Owns(x)' <=> Owns(x)
    PROVE  Accounts'
<1>1. Owners' = Owners BY DEF Owners
<1> QED BY <1>1 DEF Accounts, SlotAccounting, NoIdleSlot, queueCapacity

(***************************************************************************)
(* The steps of a request and of its job that leave the limiter alone.     *)
(***************************************************************************)
QuietStep(r) ==
    \/ GateRecord(r) \/ SkipStopped(r) \/ WaitExpired(r)
    \/ RecordJobInit(r) \/ Using(r) \/ Recheck(r) \/ StopIfStarted(r)
    \/ JobStart(r) \/ JobOnStart(r) \/ JobStartFails(r) \/ StopRecord(r)

LEMMA QuietKeeps ==
    ASSUME NEW r \in Requests, LimiterInv, QuietStep(r)
    PROVE  LimiterInv'
<1> USE DEF limiter, jobs, publisher, Goto
<1>1. UNCHANGED <<active, waiters, granted, once>>
  BY DEF QuietStep, GateRecord, SkipStopped, WaitExpired, RecordJobInit, Using, Recheck,
         StopIfStarted, JobStart, JobOnStart, JobStartFails, StopRecord
<1>2. \/ pc[r] = "idle" /\ \E l \in {"queued", "refused"} : pc' = [pc EXCEPT ![r] = l] /\ job' = job
      \/ pc[r] = "queued" /\ pc' = [pc EXCEPT ![r] = "skipped"] /\ job' = job
      \/ pc[r] = "waiting" /\ pc' = [pc EXCEPT ![r] = "expired"] /\ job' = job
      \/ /\ pc[r] = "acquired" /\ pc' = [pc EXCEPT ![r] = "registered"]
         /\ \E j \in JobState : job' = [job EXCEPT ![r] = j]
      \/ /\ pc[r] \in {"registered", "using", "rechecked"} /\ job' = job
         /\ \E l \in {"using", "rechecked", "watching"} : pc' = [pc EXCEPT ![r] = l]
      \/ pc' = pc /\ job[r] # "none" /\ \E j \in JobState : job' = [job EXCEPT ![r] = j]
      \/ pc' = pc /\ job' = job
  BY DEF QuietStep, GateRecord, SkipStopped, WaitExpired, RecordJobInit, Using, Recheck,
         StopIfStarted, JobStart, JobOnStart, JobStartFails, StopRecord, JobState
<1>3. /\ jobStopped' \subseteq Requests /\ stopRequested' \subseteq Requests
      /\ resources' \subseteq Requests
  BY DEF QuietStep, GateRecord, SkipStopped, WaitExpired, RecordJobInit, Using, Recheck,
         StopIfStarted, JobStart, JobOnStart, JobStartFails, StopRecord, LimiterInv, TypeOK
<1>4. pubStopped' = pubStopped /\ pubDisposed' = pubDisposed
  BY DEF QuietStep, GateRecord, SkipStopped, WaitExpired, RecordJobInit, Using, Recheck,
         StopIfStarted, JobStart, JobOnStart, JobStartFails, StopRecord
<1>5. pc \in [Requests -> PC] /\ job \in [Requests -> JobState]
  BY DEF LimiterInv, TypeOK
<1>6. pc' \in [Requests -> PC] /\ job' \in [Requests -> JobState]
  BY <1>2, <1>5 DEF PC, JobState
<1>7. TypeOK'
  BY <1>1, <1>3, <1>4, <1>6 DEF LimiterInv, TypeOK
<1>8. QueueDistinct' /\ Queued' = Queued
  BY <1>1 DEF LimiterInv, QueueDistinct, Queued
<1>9. QueueMatchesWaits' /\ TokensAwaited'
  BY <1>1, <1>2, <1>5, <1>8 DEF LimiterInv, QueueMatchesWaits, TokensAwaited, TypeOK
<1>10. ReleaseNotYetFired'
  BY <1>1, <1>2, <1>5 DEF LimiterInv, ReleaseNotYetFired, BeforeSlot, PC
<1>11. \A x \in Requests : Owns(x)' <=> Owns(x)
  BY <1>1, <1>2, <1>5 DEF Owns
<1>12. Accounts'
  BY <1>1, <1>11, AccountsUntouched DEF LimiterInv, Accounts
<1> QED BY <1>7, <1>8, <1>9, <1>10, <1>12 DEF LimiterInv, Accounts

(* The publisher's stop and dispose only mark jobs. *)
LEMMA PublisherKeeps ==
    ASSUME LimiterInv, PublisherStop \/ PublisherDispose
    PROVE  LimiterInv'
<1>1. UNCHANGED <<active, waiters, granted, pc, once, job, stopRequested, resources>>
  BY DEF PublisherStop, PublisherDispose, limiter, jobs
<1>2. jobStopped' \subseteq Requests /\ pubStopped' \in BOOLEAN /\ pubDisposed' \in BOOLEAN
  BY DEF PublisherStop, PublisherDispose, LimiterInv, TypeOK, jobs
<1>3. TypeOK' BY <1>1, <1>2 DEF LimiterInv, TypeOK
<1>4. QueueDistinct' /\ QueueMatchesWaits' /\ TokensAwaited' /\ ReleaseNotYetFired'
  BY <1>1 DEF LimiterInv, QueueDistinct, QueueMatchesWaits, Queued, TokensAwaited,
              ReleaseNotYetFired
<1>5. \A x \in Requests : Owns(x)' <=> Owns(x) BY <1>1 DEF Owns
<1>6. Accounts' BY <1>1, <1>5, AccountsUntouched DEF LimiterInv, Accounts
<1> QED BY <1>3, <1>4, <1>6 DEF LimiterInv, Accounts

(* Reserve: a free slot is counted and owned, or the request joins the queue. *)
LEMMA ReserveKeeps ==
    ASSUME NEW r \in Requests, LimiterInv, Reserve(r)
    PROVE  LimiterInv'
<1> USE DEF limiter, jobs, publisher, Goto
<1>1. UNCHANGED <<granted, once, job, jobStopped, stopRequested, pubStopped, resources, pubDisposed>>
  BY DEF Reserve
<1>2. pc[r] \in {"idle", "queued"} BY DEF Reserve
<1>3. pc \in [Requests -> PC] /\ waiters \in Seq(Requests) /\ active \in Nat /\ granted \subseteq Requests
  BY DEF LimiterInv, TypeOK
<1>4. r \notin Queued /\ r \notin granted /\ r \notin once /\ ~Owns(r)
  BY <1>2 DEF LimiterInv, QueueMatchesWaits, TokensAwaited, ReleaseNotYetFired, BeforeSlot, Owns
<1>5. CASE active < Max /\ waiters = <<>>
  <2>1. active' = active + 1 /\ waiters' = waiters /\ pc' = [pc EXCEPT ![r] = "acquired"]
    BY <1>5 DEF Reserve
  <2>2. TypeOK'
    <3>1. pc' \in [Requests -> PC] /\ active' \in Nat BY <1>3, <2>1 DEF PC
    <3> QED BY <1>1, <2>1, <3>1 DEF LimiterInv, TypeOK
  <2>3. Queued' = Queued /\ QueueDistinct'
    BY <2>1 DEF LimiterInv, QueueDistinct, Queued
  <2>4. QueueMatchesWaits' /\ TokensAwaited'
    BY <1>1, <1>2, <1>3, <1>4, <2>1, <2>3 DEF LimiterInv, QueueMatchesWaits, TokensAwaited
  <2>5. ReleaseNotYetFired'
    BY <1>1, <1>2, <1>3, <2>1 DEF LimiterInv, ReleaseNotYetFired, BeforeSlot
  <2>6. \A x \in Requests : Owns(x)' <=> Owns(x) \/ x = r
    BY <1>1, <1>2, <1>3, <1>4, <2>1 DEF Owns
  <2>7. Owners' = Owners \cup {r} /\ r \notin Owners
    BY <2>6, <1>4 DEF Owners
  <2>8. SlotAccounting'
    BY <2>1, <2>7, OwnersFinite, FS_AddElement DEF LimiterInv, SlotAccounting
  <2>9. active' <= Max /\ NoIdleSlot'
    BY <1>3, <1>5, <2>1, MaxPositive DEF LimiterInv, NoIdleSlot, queueCapacity
  <2> QED BY <2>2, <2>3, <2>4, <2>5, <2>8, <2>9 DEF LimiterInv
<1>6. CASE ~(active < Max /\ waiters = <<>>) /\ Len(waiters) >= queueCapacity
  <2>1. UNCHANGED <<active, waiters>> /\ pc' = [pc EXCEPT ![r] = "refused"]
    BY <1>6, <1>3, CapacityNatural DEF Reserve
  <2>2. TypeOK'
    <3>1. pc' \in [Requests -> PC] BY <1>3, <2>1 DEF PC
    <3> QED BY <1>1, <2>1, <3>1 DEF LimiterInv, TypeOK
  <2>3. Queued' = Queued /\ QueueDistinct'
    BY <2>1 DEF LimiterInv, QueueDistinct, Queued
  <2>4. QueueMatchesWaits' /\ TokensAwaited'
    BY <1>1, <1>2, <1>3, <1>4, <2>1, <2>3 DEF LimiterInv, QueueMatchesWaits, TokensAwaited
  <2>5. ReleaseNotYetFired'
    BY <1>1, <1>2, <1>3, <2>1 DEF LimiterInv, ReleaseNotYetFired, BeforeSlot
  <2>6. \A x \in Requests : Owns(x)' <=> Owns(x)
    BY <1>1, <1>2, <1>3, <2>1 DEF Owns
  <2>7. Accounts' BY <2>1, <2>6, AccountsUntouched DEF LimiterInv, Accounts
  <2> QED BY <2>2, <2>3, <2>4, <2>5, <2>7 DEF LimiterInv, Accounts
<1>7. CASE ~(active < Max /\ waiters = <<>>) /\ ~(Len(waiters) >= queueCapacity)
  <2>1. /\ waiters' = Append(waiters, r) /\ active' = active
        /\ pc' = [pc EXCEPT ![r] = "waiting"] /\ Len(waiters) < queueCapacity
    BY <1>7, <1>3, CapacityNatural DEF Reserve
  <2>2. /\ waiters' \in Seq(Requests) /\ Len(waiters') = Len(waiters) + 1
        /\ Distinct(waiters') /\ Members(waiters') = Members(waiters) \cup {r}
    BY <1>3, <1>4, <2>1, AppendMembers DEF LimiterInv, QueueDistinct, Distinct, Queued, Members
  <2>3. TypeOK'
    <3>1. pc' \in [Requests -> PC] BY <1>3, <2>1 DEF PC
    <3> QED BY <1>1, <2>1, <2>2, <3>1 DEF LimiterInv, TypeOK
  <2>4. Queued' = Queued \cup {r} /\ QueueDistinct'
    BY <2>2 DEF QueueDistinct, Distinct, Queued, Members
  <2>5. QueueMatchesWaits' /\ TokensAwaited'
    BY <1>1, <1>2, <1>3, <1>4, <2>1, <2>4 DEF LimiterInv, QueueMatchesWaits, TokensAwaited
  <2>6. ReleaseNotYetFired'
    BY <1>1, <1>2, <1>3, <2>1 DEF LimiterInv, ReleaseNotYetFired, BeforeSlot
  <2>7. \A x \in Requests : Owns(x)' <=> Owns(x)
    BY <1>1, <1>2, <1>3, <2>1 DEF Owns
  <2>8. Owners' = Owners BY <2>7 DEF Owners
  <2>9. SlotAccounting' /\ active' <= Max
    BY <2>1, <2>8 DEF LimiterInv, SlotAccounting
  <2>10. active' = Max
    BY <1>7, <1>3, <2>1, MaxPositive DEF LimiterInv, NoIdleSlot
  <2>11. Len(waiters') <= queueCapacity
    BY <2>1, <2>2, <1>3, CapacityNatural
  <2>12. NoIdleSlot' BY <2>10, <2>11 DEF NoIdleSlot, queueCapacity
  <2> QED BY <2>3, <2>4, <2>5, <2>6, <2>9, <2>12 DEF LimiterInv
<1> QED BY <1>5, <1>6, <1>7

(***************************************************************************)
(* The end of a wait: a token turns into a slot that its request holds, or *)
(* the request leaves the queue.                                           *)
(***************************************************************************)
LEMMA TokenKeeps ==
    ASSUME NEW r \in Requests, LimiterInv, r \in granted, pc[r] \in {"waiting", "expired"},
           granted' = granted \ {r}, pc' = [pc EXCEPT ![r] = "acquired"],
           UNCHANGED <<active, waiters, once, job, jobStopped, stopRequested, publisher>>
    PROVE  LimiterInv'
<1>1. pc \in [Requests -> PC] /\ granted \subseteq Requests
  BY DEF LimiterInv, TypeOK
<1>2. TypeOK'
  <2>1. pc' \in [Requests -> PC] /\ granted' \subseteq Requests BY <1>1 DEF PC
  <2> QED BY <2>1 DEF LimiterInv, TypeOK, publisher
<1>3. Queued' = Queued /\ QueueDistinct'
  BY DEF LimiterInv, QueueDistinct, Queued
<1>4. QueueMatchesWaits' /\ TokensAwaited'
  BY <1>1, <1>3 DEF LimiterInv, QueueMatchesWaits, TokensAwaited
<1>5. ReleaseNotYetFired'
  BY <1>1 DEF LimiterInv, ReleaseNotYetFired, BeforeSlot
<1>6. \A x \in Requests : Owns(x)' <=> Owns(x)
  BY <1>1 DEF Owns, LimiterInv, ReleaseNotYetFired, BeforeSlot
<1>7. Accounts' BY <1>6, AccountsUntouched DEF LimiterInv, Accounts
<1> QED BY <1>2, <1>3, <1>4, <1>5, <1>7 DEF LimiterInv, Accounts

LEMMA WaitGrantedKeeps ==
    ASSUME NEW r \in Requests, LimiterInv, WaitGranted(r)
    PROVE  LimiterInv'
BY TokenKeeps DEF WaitGranted, Goto, jobs

LEMMA RemoveWaiterKeeps ==
    ASSUME NEW r \in Requests, LimiterInv, RemoveWaiter(r)
    PROVE  LimiterInv'
<1> USE DEF jobs, Goto
<1>1. pc[r] = "expired" /\ UNCHANGED <<active, once, job, jobStopped, stopRequested, publisher>>
  BY DEF RemoveWaiter
<1>2. CASE r \notin Queued
  <2>1. granted' = granted \ {r} /\ pc' = [pc EXCEPT ![r] = "acquired"] /\ waiters' = waiters
    BY <1>2 DEF RemoveWaiter, Queued
  <2>2. r \in granted BY <1>1, <1>2 DEF LimiterInv, QueueMatchesWaits
  <2> QED BY <1>1, <2>1, <2>2, TokenKeeps
<1>3. CASE r \in Queued
  <2>1. PICK i \in DOMAIN waiters :
          /\ waiters[i] = r
          /\ waiters' = SubSeq(waiters, 1, i - 1) \o SubSeq(waiters, i + 1, Len(waiters))
          /\ pc' = [pc EXCEPT ![r] = "refused"] /\ granted' = granted
    BY <1>3 DEF RemoveWaiter
  <2>2. pc \in [Requests -> PC] /\ waiters \in Seq(Requests) BY DEF LimiterInv, TypeOK
  <2>3. Distinct(waiters) BY DEF LimiterInv, QueueDistinct, Distinct
  <2>4. /\ waiters' \in Seq(Requests) /\ Len(waiters') = Len(waiters) - 1
        /\ Distinct(waiters') /\ Members(waiters') = Members(waiters) \ {r}
    BY <2>1, <2>2, <2>3, CutMembers
  <2>5. TypeOK'
    <3>1. pc' \in [Requests -> PC] BY <2>1, <2>2 DEF PC
    <3> QED BY <1>1, <2>1, <2>4, <3>1 DEF LimiterInv, TypeOK, publisher
  <2>6. Queued' = Queued \ {r} /\ QueueDistinct'
    BY <2>4 DEF QueueDistinct, Distinct, Queued, Members
  <2>7. r \notin granted BY <1>3 DEF LimiterInv, QueueMatchesWaits
  <2>8. QueueMatchesWaits' /\ TokensAwaited'
    BY <1>1, <2>1, <2>2, <2>6, <2>7 DEF LimiterInv, TypeOK, QueueMatchesWaits, TokensAwaited
  <2>9. ReleaseNotYetFired'
    BY <1>1, <2>1, <2>2 DEF LimiterInv, ReleaseNotYetFired, BeforeSlot
  <2>10. \A x \in Requests : Owns(x)' <=> Owns(x)
    BY <1>1, <2>1, <2>2 DEF Owns
  <2>11. Owners' = Owners BY <2>10 DEF Owners
  <2>12. SlotAccounting' /\ active' <= Max
    BY <1>1, <2>11 DEF LimiterInv, SlotAccounting
  <2>13. waiters # <<>> /\ Len(waiters) \in Nat BY <2>1, <2>2
  <2>14. NoIdleSlot'
    BY <1>1, <2>4, <2>13, CapacityNatural DEF LimiterInv, NoIdleSlot, queueCapacity
  <2> QED BY <2>5, <2>6, <2>8, <2>9, <2>12, <2>14 DEF LimiterInv
<1> QED BY <1>2, <1>3

(***************************************************************************)
(* The release of a slot by its owner: the slot goes to the head of the    *)
(* queue, and the number of owners stays; or nobody waits, and it drops.   *)
(***************************************************************************)
LEMMA ReleaseKeeps ==
    ASSUME NEW r \in Requests, LimiterInv, Release, once' = once \cup {r},
           r \notin once, r \notin granted,
           pc[r] \in {"acquired", "registered", "using", "rechecked", "watching", "recording"},
           \/ pc[r] = "acquired" /\ pc' = [pc EXCEPT ![r] = "skipped"] /\ job' = job
           \/ pc[r] = "watching" /\ pc' = [pc EXCEPT ![r] = "failed"] /\ job' = job
           \/ pc[r] # "acquired" /\ pc' = pc /\ job' = [job EXCEPT ![r] = "disposed"],
           UNCHANGED <<jobStopped, stopRequested, publisher>>
    PROVE  LimiterInv'
<1>1. /\ pc \in [Requests -> PC] /\ waiters \in Seq(Requests) /\ granted \subseteq Requests
      /\ active \in Nat /\ once \subseteq Requests /\ job \in [Requests -> JobState]
  BY DEF LimiterInv, TypeOK
<1>2. pc' \in [Requests -> PC] /\ job' \in [Requests -> JobState] /\ once' \subseteq Requests
  BY <1>1 DEF PC, JobState
<1>3. r \in Owners BY DEF Owners, Owns
<1>4. ReleaseNotYetFired'
  BY <1>1 DEF LimiterInv, ReleaseNotYetFired, BeforeSlot
<1>5. CASE waiters = <<>>
  <2>1. UNCHANGED <<waiters, granted>> /\ active' = IF active > 0 THEN active - 1 ELSE active
    BY <1>5 DEF Release
  <2>2. active = Cardinality(Owners) BY DEF LimiterInv, SlotAccounting
  <2>3. Owners' = Owners \ {r}
    <3>1. \A x \in Requests : Owns(x)' <=> Owns(x) /\ x # r
      BY <1>1, <2>1 DEF Owns
    <3> QED BY <3>1 DEF Owners
  <2>4. Cardinality(Owners') = Cardinality(Owners) - 1
    BY <2>3, <1>3, OwnersFinite, FS_RemoveElement
  <2>5. Cardinality(Owners') \in Nat
    BY <2>3, OwnersFinite, FS_RemoveElement, FS_CardinalityType
  <2>6. active' = active - 1 /\ active' \in Nat BY <2>1, <2>2, <2>4, <2>5, <1>1, OwnersFinite
  <2>7. SlotAccounting' BY <2>2, <2>4, <2>6 DEF SlotAccounting
  <2>8. TypeOK' BY <1>1, <1>2, <2>1, <2>6 DEF LimiterInv, TypeOK, publisher
  <2>9. Queued' = Queued /\ QueueDistinct'
    BY <2>1 DEF LimiterInv, QueueDistinct, Queued
  <2>10. QueueMatchesWaits' /\ TokensAwaited'
    BY <1>1, <2>1, <2>9 DEF LimiterInv, QueueMatchesWaits, TokensAwaited
  <2>11. active' <= Max /\ NoIdleSlot'
    BY <1>1, <1>5, <2>1, <2>6, MaxPositive DEF LimiterInv, NoIdleSlot, queueCapacity
  <2> QED BY <1>4, <2>7, <2>8, <2>9, <2>10, <2>11 DEF LimiterInv
<1>6. CASE waiters # <<>>
  <2> DEFINE h == Head(waiters)
  <2>1. granted' = granted \cup {h} /\ waiters' = Tail(waiters) /\ active' = active
    BY <1>6 DEF Release
  <2>2. Distinct(waiters) BY DEF LimiterInv, QueueDistinct, Distinct
  <2>3. /\ waiters' \in Seq(Requests) /\ h \in Requests /\ Len(waiters') = Len(waiters) - 1
        /\ Distinct(waiters') /\ Members(waiters') = Members(waiters) \ {h}
        /\ h \in Members(waiters)
    BY <1>1, <1>6, <2>1, <2>2, TailMembers
  <2> HIDE DEF h
  <2>4. Queued' = Queued \ {h} /\ QueueDistinct' /\ h \in Queued
    BY <2>3 DEF QueueDistinct, Distinct, Queued, Members
  <2>5. pc[h] \in {"waiting", "expired"} /\ h \notin granted /\ h # r
    BY <2>3, <2>4 DEF LimiterInv, QueueMatchesWaits
  <2>6. QueueMatchesWaits' /\ TokensAwaited'
    BY <1>1, <2>1, <2>3, <2>4, <2>5 DEF LimiterInv, QueueMatchesWaits, TokensAwaited
  <2>7. h \notin Owners BY <2>5 DEF Owners, Owns
  <2>8. Owners' = (Owners \ {r}) \cup {h}
    <3>1. \A x \in Requests : Owns(x)' <=> (Owns(x) /\ x # r) \/ x = h
      BY <1>1, <2>1, <2>3, <2>5 DEF Owns
    <3> QED BY <3>1, <2>3 DEF Owners
  <2>9. Cardinality(Owners \ {r}) = Cardinality(Owners) - 1 /\ IsFiniteSet(Owners \ {r})
    BY <1>3, OwnersFinite, FS_RemoveElement
  <2>10. Cardinality((Owners \ {r}) \cup {h}) = Cardinality(Owners \ {r}) + 1
    BY <2>7, <2>9, FS_AddElement
  <2>11. Cardinality(Owners') = Cardinality(Owners) BY <2>8, <2>9, <2>10, OwnersFinite
  <2>12. SlotAccounting' /\ active' <= Max
    BY <2>1, <2>11 DEF LimiterInv, SlotAccounting
  <2>13. NoIdleSlot'
    BY <1>1, <1>6, <2>1, <2>3, CapacityNatural DEF LimiterInv, NoIdleSlot, queueCapacity
  <2>14. TypeOK' BY <1>1, <1>2, <2>1, <2>3 DEF LimiterInv, TypeOK, publisher
  <2> QED BY <1>4, <2>4, <2>6, <2>12, <2>13, <2>14 DEF LimiterInv
<1> QED BY <1>5, <1>6

LEMMA PublisherGoneKeeps ==
    ASSUME NEW r \in Requests, LimiterInv, PublisherGone(r)
    PROVE  LimiterInv'
<1>1. pc[r] = "acquired" /\ r \notin once /\ r \notin granted
  BY DEF PublisherGone, LimiterInv, ReleaseNotYetFired, BeforeSlot, TokensAwaited
<1>2. /\ Release /\ once' = once \cup {r} /\ pc' = [pc EXCEPT ![r] = "skipped"]
      /\ job' = job /\ UNCHANGED <<jobStopped, stopRequested, publisher>>
  BY <1>1 DEF PublisherGone, ReleaseOnce, Goto, jobs
<1> QED BY <1>1, <1>2, ReleaseKeeps

LEMMA WaitStartedKeeps ==
    ASSUME NEW r \in Requests, LimiterInv, WaitStarted(r)
    PROVE  LimiterInv'
<1> USE DEF limiter, jobs, Goto
<1>1. /\ pc[r] = "watching" /\ r \notin granted
      /\ job' = job /\ UNCHANGED <<jobStopped, stopRequested, publisher>>
  BY DEF WaitStarted, LimiterInv, TokensAwaited
<1>2. CASE Release /\ once' = once \cup {r} /\ r \notin once /\ pc' = [pc EXCEPT ![r] = "failed"]
  BY <1>1, <1>2, ReleaseKeeps
<1>3. CASE /\ UNCHANGED <<once, active, waiters, granted>>
           /\ \/ pc' = [pc EXCEPT ![r] = "recording"]
              \/ r \in once /\ pc' = [pc EXCEPT ![r] = "failed"]
  <2>1. pc \in [Requests -> PC] BY DEF LimiterInv, TypeOK
  <2>2. pc' \in [Requests -> PC] BY <2>1, <1>3 DEF PC
  <2>3. TypeOK' BY <1>1, <1>3, <2>2 DEF LimiterInv, TypeOK, publisher
  <2>4. Queued' = Queued /\ QueueDistinct'
    BY <1>3 DEF LimiterInv, QueueDistinct, Queued
  <2>5. QueueMatchesWaits' /\ TokensAwaited' /\ ReleaseNotYetFired'
    BY <1>1, <1>3, <2>1, <2>4 DEF LimiterInv, TypeOK, QueueMatchesWaits, TokensAwaited,
                                  ReleaseNotYetFired, BeforeSlot
  <2>6. \A x \in Requests : Owns(x)' <=> Owns(x) BY <1>1, <1>3, <2>1 DEF Owns
  <2>7. Accounts' BY <1>3, <2>6, AccountsUntouched DEF LimiterInv, Accounts
  <2> QED BY <2>3, <2>4, <2>5, <2>7 DEF LimiterInv, Accounts
<1> QED BY <1>2, <1>3 DEF WaitStarted, ReleaseOnce

LEMMA JobDisposeKeeps ==
    ASSUME NEW r \in Requests, LimiterInv, JobDispose(r)
    PROVE  LimiterInv'
<1> USE DEF limiter
<1>1. /\ job[r] = "started" /\ job' = [job EXCEPT ![r] = "disposed"]
      /\ pc' = pc /\ UNCHANGED <<jobStopped, stopRequested, publisher>>
  BY DEF JobDispose
<1>2. pc[r] \in PC \ (BeforeSlot \cup {"skipped"})
  BY <1>1 DEF LimiterInv, TypeOK, ReleaseNotYetFired
<1>3. r \notin granted BY <1>2 DEF LimiterInv, TokensAwaited, BeforeSlot
<1>4. CASE r \notin once
  <2>1. pc[r] \in {"registered", "using", "rechecked", "watching", "recording"}
    BY <1>2, <1>4 DEF LimiterInv, ReleaseNotYetFired, PC, BeforeSlot
  <2>2. Release /\ once' = once \cup {r} BY <1>4 DEF JobDispose, ReleaseOnce
  <2> QED BY <1>1, <1>3, <1>4, <2>1, <2>2, ReleaseKeeps
<1>5. CASE r \in once
  <2>1. UNCHANGED <<once, active, waiters, granted>> BY <1>5 DEF JobDispose, ReleaseOnce
  <2>2. job \in [Requests -> JobState] BY DEF LimiterInv, TypeOK
  <2>3. job' \in [Requests -> JobState] BY <2>2, <1>1 DEF JobState
  <2>4. TypeOK' BY <1>1, <2>1, <2>3 DEF LimiterInv, TypeOK, publisher
  <2>5. Queued' = Queued /\ QueueDistinct'
    BY <2>1 DEF LimiterInv, QueueDistinct, Queued
  <2>6. QueueMatchesWaits' /\ TokensAwaited' /\ ReleaseNotYetFired'
    BY <1>1, <1>2, <2>1, <2>2, <2>5 DEF LimiterInv, QueueMatchesWaits, TokensAwaited,
                                        ReleaseNotYetFired, BeforeSlot
  <2>7. \A x \in Requests : Owns(x)' <=> Owns(x) BY <1>1, <2>1 DEF Owns
  <2>8. Accounts' BY <2>1, <2>7, AccountsUntouched DEF LimiterInv, Accounts
  <2> QED BY <2>4, <2>5, <2>6, <2>8 DEF LimiterInv, Accounts
<1> QED BY <1>4, <1>5

LEMMA StutterKeeps == LimiterInv /\ UNCHANGED vars => LimiterInv'
<1> SUFFICES ASSUME LimiterInv, UNCHANGED vars PROVE LimiterInv'
  OBVIOUS
<1> USE DEF vars
<1>1. TypeOK' BY DEF LimiterInv, TypeOK
<1>2. Queued' = Queued /\ QueueDistinct' BY DEF LimiterInv, QueueDistinct, Queued
<1>3. QueueMatchesWaits' /\ TokensAwaited' /\ ReleaseNotYetFired'
  BY <1>2 DEF LimiterInv, QueueMatchesWaits, TokensAwaited, ReleaseNotYetFired
<1>4. \A x \in Requests : Owns(x)' <=> Owns(x) BY DEF Owns
<1>5. Accounts' BY <1>4, AccountsUntouched DEF LimiterInv, Accounts
<1> QED BY <1>1, <1>2, <1>3, <1>5 DEF LimiterInv, Accounts

LEMMA NextKeeps == LimiterInv /\ [Next]_vars => LimiterInv'
<1> SUFFICES ASSUME LimiterInv, [Next]_vars PROVE LimiterInv'
  OBVIOUS
<1>1. ASSUME NEW r \in Requests, Request(r) \/ JobStep(r) \/ StopRecord(r)
      PROVE  LimiterInv'
  <2>1. CASE QuietStep(r) BY <2>1, QuietKeeps
  <2>2. CASE Reserve(r) BY <2>2, ReserveKeeps
  <2>3. CASE WaitGranted(r) BY <2>3, WaitGrantedKeeps
  <2>4. CASE RemoveWaiter(r) BY <2>4, RemoveWaiterKeeps
  <2>5. CASE PublisherGone(r) BY <2>5, PublisherGoneKeeps
  <2>6. CASE WaitStarted(r) BY <2>6, WaitStartedKeeps
  <2>7. CASE JobDispose(r) BY <2>7, JobDisposeKeeps
  <2> QED BY <1>1, <2>1, <2>2, <2>3, <2>4, <2>5, <2>6, <2>7 DEF Request, JobStep, QuietStep
<1>2. CASE PublisherStop \/ PublisherDispose BY <1>2, PublisherKeeps
<1>3. CASE UNCHANGED vars BY <1>3, StutterKeeps
<1> QED BY <1>1, <1>2, <1>3 DEF Next

-------------------------------------------------------------------------------
(* The inductive invariant holds in every behaviour of the limiter. *)
THEOREM LimiterInvariant == Spec => []LimiterInv
BY InitKeeps, NextKeeps, PTL DEF Spec

(* Every variable of the limiter and of the recording path keeps its type. *)
THEOREM TypeCorrect == Spec => []TypeOK
<1>1. LimiterInv => TypeOK BY DEF LimiterInv
<1> QED BY <1>1, LimiterInvariant, PTL

(***************************************************************************)
(* RecordLimiter.active counts exactly the requests that own a slot, for   *)
(* any number of requests: the sync.Once around Release, the timeout that  *)
(* races a hand-over and the error paths neither leak nor double a slot.   *)
(***************************************************************************)
THEOREM SlotsAccountedFor == Spec => []SlotAccounting
<1>1. LimiterInv => SlotAccounting BY DEF LimiterInv
<1> QED BY <1>1, LimiterInvariant, PTL

(* At most max recordings hold a slot, whatever the requests do. *)
THEOREM NeverAboveLimit == Spec => []WithinLimit
<1>1. LimiterInv => WithinLimit BY DEF LimiterInv, SlotAccounting, WithinLimit
<1> QED BY <1>1, LimiterInvariant, PTL

(* Nobody queues while a slot is free, and the queue respects its capacity. *)
THEOREM NoSlotIdle == Spec => []NoIdleSlot
<1>1. LimiterInv => NoIdleSlot BY DEF LimiterInv
<1> QED BY <1>1, LimiterInvariant, PTL

(***************************************************************************)
(* Only Reserve on an empty queue and Release make an owner, and Release   *)
(* makes one of the head.                                                  *)
(***************************************************************************)
LEMMA ReleaseIsFifo ==
    ASSUME NEW r \in Requests, LimiterInv, ReleaseOnce(r), NEW x \in Requests,
           pc'[x] = pc[x] \/ pc'[x] \in {"skipped", "failed"},
           ~Owns(x), Owns(x)', waiters # <<>>
    PROVE  x = Head(waiters)
BY DEF ReleaseOnce, Release, Owns, limiter

LEMMA StepIsFifo == LimiterInv /\ [Next]_vars => FifoStep
<1> SUFFICES ASSUME LimiterInv, [Next]_vars,
                    NEW x \in Requests, ~Owns(x), Owns(x)', waiters # <<>>
             PROVE  x = Head(waiters)
  BY DEF FifoStep
<1>0. pc \in [Requests -> PC] BY DEF LimiterInv, TypeOK
<1> USE DEF limiter, jobs, publisher, Goto
<1>1. ASSUME NEW r \in Requests, Request(r) \/ JobStep(r) \/ StopRecord(r)
      PROVE  x = Head(waiters)
  <2>1. CASE QuietStep(r)
    <3>1. UNCHANGED <<granted, once>> /\ (pc'[x] \in {"acquired"} => pc[x] = "acquired")
          /\ (pc'[x] \in {"registered", "using", "rechecked", "watching", "recording"}
              => pc[x] \in {"acquired", "registered", "using", "rechecked", "watching", "recording"})
      BY <1>0, <2>1 DEF QuietStep, GateRecord, SkipStopped, WaitExpired, RecordJobInit, Using,
         Recheck, StopIfStarted, JobStart, JobOnStart, JobStartFails, StopRecord
    <3> QED BY <3>1 DEF Owns
  <2>2. CASE Reserve(r) BY <1>0, <2>2 DEF Reserve, Owns
  <2>3. CASE WaitGranted(r) BY <1>0, <2>3 DEF WaitGranted, Owns
  <2>4. CASE RemoveWaiter(r)
    <3>1. CASE x # r BY <1>0, <2>4, <3>1 DEF RemoveWaiter, Owns
    <3>2. CASE x = r
      <4>1. r \in Queued
        BY <2>4, <3>2 DEF RemoveWaiter, LimiterInv, QueueMatchesWaits, Owns
      <4>2. pc'[r] = "refused" /\ granted' = granted
        BY <1>0, <2>4, <4>1 DEF RemoveWaiter
      <4> QED BY <3>2, <4>2 DEF Owns
    <3> QED BY <3>1, <3>2
  <2>5. CASE PublisherGone(r) BY <1>0, <2>5, ReleaseIsFifo DEF PublisherGone
  <2>6. CASE WaitStarted(r)
    <3>1. CASE ReleaseOnce(r) /\ pc' = [pc EXCEPT ![r] = "failed"]
      BY <1>0, <3>1, ReleaseIsFifo
    <3>2. CASE pc[r] = "watching" /\ pc' = [pc EXCEPT ![r] = "recording"] /\ UNCHANGED <<once, granted>>
      BY <1>0, <3>2 DEF Owns
    <3> QED BY <2>6, <3>1, <3>2 DEF WaitStarted
  <2>7. CASE JobDispose(r) BY <2>7, ReleaseIsFifo DEF JobDispose
  <2> QED BY <1>1, <2>1, <2>2, <2>3, <2>4, <2>5, <2>6, <2>7 DEF Request, JobStep, QuietStep
<1>2. CASE PublisherStop \/ PublisherDispose
  BY <1>2 DEF PublisherStop, PublisherDispose, Owns
<1>3. CASE UNCHANGED vars BY <1>3 DEF vars, Owns
<1> QED BY <1>1, <1>2, <1>3 DEF Next

(* Slots are granted in the order of arrival, by Reserve and by Release alike. *)
THEOREM SlotsInOrder == Spec => Fifo
<1>1. LimiterInv /\ [Next]_vars => [FifoStep]_vars BY StepIsFifo
<1> QED BY <1>1, LimiterInvariant, PTL DEF Spec, Fifo
===============================================================================
