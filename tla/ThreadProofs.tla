---------------------------- MODULE ThreadProofs ----------------------------
(***************************************************************************)
(* The threads beside the main one.  Jobs of the background I/O service    *)
(* run exactly once and in order, for any job types, callers and number of *)
(* jobs; clients blocked by modules are answered at most once, and the     *)
(* main thread wakes up for them, for any clients and number of handles.   *)
(***************************************************************************)
EXTENDS Bio, ModuleBlock, TLAPS

IInv == BioTypeOK /\ ListInv

\* What Append and Tail do to a list of jobs.
LEMMA JobAppend ==
  ASSUME NEW jobs \in Seq(Nat), NEW n \in Nat
  PROVE  /\ Append(jobs, n) \in Seq(Nat)
         /\ Append(jobs, n) # <<>>
         /\ Len(Append(jobs, n)) = Len(jobs) + 1
         /\ \A i \in 1..Len(jobs) : Append(jobs, n)[i] = jobs[i]
         /\ Append(jobs, n)[Len(jobs) + 1] = n
  OBVIOUS

\* The list without its first job.
LEMMA JobTail ==
  ASSUME NEW jobs \in Seq(Nat), jobs # <<>>
  PROVE  /\ Tail(jobs) \in Seq(Nat)
         /\ Len(Tail(jobs)) = Len(jobs) - 1
         /\ \A i \in 1..Len(jobs) - 1 : Tail(jobs)[i] = jobs[i + 1]
  OBVIOUS

\* The list of one type, as the three operations that change it leave it.
LEMMA ListAppend ==
  ASSUME NEW pc, NEW jobs \in Seq(Nat), NEW pending \in Nat, NEW n \in Nat,
         NEW ex \in Seq(Nat), ListOK(pc, jobs, pending, n, ex)
  PROVE  ListOK(Signal(pc), Append(jobs, n + 1), pending + 1, n + 1, ex)
  <1> DEFINE jobs2 == Append(jobs, n + 1)
  <1>1. Done(Signal(pc), ex) = Done(pc, ex) /\ Done(pc, ex) \in Nat
    BY DEF Done, Signal, ListOK
  <1>2. n + 1 \in Nat /\ Len(jobs) \in Nat
    OBVIOUS
  <1>3. /\ jobs2 # <<>>
        /\ Len(jobs2) = Len(jobs) + 1
        /\ \A i \in 1..Len(jobs) : jobs2[i] = jobs[i]
        /\ jobs2[Len(jobs) + 1] = n + 1
    BY <1>2, JobAppend
  <1> HIDE DEF jobs2
  <1>4. /\ pending = Len(jobs)
        /\ n = Done(pc, ex) + Len(jobs)
        /\ \A i \in 1..Len(ex) : ex[i] = i
        /\ \A i \in 1..Len(jobs) : jobs[i] = Done(pc, ex) + i
    BY DEF ListOK
  <1>5. ASSUME NEW i \in 1..Len(jobs) + 1
        PROVE  jobs2[i] = Done(pc, ex) + i
    <2>1. CASE i \in 1..Len(jobs)
      BY <1>3, <1>4, <2>1
    <2>2. CASE i = Len(jobs) + 1
      <3>1. ASSUME NEW d \in Nat, NEW k \in Nat, n = d + k
            PROVE  n + 1 = d + (k + 1)
        BY <3>1
      <3>2. n + 1 = Done(pc, ex) + i
        BY <1>1, <1>2, <1>4, <2>2, <3>1
      <3>3. QED
        BY <1>3, <2>2, <3>2
    <2>3. QED
      BY <1>2, <2>1, <2>2
  <1>6. ListOK(Signal(pc), jobs2, pending + 1, n + 1, ex)
    BY <1>1, <1>2, <1>3, <1>4, <1>5 DEF ListOK
  <1>7. QED
    BY <1>6 DEF jobs2

\* The thread runs the first job of its list.
LEMMA ListExecute ==
  ASSUME NEW jobs \in Seq(Nat), NEW pending \in Nat, NEW n \in Nat,
         NEW ex \in Seq(Nat), ListOK("run", jobs, pending, n, ex)
  PROVE  ListOK("relock", jobs, pending, n, Append(ex, Head(jobs)))
  <1> DEFINE ex2 == Append(ex, Head(jobs))
  <1>1. jobs # <<>> /\ Head(jobs) = Len(ex) + 1
    BY DEF ListOK, Done
  <1>2. Len(ex2) = Len(ex) + 1 /\ Done("relock", ex2) = Len(ex) /\ Done("run", ex) = Len(ex)
    BY <1>1 DEF Done
  <1>3. ASSUME NEW i \in 1..Len(ex2)
        PROVE  ex2[i] = i
    BY <1>1, <1>2 DEF ListOK
  <1> HIDE DEF ex2
  <1>4. QED
    BY <1>1, <1>2, <1>3 DEF ListOK, ex2

\* The thread takes the job it has run off the list, under the lock.
LEMMA ListFinish ==
  ASSUME NEW jobs \in Seq(Nat), NEW pending \in Nat, NEW n \in Nat,
         NEW ex \in Seq(Nat), ListOK("relock", jobs, pending, n, ex)
  PROVE  ListOK("loop", Tail(jobs), pending - 1, n, ex)
  <1> DEFINE rest == Tail(jobs)
  <1>1. jobs # <<>> /\ Len(jobs) \in Nat /\ Len(ex) \in Nat
    BY DEF ListOK
  <1>2. Done("relock", ex) = Len(ex) - 1 /\ Done("loop", ex) = Len(ex)
    BY DEF Done
  <1>3. Len(rest) = Len(jobs) - 1 /\ \A i \in 1..Len(jobs) - 1 : rest[i] = jobs[i + 1]
    BY <1>1, JobTail
  <1> HIDE DEF rest
  <1>4. /\ pending = Len(jobs)
        /\ n = Len(ex) - 1 + Len(jobs)
        /\ \A i \in 1..Len(ex) : ex[i] = i
        /\ \A i \in 1..Len(jobs) : jobs[i] = Len(ex) - 1 + i
    BY <1>2 DEF ListOK
  <1>5. ASSUME NEW i \in 1..Len(jobs) - 1
        PROVE  rest[i] = Len(ex) + i
    <2>1. rest[i] = jobs[i + 1] /\ i + 1 \in 1..Len(jobs)
      BY <1>1, <1>3
    <2>2. QED
      BY <1>1, <1>4, <2>1
  <1>6. /\ pending - 1 = Len(rest)
        /\ n = Len(ex) + Len(rest)
        /\ Len(ex) >= 0
    BY <1>1, <1>3, <1>4
  <1>7. \A i \in 1..Len(rest) : rest[i] = Done("loop", ex) + i
    BY <1>2, <1>3, <1>5
  <1>8. ListOK("loop", rest, pending - 1, n, ex)
    BY <1>2, <1>4, <1>6, <1>7 DEF ListOK
  <1>9. QED
    BY <1>8 DEF rest

\* The lists are empty at first.
LEMMA InitIInv == BioInit => IInv
  BY DEF BioInit, IInv, BioTypeOK, ListInv, ListOK, Done, BioPcs

\* The steps that touch neither lists nor histories and keep "relock".
LEMMA QuietStep ==
  ASSUME IInv, BioTypeOK',
         UNCHANGED <<bio_jobs, bio_pending, created, executed>>,
         \A t \in BioTypes :
            /\ bioPc'[t] = "relock" <=> bioPc[t] = "relock"
            /\ bioPc'[t] = "run" => bio_jobs[t] # <<>>
  PROVE  ListInv'
  BY DEF IInv, ListInv, ListOK, Done, BioTypeOK

\* Every step keeps the types, bio_pending among them.
LEMMA TypeStep == BioTypeOK /\ ListInv /\ [BioNext]_bioVars => BioTypeOK'
  <1> SUFFICES ASSUME BioTypeOK, ListInv, [BioNext]_bioVars
               PROVE  BioTypeOK'
    OBVIOUS
  <1> USE DEF BioTypeOK, BioPcs
  <1>1. ASSUME NEW c \in Callers, NEW t \in BioTypes, bioCreateBackgroundJob(c, t)
        PROVE  BioTypeOK'
    <2>1. created[t] + 1 \in Nat /\ bio_pending[t] + 1 \in Nat
      OBVIOUS
    <2>2. Append(bio_jobs[t], created[t] + 1) \in Seq(Nat)
      BY <2>1
    <2>3. Signal(bioPc[t]) \in BioPcs
      BY DEF Signal
    <2>4. created' \in [BioTypes -> Nat] /\ bio_pending' \in [BioTypes -> Nat]
      BY <1>1, <2>1 DEF bioCreateBackgroundJob
    <2>5. bio_jobs' \in [BioTypes -> Seq(Nat)]
      BY <1>1, <2>2 DEF bioCreateBackgroundJob
    <2>6. bioPc' \in [BioTypes -> BioPcs]
      BY Zenon, <1>1, <2>3 DEF bioCreateBackgroundJob
    <2>7. QED
      BY Zenon, <1>1, <2>4, <2>5, <2>6 DEF bioCreateBackgroundJob
  <1>2. ASSUME NEW c \in Callers, NEW t \in BioTypes, bioWaitStepOfType(c, t)
        PROVE  BioTypeOK'
    BY <1>2 DEF bioWaitStepOfType
  <1>3. ASSUME NEW c \in Callers, WaitStepReturn(c) \/ SpuriousStep(c)
        PROVE  BioTypeOK'
    BY <1>3 DEF WaitStepReturn, SpuriousStep
  <1>4. ASSUME NEW t \in BioTypes,
               AcquireMutex(t) \/ WaitForJob(t) \/ SpuriousWakeup(t) \/ TakeJob(t)
        PROVE  BioTypeOK'
    BY <1>4 DEF AcquireMutex, WaitForJob, SpuriousWakeup, TakeJob
  <1>5. ASSUME NEW t \in BioTypes, ExecuteJob(t)
        PROVE  BioTypeOK'
    BY <1>5 DEF ExecuteJob, ListInv, ListOK
  <1>6. ASSUME NEW t \in BioTypes, FinishJob(t)
        PROVE  BioTypeOK'
    <2>1. bio_jobs[t] # <<>> /\ bio_pending[t] > 0
      BY <1>6 DEF FinishJob, ListInv, ListOK
    <2>2. QED
      BY <1>6, <2>1 DEF FinishJob
  <1>7. CASE UNCHANGED bioVars
    BY <1>7 DEF bioVars
  <1>8. QED
    BY <1>1, <1>2, <1>3, <1>4, <1>5, <1>6, <1>7 DEF BioNext, BioThread

\* Every step keeps lists, counters and histories in line.
LEMMA ListStep == IInv /\ [BioNext]_bioVars => ListInv'
  <1> SUFFICES ASSUME IInv, [BioNext]_bioVars
               PROVE  ListInv'
    OBVIOUS
  <1>t. BioTypeOK'
    BY TypeStep DEF IInv
  <1>1. ASSUME NEW c \in Callers, NEW t \in BioTypes, bioCreateBackgroundJob(c, t)
        PROVE  ListInv'
    BY <1>1, ListAppend DEF bioCreateBackgroundJob, IInv, BioTypeOK, ListInv
  <1>2. ASSUME NEW c \in Callers,
               \/ \E t \in BioTypes : bioWaitStepOfType(c, t)
               \/ WaitStepReturn(c)
               \/ SpuriousStep(c)
        PROVE  ListInv'
    BY <1>2, <1>t, QuietStep
       DEF bioWaitStepOfType, WaitStepReturn, SpuriousStep, IInv, ListInv, ListOK
  <1>3. ASSUME NEW t \in BioTypes,
               AcquireMutex(t) \/ WaitForJob(t) \/ SpuriousWakeup(t) \/ TakeJob(t)
        PROVE  ListInv'
    <2>1. UNCHANGED <<bio_jobs, bio_pending, created, executed>>
      BY <1>3 DEF AcquireMutex, WaitForJob, SpuriousWakeup, TakeJob
    <2>2. ASSUME NEW u \in BioTypes
          PROVE  /\ bioPc'[u] = "relock" <=> bioPc[u] = "relock"
                 /\ bioPc'[u] = "run" => bio_jobs[u] # <<>>
      BY <1>3 DEF AcquireMutex, WaitForJob, SpuriousWakeup, TakeJob,
                  IInv, ListInv, ListOK, BioTypeOK
    <2>3. QED
      BY <1>t, <2>1, <2>2, QuietStep
  <1>4. ASSUME NEW t \in BioTypes, ExecuteJob(t)
        PROVE  ListInv'
    BY <1>4, ListExecute DEF ExecuteJob, IInv, BioTypeOK, ListInv
  <1>5. ASSUME NEW t \in BioTypes, FinishJob(t)
        PROVE  ListInv'
    BY <1>5, ListFinish DEF FinishJob, IInv, BioTypeOK, ListInv
  <1>6. CASE UNCHANGED bioVars
    BY <1>6, <1>t, QuietStep DEF bioVars, IInv, ListInv, ListOK
  <1>7. QED
    BY <1>1, <1>2, <1>3, <1>4, <1>5, <1>6 DEF BioNext, BioThread

\* So the strengthened invariant always holds.
LEMMA IInvInvariant == BioSpec => []IInv
  <1>1. IInv /\ [BioNext]_bioVars => IInv'
    BY TypeStep, ListStep DEF IInv
  <1>2. QED
    BY <1>1, InitIInv, PTL DEF BioSpec

\* Every variable of the service keeps its type: in particular bio_pending,
\* an unsigned long long, is never decremented below zero.
THEOREM TypeCorrect == BioSpec => []BioTypeOK
  BY IInvInvariant, PTL DEF IInv

\* Numbers that go on where others end count on.
LEMMA ConcatCount ==
  ASSUME NEW a \in Seq(Nat), NEW b \in Seq(Nat), NEW n \in Nat,
         n = Len(a) + Len(b),
         \A i \in 1..Len(a) : a[i] = i,
         \A i \in 1..Len(b) : b[i] = Len(a) + i
  PROVE  a \o b = [i \in 1..n |-> i]
  <1>1. a \o b \in Seq(Nat) /\ Len(a \o b) = n
    OBVIOUS
  <1>2. ASSUME NEW i \in 1..n
        PROVE  (a \o b)[i] = i
    <2>1. CASE i <= Len(a)
      BY <2>1
    <2>2. CASE i > Len(a)
      <3>1. i - Len(a) \in 1..Len(b) /\ i = Len(a) + (i - Len(a))
        BY <2>2
      <3>2. (a \o b)[i] = b[i - Len(a)]
        BY <2>2, <3>1
      <3>3. QED
        BY <3>1, <3>2
    <2>3. QED
      BY <2>1, <2>2
  <1>3. ASSUME NEW s \in Seq(Nat)
        PROVE  s = [i \in 1..Len(s) |-> s[i]]
    OBVIOUS
  <1> DEFINE s == a \o b
  <1> HIDE DEF s
  <1>4. s = [i \in 1..n |-> i]
    BY <1>1, <1>2, <1>3 DEF s
  <1>5. QED
    BY <1>4 DEF s

\* The jobs that were run, and those left in the list, are all in order.
LEMMA ListImpliesFifo == IInv => FifoExactlyOnce
  <1> SUFFICES ASSUME IInv, NEW t \in BioTypes
               PROVE  executed[t] \o Unexecuted(t) = [i \in 1..created[t] |-> i]
    BY DEF FifoExactlyOnce
  <1>1. /\ executed[t] \in Seq(Nat)
        /\ bio_jobs[t] \in Seq(Nat)
        /\ created[t] \in Nat
        /\ bio_pending[t] \in Nat
    BY DEF IInv, BioTypeOK
  <1>2. ListOK(bioPc[t], bio_jobs[t], bio_pending[t], created[t], executed[t])
    BY DEF IInv, ListInv
  <1>3. \A i \in 1..Len(executed[t]) : executed[t][i] = i
    BY <1>2 DEF ListOK
  <1>4. CASE bioPc[t] = "relock"
    <2> DEFINE rest == Tail(bio_jobs[t])
    <2>1. ListOK("loop", rest, bio_pending[t] - 1, created[t], executed[t])
      BY <1>1, <1>2, <1>4, ListFinish
    <2>2. bio_jobs[t] # <<>>
      BY <1>2, <1>4 DEF ListOK
    <2>3. rest \in Seq(Nat)
      BY <1>1, <2>2, JobTail
    <2> HIDE DEF rest
    <2>4. /\ created[t] = Len(executed[t]) + Len(rest)
          /\ \A i \in 1..Len(rest) : rest[i] = Len(executed[t]) + i
      <3>1. Done("loop", executed[t]) = Len(executed[t])
        BY <1>1 DEF Done
      <3>2. QED
        BY <2>1, <3>1 DEF ListOK
    <2>5. executed[t] \o rest = [i \in 1..created[t] |-> i]
      BY <1>1, <1>3, <2>3, <2>4, ConcatCount
    <2>6. QED
      BY <1>4, <2>5 DEF Unexecuted, rest
  <1>5. CASE bioPc[t] # "relock"
    <2>1. /\ created[t] = Len(executed[t]) + Len(bio_jobs[t])
          /\ \A i \in 1..Len(bio_jobs[t]) : bio_jobs[t][i] = Len(executed[t]) + i
      BY <1>1, <1>2, <1>5 DEF ListOK, Done
    <2>2. executed[t] \o bio_jobs[t] = [i \in 1..created[t] |-> i]
      BY <1>1, <1>3, <2>1, ConcatCount
    <2>3. QED
      BY <1>5, <2>2 DEF Unexecuted
  <1>6. QED
    BY <1>4, <1>5

\* Jobs of a type run exactly once, in the order of their creation
\* (bioProcessBackgroundJobs against bioCreateBackgroundJob).
THEOREM Fifo == BioSpec => []FifoExactlyOnce
  BY IInvInvariant, ListImpliesFifo, PTL

\* A counter of zero leaves no job.
LEMMA ListImpliesDone == IInv => PendingZeroMeansDone
  BY DEF IInv, BioTypeOK, ListInv, ListOK, Done, PendingZeroMeansDone, bioPendingJobsOfType

\* A pending count of zero means that every job created has been executed
\* (what aofFsyncInProgress and freeMemoryIfNeeded conclude from it).
THEOREM PendingZero == BioSpec => []PendingZeroMeansDone
  BY IInvInvariant, ListImpliesDone, PTL

-----------------------------------------------------------------------------
(* Clients blocked by modules: the inductive invariant.                    *)

SrvFields == {"client", "bc", "moduleUnblockedClients", "pipe", "gil", "wakes"}
ClientFields == {"linked", "handle", "cmds", "replies"}
HandleFields == {"state", "client", "reply_callback", "disconnect_callback", "cmd", "reply_client", "called"}
Busy == {"work", "locked", "abort"}

\* A sequence contains e.
Contains(q, e) == \E i \in 1..Len(q) : q[i] = e

\* Replies in the order of their commands, the last of which is n.
Rising(r, n) ==
    /\ r \in Seq(Nat) /\ n \in Nat
    /\ \A i, j \in DOMAIN r : i < j => r[i] < r[j]
    /\ \A i \in DOMAIN r : r[i] <= n

\* The client c is k, among the handles bc.
ClientOK(c, k, bc) ==
    /\ DOMAIN k = ClientFields
    /\ k.linked \in BOOLEAN /\ k.handle \in Handles \cup {0}
    /\ Rising(k.replies, k.cmds)
    /\ k.handle # 0 =>
         /\ bc[k.handle].state = "live" /\ bc[k.handle].client = c /\ bc[k.handle].cmd = k.cmds
         /\ k.linked /\ \A i \in DOMAIN k.replies : k.replies[i] < k.cmds

\* What became of the client of a handle: nothing happened to it while it is
\* blocked, and at most one thing afterwards.
CalledOK(h, b, client) ==
    /\ DOMAIN b = HandleFields
    /\ b.state \in {"live", "freed"} /\ b.client \in Clients \cup {NoClient} /\ b.cmd \in Nat
    /\ b.reply_callback \in BOOLEAN /\ b.disconnect_callback \in BOOLEAN /\ b.reply_client \in BOOLEAN
    /\ "disconnect" \in b.called => b.called = {"disconnect"}
    /\ b.state = "live" => "served" \notin b.called
    /\ b.state = "live" /\ b.client # NoClient =>
         b.called = {} /\ client[b.client].linked /\ client[b.client].handle = h
    /\ b.state = "freed" /\ b.called = {"served"} /\ b.reply_callback =>
         \E c \in Clients : Contains(client[c].replies, b.cmd)

\* The handle h is b, and its thread at t.
HandleOK(h, b, t, client, queue) ==
    /\ t \in Busy \cup {"none", "done"}
    /\ t = "none" => b = NoHandle
    /\ t # "none" => CalledOK(h, b, client)
    /\ t \in Busy => b.state = "live"
    /\ Contains(queue, h) => b.state = "live" /\ t = "done"

StateOK(s, th) ==
    /\ DOMAIN s = SrvFields /\ DOMAIN s.client = Clients /\ DOMAIN s.bc = Handles /\ DOMAIN th = Handles
    /\ s.moduleUnblockedClients \in Seq(Handles) /\ IsInjective(s.moduleUnblockedClients)
    /\ \A c \in Clients : ClientOK(c, s.client[c], s.bc)
    /\ \A h \in Handles : HandleOK(h, s.bc[h], th[h], s.client, s.moduleUnblockedClients)

\* Who holds the GIL, and what wakes the main thread up, which is at m.
LockOK(s, m, th) ==
    /\ m \in {"awake", "serving", "leaving", "asleep"}
    /\ s.pipe \in 0..2
    /\ s.moduleUnblockedClients # <<>> => m \in {"awake", "serving"} \/ s.pipe > 0
    /\ (m = "asleep") = (s.gil # MainThread)
    /\ \A h \in Handles : th[h] = "locked" => s.gil = h

BlockIInv ==
    /\ NoClient \notin Clients /\ blocking.MaxHandles \in Nat
    /\ StateOK(srv, thread) /\ LockOK(srv, main, thread)

----------------------------------------------------------------------------
\* An answer to the newest command comes last.
LEMMA ReplyRises ==
  ASSUME NEW r, NEW n \in Nat, NEW m \in Nat, Rising(r, n), n <= m,
         \A i \in DOMAIN r : r[i] < m
  PROVE  /\ Rising(Append(r, m), m)
         /\ Contains(Append(r, m), m)
         /\ \A e : Contains(r, e) => Contains(Append(r, m), e)
  <1>1. Rising(Append(r, m), m)
    BY DEF Rising
  <1>2. Contains(Append(r, m), m)
    <2>1. Append(r, m)[Len(r) + 1] = m /\ Len(r) + 1 \in 1..Len(Append(r, m))
      BY DEF Rising
    <2>2. QED
      BY <2>1 DEF Contains
  <1>3. ASSUME NEW e, Contains(r, e) PROVE Contains(Append(r, m), e)
    <2>1. PICK i \in 1..Len(r) : r[i] = e
      BY <1>3 DEF Contains
    <2>2. i \in 1..Len(Append(r, m)) /\ Append(r, m)[i] = e
      BY <2>1 DEF Rising
    <2>3. QED
      BY <2>2 DEF Contains
  <1>4. QED
    BY <1>1, <1>2, <1>3

\* What was in order with the last command so far is so with a later one.
LEMMA RisesOn ==
  ASSUME NEW r, NEW n, NEW m \in Nat, Rising(r, n), n <= m
  PROVE  Rising(r, m)
  BY DEF Rising

\* Queue: a handle that is put at the end is in the queue, with the others.
LEMMA Queued ==
  ASSUME NEW q \in Seq(Handles), IsInjective(q), NEW h \in Handles, ~Contains(q, h)
  PROVE  /\ Append(q, h) \in Seq(Handles) /\ IsInjective(Append(q, h)) /\ Append(q, h) # <<>>
         /\ \A g : Contains(Append(q, h), g) <=> Contains(q, g) \/ g = h
  <1>1. \A i \in 1..Len(q) + 1 : Append(q, h)[i] = IF i = Len(q) + 1 THEN h ELSE q[i]
    OBVIOUS
  <1>2. \A i \in 1..Len(q) : q[i] # h
    BY DEF Contains
  <1>3. Len(Append(q, h)) = Len(q) + 1 /\ DOMAIN q = 1..Len(q) /\ DOMAIN Append(q, h) = 1..Len(q) + 1
    OBVIOUS
  <1>4. IsInjective(Append(q, h))
    BY <1>1, <1>2, <1>3 DEF IsInjective
  <1>5. ASSUME NEW g PROVE Contains(Append(q, h), g) <=> Contains(q, g) \/ g = h
    BY <1>1, <1>3 DEF Contains
  <1>6. QED
    BY <1>4, <1>5

\* The first handle of the queue leaves it; the others stay.
LEMMA Dequeued ==
  ASSUME NEW q \in Seq(Handles), IsInjective(q), q # <<>>
  PROVE  /\ Tail(q) \in Seq(Handles) /\ IsInjective(Tail(q)) /\ Head(q) \in Handles
         /\ Contains(q, Head(q))
         /\ \A g : Contains(Tail(q), g) <=> Contains(q, g) /\ g # Head(q)
  <1>1. /\ Len(q) \in Nat \ {0} /\ DOMAIN q = 1..Len(q) /\ Len(Tail(q)) = Len(q) - 1
        /\ DOMAIN Tail(q) = 1..Len(q) - 1 /\ \A i \in 1..Len(q) - 1 : Tail(q)[i] = q[i + 1]
        /\ Head(q) = q[1] /\ Head(q) \in Handles /\ Tail(q) \in Seq(Handles)
    OBVIOUS
  <1>2. IsInjective(Tail(q))
    <2>1. ASSUME NEW i \in 1..Len(q) - 1, NEW j \in 1..Len(q) - 1, Tail(q)[i] = Tail(q)[j] PROVE i = j
      <3>1. q[i + 1] = q[j + 1] /\ i + 1 \in 1..Len(q) /\ j + 1 \in 1..Len(q)
        BY <1>1, <2>1
      <3>2. i + 1 = j + 1
        BY <1>1, <3>1 DEF IsInjective
      <3>3. QED
        BY <3>2
    <2>2. QED
      BY <1>1, <2>1 DEF IsInjective
  <1>3. Contains(q, Head(q))
    BY <1>1 DEF Contains
  <1>4. ASSUME NEW g, Contains(Tail(q), g) PROVE Contains(q, g) /\ g # Head(q)
    <2>1. PICK i \in 1..Len(q) - 1 : q[i + 1] = g
      BY <1>1, <1>4 DEF Contains
    <2>2. i + 1 \in 1..Len(q) /\ i + 1 # 1 /\ 1 \in 1..Len(q)
      BY <1>1
    <2>3. q[i + 1] # q[1]
      BY <1>1, <2>2 DEF IsInjective
    <2>4. QED
      BY <1>1, <2>1, <2>2, <2>3 DEF Contains
  <1>5. ASSUME NEW g, Contains(q, g), g # Head(q) PROVE Contains(Tail(q), g)
    <2>1. PICK i \in 1..Len(q) : q[i] = g
      BY <1>5 DEF Contains
    <2>2. i # 1
      BY <1>1, <1>5, <2>1
    <2>3. i - 1 \in 1..Len(Tail(q)) /\ Tail(q)[i - 1] = g
      <3>1. i - 1 \in 1..Len(q) - 1
        BY <1>1, <2>2
      <3>2. Tail(q)[i - 1] = q[i - 1 + 1] /\ i - 1 + 1 = i
        BY <1>1, <3>1
      <3>3. QED
        BY <1>1, <2>1, <3>1, <3>2
    <2>4. QED
      BY <2>3 DEF Contains
  <1>6. QED
    BY <1>1, <1>2, <1>3, <1>4, <1>5

\* The client c of the handle h is let go on the way from s to t: by a timeout
\* or a disconnection, and then the handle stays, or by the main thread that
\* serves the handle.  The threads are at th.
LetGo(s, th, t, c, h) ==
    /\ s.bc[h].state = "live" /\ s.bc[h].client = c /\ th[h] # "none"
    /\ DOMAIN t = SrvFields /\ DOMAIN t.client = Clients /\ DOMAIN t.bc = Handles
    /\ \A d \in Clients : d # c => t.client[d] = s.client[d]
    /\ \A g \in Handles : g # h => t.bc[g] = s.bc[g]
    /\ \A e : Contains(s.client[c].replies, e) => Contains(t.client[c].replies, e)
    /\ DOMAIN t.client[c] = ClientFields /\ t.client[c].linked \in BOOLEAN /\ t.client[c].handle = 0
    /\ Rising(t.client[c].replies, t.client[c].cmds)
    /\ DOMAIN t.bc[h] = HandleFields /\ t.bc[h].client = NoClient /\ t.bc[h].cmd \in Nat
    /\ t.bc[h].reply_callback \in BOOLEAN /\ t.bc[h].disconnect_callback \in BOOLEAN
    /\ t.bc[h].reply_client \in BOOLEAN
    /\ "disconnect" \in t.bc[h].called => t.bc[h].called = {"disconnect"}
    /\ t.moduleUnblockedClients \in Seq(Handles) /\ IsInjective(t.moduleUnblockedClients)
    /\ \A g : Contains(t.moduleUnblockedClients, g) => Contains(s.moduleUnblockedClients, g)
    /\ t.bc[h].state \in {"live", "freed"}
    /\ t.bc[h].state = "live" => "served" \notin t.bc[h].called
    /\ t.bc[h].state = "freed" =>
         /\ ~Contains(t.moduleUnblockedClients, h) /\ th[h] = "done"
         /\ t.bc[h].reply_callback => Contains(t.client[c].replies, t.bc[h].cmd)

\* The other handles and clients when the client c of the handle h is let go.
LEMMA Bystanders ==
  ASSUME NoClient \notin Clients, blocking.MaxHandles \in Nat, NEW s, NEW th, StateOK(s, th),
         NEW t, NEW c \in Clients, NEW h \in Handles, LetGo(s, th, t, c, h)
  PROVE  /\ s.client[c].handle = h /\ s.client[c].linked /\ s.bc[h].called = {}
         /\ \A d \in Clients : d # c => ClientOK(d, t.client[d], t.bc)
         /\ \A g \in Handles : g # h /\ th[g] # "none" => CalledOK(g, t.bc[g], t.client)
  <1>a. /\ s.bc[h].state = "live" /\ s.bc[h].client = c /\ th[h] # "none"
        /\ \A d \in Clients : d # c => t.client[d] = s.client[d]
        /\ \A g \in Handles : g # h => t.bc[g] = s.bc[g]
        /\ \A e : Contains(s.client[c].replies, e) => Contains(t.client[c].replies, e)
    BY DEF LetGo
  <1>0. 0 \notin Handles
    BY DEF Handles
  <1>1. s.client[c].handle = h /\ s.client[c].linked /\ s.bc[h].called = {}
    <2>1. HandleOK(h, s.bc[h], th[h], s.client, s.moduleUnblockedClients)
      BY DEF StateOK
    <2>2. CalledOK(h, s.bc[h], s.client)
      BY <1>a, <2>1 DEF HandleOK
    <2>3. QED
      BY <1>a, <2>2 DEF CalledOK
  <1>2. ASSUME NEW d \in Clients, d # c PROVE ClientOK(d, t.client[d], t.bc)
    <2>1. ClientOK(d, s.client[d], s.bc) /\ t.client[d] = s.client[d]
      BY <1>a, <1>2 DEF StateOK
    <2>2. s.client[d].handle # 0 =>
            /\ s.client[d].handle \in Handles /\ s.bc[s.client[d].handle].client = d
      BY <2>1 DEF ClientOK
    <2>3. s.client[d].handle # 0 => t.bc[s.client[d].handle] = s.bc[s.client[d].handle]
      BY <1>a, <1>2, <2>2
    <2>4. QED
      BY <2>1, <2>3 DEF ClientOK
  <1>3. ASSUME NEW g \in Handles, g # h, th[g] # "none" PROVE CalledOK(g, t.bc[g], t.client)
    <2>1. CalledOK(g, s.bc[g], s.client) /\ t.bc[g] = s.bc[g]
      BY <1>a, <1>3 DEF StateOK, HandleOK
    <2>2. s.bc[g].state = "live" /\ s.bc[g].client # NoClient =>
            /\ s.bc[g].client \in Clients /\ s.client[s.bc[g].client].handle = g
      BY <2>1 DEF CalledOK
    <2>3. s.bc[g].state = "live" /\ s.bc[g].client # NoClient =>
            t.client[s.bc[g].client] = s.client[s.bc[g].client]
      BY <1>a, <1>1, <1>3, <2>2
    <2>4. \A e, d : d \in Clients /\ Contains(s.client[d].replies, e) => Contains(t.client[d].replies, e)
      BY <1>a
    <2>5. QED
      BY <2>1, <2>3, <2>4 DEF CalledOK
  <1>4. QED
    BY <1>1, <1>2, <1>3

\* Who lets a client go keeps the invariant.
LEMMA Released ==
  ASSUME NoClient \notin Clients, blocking.MaxHandles \in Nat, NEW s, NEW th, StateOK(s, th),
         NEW t, NEW c \in Clients, NEW h \in Handles, LetGo(s, th, t, c, h)
  PROVE  StateOK(t, th)
  <1> DEFINE q == s.moduleUnblockedClients
             r == t.moduleUnblockedClients
  <1>1. /\ \A d \in Clients : d # c => ClientOK(d, t.client[d], t.bc)
        /\ \A g \in Handles : g # h /\ th[g] # "none" => CalledOK(g, t.bc[g], t.client)
    BY Bystanders
  <1>2. ClientOK(c, t.client[c], t.bc)
    BY DEF LetGo, ClientOK
  <1>3. CalledOK(h, t.bc[h], t.client)
    BY DEF LetGo, CalledOK
  <1>4. ASSUME NEW g \in Handles PROVE HandleOK(g, t.bc[g], th[g], t.client, r)
    <2>1. HandleOK(g, s.bc[g], th[g], s.client, q)
      BY DEF StateOK
    <2>2. CASE g = h
      <3>1. Contains(r, h) => t.bc[h].state = "live" /\ th[h] = "done"
        BY <2>1, <2>2 DEF LetGo, HandleOK
      <3>2. th[h] \in Busy => t.bc[h].state = "live"
        BY DEF LetGo, Busy
      <3>3. th[h] # "none"
        BY DEF LetGo
      <3>4. QED
        BY <1>3, <2>1, <2>2, <3>1, <3>2, <3>3 DEF HandleOK
    <2>3. CASE g # h
      <3>1. t.bc[g] = s.bc[g] /\ (Contains(r, g) => Contains(q, g))
        BY <2>3 DEF LetGo
      <3>2. QED
        BY <1>1, <2>1, <2>3, <3>1 DEF HandleOK
    <2>4. QED
      BY <2>2, <2>3
  <1>5. DOMAIN th = Handles
    BY DEF StateOK
  <1>6. \A d \in Clients : ClientOK(d, t.client[d], t.bc)
    BY <1>1, <1>2
  <1>7. /\ DOMAIN t = SrvFields /\ DOMAIN t.client = Clients /\ DOMAIN t.bc = Handles
        /\ r \in Seq(Handles) /\ IsInjective(r)
    BY DEF LetGo
  <1>8. QED
    BY <1>4, <1>5, <1>6, <1>7 DEF StateOK

\* The first handle of the queue has no client, and is freed from s to t.
Frees(s, t, h) ==
    /\ s.moduleUnblockedClients # <<>> /\ h = Head(s.moduleUnblockedClients) /\ s.bc[h].client = NoClient
    /\ DOMAIN t = SrvFields /\ t.client = s.client /\ t.bc = [s.bc EXCEPT ![h].state = "freed"]
    /\ t.moduleUnblockedClients = Tail(s.moduleUnblockedClients)

\* A handle without a client is served: nobody is answered.
LEMMA ServedNobody ==
  ASSUME NoClient \notin Clients, NEW s, NEW th, StateOK(s, th), NEW t, NEW h \in Handles, Frees(s, t, h)
  PROVE  StateOK(t, th)
  <1> DEFINE q == s.moduleUnblockedClients
  <1>1. q \in Seq(Handles) /\ IsInjective(q)
    BY DEF StateOK
  <1>2. /\ Tail(q) \in Seq(Handles) /\ IsInjective(Tail(q)) /\ Contains(q, h)
        /\ \A g : Contains(Tail(q), g) <=> Contains(q, g) /\ g # h
    BY <1>1, Dequeued DEF Frees
  <1>3. s.bc[h].state = "live" /\ th[h] = "done" /\ CalledOK(h, s.bc[h], s.client)
    BY <1>2 DEF StateOK, HandleOK
  <1>4. t.bc[h] = [s.bc[h] EXCEPT !.state = "freed"] /\ \A g \in Handles : g # h => t.bc[g] = s.bc[g]
    BY DEF StateOK, Frees
  <1>u. s.bc[h].client = NoClient /\ DOMAIN t = SrvFields /\ t.client = s.client /\ t.moduleUnblockedClients = Tail(q)
    BY DEF Frees
  <1>5. CalledOK(h, t.bc[h], t.client)
    <2>1. /\ DOMAIN t.bc[h] = HandleFields /\ t.bc[h].state = "freed"
          /\ \A x \in HandleFields \ {"state"} : t.bc[h][x] = s.bc[h][x]
      BY <1>3, <1>4 DEF CalledOK, HandleFields
    <2>2. /\ t.bc[h].client = s.bc[h].client /\ t.bc[h].reply_callback = s.bc[h].reply_callback
          /\ t.bc[h].disconnect_callback = s.bc[h].disconnect_callback /\ t.bc[h].cmd = s.bc[h].cmd
          /\ t.bc[h].reply_client = s.bc[h].reply_client /\ t.bc[h].called = s.bc[h].called
      BY <2>1 DEF HandleFields
    <2>3. "served" \notin t.bc[h].called
      BY <1>3, <2>2 DEF CalledOK
    <2>4. t.bc[h].called # {"served"}
      BY <2>3
    <2>5. QED
      BY <1>3, <1>u, <2>1, <2>2, <2>4 DEF CalledOK
  <1>6. ASSUME NEW g \in Handles PROVE HandleOK(g, t.bc[g], th[g], t.client, Tail(q))
    <2>1. HandleOK(g, s.bc[g], th[g], s.client, q)
      BY DEF StateOK
    <2>2. CASE g = h
      BY <1>2, <1>3, <1>5, <2>2 DEF HandleOK, Busy
    <2>3. CASE g # h
      BY <1>2, <1>4, <1>u, <2>1, <2>3 DEF HandleOK
    <2>4. QED
      BY <2>2, <2>3
  <1>7. ASSUME NEW d \in Clients PROVE ClientOK(d, t.client[d], t.bc)
    <2>1. ClientOK(d, s.client[d], s.bc)
      BY DEF StateOK
    <2>2. s.client[d].handle # 0 =>
            s.client[d].handle \in Handles /\ s.bc[s.client[d].handle].client = d
      BY <2>1 DEF ClientOK
    <2>3. s.client[d].handle # 0 => t.bc[s.client[d].handle] = s.bc[s.client[d].handle]
      BY <1>4, <1>u, <2>2
    <2>4. QED
      BY <1>u, <2>1, <2>3 DEF ClientOK
  <1>8. DOMAIN t.client = Clients /\ DOMAIN t.bc = Handles /\ DOMAIN th = Handles
    BY DEF StateOK, Frees
  <1>9. QED
    BY <1>2, <1>u, <1>6, <1>7, <1>8 DEF StateOK

\* The thread of the handle h goes on or queues the handle, from s and th to t
\* and ht; of the handle it changes what it may change.
Moves(s, th, t, ht, h) ==
    /\ th[h] \in Busy
    /\ DOMAIN t = SrvFields /\ t.client = s.client /\ DOMAIN t.bc = Handles /\ DOMAIN ht = Handles
    /\ \A g \in Handles : g # h => t.bc[g] = s.bc[g] /\ ht[g] = th[g]
    /\ DOMAIN t.bc[h] = HandleFields
    /\ t.bc[h].reply_callback \in BOOLEAN /\ t.bc[h].disconnect_callback \in BOOLEAN
    /\ t.bc[h].reply_client \in BOOLEAN
    /\ \A x \in {"state", "client", "cmd", "called"} : t.bc[h][x] = s.bc[h][x]
    /\ \/ ht[h] \in Busy /\ t.moduleUnblockedClients = s.moduleUnblockedClients
       \/ ht[h] = "done" /\ t.moduleUnblockedClients = Append(s.moduleUnblockedClients, h)

\* A thread that does so keeps the invariant.
LEMMA ThreadStep ==
  ASSUME NoClient \notin Clients, NEW s, NEW th, StateOK(s, th), NEW t, NEW ht, NEW h \in Handles,
         Moves(s, th, t, ht, h)
  PROVE  StateOK(t, ht)
  <1> DEFINE q == s.moduleUnblockedClients
             r == t.moduleUnblockedClients
  <1>1. q \in Seq(Handles) /\ IsInjective(q)
    BY DEF StateOK
  <1>2. s.bc[h].state = "live" /\ CalledOK(h, s.bc[h], s.client) /\ ~Contains(q, h)
    <2>1. HandleOK(h, s.bc[h], th[h], s.client, q) /\ th[h] \in Busy
      BY DEF StateOK, Moves
    <2>2. QED
      BY <2>1 DEF HandleOK, Busy
  <1>3. CalledOK(h, t.bc[h], t.client) /\ t.bc[h].state = "live"
    <2>1. /\ t.bc[h].state = s.bc[h].state /\ t.bc[h].client = s.bc[h].client
          /\ t.bc[h].cmd = s.bc[h].cmd /\ t.bc[h].called = s.bc[h].called
      BY DEF Moves
    <2>2. /\ DOMAIN t.bc[h] = HandleFields /\ t.client = s.client
          /\ t.bc[h].reply_callback \in BOOLEAN /\ t.bc[h].disconnect_callback \in BOOLEAN
          /\ t.bc[h].reply_client \in BOOLEAN
      BY DEF Moves
    <2>3. QED
      BY <1>2, <2>1, <2>2 DEF CalledOK
  <1>4. /\ r \in Seq(Handles) /\ IsInjective(r)
        /\ \A g : g # h => (Contains(r, g) <=> Contains(q, g))
        /\ Contains(r, h) => ht[h] = "done"
    <2>1. CASE ht[h] \in Busy /\ r = q
      BY <1>1, <1>2, <2>1
    <2>2. CASE ht[h] = "done" /\ r = Append(q, h)
      BY <1>1, <1>2, <2>2, Queued
    <2>3. QED
      BY <2>1, <2>2 DEF Moves
  <1>5. ASSUME NEW g \in Handles PROVE HandleOK(g, t.bc[g], ht[g], t.client, r)
    <2>1. HandleOK(g, s.bc[g], th[g], s.client, q)
      BY DEF StateOK
    <2>2. CASE g = h
      <3>1. ht[h] \in Busy \cup {"done"}
        BY DEF Moves
      <3>2. QED
        BY <1>3, <1>4, <2>2, <3>1 DEF HandleOK, Busy
    <2>3. CASE g # h
      <3>1. t.bc[g] = s.bc[g] /\ ht[g] = th[g] /\ t.client = s.client
        BY <2>3 DEF Moves
      <3>2. QED
        BY <1>4, <2>1, <2>3, <3>1 DEF HandleOK
    <2>4. QED
      BY <2>2, <2>3
  <1>6. ASSUME NEW d \in Clients PROVE ClientOK(d, t.client[d], t.bc)
    <2>1. ClientOK(d, s.client[d], s.bc) /\ t.client = s.client
      BY DEF StateOK, Moves
    <2>2. \A g \in Handles : /\ t.bc[g].state = s.bc[g].state
                             /\ t.bc[g].client = s.bc[g].client /\ t.bc[g].cmd = s.bc[g].cmd
      BY DEF Moves
    <2>3. s.client[d].handle # 0 => s.client[d].handle \in Handles
      BY <2>1 DEF ClientOK
    <2>4. s.client[d].handle # 0 =>
            LET g == s.client[d].handle
            IN  t.bc[g].state = s.bc[g].state /\ t.bc[g].client = s.bc[g].client /\ t.bc[g].cmd = s.bc[g].cmd
      BY <2>2, <2>3
    <2>5. QED
      BY <2>1, <2>4 DEF ClientOK
  <1>7. /\ DOMAIN t = SrvFields /\ DOMAIN t.client = Clients /\ DOMAIN t.bc = Handles /\ DOMAIN ht = Handles
    BY DEF StateOK, Moves
  <1>8. QED
    BY <1>4, <1>5, <1>6, <1>7 DEF StateOK

\* The pipe, the GIL and the counters are nothing to clients and handles.
LEMMA Aside ==
  ASSUME NEW s, NEW th, StateOK(s, th), NEW t, DOMAIN t = SrvFields, t.client = s.client, t.bc = s.bc,
         t.moduleUnblockedClients = s.moduleUnblockedClients
  PROVE  StateOK(t, th)
  BY DEF StateOK

----------------------------------------------------------------------------
\* Init: nobody is blocked.
LEMMA BlockInitOK ==
  BlockConstantsOK /\ BlockInit => BlockIInv
  <1> SUFFICES ASSUME BlockConstantsOK, BlockInit PROVE BlockIInv
    OBVIOUS
  <1>1. NoClient \notin Clients /\ blocking.MaxHandles \in Nat
    BY DEF BlockConstantsOK, BlockInit, NoClient, Clients
  <1>2. \A h \in Handles : ~Contains(<<>>, h)
    BY DEF Contains
  <1>3. ASSUME NEW c \in Clients PROVE ClientOK(c, srv.client[c], srv.bc)
    <2>1. srv.client[c] = [linked |-> TRUE, handle |-> 0, cmds |-> 0, replies |-> <<>>]
      BY DEF BlockInit
    <2>2. Rising(<<>>, 0)
      <3>1. <<>> \in Seq(Nat) /\ DOMAIN <<>> = {}
        OBVIOUS
      <3>2. QED
        BY <3>1 DEF Rising
    <2>3. QED
      BY <2>1, <2>2 DEF ClientOK, ClientFields
  <1>4. ASSUME NEW h \in Handles PROVE HandleOK(h, srv.bc[h], thread[h], srv.client, srv.moduleUnblockedClients)
    BY <1>2, <1>4 DEF BlockInit, HandleOK, Busy
  <1>5. StateOK(srv, thread)
    <2>1. <<>> \in Seq(Handles) /\ IsInjective(<<>>)
      BY DEF IsInjective
    <2>2. /\ DOMAIN srv = SrvFields /\ DOMAIN srv.client = Clients /\ DOMAIN srv.bc = Handles /\ DOMAIN thread = Handles
          /\ srv.moduleUnblockedClients = <<>>
      BY DEF BlockInit, SrvFields
    <2>3. QED
      BY <1>3, <1>4, <2>1, <2>2 DEF StateOK
  <1>6. LockOK(srv, main, thread)
    BY DEF BlockInit, LockOK, MainThread
  <1>7. QED
    BY <1>1, <1>5, <1>6 DEF BlockIInv

\* RM_BlockClient: the command is newer than any that was answered, and its
\* handle was not in use.
LEMMA BlockClientOK ==
  ASSUME BlockIInv, NEW c \in Clients, NEW h \in Handles, NEW multi \in BOOLEAN, NEW callback \in BOOLEAN,
         RM_BlockClient(c, h, multi, callback)
  PROVE  StateOK(srv', thread') /\ LockOK(srv', main', thread')
  <1> DEFINE k == srv.client[c]
             q == srv.moduleUnblockedClients
             m == k.cmds + 1
             b == [state |-> "live", client |-> IF multi THEN NoClient ELSE c,
                   reply_callback |-> callback, disconnect_callback |-> TRUE,
                   cmd |-> m, reply_client |-> FALSE, called |-> {}]
  <1>1. /\ DOMAIN srv = SrvFields /\ DOMAIN srv.client = Clients /\ DOMAIN srv.bc = Handles /\ DOMAIN thread = Handles
        /\ q \in Seq(Handles) /\ IsInjective(q)
        /\ ClientOK(c, k, srv.bc) /\ HandleOK(h, srv.bc[h], thread[h], srv.client, q)
        /\ NoClient \notin Clients
    BY DEF BlockIInv, StateOK
  <1>2. k.linked = TRUE /\ k.handle = 0 /\ srv.bc[h].state = "unused"
    BY <1>1 DEF RM_BlockClient, ClientOK
  <1>3. /\ DOMAIN srv' = SrvFields /\ DOMAIN srv'.client = Clients /\ DOMAIN srv'.bc = Handles /\ DOMAIN thread' = Handles
        /\ srv'.bc[h] = b /\ \A g \in Handles : g # h => srv'.bc[g] = srv.bc[g] /\ thread'[g] = thread[g]
        /\ thread'[h] = "work" /\ srv'.moduleUnblockedClients = q
        /\ \A d \in Clients : d # c => srv'.client[d] = srv.client[d]
        /\ srv'.pipe = srv.pipe /\ srv'.gil = srv.gil
    BY <1>1 DEF RM_BlockClient, addReply, SrvFields
  <1>4. /\ DOMAIN srv'.client[c] = ClientFields /\ srv'.client[c].linked = k.linked
        /\ srv'.client[c].cmds = m
        /\ multi => srv'.client[c].replies = Append(k.replies, m) /\ srv'.client[c].handle = 0
        /\ ~multi => srv'.client[c].replies = k.replies /\ srv'.client[c].handle = h
    <2>1. /\ multi => srv'.client[c] = [k EXCEPT !.cmds = m, !.replies = Append(k.replies, m)]
          /\ ~multi => srv'.client[c] = [k EXCEPT !.cmds = m, !.handle = h]
      BY <1>1 DEF RM_BlockClient, addReply, SrvFields, ClientOK, ClientFields
    <2>2. DOMAIN k = {"linked", "handle", "cmds", "replies"} /\ k.handle = 0
      BY <1>1, <1>2 DEF ClientOK, ClientFields
    <2>3. CASE multi
      BY <2>1, <2>2, <2>3 DEF ClientFields
    <2>4. CASE ~multi
      BY <2>1, <2>2, <2>4 DEF ClientFields
    <2>5. QED
      BY <2>3, <2>4
  <1>5. Rising(k.replies, k.cmds) /\ m \in Nat /\ k.cmds \in Nat /\ k.cmds <= m /\ \A i \in DOMAIN k.replies : k.replies[i] < m
    <2>1. Rising(k.replies, k.cmds) /\ k.cmds \in Nat
      BY <1>1 DEF ClientOK, Rising
    <2>2. \A i \in DOMAIN k.replies : k.replies[i] \in Nat /\ k.replies[i] <= k.cmds
      BY <2>1 DEF Rising
    <2> HIDE DEF k
    <2>3. QED
      BY <2>1, <2>2
  <1>6. /\ Rising(Append(k.replies, m), m)
        /\ \A e : Contains(k.replies, e) => Contains(Append(k.replies, m), e)
    <2>1. PICK R, M : R = k.replies /\ M = k.cmds
      OBVIOUS
    <2>2. Rising(R, M) /\ m \in Nat /\ M \in Nat /\ M <= m /\ \A i \in DOMAIN R : R[i] < m
      BY Zenon, <1>5, <2>1
    <2> HIDE DEF k, m
    <2>3. Rising(Append(R, m), m) /\ \A e : Contains(R, e) => Contains(Append(R, m), e)
      BY <2>2, ReplyRises
    <2>4. QED
      BY Zenon, <2>1, <2>3
  <1>7. Rising(srv'.client[c].replies, srv'.client[c].cmds) /\ \A e : Contains(k.replies, e) => Contains(srv'.client[c].replies, e)
    <2>1. CASE multi
      BY <1>4, <1>6, <2>1
    <2>2. CASE ~multi
      <3>1. Rising(k.replies, m)
        BY Zenon, <1>5, RisesOn
      <3>2. QED
        BY <1>4, <2>2, <3>1
    <2>3. QED
      BY <2>1, <2>2
  <1>8. 0 \notin Handles
    BY DEF Handles
  <1>9. ASSUME NEW d \in Clients PROVE ClientOK(d, srv'.client[d], srv'.bc)
    <2>1. CASE d = c
      <3>1. srv'.client[c].handle \in Handles \cup {0} /\ srv'.client[c].linked \in BOOLEAN
        BY <1>2, <1>4
      <3>2. srv'.client[c].handle # 0 => /\ srv'.client[c].handle = h /\ srv'.bc[h].client = c
                                         /\ srv'.bc[h].cmd = m /\ srv'.bc[h].state = "live"
                                         /\ srv'.client[c].replies = k.replies
        <4>1. CASE multi
          BY <1>4, <4>1
        <4>2. CASE ~multi
          <5>1. b.client = c /\ b.cmd = m /\ b.state = "live"
            BY <4>2
          <5>2. srv'.bc[h].client = c /\ srv'.bc[h].cmd = m /\ srv'.bc[h].state = "live"
            BY <1>3, <5>1
          <5>3. QED
            BY <1>4, <4>2, <5>2
        <4>3. QED
          BY <4>1, <4>2
      <3>3. QED
        BY <1>2, <1>4, <1>5, <1>7, <2>1, <3>1, <3>2 DEF ClientOK
    <2>2. CASE d # c
      <3>1. ClientOK(d, srv.client[d], srv.bc)
        BY DEF BlockIInv, StateOK
      <3>2. srv.client[d].handle # 0 => srv.client[d].handle \in Handles /\ srv.client[d].handle # h
        BY <1>2, <3>1 DEF ClientOK
      <3>3. srv.client[d].handle # 0 => srv'.bc[srv.client[d].handle] = srv.bc[srv.client[d].handle]
        BY <1>3, <3>2
      <3>4. srv'.client[d] = srv.client[d]
        BY <1>3, <2>2
      <3>5. QED
        BY <3>1, <3>3, <3>4 DEF ClientOK
    <2>3. QED
      BY <2>1, <2>2
  <1>10. ASSUME NEW g \in Handles PROVE HandleOK(g, srv'.bc[g], thread'[g], srv'.client, q)
    <2>1. HandleOK(g, srv.bc[g], thread[g], srv.client, q)
      BY DEF BlockIInv, StateOK
    <2>2. CASE g = h
      <3>1. CalledOK(h, b, srv'.client)
        <4>1. DOMAIN b = HandleFields
          BY DEF HandleFields
        <4>2. b.client # NoClient => b.client = c /\ srv'.client[c].handle = h /\ srv'.client[c].linked
          BY <1>2, <1>4
        <4>3. QED
          BY <1>5, <4>1, <4>2 DEF CalledOK
      <3>2. ~Contains(q, h)
        BY <1>1, <1>2 DEF HandleOK
      <3>3. srv'.bc[h] = b /\ thread'[h] = "work" /\ b.state = "live"
        BY <1>3
      <3> HIDE DEF b
      <3>4. QED
        BY <2>2, <3>1, <3>2, <3>3 DEF HandleOK, Busy
    <2>3. CASE g # h
      <3>1. ASSUME thread[g] # "none" PROVE CalledOK(g, srv.bc[g], srv'.client)
        <4>1. CalledOK(g, srv.bc[g], srv.client)
          BY <2>1, <3>1 DEF HandleOK
        <4>2. srv.bc[g].state = "live" /\ srv.bc[g].client # NoClient => srv.bc[g].client # c /\ srv.bc[g].client \in Clients
          BY <1>2, <1>8, <4>1 DEF CalledOK
        <4>3. \A e : (\E d \in Clients : Contains(srv.client[d].replies, e)) => \E d \in Clients : Contains(srv'.client[d].replies, e)
          BY <1>3, <1>7
        <4>4. QED
          BY <1>3, <4>1, <4>2, <4>3 DEF CalledOK
      <3>2. QED
        BY <1>3, <2>1, <2>3, <3>1 DEF HandleOK
    <2>4. QED
      BY <2>2, <2>3
  <1>11. StateOK(srv', thread')
    BY <1>1, <1>3, <1>9, <1>10 DEF StateOK
  <1>12. LockOK(srv', main', thread')
    <2>1. main' = main /\ LockOK(srv, main, thread)
      BY DEF BlockIInv, RM_BlockClient
    <2>2. \A g \in Handles : thread'[g] = "locked" => thread[g] = "locked"
      BY <1>3
    <2>3. QED
      BY <1>3, <2>1, <2>2 DEF LockOK
  <1>13. QED
    BY <1>11, <1>12

\* A blocked client and its handle.
LEMMA BlockedClient ==
  ASSUME BlockIInv, NEW c \in Clients, srv.client[c].handle # 0
  PROVE  LET h == srv.client[c].handle
             k == srv.client[c]
         IN  /\ h \in Handles /\ srv.bc[h].state = "live" /\ srv.bc[h].client = c /\ thread[h] # "none"
             /\ DOMAIN srv = SrvFields /\ DOMAIN srv.client = Clients /\ DOMAIN srv.bc = Handles
             /\ DOMAIN k = ClientFields /\ k.linked = TRUE /\ Rising(k.replies, k.cmds) /\ k.cmds \in Nat
             /\ CalledOK(h, srv.bc[h], srv.client) /\ srv.bc[h].called = {} /\ srv.bc[h].cmd = k.cmds
             /\ \A i \in DOMAIN k.replies : k.replies[i] < k.cmds
  <1> DEFINE h == srv.client[c].handle
  <1>1. ClientOK(c, srv.client[c], srv.bc)
    BY DEF BlockIInv, StateOK
  <1>2. h \in Handles /\ srv.bc[h].state = "live" /\ srv.bc[h].client = c /\ c # NoClient
    BY <1>1 DEF ClientOK, BlockIInv
  <1>3. HandleOK(h, srv.bc[h], thread[h], srv.client, srv.moduleUnblockedClients)
    BY <1>2 DEF BlockIInv, StateOK
  <1>4. thread[h] # "none"
    <2>1. NoHandle.state # "live"
      BY DEF NoHandle
    <2>2. QED
      BY <1>2, <1>3, <2>1 DEF HandleOK
  <1>5. CalledOK(h, srv.bc[h], srv.client)
    BY <1>3, <1>4 DEF HandleOK
  <1>6. srv.bc[h].called = {}
    BY <1>2, <1>5 DEF CalledOK
  <1>7. QED
    BY <1>1, <1>2, <1>4, <1>5, <1>6 DEF ClientOK, BlockIInv, StateOK, Rising

\* moduleBlockedClientTimedOut: the timeout answers the newest command, and
\* the disconnect callback is not called.
LEMMA TimedOutOK ==
  ASSUME BlockIInv, NEW c \in Clients, moduleBlockedClientTimedOut(c)
  PROVE  StateOK(srv', thread') /\ LockOK(srv', main', thread')
  <1>0. PICK h : h = srv.client[c].handle
    OBVIOUS
  <1> DEFINE k == srv.client[c]
             b == srv.bc[h]
             s == [addReply(srv, c, b.cmd) EXCEPT !.bc[h].called = @ \cup {"timeout"}, !.bc[h].disconnect_callback = FALSE]
  <1>1. /\ h \in Handles /\ b.state = "live" /\ b.client = c /\ thread[h] # "none"
        /\ DOMAIN srv = SrvFields /\ DOMAIN srv.client = Clients /\ DOMAIN srv.bc = Handles
        /\ DOMAIN k = ClientFields /\ k.linked = TRUE /\ Rising(k.replies, k.cmds) /\ k.cmds \in Nat
        /\ CalledOK(h, b, srv.client) /\ b.called = {} /\ b.cmd = k.cmds
        /\ \A i \in DOMAIN k.replies : k.replies[i] < k.cmds
    BY <1>0, BlockedClient DEF moduleBlockedClientTimedOut
  <1>2. /\ DOMAIN b = HandleFields /\ b.cmd \in Nat /\ b.reply_callback \in BOOLEAN /\ b.reply_client \in BOOLEAN
    BY <1>1 DEF CalledOK
  <1>3. /\ DOMAIN s = SrvFields /\ DOMAIN s.client = Clients /\ DOMAIN s.bc = Handles
        /\ \A d \in Clients : d # c => s.client[d] = srv.client[d]
        /\ \A g \in Handles : g # h => s.bc[g] = srv.bc[g]
        /\ s.moduleUnblockedClients = srv.moduleUnblockedClients /\ s.pipe = srv.pipe /\ s.gil = srv.gil
        /\ s.client[c] = [k EXCEPT !.replies = Append(k.replies, b.cmd)]
    BY <1>1 DEF addReply, SrvFields
  <1>4. s.bc[h] = [[b EXCEPT !.called = {"timeout"}] EXCEPT !.disconnect_callback = FALSE]
    BY <1>1, <1>2 DEF addReply, SrvFields, HandleFields
  <1>5. DOMAIN s.bc[h] = HandleFields /\ s.bc[h].disconnect_callback = FALSE /\ s.bc[h].called = {"timeout"}
        /\ \A x \in HandleFields \ {"called", "disconnect_callback"} : s.bc[h][x] = b[x]
    <2>1. "called" \in DOMAIN b /\ "disconnect_callback" \in DOMAIN b
      BY <1>2 DEF HandleFields
    <2>2. PICK f : f = [b EXCEPT !.called = {"timeout"}]
      OBVIOUS
    <2>3. DOMAIN f = DOMAIN b /\ f.called = {"timeout"} /\ \A x \in DOMAIN b : x # "called" => f[x] = b[x]
      BY Zenon, <2>1, <2>2
    <2>4. s.bc[h] = [f EXCEPT !.disconnect_callback = FALSE]
      BY Zenon, <1>4, <2>2
    <2>5. /\ DOMAIN s.bc[h] = DOMAIN f /\ s.bc[h].disconnect_callback = FALSE
          /\ \A x \in DOMAIN f : x # "disconnect_callback" => s.bc[h][x] = f[x]
      <3> HIDE DEF s
      <3>1. QED
        BY Zenon, <2>1, <2>3, <2>4
    <2>6. "called" # "disconnect_callback"
      OBVIOUS
    <2> HIDE DEF s, b
    <2>7. QED
      BY Zenon, <1>2, <2>1, <2>3, <2>5, <2>6
  <1>7. srv' = unblockClientFromModule(s, c) /\ thread' = thread /\ main' = main
    BY <1>0 DEF moduleBlockedClientTimedOut
  <1> HIDE DEF s
  <1>6. /\ DOMAIN s.client[c] = ClientFields /\ s.client[c].linked = TRUE /\ s.client[c].handle = h
        /\ s.client[c].cmds = k.cmds /\ s.client[c].replies = Append(k.replies, k.cmds)
    <2>1. DOMAIN k = {"linked", "handle", "cmds", "replies"} /\ k.handle = h /\ k.linked = TRUE
      BY <1>0, <1>1 DEF ClientFields
    <2>2. s.client[c] = [k EXCEPT !.replies = Append(k.replies, k.cmds)]
      BY <1>1, <1>3
    <2> HIDE DEF k
    <2>3. QED
      BY <2>1, <2>2 DEF ClientFields
  <1>8. /\ DOMAIN srv' = SrvFields /\ DOMAIN srv'.client = Clients /\ DOMAIN srv'.bc = Handles
        /\ \A d \in Clients : d # c => srv'.client[d] = srv.client[d]
        /\ \A g \in Handles : g # h => srv'.bc[g] = srv.bc[g]
        /\ srv'.moduleUnblockedClients = srv.moduleUnblockedClients /\ srv'.pipe = srv.pipe /\ srv'.gil = srv.gil
        /\ srv'.client[c] = [s.client[c] EXCEPT !.handle = 0]
        /\ srv'.bc[h] = [s.bc[h] EXCEPT !.called = {"timeout"}, !.client = NoClient]
    <2>1. srv' = [s EXCEPT !.bc[h].called = IF s.bc[h].disconnect_callback THEN @ \cup {"disconnect"} ELSE @,
                           !.bc[h].client = NoClient, !.client[c].handle = 0]
      BY <1>6, <1>7 DEF unblockClientFromModule
    <2>2. srv'.bc[h] = [s.bc[h] EXCEPT !.called = {"timeout"}, !.client = NoClient]
      BY <1>1, <1>3, <1>5, <2>1 DEF SrvFields, HandleFields
    <2>3. QED
      BY <1>1, <1>3, <2>1, <2>2 DEF SrvFields
  <1>9. /\ DOMAIN srv'.client[c] = ClientFields /\ srv'.client[c].linked = TRUE /\ srv'.client[c].handle = 0
        /\ srv'.client[c].cmds = k.cmds /\ srv'.client[c].replies = Append(k.replies, k.cmds)
    BY <1>6, <1>8 DEF ClientFields
  <1>10. /\ Rising(Append(k.replies, k.cmds), k.cmds)
         /\ \A e : Contains(k.replies, e) => Contains(Append(k.replies, k.cmds), e)
    <2>0. \A v \in Nat : v <= v
      OBVIOUS
    <2>1. k.cmds <= k.cmds
      BY Zenon, <1>1, <2>0
    <2> HIDE DEF k
    <2>2. QED
      BY <1>1, <2>1, ReplyRises
  <1>11. /\ DOMAIN srv'.bc[h] = HandleFields /\ srv'.bc[h].client = NoClient /\ srv'.bc[h].called = {"timeout"}
         /\ \A x \in HandleFields \ {"called", "client"} : srv'.bc[h][x] = s.bc[h][x]
    BY <1>5, <1>8 DEF HandleFields
  <1>12. /\ srv'.bc[h].state = "live" /\ srv'.bc[h].cmd \in Nat /\ srv'.bc[h].reply_callback \in BOOLEAN
         /\ srv'.bc[h].disconnect_callback \in BOOLEAN /\ srv'.bc[h].reply_client \in BOOLEAN
    <2>1. /\ srv'.bc[h].state = s.bc[h].state /\ srv'.bc[h].cmd = s.bc[h].cmd
          /\ srv'.bc[h].reply_callback = s.bc[h].reply_callback
          /\ srv'.bc[h].disconnect_callback = s.bc[h].disconnect_callback
          /\ srv'.bc[h].reply_client = s.bc[h].reply_client
      BY <1>11 DEF HandleFields
    <2>2. /\ s.bc[h].state = b.state /\ s.bc[h].cmd = b.cmd /\ s.bc[h].reply_callback = b.reply_callback
          /\ s.bc[h].disconnect_callback = FALSE /\ s.bc[h].reply_client = b.reply_client
      BY <1>5 DEF HandleFields
    <2>3. QED
      BY <1>1, <1>2, <2>1, <2>2
  <1>13. StateOK(srv, thread) /\ NoClient \notin Clients /\ blocking.MaxHandles \in Nat
    BY DEF BlockIInv
  <1>14. StateOK(srv', thread)
    <2>1. /\ Rising(srv'.client[c].replies, srv'.client[c].cmds)
          /\ \A e : Contains(srv.client[c].replies, e) => Contains(srv'.client[c].replies, e)
      BY <1>9, <1>10
    <2>2. /\ srv'.bc[h].state = "live" /\ "served" \notin srv'.bc[h].called
          /\ srv'.moduleUnblockedClients = srv.moduleUnblockedClients
          /\ "disconnect" \in srv'.bc[h].called => srv'.bc[h].called = {"disconnect"}
          /\ srv'.client[c].linked \in BOOLEAN
      BY <1>8, <1>9, <1>11, <1>12
    <2>3. /\ DOMAIN srv' = SrvFields /\ DOMAIN srv'.client = Clients /\ DOMAIN srv'.bc = Handles
          /\ \A d \in Clients : d # c => srv'.client[d] = srv.client[d]
          /\ \A g \in Handles : g # h => srv'.bc[g] = srv.bc[g]
      BY <1>8
    <2>4. h \in Handles /\ srv.bc[h].state = "live" /\ srv.bc[h].client = c /\ thread[h] # "none"
      BY <1>1
    <2>5. DOMAIN srv'.client[c] = ClientFields /\ srv'.client[c].handle = 0
      BY <1>9
    <2>6. DOMAIN srv'.bc[h] = HandleFields /\ srv'.bc[h].client = NoClient
      BY <1>11
    <2>7. srv.moduleUnblockedClients \in Seq(Handles) /\ IsInjective(srv.moduleUnblockedClients)
      BY <1>13 DEF StateOK
    <2>8. LetGo(srv, thread, srv', c, h)
      BY <1>12, <2>1, <2>2, <2>3, <2>4, <2>5, <2>6, <2>7 DEF LetGo
    <2>9. QED
      BY <1>13, <2>4, <2>8, Released
  <1>15. LockOK(srv', main', thread')
    BY <1>7, <1>8 DEF BlockIInv, LockOK
  <1>16. QED
    BY <1>7, <1>14, <1>15

\* freeClient: the disconnect callback is called if the client was blocked.
LEMMA FreeClientOK ==
  ASSUME BlockIInv, NEW c \in Clients, freeClient(c)
  PROVE  StateOK(srv', thread') /\ LockOK(srv', main', thread')
  <1>0. PICK h : h = srv.client[c].handle
    OBVIOUS
  <1> DEFINE k == srv.client[c]
             b == srv.bc[h]
  <1>9. StateOK(srv, thread) /\ NoClient \notin Clients /\ blocking.MaxHandles \in Nat
    BY DEF BlockIInv
  <1>1. CASE h # 0
    <2>1. /\ h \in Handles /\ b.state = "live" /\ b.client = c /\ thread[h] # "none"
          /\ DOMAIN srv = SrvFields /\ DOMAIN srv.client = Clients /\ DOMAIN srv.bc = Handles
          /\ DOMAIN k = ClientFields /\ k.linked = TRUE /\ Rising(k.replies, k.cmds) /\ k.cmds \in Nat
          /\ CalledOK(h, b, srv.client) /\ b.called = {} /\ b.cmd = k.cmds
      BY <1>0, <1>1, BlockedClient
    <2>2. /\ DOMAIN b = HandleFields /\ b.cmd \in Nat /\ b.reply_callback \in BOOLEAN /\ b.reply_client \in BOOLEAN
          /\ b.disconnect_callback \in BOOLEAN
      BY <2>1 DEF CalledOK
    <2> DEFINE u == [srv EXCEPT !.bc[h].called = IF b.disconnect_callback THEN @ \cup {"disconnect"} ELSE @,
                                !.bc[h].client = NoClient, !.client[c].handle = 0]
    <2>a. srv' = [u EXCEPT !.client[c].linked = FALSE] /\ thread' = thread /\ main' = main
      BY <1>0, <1>1 DEF freeClient, unblockClientFromModule
    <2>b. /\ DOMAIN u = SrvFields /\ DOMAIN u.client = Clients /\ DOMAIN u.bc = Handles
          /\ \A d \in Clients : d # c => u.client[d] = srv.client[d]
          /\ \A g \in Handles : g # h => u.bc[g] = srv.bc[g]
          /\ u.moduleUnblockedClients = srv.moduleUnblockedClients /\ u.pipe = srv.pipe /\ u.gil = srv.gil
          /\ u.client[c] = [k EXCEPT !.handle = 0]
      BY <2>1 DEF SrvFields
    <2>c. u.bc[h] = [b EXCEPT !.called = IF b.disconnect_callback THEN {"disconnect"} ELSE {}, !.client = NoClient]
      BY <2>1, <2>2 DEF SrvFields, HandleFields
    <2> HIDE DEF u
    <2>3. /\ DOMAIN srv' = SrvFields /\ DOMAIN srv'.client = Clients /\ DOMAIN srv'.bc = Handles
          /\ \A d \in Clients : d # c => srv'.client[d] = srv.client[d]
          /\ \A g \in Handles : g # h => srv'.bc[g] = srv.bc[g]
          /\ srv'.moduleUnblockedClients = srv.moduleUnblockedClients /\ srv'.pipe = srv.pipe /\ srv'.gil = srv.gil
          /\ thread' = thread /\ main' = main
      BY <2>a, <2>b DEF SrvFields
    <2>4. srv'.client[c] = [[k EXCEPT !.handle = 0] EXCEPT !.linked = FALSE]
      BY <2>a, <2>b DEF SrvFields
    <2>5. srv'.bc[h] = [b EXCEPT !.called = IF b.disconnect_callback THEN {"disconnect"} ELSE {}, !.client = NoClient]
      BY <2>a, <2>b, <2>c DEF SrvFields
    <2>6. /\ DOMAIN srv'.client[c] = ClientFields /\ srv'.client[c].linked = FALSE /\ srv'.client[c].handle = 0
          /\ srv'.client[c].cmds = k.cmds /\ srv'.client[c].replies = k.replies
      BY <2>1, <2>4 DEF ClientFields
    <2>7. /\ DOMAIN srv'.bc[h] = HandleFields /\ srv'.bc[h].client = NoClient
          /\ srv'.bc[h].called = {"disconnect"} \/ srv'.bc[h].called = {}
          /\ \A x \in HandleFields \ {"called", "client"} : srv'.bc[h][x] = b[x]
      BY <2>2, <2>5 DEF HandleFields
    <2>8. /\ srv'.bc[h].state = "live" /\ srv'.bc[h].cmd \in Nat /\ srv'.bc[h].reply_callback \in BOOLEAN
          /\ srv'.bc[h].disconnect_callback \in BOOLEAN /\ srv'.bc[h].reply_client \in BOOLEAN
      BY <2>1, <2>2, <2>7 DEF HandleFields
    <2>9. "served" \notin srv'.bc[h].called /\ ("disconnect" \in srv'.bc[h].called => srv'.bc[h].called = {"disconnect"})
      BY <2>7
    <2>10. StateOK(srv', thread)
      <3>1. /\ Rising(srv'.client[c].replies, srv'.client[c].cmds) /\ srv'.client[c].linked \in BOOLEAN
            /\ \A e : Contains(srv.client[c].replies, e) => Contains(srv'.client[c].replies, e)
        BY <2>1, <2>6
      <3>2. srv.moduleUnblockedClients \in Seq(Handles) /\ IsInjective(srv.moduleUnblockedClients)
        BY <1>9 DEF StateOK
      <3>3. LetGo(srv, thread, srv', c, h)
        BY <2>1, <2>3, <2>6, <2>7, <2>8, <2>9, <3>1, <3>2 DEF LetGo
      <3>4. QED
        BY <1>9, <2>1, <3>3, Released
    <2>11. LockOK(srv', main', thread')
      BY <2>3 DEF BlockIInv, LockOK
    <2>12. QED
      BY <2>3, <2>10, <2>11
  <1>2. CASE h = 0
    <2>1. /\ DOMAIN srv = SrvFields /\ DOMAIN srv.client = Clients /\ DOMAIN k = ClientFields /\ ClientOK(c, k, srv.bc)
      BY <1>9 DEF StateOK, ClientOK
    <2>2. srv' = [srv EXCEPT !.client[c].linked = FALSE] /\ thread' = thread /\ main' = main
      BY <1>0, <1>2 DEF freeClient
    <2>3. /\ DOMAIN srv' = SrvFields /\ DOMAIN srv'.client = Clients /\ srv'.bc = srv.bc
          /\ \A d \in Clients : d # c => srv'.client[d] = srv.client[d]
          /\ srv'.client[c] = [k EXCEPT !.linked = FALSE]
          /\ srv'.moduleUnblockedClients = srv.moduleUnblockedClients /\ srv'.pipe = srv.pipe /\ srv'.gil = srv.gil
      BY <2>1, <2>2 DEF SrvFields
    <2>4. /\ DOMAIN srv'.client[c] = ClientFields /\ srv'.client[c].linked = FALSE /\ srv'.client[c].handle = 0
          /\ srv'.client[c].cmds = k.cmds /\ srv'.client[c].replies = k.replies
      BY <1>0, <1>2, <2>1, <2>3 DEF ClientFields
    <2>5. ASSUME NEW d \in Clients PROVE ClientOK(d, srv'.client[d], srv'.bc)
      <3>1. ClientOK(d, srv.client[d], srv.bc)
        BY <1>9 DEF StateOK
      <3>2. CASE d = c
        BY <2>4, <3>1, <3>2 DEF ClientOK
      <3>3. QED
        BY <2>3, <3>1, <3>2
    <2>6. ASSUME NEW g \in Handles PROVE HandleOK(g, srv'.bc[g], thread'[g], srv'.client, srv'.moduleUnblockedClients)
      <3>1. HandleOK(g, srv.bc[g], thread[g], srv.client, srv.moduleUnblockedClients)
        BY <1>9 DEF StateOK
      <3>2. ASSUME thread[g] # "none" PROVE CalledOK(g, srv.bc[g], srv'.client)
        <4>1. CalledOK(g, srv.bc[g], srv.client)
          BY <3>1, <3>2 DEF HandleOK
        <4>0. g # 0
          BY DEF Handles
        <4>2. srv.bc[g].state = "live" /\ srv.bc[g].client # NoClient => srv.bc[g].client # c /\ srv.bc[g].client \in Clients
          BY <1>0, <1>2, <4>0, <4>1 DEF CalledOK
        <4>3. \A e : (\E d \in Clients : Contains(srv.client[d].replies, e)) => \E d \in Clients : Contains(srv'.client[d].replies, e)
          BY <2>3, <2>4
        <4>4. QED
          BY <2>3, <4>1, <4>2, <4>3 DEF CalledOK
      <3>3. QED
        BY <2>2, <2>3, <3>1, <3>2 DEF HandleOK
    <2>7. StateOK(srv', thread')
      BY <1>9, <2>2, <2>3, <2>5, <2>6 DEF StateOK
    <2>8. LockOK(srv', main', thread')
      BY <2>2, <2>3 DEF BlockIInv, LockOK
    <2>9. QED
      BY <2>7, <2>8
  <1>3. QED
    BY <1>1, <1>2

\* The steps of the thread of a handle.
LEMMA ThreadOK ==
  ASSUME BlockIInv, NEW h \in Handles,
         \/ ThreadReplies(h) \/ RM_UnblockClient(h) \/ RM_AbortBlock(h)
         \/ RM_ThreadSafeContextLock(h) \/ RM_ThreadSafeContextUnlock(h)
  PROVE  StateOK(srv', thread') /\ LockOK(srv', main', thread')
  <1> DEFINE b == srv.bc[h]
             q == srv.moduleUnblockedClients
  <1>1. /\ StateOK(srv, thread) /\ NoClient \notin Clients /\ LockOK(srv, main, thread)
        /\ DOMAIN srv = SrvFields /\ DOMAIN srv.bc = Handles /\ DOMAIN thread = Handles /\ q \in Seq(Handles)
    BY DEF BlockIInv, StateOK
  <1>2. thread[h] \in Busy
    BY DEF ThreadReplies, RM_UnblockClient, RM_AbortBlock, RM_ThreadSafeContextLock, RM_ThreadSafeContextUnlock, Busy
  <1>3. CalledOK(h, b, srv.client)
    BY <1>1, <1>2 DEF StateOK, HandleOK, Busy
  <1>4. /\ DOMAIN b = HandleFields /\ b.reply_callback \in BOOLEAN /\ b.disconnect_callback \in BOOLEAN
        /\ b.reply_client \in BOOLEAN
    BY <1>3 DEF CalledOK
  <1>5. 0 \notin Handles /\ MainThread \notin Handles /\ MainThread # Nobody /\ Nobody = 0
    BY DEF Handles, MainThread, Nobody
  <1>6. CASE ThreadReplies(h)
    <2>0. thread' = thread /\ main' = main
      BY <1>6 DEF ThreadReplies
    <2>1. srv' = [srv EXCEPT !.bc[h].reply_client = TRUE]
      BY <1>6 DEF ThreadReplies
    <2>2. /\ DOMAIN srv' = SrvFields /\ srv'.client = srv.client /\ DOMAIN srv'.bc = Handles
          /\ \A g \in Handles : g # h => srv'.bc[g] = srv.bc[g]
          /\ srv'.moduleUnblockedClients = q
          /\ srv'.pipe = srv.pipe /\ srv'.gil = srv.gil
      BY <1>1, <2>1 DEF SrvFields
    <2>3. /\ DOMAIN srv'.bc[h] = HandleFields /\ \A x \in {"state", "client", "cmd", "called"} : srv'.bc[h][x] = b[x]
          /\ srv'.bc[h].reply_callback \in BOOLEAN /\ srv'.bc[h].disconnect_callback \in BOOLEAN
          /\ srv'.bc[h].reply_client \in BOOLEAN
      <3>1. srv'.bc[h] = [b EXCEPT !.reply_client = TRUE]
        BY <1>1, <2>1 DEF SrvFields, Queue
      <3>2. QED
        BY <1>4, <3>1 DEF HandleFields
    <2>4. StateOK(srv', thread')
      <3>1. Moves(srv, thread, srv', thread', h)
        BY <1>1, <1>2, <2>0, <2>2, <2>3 DEF Moves, Busy
      <3>2. QED
        BY <1>1, <3>1, ThreadStep
    <2>5. LockOK(srv', main', thread')
      BY <1>1, <2>0, <2>2 DEF LockOK
    <2>6. QED
      BY <2>4, <2>5
  <1>7. CASE RM_UnblockClient(h)
    <2>1. /\ srv' = Queue(srv, h) /\ main' = main /\ thread' = [thread EXCEPT ![h] = "done"]
      BY <1>7 DEF RM_UnblockClient
    <2>2. /\ DOMAIN srv' = SrvFields /\ srv'.client = srv.client /\ srv'.bc = srv.bc
          /\ srv'.moduleUnblockedClients = Append(q, h) /\ srv'.gil = srv.gil
          /\ srv'.pipe = IF srv.pipe < 2 THEN srv.pipe + 1 ELSE srv.pipe
      BY <1>1, <2>1 DEF SrvFields, Queue
    <2>3. /\ thread'[h] = "done" /\ DOMAIN thread' = Handles /\ \A g \in Handles : g # h => thread'[g] = thread[g]
      BY <1>1, <2>1
    <2>4. StateOK(srv', thread')
      <3>1. Moves(srv, thread, srv', thread', h)
        BY <1>1, <1>2, <1>4, <2>2, <2>3 DEF Moves, Busy
      <3>2. QED
        BY <1>1, <3>1, ThreadStep
    <2>5. LockOK(srv', main', thread')
      <3>1. srv'.pipe \in 0..2 /\ srv'.pipe > 0
        <4>1. srv.pipe \in 0..2
          BY <1>1 DEF LockOK
        <4>2. ASSUME NEW p \in 0..2 PROVE (IF p < 2 THEN p + 1 ELSE p) \in 1..2
          OBVIOUS
        <4>3. srv'.pipe \in 1..2
          BY Zenon, <2>2, <4>1, <4>2
        <4>4. QED
          BY <4>3
      <3>2. \A g \in Handles : thread'[g] = "locked" => srv'.gil = g
        BY <1>1, <2>2, <2>3 DEF LockOK
      <3>3. /\ main' = main /\ srv'.gil = srv.gil
            /\ main \in {"awake", "serving", "leaving", "asleep"} /\ (main = "asleep") = (srv.gil # MainThread)
        BY <1>1, <2>1, <2>2 DEF LockOK
      <3>4. QED
        BY <3>1, <3>2, <3>3 DEF LockOK
    <2>6. QED
      BY <2>4, <2>5
  <1>8. CASE RM_AbortBlock(h) /\ thread[h] = "work"
    <2>1. srv' = [srv EXCEPT !.bc[h].reply_callback = FALSE] /\ main' = main /\ thread' = [thread EXCEPT ![h] = "abort"]
      BY <1>8 DEF RM_AbortBlock
    <2>2. /\ DOMAIN srv' = SrvFields /\ srv'.client = srv.client /\ DOMAIN srv'.bc = Handles
          /\ \A g \in Handles : g # h => srv'.bc[g] = srv.bc[g]
          /\ srv'.moduleUnblockedClients = q
          /\ srv'.pipe = srv.pipe /\ srv'.gil = srv.gil
      BY <1>1, <2>1 DEF SrvFields
    <2>3. /\ DOMAIN srv'.bc[h] = HandleFields /\ \A x \in {"state", "client", "cmd", "called"} : srv'.bc[h][x] = b[x]
          /\ srv'.bc[h].reply_callback \in BOOLEAN /\ srv'.bc[h].disconnect_callback \in BOOLEAN
          /\ srv'.bc[h].reply_client \in BOOLEAN
      <3>1. srv'.bc[h] = [b EXCEPT !.reply_callback = FALSE]
        BY <1>1, <2>1 DEF SrvFields, Queue
      <3>2. QED
        BY <1>4, <3>1 DEF HandleFields
    <2>4. /\ thread'[h] = "abort" /\ DOMAIN thread' = Handles /\ \A g \in Handles : g # h => thread'[g] = thread[g]
      BY <1>1, <2>1
    <2>5. StateOK(srv', thread')
      <3>1. Moves(srv, thread, srv', thread', h)
        BY <1>1, <1>2, <2>2, <2>3, <2>4 DEF Moves, Busy
      <3>2. QED
        BY <1>1, <3>1, ThreadStep
    <2>6. LockOK(srv', main', thread')
      BY <1>1, <2>1, <2>2, <2>4 DEF LockOK
    <2>7. QED
      BY <2>5, <2>6
  <1>9. CASE RM_AbortBlock(h) /\ thread[h] = "abort"
    <2>1. /\ srv' = Queue([srv EXCEPT !.bc[h].disconnect_callback = FALSE], h)
          /\ thread' = [thread EXCEPT ![h] = "done"]
      BY <1>9 DEF RM_AbortBlock
    <2>0. main' = main
      BY <1>9 DEF RM_AbortBlock
    <2>2. /\ DOMAIN srv' = SrvFields /\ srv'.client = srv.client /\ DOMAIN srv'.bc = Handles
          /\ \A g \in Handles : g # h => srv'.bc[g] = srv.bc[g]
          /\ srv'.moduleUnblockedClients = Append(q, h)
          /\ srv'.pipe = (IF srv.pipe < 2 THEN srv.pipe + 1 ELSE srv.pipe) /\ srv'.gil = srv.gil
      BY <1>1, <2>1 DEF SrvFields, Queue
    <2>3. /\ DOMAIN srv'.bc[h] = HandleFields /\ \A x \in {"state", "client", "cmd", "called"} : srv'.bc[h][x] = b[x]
          /\ srv'.bc[h].reply_callback \in BOOLEAN /\ srv'.bc[h].disconnect_callback \in BOOLEAN
          /\ srv'.bc[h].reply_client \in BOOLEAN
      <3>1. srv'.bc[h] = [b EXCEPT !.disconnect_callback = FALSE]
        BY <1>1, <2>1 DEF SrvFields, Queue
      <3>2. QED
        BY <1>4, <3>1 DEF HandleFields
    <2>4. /\ thread'[h] = "done" /\ DOMAIN thread' = Handles /\ \A g \in Handles : g # h => thread'[g] = thread[g]
      BY <1>1, <2>1
    <2>5. StateOK(srv', thread')
      <3>1. Moves(srv, thread, srv', thread', h)
        BY <1>1, <1>2, <2>2, <2>3, <2>4 DEF Moves, Busy
      <3>2. QED
        BY <1>1, <3>1, ThreadStep
    <2>6. LockOK(srv', main', thread')
      <3>1. srv'.pipe \in 0..2 /\ srv'.pipe > 0
        <4>1. srv.pipe \in 0..2
          BY <1>1 DEF LockOK
        <4>2. ASSUME NEW p \in 0..2 PROVE (IF p < 2 THEN p + 1 ELSE p) \in 1..2
          OBVIOUS
        <4>3. srv'.pipe \in 1..2
          BY Zenon, <2>2, <4>1, <4>2
        <4>4. QED
          BY <4>3
      <3>2. \A g \in Handles : thread'[g] = "locked" => srv'.gil = g
        BY <1>1, <2>2, <2>4 DEF LockOK
      <3>3. /\ main' = main /\ srv'.gil = srv.gil
            /\ main \in {"awake", "serving", "leaving", "asleep"} /\ (main = "asleep") = (srv.gil # MainThread)
        BY <1>1, <2>0, <2>2 DEF LockOK
      <3>4. QED
        BY <3>1, <3>2, <3>3 DEF LockOK
    <2>7. QED
      BY <2>5, <2>6
  <1>10. CASE RM_ThreadSafeContextLock(h)
    <2>1. /\ srv.gil = Nobody /\ srv' = [srv EXCEPT !.gil = h] /\ main' = main
          /\ thread' = [thread EXCEPT ![h] = "locked"]
      BY <1>10 DEF RM_ThreadSafeContextLock
    <2>2. /\ DOMAIN srv' = SrvFields /\ srv'.client = srv.client /\ srv'.bc = srv.bc
          /\ srv'.moduleUnblockedClients = q /\ srv'.pipe = srv.pipe /\ srv'.gil = h
      BY <1>1, <2>1 DEF SrvFields
    <2>3. /\ thread'[h] = "locked" /\ DOMAIN thread' = Handles /\ \A g \in Handles : g # h => thread'[g] = thread[g]
      BY <1>1, <2>1
    <2>4. StateOK(srv', thread')
      <3>1. Moves(srv, thread, srv', thread', h)
        BY <1>1, <1>2, <1>4, <2>2, <2>3 DEF Moves, Busy
      <3>2. QED
        BY <1>1, <3>1, ThreadStep
    <2>5. \A g \in Handles : thread'[g] = "locked" => g = h
      BY <1>1, <1>5, <2>1, <2>3 DEF LockOK
    <2>6. LockOK(srv', main', thread')
      BY <1>1, <1>5, <2>1, <2>2, <2>5 DEF LockOK
    <2>7. QED
      BY <2>4, <2>6
  <1>11. CASE RM_ThreadSafeContextUnlock(h)
    <2>1. /\ thread[h] = "locked" /\ srv' = [srv EXCEPT !.gil = Nobody] /\ main' = main
          /\ thread' = [thread EXCEPT ![h] = "work"]
      BY <1>11 DEF RM_ThreadSafeContextUnlock
    <2>2. /\ DOMAIN srv' = SrvFields /\ srv'.client = srv.client /\ srv'.bc = srv.bc
          /\ srv'.moduleUnblockedClients = q /\ srv'.pipe = srv.pipe /\ srv'.gil = Nobody
      BY <1>1, <2>1 DEF SrvFields
    <2>3. /\ thread'[h] = "work" /\ DOMAIN thread' = Handles /\ \A g \in Handles : g # h => thread'[g] = thread[g]
      BY <1>1, <2>1
    <2>4. StateOK(srv', thread')
      <3>1. Moves(srv, thread, srv', thread', h)
        BY <1>1, <1>2, <1>4, <2>2, <2>3 DEF Moves, Busy
      <3>2. QED
        BY <1>1, <3>1, ThreadStep
    <2>5. srv.gil = h /\ \A g \in Handles : thread'[g] # "locked"
      BY <1>1, <2>1, <2>3 DEF LockOK
    <2>6. LockOK(srv', main', thread')
      BY <1>1, <1>5, <2>1, <2>2, <2>5 DEF LockOK
    <2>7. QED
      BY <2>4, <2>6
  <1>12. QED
    BY <1>6, <1>7, <1>8, <1>9, <1>10, <1>11 DEF RM_AbortBlock

\* Serve: the first handle of the queue, which is freed.
LEMMA ServeOK ==
  ASSUME BlockIInv, srv.moduleUnblockedClients # <<>>
  PROVE  LET n == Serve([srv EXCEPT !.moduleUnblockedClients = Tail(@)], Head(srv.moduleUnblockedClients))
         IN  StateOK(n, thread) /\ n.pipe = srv.pipe /\ n.gil = srv.gil
  <1> DEFINE q == srv.moduleUnblockedClients
             o == [srv EXCEPT !.moduleUnblockedClients = Tail(@)]
  <1>0. PICK h : h = Head(q)
    OBVIOUS
  <1>c. PICK c : c = srv.bc[h].client
    OBVIOUS
  <1> DEFINE b == srv.bc[h]
  <1>1. /\ StateOK(srv, thread) /\ NoClient \notin Clients /\ blocking.MaxHandles \in Nat
        /\ DOMAIN srv = SrvFields /\ DOMAIN srv.client = Clients /\ DOMAIN srv.bc = Handles
        /\ q \in Seq(Handles) /\ IsInjective(q)
    BY DEF BlockIInv, StateOK
  <1>2. h \in Handles /\ Contains(q, h)
    BY <1>0, <1>1, Dequeued
  <1>3. b.state = "live" /\ thread[h] = "done" /\ CalledOK(h, b, srv.client)
    BY <1>1, <1>2 DEF StateOK, HandleOK
  <1>4. /\ DOMAIN b = HandleFields /\ c \in Clients \cup {NoClient} /\ b.cmd \in Nat
        /\ b.reply_callback \in BOOLEAN /\ b.disconnect_callback \in BOOLEAN /\ b.reply_client \in BOOLEAN
    BY <1>3, <1>c DEF CalledOK
  <1>5. /\ DOMAIN o = SrvFields /\ o.client = srv.client /\ o.bc = srv.bc /\ o.moduleUnblockedClients = Tail(q)
        /\ o.pipe = srv.pipe /\ o.gil = srv.gil
    BY <1>1 DEF SrvFields
  <1>6. PICK n : n = Serve(o, h)
    OBVIOUS
  <1>n. SUFFICES StateOK(n, thread) /\ n.pipe = srv.pipe /\ n.gil = srv.gil
    BY <1>0, <1>6
  <1> HIDE DEF o
  <1>7. CASE c = NoClient
    <2>1. n = [o EXCEPT !.bc[h].state = "freed"]
      BY <1>5, <1>6, <1>7, <1>c DEF Serve
    <2>2. /\ DOMAIN n = SrvFields /\ n.client = srv.client /\ n.bc = [srv.bc EXCEPT ![h].state = "freed"]
          /\ n.moduleUnblockedClients = Tail(q) /\ n.pipe = srv.pipe /\ n.gil = srv.gil
      BY <1>5, <2>1 DEF SrvFields
    <2>3. StateOK(n, thread)
      <3>1. Frees(srv, n, h)
        BY <1>0, <1>7, <1>c, <2>2 DEF Frees
      <3>2. QED
        BY <1>1, <1>2, <3>1, ServedNobody
    <2>4. QED
      BY <2>2, <2>3
  <1>8. CASE c # NoClient
    <2> DEFINE k == srv.client[c]
               replies == b.reply_callback \/ b.reply_client
               a == IF replies THEN addReply(o, c, b.cmd) ELSE o
               s == [a EXCEPT !.bc[h].disconnect_callback = FALSE, !.bc[h].called = @ \cup {"served"}]
    <2>1. c \in Clients /\ srv.client[c].handle = h /\ b.called = {}
      BY <1>3, <1>4, <1>8, <1>c DEF CalledOK
    <2>2. h # 0
      BY <1>2 DEF Handles
    <2>3. /\ DOMAIN k = ClientFields /\ k.linked = TRUE /\ Rising(k.replies, k.cmds) /\ k.cmds \in Nat /\ b.cmd = k.cmds
          /\ k.handle = h /\ \A i \in DOMAIN k.replies : k.replies[i] < k.cmds
      BY <2>1, <2>2, BlockedClient
    <2>4. n = [unblockClientFromModule(s, c) EXCEPT !.bc[h].state = "freed"]
      BY <1>5, <1>6, <1>8, <1>c DEF Serve
    <2>5. /\ DOMAIN a = SrvFields /\ DOMAIN a.client = Clients /\ a.bc = srv.bc
          /\ \A d \in Clients : d # c => a.client[d] = srv.client[d]
          /\ a.moduleUnblockedClients = Tail(q) /\ a.pipe = srv.pipe /\ a.gil = srv.gil
          /\ a.client[c] = IF replies THEN [k EXCEPT !.replies = Append(k.replies, b.cmd)] ELSE k
      BY <1>1, <1>5, <2>1 DEF addReply, SrvFields
    <2> HIDE DEF a
    <2>6. /\ DOMAIN s = SrvFields /\ s.client = a.client /\ DOMAIN s.bc = Handles
          /\ \A g \in Handles : g # h => s.bc[g] = srv.bc[g]
          /\ s.moduleUnblockedClients = Tail(q) /\ s.pipe = srv.pipe /\ s.gil = srv.gil
      BY <1>1, <1>2, <2>5 DEF SrvFields
    <2>7. s.bc[h] = [[b EXCEPT !.disconnect_callback = FALSE] EXCEPT !.called = {"served"}]
      BY <1>1, <1>2, <1>4, <2>1, <2>5 DEF SrvFields, HandleFields
    <2> HIDE DEF s
    <2>8. /\ DOMAIN s.bc[h] = HandleFields /\ s.bc[h].disconnect_callback = FALSE /\ s.bc[h].called = {"served"}
          /\ \A x \in HandleFields \ {"called", "disconnect_callback"} : s.bc[h][x] = b[x]
      BY <1>4, <2>7 DEF HandleFields
    <2>9. s.client[c].handle = h /\ DOMAIN s.client[c] = ClientFields
      BY <2>3, <2>5, <2>6 DEF ClientFields
    <2> DEFINE u == [s EXCEPT !.bc[h].called = IF s.bc[h].disconnect_callback THEN @ \cup {"disconnect"} ELSE @,
                              !.bc[h].client = NoClient, !.client[c].handle = 0]
    <2>10. n = [u EXCEPT !.bc[h].state = "freed"]
      BY <2>4, <2>9 DEF unblockClientFromModule
    <2>u. /\ DOMAIN u = SrvFields /\ DOMAIN u.client = Clients /\ DOMAIN u.bc = Handles
          /\ \A d \in Clients : d # c => u.client[d] = srv.client[d]
          /\ \A g \in Handles : g # h => u.bc[g] = srv.bc[g]
          /\ u.moduleUnblockedClients = Tail(q) /\ u.pipe = srv.pipe /\ u.gil = srv.gil
      BY <2>5, <2>6 DEF SrvFields
    <2>v. u.client[c] = [a.client[c] EXCEPT !.handle = 0]
      BY <2>1, <2>5, <2>6 DEF SrvFields
    <2>w. u.bc[h] = [s.bc[h] EXCEPT !.called = {"served"}, !.client = NoClient]
      BY <1>2, <2>6, <2>8 DEF SrvFields, HandleFields
    <2> HIDE DEF u
    <2>11. /\ DOMAIN n = SrvFields /\ DOMAIN n.client = Clients /\ DOMAIN n.bc = Handles
           /\ \A d \in Clients : d # c => n.client[d] = srv.client[d]
           /\ \A g \in Handles : g # h => n.bc[g] = srv.bc[g]
           /\ n.moduleUnblockedClients = Tail(q) /\ n.pipe = srv.pipe /\ n.gil = srv.gil
      BY <2>10, <2>u DEF SrvFields
    <2>12. n.client[c] = [a.client[c] EXCEPT !.handle = 0]
      BY <2>10, <2>u, <2>v DEF SrvFields
    <2>13. n.bc[h] = [[s.bc[h] EXCEPT !.called = {"served"}, !.client = NoClient] EXCEPT !.state = "freed"]
      BY <1>2, <2>10, <2>u, <2>w DEF SrvFields
    <2>14. /\ DOMAIN n.bc[h] = HandleFields /\ n.bc[h].called = {"served"} /\ n.bc[h].client = NoClient
           /\ n.bc[h].state = "freed"
           /\ \A x \in HandleFields \ {"called", "client", "state"} : n.bc[h][x] = s.bc[h][x]
      BY <2>8, <2>13 DEF HandleFields
    <2>15. /\ n.bc[h].cmd = k.cmds /\ n.bc[h].cmd \in Nat /\ n.bc[h].reply_callback = b.reply_callback
           /\ n.bc[h].reply_callback \in BOOLEAN
           /\ n.bc[h].disconnect_callback \in BOOLEAN /\ n.bc[h].reply_client \in BOOLEAN
      <3>1. /\ s.bc[h].cmd = b.cmd /\ s.bc[h].reply_callback = b.reply_callback
            /\ s.bc[h].disconnect_callback = FALSE /\ s.bc[h].reply_client = b.reply_client
        BY <2>8 DEF HandleFields
      <3>2. /\ n.bc[h].cmd = s.bc[h].cmd /\ n.bc[h].reply_callback = s.bc[h].reply_callback
            /\ n.bc[h].disconnect_callback = s.bc[h].disconnect_callback
            /\ n.bc[h].reply_client = s.bc[h].reply_client
        BY <2>14 DEF HandleFields
      <3>3. QED
        BY <1>4, <2>3, <3>1, <3>2
    <2>16. /\ DOMAIN n.client[c] = ClientFields /\ n.client[c].linked = TRUE /\ n.client[c].handle = 0
           /\ n.client[c].cmds = k.cmds
           /\ n.client[c].replies = IF replies THEN Append(k.replies, k.cmds) ELSE k.replies
      <3>1. DOMAIN k = {"linked", "handle", "cmds", "replies"} /\ k.linked = TRUE
        BY <2>3 DEF ClientFields
      <3>2. a.client[c] = IF replies THEN [k EXCEPT !.replies = Append(k.replies, k.cmds)] ELSE k
        BY <2>3, <2>5
      <3> HIDE DEF k
      <3>3. QED
        BY <2>12, <3>1, <3>2 DEF ClientFields
    <2>17. /\ Rising(n.client[c].replies, n.client[c].cmds)
           /\ \A e : Contains(srv.client[c].replies, e) => Contains(n.client[c].replies, e)
           /\ replies => Contains(n.client[c].replies, k.cmds)
      <3>1. /\ Rising(Append(k.replies, k.cmds), k.cmds) /\ Contains(Append(k.replies, k.cmds), k.cmds)
            /\ \A e : Contains(k.replies, e) => Contains(Append(k.replies, k.cmds), e)
        <4>0. \A v \in Nat : v <= v
          OBVIOUS
        <4>1. k.cmds <= k.cmds
          BY Zenon, <2>3, <4>0
        <4> HIDE DEF k
        <4>2. QED
          BY <2>3, <4>1, ReplyRises
      <3>2. CASE replies
        BY <2>16, <3>1, <3>2
      <3>3. CASE ~replies
        BY <2>3, <2>16, <3>3
      <3>4. QED
        BY <3>2, <3>3
    <2>18. StateOK(n, thread)
      <3>1. h \in Handles /\ srv.bc[h].state = "live" /\ srv.bc[h].client = c /\ thread[h] # "none"
        BY <1>2, <1>3, <1>c
      <3>2. n.bc[h].reply_callback => Contains(n.client[c].replies, n.bc[h].cmd)
        BY <2>15, <2>17
      <3>4. DOMAIN n.client[c] = ClientFields /\ n.client[c].handle = 0 /\ n.client[c].linked \in BOOLEAN
        BY <2>16
      <3>5. /\ DOMAIN n.bc[h] = HandleFields /\ n.bc[h].client = NoClient /\ n.bc[h].state = "freed"
            /\ "disconnect" \in n.bc[h].called => n.bc[h].called = {"disconnect"}
        BY <2>14
      <3>6. c \in Clients
        BY <2>1
      <3>7. /\ n.moduleUnblockedClients \in Seq(Handles) /\ IsInjective(n.moduleUnblockedClients)
            /\ ~Contains(n.moduleUnblockedClients, h) /\ thread[h] = "done"
            /\ \A g : Contains(n.moduleUnblockedClients, g) => Contains(srv.moduleUnblockedClients, g)
        <4>1. /\ Tail(q) \in Seq(Handles) /\ IsInjective(Tail(q)) /\ ~Contains(Tail(q), h)
              /\ \A g : Contains(Tail(q), g) => Contains(q, g)
          BY <1>0, <1>1, Dequeued
        <4>2. QED
          BY <1>3, <2>11, <4>1
      <3>8. /\ n.bc[h].cmd \in Nat /\ n.bc[h].reply_callback \in BOOLEAN
            /\ n.bc[h].disconnect_callback \in BOOLEAN /\ n.bc[h].reply_client \in BOOLEAN
        BY <2>15
      <3>9. StateOK(srv, thread) /\ NoClient \notin Clients /\ blocking.MaxHandles \in Nat
        BY <1>1
      <3>10. /\ DOMAIN n = SrvFields /\ DOMAIN n.client = Clients /\ DOMAIN n.bc = Handles
             /\ \A d \in Clients : d # c => n.client[d] = srv.client[d]
             /\ \A g \in Handles : g # h => n.bc[g] = srv.bc[g]
        BY <2>11
      <3>11. /\ Rising(n.client[c].replies, n.client[c].cmds)
             /\ \A e : Contains(srv.client[c].replies, e) => Contains(n.client[c].replies, e)
        BY <2>17
      <3>12. "served" \in n.bc[h].called /\ n.bc[h].state # "live"
        BY <2>14
      <3>13. LetGo(srv, thread, n, c, h)
        BY <3>1, <3>2, <3>4, <3>5, <3>7, <3>8, <3>10, <3>11, <3>12 DEF LetGo
      <3>14. QED
        BY <3>1, <3>6, <3>9, <3>13, Released
    <2>19. QED
      BY <2>11, <2>18
  <1>9. QED
    BY <1>7, <1>8

\* The loop of the main thread.
LEMMA MainOK ==
  ASSUME BlockIInv, HandleBegin \/ moduleHandleBlockedClients \/ moduleReleaseGIL \/ moduleAcquireGIL
  PROVE  StateOK(srv', thread') /\ LockOK(srv', main', thread')
  <1>1. StateOK(srv, thread) /\ LockOK(srv, main, thread) /\ DOMAIN srv = SrvFields
    BY DEF BlockIInv, StateOK
  <1>2. 0 \notin Handles /\ MainThread \notin Handles /\ MainThread # Nobody /\ Nobody = 0
    BY DEF Handles, MainThread, Nobody, BlockIInv
  <1>3. CASE HandleBegin
    <2>1. /\ DOMAIN srv' = SrvFields /\ srv'.client = srv.client /\ srv'.bc = srv.bc
          /\ srv'.moduleUnblockedClients = srv.moduleUnblockedClients /\ srv'.pipe = 0 /\ srv'.gil = srv.gil
          /\ thread' = thread /\ main = "awake" /\ main' = "serving"
      BY <1>1, <1>3 DEF HandleBegin, SrvFields
    <2>2. QED
      BY <1>1, <2>1, Aside DEF LockOK
  <1>4. CASE moduleHandleBlockedClients
    <2>1. CASE srv.moduleUnblockedClients # <<>>
      <3>1. /\ StateOK(srv', thread) /\ srv'.pipe = srv.pipe /\ srv'.gil = srv.gil
            /\ thread' = thread /\ main = "serving" /\ main' = main
        BY <1>4, <2>1, ServeOK DEF moduleHandleBlockedClients
      <3>2. QED
        BY <1>1, <3>1 DEF LockOK
    <2>2. CASE srv.moduleUnblockedClients = <<>>
      <3>1. srv' = srv /\ thread' = thread /\ main = "serving" /\ main' = "leaving"
        BY <1>4, <2>2 DEF moduleHandleBlockedClients
      <3>2. QED
        BY <1>1, <2>2, <3>1 DEF LockOK
    <2>3. QED
      BY <2>1, <2>2
  <1>5. CASE moduleReleaseGIL
    <2>1. /\ DOMAIN srv' = SrvFields /\ srv'.client = srv.client /\ srv'.bc = srv.bc
          /\ srv'.moduleUnblockedClients = srv.moduleUnblockedClients /\ srv'.pipe = srv.pipe /\ srv'.gil = Nobody
          /\ thread' = thread /\ main = "leaving" /\ main' = "asleep"
      BY <1>1, <1>5 DEF moduleReleaseGIL, SrvFields
    <2>2. \A h \in Handles : thread[h] # "locked"
      BY <1>1, <1>2, <2>1 DEF LockOK
    <2>3. QED
      BY <1>1, <1>2, <2>1, <2>2, Aside DEF LockOK
  <1>6. CASE moduleAcquireGIL
    <2>1. /\ DOMAIN srv' = SrvFields /\ srv'.client = srv.client /\ srv'.bc = srv.bc /\ srv.gil = Nobody
          /\ srv'.moduleUnblockedClients = srv.moduleUnblockedClients /\ srv'.pipe = srv.pipe /\ srv'.gil = MainThread
          /\ thread' = thread /\ main = "asleep" /\ main' = "awake"
      BY <1>1, <1>6 DEF moduleAcquireGIL, SrvFields
    <2>2. \A h \in Handles : thread[h] # "locked"
      BY <1>1, <1>2, <2>1 DEF LockOK
    <2>3. QED
      BY <1>1, <1>2, <2>1, <2>2, Aside DEF LockOK
  <1>7. QED
    BY <1>3, <1>4, <1>5, <1>6

\* A scenario stays what it is.
LEMMA SameScenario ==
  ASSUME blocking' = blocking, StateOK(srv', thread'), LockOK(srv', main', thread'),
         NoClient \notin Clients, blocking.MaxHandles \in Nat
  PROVE  BlockIInv'
  <1>1. Clients' = Clients /\ Handles' = Handles
    BY DEF Clients, Handles
  <1>2. StateOK(srv, thread)'
    <2>1. \A c \in Clients : (ClientOK(c, srv.client[c], srv.bc))'
      <3>1. ASSUME NEW c \in Clients PROVE (ClientOK(c, srv.client[c], srv.bc))'
        <4>1. ClientOK(c, srv'.client[c], srv'.bc)
          BY DEF StateOK
        <4>2. QED
          BY <1>1, <4>1 DEF ClientOK
      <3>2. QED
        BY <3>1
    <2>2. \A h \in Handles : (HandleOK(h, srv.bc[h], thread[h], srv.client, srv.moduleUnblockedClients))'
      <3>1. ASSUME NEW h \in Handles
            PROVE  (HandleOK(h, srv.bc[h], thread[h], srv.client, srv.moduleUnblockedClients))'
        <4>1. HandleOK(h, srv'.bc[h], thread'[h], srv'.client, srv'.moduleUnblockedClients)
          BY DEF StateOK
        <4>2. QED
          BY <1>1, <4>1 DEF HandleOK, CalledOK
      <3>2. QED
        BY <3>1
    <2>3. QED
      BY <1>1, <2>1, <2>2 DEF StateOK
  <1>3. LockOK(srv, main, thread)'
    BY <1>1 DEF LockOK
  <1>4. NoClient \notin Clients' /\ blocking'.MaxHandles \in Nat
    BY <1>1
  <1>5. QED
    BY <1>2, <1>3, <1>4 DEF BlockIInv

\* Every step keeps the invariant: one case for each group of actions.
LEMMA BlockNextOK ==
  BlockIInv /\ [BlockNext]_blockVars => BlockIInv'
  <1> SUFFICES ASSUME BlockIInv, [BlockNext]_blockVars PROVE BlockIInv'
    OBVIOUS
  <1>0. NoClient \notin Clients /\ blocking.MaxHandles \in Nat /\ StateOK(srv, thread) /\ LockOK(srv, main, thread)
    BY DEF BlockIInv
  <1>1. ASSUME NEW c \in Clients, NEW h \in Handles, NEW multi \in BOOLEAN, NEW callback \in BOOLEAN,
               RM_BlockClient(c, h, multi, callback)
        PROVE  BlockIInv'
    <2>1. blocking' = blocking
      BY <1>1 DEF RM_BlockClient
    <2>2. QED
      BY <1>0, <1>1, <2>1, BlockClientOK, SameScenario
  <1>2. ASSUME NEW c \in Clients, moduleBlockedClientTimedOut(c) PROVE BlockIInv'
    <2>1. blocking' = blocking
      BY <1>2 DEF moduleBlockedClientTimedOut
    <2>2. QED
      BY <1>0, <1>2, <2>1, TimedOutOK, SameScenario
  <1>3. ASSUME NEW c \in Clients, freeClient(c) PROVE BlockIInv'
    <2>1. blocking' = blocking
      BY <1>3 DEF freeClient
    <2>2. QED
      BY <1>0, <1>3, <2>1, FreeClientOK, SameScenario
  <1>4. ASSUME NEW h \in Handles,
               \/ ThreadReplies(h) \/ RM_UnblockClient(h) \/ RM_AbortBlock(h)
               \/ RM_ThreadSafeContextLock(h) \/ RM_ThreadSafeContextUnlock(h)
        PROVE  BlockIInv'
    <2>1. blocking' = blocking
      BY <1>4 DEF ThreadReplies, RM_UnblockClient, RM_AbortBlock, RM_ThreadSafeContextLock, RM_ThreadSafeContextUnlock
    <2>2. StateOK(srv', thread') /\ LockOK(srv', main', thread')
      BY <1>4, ThreadOK
    <2>3. QED
      BY <1>0, <2>1, <2>2, SameScenario
  <1>5. CASE HandleBegin \/ moduleHandleBlockedClients \/ moduleReleaseGIL \/ moduleAcquireGIL
    <2>1. blocking' = blocking
      BY <1>5 DEF HandleBegin, moduleHandleBlockedClients, moduleReleaseGIL, moduleAcquireGIL
    <2>2. QED
      BY <1>0, <1>5, <2>1, MainOK, SameScenario
  <1>6. CASE UNCHANGED blockVars
    <2>1. blocking' = blocking /\ srv' = srv /\ main' = main /\ thread' = thread
      BY <1>6 DEF blockVars
    <2>2. StateOK(srv', thread') /\ LockOK(srv', main', thread')
      BY <1>0, <2>1
    <2>3. QED
      BY <1>0, <2>1, <2>2, SameScenario
  <1>7. QED
    BY <1>1, <1>2, <1>3, <1>4, <1>5, <1>6 DEF BlockNext

\* The invariant says what was promised.
LEMMA BlockIInvSound ==
  BlockIInv => ModuleClientsSound
  <1> SUFFICES ASSUME BlockIInv PROVE ModuleClientsSound
    OBVIOUS
  <1>0. StateOK(srv, thread) /\ LockOK(srv, main, thread) /\ 0 \notin Handles
    BY DEF BlockIInv, Handles
  <1>1. ASSUME NEW c \in Clients
        PROVE  LET k == srv.client[c]
               IN  /\ \A i, j \in DOMAIN k.replies : i < j => k.replies[i] < k.replies[j]
                   /\ k.handle # 0 => /\ srv.bc[k.handle].state = "live" /\ srv.bc[k.handle].client = c
                                      /\ \A i \in DOMAIN k.replies : k.replies[i] < k.cmds
    BY <1>0, <1>1 DEF StateOK, ClientOK, Rising
  <1>2. ASSUME NEW h \in Handles
        PROVE  HandleOK(h, srv.bc[h], thread[h], srv.client, srv.moduleUnblockedClients)
    BY <1>0 DEF StateOK
  <1>3. ASSUME NEW h \in Handles, thread[h] = "none"
        PROVE  srv.bc[h].state = "unused"
    BY <1>2, <1>3 DEF HandleOK, NoHandle
  <1>4. ASSUME NEW h \in Live
        PROVE  LET c == srv.bc[h].client IN c # NoClient => srv.client[c].linked /\ srv.client[c].handle = h
    <2>1. h \in Handles /\ srv.bc[h].state = "live"
      BY DEF Live
    <2>2. CalledOK(h, srv.bc[h], srv.client)
      BY <1>2, <1>3, <2>1 DEF HandleOK
    <2>3. QED
      BY <2>1, <2>2 DEF CalledOK
  <1>5. IsInjective(srv.moduleUnblockedClients)
    BY <1>0 DEF StateOK
  <1>r. \A g : g \in Range(srv.moduleUnblockedClients) => Contains(srv.moduleUnblockedClients, g)
    <2>1. srv.moduleUnblockedClients \in Seq(Handles)
      BY Zenon, <1>0 DEF StateOK
    <2>2. DOMAIN srv.moduleUnblockedClients = 1..Len(srv.moduleUnblockedClients)
      BY <2>1
    <2>3. QED
      BY Zenon, <2>2 DEF Range, Contains
  <1>6. ASSUME NEW h \in Handles,
               thread[h] \in {"work", "locked", "abort"} \/ h \in Range(srv.moduleUnblockedClients)
        PROVE  h \in Live
    BY <1>2, <1>r, <1>6 DEF HandleOK, Busy, Live
  <1>7. ASSUME NEW h \in Handles, srv.bc[h].state # "unused", "disconnect" \in srv.bc[h].called
        PROVE  srv.bc[h].called = {"disconnect"}
    BY <1>2, <1>3, <1>7 DEF HandleOK, CalledOK
  <1>8. ASSUME NEW h \in Handles, srv.bc[h].state = "freed", srv.bc[h].called = {"served"}, srv.bc[h].reply_callback
        PROVE  \E c \in Clients : srv.bc[h].cmd \in Range(srv.client[c].replies)
    <2>1. PICK c \in Clients : Contains(srv.client[c].replies, srv.bc[h].cmd)
      BY <1>2, <1>3, <1>8 DEF HandleOK, CalledOK
    <2>2. srv.client[c].replies \in Seq(Nat)
      BY Zenon, <1>0 DEF StateOK, ClientOK, Rising
    <2>3. DOMAIN srv.client[c].replies = 1..Len(srv.client[c].replies)
      BY <2>2
    <2>4. srv.bc[h].cmd \in Range(srv.client[c].replies)
      BY Zenon, <2>1, <2>3 DEF Contains, Range
    <2>5. QED
      BY Zenon, <2>4
  <1>9. BlockedOnce
    BY <1>1, <1>4, <1>5, <1>6, <1>7, <1>8 DEF BlockedOnce
  <1>10. NoLostUnblock
    BY <1>0 DEF LockOK, NoLostUnblock
  <1>11. QED
    BY <1>9, <1>10 DEF ModuleClientsSound

\* ModuleClients: however replies, timeouts, disconnections, aborts and the
\* loop of the main thread interleave, for any clients and any number of
\* handles, a command that blocked its client is answered at most once and
\* in order, no handle is freed under its thread, no callback is called
\* twice, and no queued handle waits for an unrelated event.
THEOREM ModuleClients ==
  BlockConstantsOK /\ BlockSpec => []ModuleClientsSound
  <1>1. BlockConstantsOK /\ BlockInit => BlockIInv
    BY BlockInitOK
  <1>2. BlockIInv /\ [BlockNext]_blockVars => BlockIInv'
    BY BlockNextOK
  <1>3. BlockIInv => ModuleClientsSound
    BY BlockIInvSound
  <1>4. QED
    BY <1>1, <1>2, <1>3, PTL DEF BlockSpec
=============================================================================
