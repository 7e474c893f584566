-------------------------------- MODULE Bio ---------------------------------
(***************************************************************************)
(* Background I/O service (src/src/bio.c).                                 *)
(*                                                                         *)
(* One thread per job type serves a list of jobs under a mutex.  The       *)
(* critical sections of the callers (lock, a few assignments, signal,      *)
(* unlock) are one step each; the thread releases the mutex twice per      *)
(* iteration, in pthread_cond_wait and around the execution of the job,    *)
(* so its loop is several steps.                                           *)
(*                                                                         *)
(* A job is a natural number: the position of the call of                  *)
(* bioCreateBackgroundJob that created it.  What a job does (close, fsync, *)
(* free) does not matter here; that it is executed is recorded in          *)
(* executed.                                                               *)
(***************************************************************************)
EXTENDS Naturals, Sequences, FiniteSets

CONSTANTS
    BioTypes,   \* BIO_CLOSE_FILE, BIO_AOF_FSYNC, BIO_LAZY_FREE
    Callers,    \* the threads that use the API (the server's main thread)
    MaxJobs     \* bound: jobs created per type in a behaviour

VARIABLES
    bio_jobs,     \* type -> list of jobs, the one being executed included
    bio_pending,  \* type -> counter
    mutex,        \* type -> is bio_mutex[type] held by the bio thread
    bioPc,        \* type -> where the thread of that type is
    waiter,       \* caller -> type whose step it waits for, or "idle"
    stepped,      \* caller -> has bio_step_cond been broadcast since it waits
    created,      \* type -> number of jobs created (history)
    executed      \* type -> jobs executed, in order (history)

bioVars == <<bio_jobs, bio_pending, mutex, bioPc, waiter, stepped, created, executed>>

\* "start"  before the first pthread_mutex_lock
\* "loop"   at the head of the while loop, mutex held
\* "wait"   blocked in pthread_cond_wait(&bio_newjob_cond)
\* "woken"  signalled, wants the mutex back
\* "run"    mutex released, job not executed yet
\* "relock" job executed, wants the mutex back
BioPcs == {"start", "loop", "wait", "woken", "run", "relock"}

\* The types of the state: in particular bio_pending, an unsigned counter that
\* bioProcessBackgroundJobs decrements, never goes below zero.
BioTypeOK ==
    /\ bio_jobs \in [BioTypes -> Seq(Nat)]
    /\ bio_pending \in [BioTypes -> Nat]
    /\ mutex \in [BioTypes -> BOOLEAN]
    /\ bioPc \in [BioTypes -> BioPcs]
    /\ waiter \in [Callers -> BioTypes \cup {"idle"}]
    /\ stepped \in [Callers -> BOOLEAN]
    /\ created \in [BioTypes -> Nat]
    /\ executed \in [BioTypes -> Seq(Nat)]

BioInit ==
    /\ bio_jobs = [t \in BioTypes |-> <<>>]
    /\ bio_pending = [t \in BioTypes |-> 0]
    /\ mutex = [t \in BioTypes |-> FALSE]
    /\ bioPc = [t \in BioTypes |-> "start"]
    /\ waiter = [c \in Callers |-> "idle"]
    /\ stepped = [c \in Callers |-> FALSE]
    /\ created = [t \in BioTypes |-> 0]
    /\ executed = [t \in BioTypes |-> <<>>]

-----------------------------------------------------------------------------
(* The callers *)

\* pthread_cond_signal wakes the thread only if it is waiting.
Signal(pc) == IF pc = "wait" THEN "woken" ELSE pc

\* Mutant: the list becomes a stack (listAddNodeHead).
CreateJobAtHead(c, t) ==
    /\ waiter[c] = "idle"
    /\ ~mutex[t]
    /\ created[t] < MaxJobs
    /\ created' = [created EXCEPT ![t] = @ + 1]
    /\ bio_jobs' = [bio_jobs EXCEPT ![t] = <<created[t] + 1>> \o @]
    /\ bio_pending' = [bio_pending EXCEPT ![t] = @ + 1]
    /\ bioPc' = [bioPc EXCEPT ![t] = Signal(@)]
    /\ UNCHANGED <<mutex, waiter, stepped, executed>>

bioCreateBackgroundJob(c, t) ==
    /\ waiter[c] = "idle"
    /\ ~mutex[t]
    /\ created[t] < MaxJobs
    /\ created' = [created EXCEPT ![t] = @ + 1]
    /\ bio_jobs' = [bio_jobs EXCEPT ![t] = Append(@, created[t] + 1)]
    /\ bio_pending' = [bio_pending EXCEPT ![t] = @ + 1]
    /\ bioPc' = [bioPc EXCEPT ![t] = Signal(@)]
    /\ UNCHANGED <<mutex, waiter, stepped, executed>>

\* The value the API returns; taken under the mutex.
bioPendingJobsOfType(t) == bio_pending[t]

\* With no job pending the call returns at once and changes nothing.
bioWaitStepOfType(c, t) ==
    /\ waiter[c] = "idle"
    /\ ~mutex[t]
    /\ bioPendingJobsOfType(t) # 0
    /\ waiter' = [waiter EXCEPT ![c] = t]
    /\ stepped' = [stepped EXCEPT ![c] = FALSE]
    /\ UNCHANGED <<bio_jobs, bio_pending, mutex, bioPc, created, executed>>

\* Back from pthread_cond_wait with the mutex, which is released on return.
WaitStepReturn(c) ==
    /\ waiter[c] # "idle"
    /\ stepped[c]
    /\ ~mutex[waiter[c]]
    /\ waiter' = [waiter EXCEPT ![c] = "idle"]
    /\ stepped' = [stepped EXCEPT ![c] = FALSE]
    /\ UNCHANGED <<bio_jobs, bio_pending, mutex, bioPc, created, executed>>

\* POSIX lets pthread_cond_wait return without a signal; the call is in an if,
\* not in a loop, so bioWaitStepOfType then returns before a job is done.
SpuriousStep(c) ==
    /\ waiter[c] # "idle"
    /\ stepped' = [stepped EXCEPT ![c] = TRUE]
    /\ UNCHANGED <<bio_jobs, bio_pending, mutex, bioPc, waiter, created, executed>>

-----------------------------------------------------------------------------
(* The thread of type t: bioProcessBackgroundJobs *)

\* First lock, or return of pthread_cond_wait.
AcquireMutex(t) ==
    /\ bioPc[t] \in {"start", "woken"}
    /\ ~mutex[t]
    /\ mutex' = [mutex EXCEPT ![t] = TRUE]
    /\ bioPc' = [bioPc EXCEPT ![t] = "loop"]
    /\ UNCHANGED <<bio_jobs, bio_pending, waiter, stepped, created, executed>>

WaitForJob(t) ==
    /\ bioPc[t] = "loop"
    /\ bio_jobs[t] = <<>>
    /\ mutex' = [mutex EXCEPT ![t] = FALSE]
    /\ bioPc' = [bioPc EXCEPT ![t] = "wait"]
    /\ UNCHANGED <<bio_jobs, bio_pending, waiter, stepped, created, executed>>

\* POSIX lets pthread_cond_wait return without a signal.
SpuriousWakeup(t) ==
    /\ bioPc[t] = "wait"
    /\ bioPc' = [bioPc EXCEPT ![t] = "woken"]
    /\ UNCHANGED <<bio_jobs, bio_pending, mutex, waiter, stepped, created, executed>>

\* Mutant: the job leaves the counter when it is taken, not when it is done.
TakeJobUncounted(t) ==
    /\ bioPc[t] = "loop"
    /\ bio_jobs[t] # <<>>
    /\ mutex' = [mutex EXCEPT ![t] = FALSE]
    /\ bioPc' = [bioPc EXCEPT ![t] = "run"]
    /\ bio_pending' = [bio_pending EXCEPT ![t] = @ - 1]
    /\ UNCHANGED <<bio_jobs, waiter, stepped, created, executed>>

\* listFirst, not a removal: the job stays in the list while it runs.
TakeJob(t) ==
    /\ bioPc[t] = "loop"
    /\ bio_jobs[t] # <<>>
    /\ mutex' = [mutex EXCEPT ![t] = FALSE]
    /\ bioPc' = [bioPc EXCEPT ![t] = "run"]
    /\ UNCHANGED <<bio_jobs, bio_pending, waiter, stepped, created, executed>>

ExecuteJob(t) ==
    /\ bioPc[t] = "run"
    /\ executed' = [executed EXCEPT ![t] = Append(@, Head(bio_jobs[t]))]
    /\ bioPc' = [bioPc EXCEPT ![t] = "relock"]
    /\ UNCHANGED <<bio_jobs, bio_pending, mutex, waiter, stepped, created>>

\* Lock again, listDelNode, decrement, broadcast.
FinishJob(t) ==
    /\ bioPc[t] = "relock"
    /\ ~mutex[t]
    /\ mutex' = [mutex EXCEPT ![t] = TRUE]
    /\ bio_jobs' = [bio_jobs EXCEPT ![t] = Tail(@)]
    /\ bio_pending' = [bio_pending EXCEPT ![t] = @ - 1]
    /\ stepped' = [c \in Callers |-> stepped[c] \/ waiter[c] = t]
    /\ bioPc' = [bioPc EXCEPT ![t] = "loop"]
    /\ UNCHANGED <<waiter, created, executed>>

BioThread(t) ==
    \/ AcquireMutex(t) \/ WaitForJob(t) \/ TakeJob(t) \/ ExecuteJob(t) \/ FinishJob(t)

BioNext ==
    \/ \E c \in Callers, t \in BioTypes :
          bioCreateBackgroundJob(c, t) \/ bioWaitStepOfType(c, t)
    \/ \E c \in Callers : WaitStepReturn(c) \/ SpuriousStep(c)
    \/ \E t \in BioTypes : BioThread(t) \/ SpuriousWakeup(t)

BioSpec == BioInit /\ [][BioNext]_bioVars

\* A thread that can run runs, and a caller whose condition was broadcast gets
\* the mutex: the bio thread gives it up in every iteration, but only for a
\* while, hence strong fairness on the acquisition.
BioFairness ==
    /\ \A t \in BioTypes : WF_bioVars(BioThread(t))
    /\ \A c \in Callers : SF_bioVars(WaitStepReturn(c))

BioFairSpec == BioSpec /\ BioFairness

-----------------------------------------------------------------------------
(* Properties *)

\* The jobs the thread of type t has not executed yet.
Unexecuted(t) == IF bioPc[t] = "relock" THEN Tail(bio_jobs[t]) ELSE bio_jobs[t]

\* Jobs of a type run exactly once, in the order of the calls that created
\* them: what was executed followed by what was not is 1, 2, ..., created
\* ("jobs of the same type are guaranteed to be processed from the least
\* recently inserted to the most recently inserted", bio.c).
FifoExactlyOnce ==
    \A t \in BioTypes :
        executed[t] \o Unexecuted(t) = [i \in 1..created[t] |-> i]

\* The counter that bioPendingJobsOfType returns is 0 only once every job of
\* that type has been executed: aof.c and evict.c read 0 as "no background
\* work in progress".
PendingZeroMeansDone ==
    \A t \in BioTypes :
        bioPendingJobsOfType(t) = 0 => Len(executed[t]) = created[t]

\* The jobs of a list are consecutive, after the ones executed (the job being
\* finished is in both), and the counter is the length of the list.
Done(pc, ex) == Len(ex) - (IF pc = "relock" THEN 1 ELSE 0)

ListOK(pc, jobs, pending, n, ex) ==
    /\ pc \in {"run", "relock"} => jobs # <<>>
    /\ pending = Len(jobs)
    /\ Done(pc, ex) >= 0
    /\ n = Done(pc, ex) + Len(jobs)
    /\ \A i \in 1..Len(ex) : ex[i] = i
    /\ \A i \in 1..Len(jobs) : jobs[i] = Done(pc, ex) + i

ListInv ==
    \A t \in BioTypes :
        ListOK(bioPc[t], bio_jobs[t], bio_pending[t], created[t], executed[t])

AllDone ==
    /\ \A t \in BioTypes : Len(executed[t]) = created[t]
    /\ \A c \in Callers : waiter[c] = "idle"

\* No wake-up is lost: every job that was created is executed in the end, and
\* every caller blocked in bioWaitStepOfType comes back.
NoLostWakeup == <>[]AllDone
=============================================================================
