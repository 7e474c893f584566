------------------------------- MODULE Evict --------------------------------
(***************************************************************************)
(* The memory limit (src/src/evict.c) and lazy freeing (src/src/lazyfree.c)*)
(* : a command that finds the server over maxmemory evicts keys one by one *)
(* until enough memory was released, while the bio thread gives back the   *)
(* memory of values that were unlinked earlier.                            *)
(*                                                                         *)
(* A key is a pair <<db, name>>. Memory is counted in units: one for the   *)
(* entry of a key plus the size of its value. An object carries its LRU    *)
(* clock, or its LFU decrement time and counter, both scaled down.         *)
(***************************************************************************)
EXTENDS Integers, FiniteSetsExt, SequencesExt

CONSTANT Scenarios    \* configurations and bounds: records with the fields below

VARIABLES
    scenario,
    srv,     \* obj, pool, next_db, clock, bio jobs, lazyfree_objects, buffers
    call,    \* the command that is inside freeMemoryIfNeeded()
    mirror   \* the keys a replica holds that reads the stream

vars == <<scenario, srv, call, mirror>>

None == <<>>

Keys == scenario.Keys
Size(k) == scenario.Size[k]
Ttl(k) == scenario.Ttl[k]              \* 0: the key has no expire
Policy == scenario.Policy
Lazy == scenario.Lazy                  \* lazyfree_lazy_eviction
MaxMemory == scenario.MaxMemory
DbNum == scenario.DbNum
Dbs == 0..(DbNum - 1)
Samples == scenario.Samples            \* maxmemory_samples
EVPOOL_SIZE == scenario.PoolSize
LRU_CLOCK_MAX == scenario.ClockMax
MaxCounter == scenario.MaxCounter      \* 255 in the code
MaxBuffers == scenario.MaxBuffers      \* bound on the AOF and replica buffers
MaxJobs == scenario.MaxJobs            \* bound on the jobs a command may find queued
Ops == scenario.Ops                    \* the commands clients send
LFU_INIT_VAL == 1                      \* 5 in the code
LAZYFREE_THRESHOLD == 2                \* 64 in the code

IsLru == Policy \in {"allkeys-lru", "volatile-lru"}
IsLfu == Policy \in {"allkeys-lfu", "volatile-lfu"}
IsRandom == Policy \in {"allkeys-random", "volatile-random"}
AllKeys == Policy \in {"allkeys-lru", "allkeys-lfu", "allkeys-random"}

Live(s) == {k \in Keys : s.obj[k] # None}

(* The dictionary of one DB that the policy draws from: dict or expires.   *)
Candidates(s, d) == {k \in Live(s) : k[1] = d /\ (AllKeys \/ Ttl(k) > 0)}

----------------------------------------------------------------------------
(* Memory.                                                                 *)

zmalloc_used_memory(s) ==
    FoldSet(LAMBDA k, n : n + 1 + Size(k), 0, Live(s))
      + FoldSeq(LAMBDA j, n : n + IF j.freed THEN 0 ELSE j.mem, 0, s.jobs) + s.buffers

(* Replica output buffers and the AOF buffer do not count.                 *)
freeMemoryGetNotCountedMemory(s) == s.buffers

Counted(s) == zmalloc_used_memory(s) - freeMemoryGetNotCountedMemory(s)

getMaxmemoryState(s) ==
    [ok |-> zmalloc_used_memory(s) <= MaxMemory \/ Counted(s) <= MaxMemory,
     tofree |-> Counted(s) - MaxMemory]

----------------------------------------------------------------------------
(* The score of a key.                                                     *)

estimateObjectIdleTime(s, o) ==
    IF s.clock >= o.lru THEN s.clock - o.lru ELSE s.clock + (LRU_CLOCK_MAX - o.lru)

LFUTimeElapsed(s, ldt) ==
    IF s.clock >= ldt THEN s.clock - ldt ELSE LRU_CLOCK_MAX - ldt + s.clock

(* lfu-decay-time is one minute.                                           *)
LFUDecrAndReturn(s, o) ==
    LET periods == LFUTimeElapsed(s, o.lru)
    IN  IF periods > o.count THEN 0 ELSE o.count - periods

(* The counter moves with a probability: both outcomes are possible.       *)
LFULogIncr(count) ==
    IF count = MaxCounter THEN {count}
    ELSE {count + 1} \cup (IF count > LFU_INIT_VAL THEN {count} ELSE {})

createObject(s) == [lru |-> s.clock, count |-> LFU_INIT_VAL]

updateLFU(s, o) == {[lru |-> s.clock, count |-> c] : c \in LFULogIncr(LFUDecrAndReturn(s, o))}

Score(s, k) ==
    IF IsLru THEN estimateObjectIdleTime(s, s.obj[k])
    ELSE IF IsLfu THEN MaxCounter - LFUDecrAndReturn(s, s.obj[k])
    ELSE scenario.MaxTtl - Ttl(k)

----------------------------------------------------------------------------
(* The pool: EVPOOL_SIZE cells, the used ones at the left, best key last.  *)

evictionPoolAlloc == [i \in 1..EVPOOL_SIZE |-> None]

NoKey(pool, i) == pool[i] = None

evictionPoolInsert(pool, e) ==
    LET k == Min({i \in 1..(EVPOOL_SIZE + 1) :
                    i > EVPOOL_SIZE \/ NoKey(pool, i) \/ pool[i].idle >= e.idle})
    IN  IF k = 1 /\ ~NoKey(pool, EVPOOL_SIZE) THEN pool
        ELSE IF k <= EVPOOL_SIZE /\ NoKey(pool, k) THEN [pool EXCEPT ![k] = e]
        ELSE IF NoKey(pool, EVPOOL_SIZE)
             THEN SubSeq(InsertAt(pool, k, e), 1, EVPOOL_SIZE)
             ELSE SubSeq(pool, 2, k - 1) \o <<e>> \o SubSeq(pool, k, EVPOOL_SIZE)

evictionPoolPopulate(s, pool, sample) ==
    FoldLeft(LAMBDA p, k : evictionPoolInsert(p, [key |-> k, idle |-> Score(s, k)]),
             pool, sample)

(* What dictGetSomeKeys() may return for a dictionary that is not empty.   *)
dictGetSomeKeys(keys) ==
    IF keys = {} THEN {<<>>}
    ELSE UNION {{t \in [1..n -> keys] : IsInjective(t)} :
                  n \in 1..Min({Samples, Cardinality(keys)})}

(* From the best entry down: the first key that still is a candidate, and  *)
(* the pool without the entries passed on the way.                         *)
PickFromPool(s, pool) ==
    LET hits == {i \in 1..EVPOOL_SIZE :
                   ~NoKey(pool, i) /\ pool[i].key \in Candidates(s, pool[i].key[1])}
        best == IF hits = {} THEN 0 ELSE Max(hits)
    IN  [key |-> IF best = 0 THEN None ELSE pool[best].key,
         pool |-> [i \in 1..EVPOOL_SIZE |-> IF i >= best THEN None ELSE pool[i]]]

----------------------------------------------------------------------------
(* Deletion, in the main thread or left to the bio thread.                 *)

lazyfreeGetFreeEffort(k) == Size(k)

Job(mem, n) == [mem |-> mem, n |-> n, freed |-> FALSE]

dbSyncDelete(s, k) == [s EXCEPT !.obj[k] = None]

dbAsyncDelete(s, k) ==
    IF s.obj[k] # None /\ lazyfreeGetFreeEffort(k) > LAZYFREE_THRESHOLD
    THEN [s EXCEPT !.obj[k] = None, !.lazyfree_objects = @ + 1,
                   !.jobs = Append(@, Job(Size(k), 1))]
    ELSE dbSyncDelete(s, k)

(* FLUSHALL ASYNC: the tables of every DB go to the bio thread.            *)
emptyDbAsync(s, d) ==
    LET gone == {k \in Live(s) : k[1] = d}
        mem == FoldSet(LAMBDA k, n : n + 1 + Size(k), 0, gone)
    IN  [s EXCEPT !.obj = [k \in Keys |-> IF k \in gone THEN None ELSE s.obj[k]],
                  !.lazyfree_objects = @ + Cardinality(gone),
                  !.jobs = Append(@, Job(mem, Cardinality(gone)))]

(* The bio thread releases the memory of the oldest job, then counts down. *)
lazyfreeFreeFromBioThread(s) == [s EXCEPT !.jobs[1].freed = TRUE]

BioFree ==
    /\ srv.jobs # <<>> /\ ~srv.jobs[1].freed
    /\ srv' = lazyfreeFreeFromBioThread(srv)
    /\ UNCHANGED <<scenario, call, mirror>>

BioDone ==
    /\ srv.jobs # <<>> /\ srv.jobs[1].freed
    /\ srv' = [srv EXCEPT !.lazyfree_objects = @ - srv.jobs[1].n, !.jobs = Tail(@)]
    /\ UNCHANGED <<scenario, call, mirror>>

----------------------------------------------------------------------------
(* freeMemoryIfNeeded(), one eviction per step.                            *)

Idle == [pc |-> "idle"]

(* A DEL or UNLINK goes to the AOF and the replicas before the delete.     *)
propagateExpire(s) == [s EXCEPT !.buffers = IF @ < MaxBuffers THEN @ + 1 ELSE @]

(* The delete of one key; the bio thread may release a job meanwhile, and  *)
(* what it releases counts as freed by the delete.                         *)
Deletes(s, k) ==
    LET after == IF Lazy THEN dbAsyncDelete(s, k) ELSE dbSyncDelete(s, k)
    IN  {after} \cup (IF after.jobs # <<>> /\ ~after.jobs[1].freed
                      THEN {lazyfreeFreeFromBioThread(after)} ELSE {})

(* MUTANT of EvictKey: a value left to the bio thread counts as released.  *)
EvictKeyCountsValue(s, k) ==
    \E after \in Deletes(propagateExpire(s), k) :
        /\ srv' = after
        /\ call' = [call EXCEPT !.ghosts = 0, !.freed = @ + 1 + Size(k)]
        /\ mirror' = mirror \ {k}

(* keys_freed starts from 0 in every round of the loop, so that the check  *)
(* made every 16 keys of a lazy eviction is never reached.                 *)
EvictKey(s, k) ==
    \E after \in Deletes(propagateExpire(s), k) :
        /\ srv' = after
        /\ call' = [call EXCEPT !.ghosts = 0, !.freed = @ + zmalloc_used_memory(propagateExpire(s))
                                                         - zmalloc_used_memory(after)]
        /\ mirror' = mirror \ {k}

CantFree(s) == srv' = s /\ call' = [call EXCEPT !.pc = "wait"] /\ UNCHANGED mirror

(* One pass over the pool: every DB is sampled, then the best entry that   *)
(* is no ghost is taken. A pass that meets only ghosts is followed by      *)
(* another one.                                                            *)
EvictByScore ==
    /\ call.pc = "evict" /\ call.freed < call.tofree /\ (IsLru \/ IsLfu \/ Policy = "volatile-ttl")
    /\ \E samples \in [Dbs -> UNION {dictGetSomeKeys(Candidates(srv, d)) : d \in Dbs}] :
          LET pool == FoldLeft(LAMBDA p, d : evictionPoolPopulate(srv, p, samples[d - 1]),
                               srv.pool, [d \in 1..DbNum |-> d])
              pick == PickFromPool(srv, pool)
          IN  /\ \A d \in Dbs : samples[d] \in dictGetSomeKeys(Candidates(srv, d))
              /\ IF \A d \in Dbs : Candidates(srv, d) = {} THEN CantFree(srv)
                 ELSE IF pick.key = None
                 THEN /\ srv' = [srv EXCEPT !.pool = pick.pool]
                      /\ call' = [call EXCEPT !.ghosts = @ + 1]
                      /\ UNCHANGED mirror
                 ELSE EvictKey([srv EXCEPT !.pool = pick.pool], pick.key)
    /\ UNCHANGED scenario

(* The random policies visit the DBs in turn.                              *)
EvictRandom ==
    /\ call.pc = "evict" /\ call.freed < call.tofree /\ IsRandom
    /\ LET full == {i \in 1..DbNum : Candidates(srv, (srv.next_db + i) % DbNum) # {}}
           i == IF full = {} THEN DbNum ELSE Min(full)
           s == [srv EXCEPT !.next_db = (@ + i) % DbNum]
       IN  IF full = {} THEN CantFree(s)
           ELSE \E k \in Candidates(srv, s.next_db) : EvictKey(s, k)
    /\ UNCHANGED scenario

Return(ok) ==
    /\ call' = [call EXCEPT !.pc = "done", !.ok = ok, !.ghosts = 0, !.freed = 0, !.tofree = 0,
                            !.reported = 0]
    /\ UNCHANGED <<scenario, srv, mirror>>

EvictEnough == call.pc = "evict" /\ call.freed >= call.tofree /\ Return(TRUE)

(* cant_free: waits for the bio thread as long as that may help, and       *)
(* reports failure. The subtraction is unsigned.                           *)
WaitLazyFree ==
    LET sofar == call.reported - zmalloc_used_memory(srv)
    IN  /\ call.pc = "wait"
        /\ srv.jobs = <<>> \/ sofar < 0 \/ sofar + call.freed >= call.tofree
        /\ Return(FALSE)

----------------------------------------------------------------------------
(* Commands: SET is refused out of memory, GET, UNLINK and FLUSHALL ASYNC  *)
(* are not. The call is skipped while loading, while a script is timed out *)
(* or clients are paused, and on a replica that ignores maxmemory.         *)

freeMemoryIfNeeded(op, k, exempt) ==
    LET state == getMaxmemoryState(srv)
        skip == exempt \/ state.ok
    IN  /\ exempt => ~state.ok
        /\ call' = [pc |-> IF skip THEN "done"
                           ELSE IF Policy = "noeviction" THEN "wait" ELSE "evict",
                    op |-> op, key |-> k, ok |-> TRUE, exempt |-> exempt, freed |-> 0, ghosts |-> 0,
                    tofree |-> IF skip THEN 0 ELSE state.tofree,
                    reported |-> IF skip THEN 0 ELSE zmalloc_used_memory(srv)]

freeMemoryIfNeededAndSafe(op, k) == \E exempt \in BOOLEAN : freeMemoryIfNeeded(op, k, exempt)

Command ==
    /\ call = Idle
    /\ Len(srv.jobs) <= MaxJobs
    /\ \E op \in Ops, k \in Keys :
          /\ op = "flushall" => k = CHOOSE any \in Keys : TRUE
          /\ op \in {"get", "unlink"} => k \in Live(srv)
          /\ op = "set" => k \notin Live(srv)
          /\ freeMemoryIfNeededAndSafe(op, k)
    /\ UNCHANGED <<scenario, srv, mirror>>

(* The rest of processCommand() once memory was looked at.                 *)
Execute ==
    /\ call.pc = "done"
    /\ call' = Idle
    /\ \/ /\ call.op = "set" /\ call.ok
          /\ srv' = [srv EXCEPT !.obj[call.key] = createObject(srv)]
          /\ mirror' = mirror \cup {call.key}
       \/ call.op = "set" /\ ~call.ok /\ UNCHANGED <<srv, mirror>>
       \/ /\ call.op = "get" /\ call.key \in Live(srv)
          /\ \E o \in IF IsLfu THEN updateLFU(srv, srv.obj[call.key])
                      ELSE {[srv.obj[call.key] EXCEPT !.lru = srv.clock]} :
                srv' = [srv EXCEPT !.obj[call.key] = o]
          /\ UNCHANGED mirror
       \/ /\ call.op = "unlink"
          /\ srv' = dbAsyncDelete(srv, call.key)
          /\ mirror' = mirror \ {call.key}
       \/ /\ call.op = "get" /\ call.key \notin Live(srv) /\ UNCHANGED <<srv, mirror>>
       \/ /\ call.op = "flushall"
          /\ srv' = FoldLeft(LAMBDA s, d : emptyDbAsync(s, d - 1), srv, [d \in 1..DbNum |-> d])
          /\ mirror' = {}
    /\ UNCHANGED scenario

(* The LRU clock advances and wraps.                                       *)
Tick ==
    /\ IsLru \/ IsLfu
    /\ call = Idle
    /\ srv' = [srv EXCEPT !.clock = (@ + 1) % (LRU_CLOCK_MAX + 1)]
    /\ UNCHANGED <<scenario, call, mirror>>

(* Replicas and the AOF take what was buffered.                            *)
Drain ==
    /\ srv.buffers > 0
    /\ srv' = [srv EXCEPT !.buffers = 0]
    /\ UNCHANGED <<scenario, call, mirror>>

Init ==
    /\ scenario \in Scenarios
    /\ srv = [obj |-> [k \in Keys |-> None], pool |-> evictionPoolAlloc, next_db |-> 0,
              clock |-> 0, jobs |-> <<>>, lazyfree_objects |-> 0, buffers |-> 0]
    /\ call = Idle
    /\ mirror = {}

Next ==
    \/ Command \/ EvictByScore \/ EvictRandom \/ EvictEnough \/ WaitLazyFree \/ Execute
    \/ BioFree \/ BioDone \/ Tick \/ Drain

Spec == Init /\ [][Next]_vars

----------------------------------------------------------------------------
(* The used cells of the eviction pool are the leftmost ones and ascend by *)
(* score, no matter how many of their keys are gone, so that               *)
(* freeMemoryIfNeeded() meets the best candidate first; a replica fed by   *)
(* propagateExpire() holds the same keys; and lazyfree_objects counts the  *)
(* objects that the bio thread still has to release.                       *)
EvictSound ==
    /\ \A i \in 2..EVPOOL_SIZE :
          ~NoKey(srv.pool, i) => ~NoKey(srv.pool, i - 1) /\ srv.pool[i - 1].idle <= srv.pool[i].idle
    /\ mirror = Live(srv)
    /\ srv.lazyfree_objects = FoldSeq(LAMBDA j, n : n + j.n, 0, srv.jobs)

(* When freeMemoryIfNeeded() reports success the memory that counts is     *)
(* within maxmemory, whatever the bio thread released meanwhile and however*)
(* the replica buffers grew; when it fails the policy has no key left. It  *)
(* never spins on a pool of keys that are gone: a pass that finds no key is*)
(* followed by one that does.                                              *)
EvictOutcome ==
    /\ call.pc = "evict" => call.ghosts <= 1
    /\ call.pc = "done" =>
        IF call.ok THEN call.exempt \/ Counted(srv) <= MaxMemory
        ELSE Policy = "noeviction" \/ \A d \in Dbs : Candidates(srv, d) = {}

(* The comment of freeMemoryIfNeeded(): "returns C_OK if we are under the  *)
(* memory limit or if we were over the limit, but the attempt to free      *)
(* memory was successful".                                                 *)
FailsOnlyOverLimit == [][call.pc = "wait" /\ call'.pc = "done" => Counted(srv) > MaxMemory]_vars
=============================================================================
