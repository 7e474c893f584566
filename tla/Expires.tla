------------------------------ MODULE Expires -------------------------------
(***************************************************************************)
(* The keyspace (src/src/db.c) and its keys with a time to live            *)
(* (src/src/expire.c), on a master or on a writable replica: lookups that  *)
(* find a key expired, the cycle that collects expired keys DB by DB, the  *)
(* keys that clients of a writable replica gave an expire to, and the map  *)
(* from hash slots to keys of a cluster node.                              *)
(*                                                                         *)
(* On a replica, the keys of the master and those of the clients have      *)
(* different names: sharing them is documented to lead to inconsistencies. *)
(***************************************************************************)
EXTENDS Integers, FiniteSetsExt, SequencesExt

CONSTANT Scenarios    \* configurations and bounds: records with the fields below

VARIABLES
    scenario,
    srv,     \* dict, expires, slots_to_keys, slaveKeysWithExpire, cycle state, clock
    feed,    \* what a reader of the AOF and of the stream has: dict and expires
    seen     \* the last answer of a read only command

vars == <<scenario, srv, feed, seen>>

Dbs == 0..(scenario.DbNum - 1)
Keys == scenario.LocalKeys \cup scenario.MasterKeys
Master == scenario.Role = "master"
Cluster == scenario.Cluster
MaxTime == scenario.MaxTime                 \* bound on the clock
Ops == scenario.Ops                         \* the commands that are sent
CRON_DBS_PER_CALL == 2                      \* 16 in the code, for 16 DBs and more
Slot(k) == scenario.Slot[k]

NoExpire == -1
Db == [keys |-> {}, when |-> [k \in Keys |-> NoExpire]]

(* expires is kept apart from dict, so that they may disagree.             *)
Volatile(s, d) == {k \in Keys : s.db[d].when[k] # NoExpire}

Empty == [db |-> [d \in Dbs |-> Db]]

----------------------------------------------------------------------------
(* The keyspace API.                                                       *)

slotToKeyUpdateKey(s, k, add) ==
    IF ~Cluster THEN s
    ELSE [s EXCEPT !.slots_to_keys = IF add THEN @ \cup {<<Slot(k), k>>} ELSE @ \ {<<Slot(k), k>>},
                   !.slots_keys_count[Slot(k)] = IF add THEN @ + 1 ELSE @ - 1]

slotToKeyFlush(s) ==
    IF ~Cluster THEN s
    ELSE [s EXCEPT !.slots_to_keys = {}, !.slots_keys_count = [n \in DOMAIN @ |-> 0]]

dbAdd(s, d, k) == slotToKeyUpdateKey([s EXCEPT !.db[d].keys = @ \cup {k}], k, TRUE)

(* dbSyncDelete() and dbAsyncDelete() differ in who frees the value.       *)
dbDelete(s, d, k) ==
    LET t == [s EXCEPT !.db[d].when[k] = NoExpire]
    IN  IF k \in s.db[d].keys
        THEN slotToKeyUpdateKey([t EXCEPT !.db[d].keys = @ \ {k}], k, FALSE) ELSE t

removeExpire(s, d, k) == [s EXCEPT !.db[d].when[k] = NoExpire]

rememberSlaveKeyWithExpire(s, d, k) == [s EXCEPT !.slaveKeys[k] = @ \cup {d}]

(* The replica is writable: a client of it, not its master, sets c.        *)
setExpire(s, c, d, k, when) ==
    LET t == [s EXCEPT !.db[d].when[k] = when]
    IN  IF ~Master /\ c = "client" THEN rememberSlaveKeyWithExpire(t, d, k) ELSE t

getExpire(s, d, k) == s.db[d].when[k]

keyIsExpired(s, d, k) == getExpire(s, d, k) # NoExpire /\ s.now > getExpire(s, d, k)

(* A pair of the server and the readers of its stream.                     *)
Pair(s, f) == [s |-> s, f |-> f]

FeedDel(f, d, k) == [f EXCEPT !.db[d].keys = @ \ {k}, !.db[d].when[k] = NoExpire]

propagateExpire(f, d, k) == FeedDel(f, d, k)

(* MUTANT of expireIfNeeded: only a replica tells the readers.             *)
expireSilently(p, d, k) ==
    IF keyIsExpired(p.s, d, k) /\ Master THEN Pair(dbDelete(p.s, d, k), p.f) ELSE p

expireIfNeeded(p, d, k) ==
    IF keyIsExpired(p.s, d, k) /\ Master
    THEN Pair(dbDelete(p.s, d, k), propagateExpire(p.f, d, k)) ELSE p

Exists(p, d, k) == k \in p.s.db[d].keys

(* A client that reads does not see an expired key of a replica.           *)
lookupKeyRead(p, d, k) ==
    LET q == expireIfNeeded(p, d, k)
    IN  [pair |-> q, found |-> Exists(q, d, k) /\ ~keyIsExpired(q.s, d, k)]

lookupKeyWrite(p, d, k) == expireIfNeeded(p, d, k)

setKey(s, d, k) == removeExpire(IF k \in s.db[d].keys THEN s ELSE dbAdd(s, d, k), d, k)

emptyDb(s, dbs) ==
    LET t == slotToKeyFlush([s EXCEPT !.db = [d \in Dbs |-> IF d \in dbs THEN Db ELSE s.db[d]]])
    IN  IF dbs = Dbs THEN [t EXCEPT !.slaveKeys = [k \in Keys |-> {}]] ELSE t

dbSwapDatabases(s, d, e) == [s EXCEPT !.db = [s.db EXCEPT ![d] = s.db[e], ![e] = s.db[d]]]

----------------------------------------------------------------------------
(* What the readers make of a command: they expire nothing by themselves.  *)

FeedSet(f, d, k, when) == [f EXCEPT !.db[d].keys = @ \cup {k}, !.db[d].when[k] = when]
FeedWhen(f, d, k, when) == [f EXCEPT !.db[d].when[k] = when]
FeedFlush(f, dbs) == [f EXCEPT !.db = [d \in Dbs |-> IF d \in dbs THEN Db ELSE f.db[d]]]
FeedMove(f, d, k, e, k2) == FeedDel(FeedSet(f, e, k2, f.db[d].when[k]), d, k)

----------------------------------------------------------------------------
(* Commands: c is "client" or, on a replica, the "master".                 *)

Pre == Pair(srv, feed)

Quiet == [read |-> FALSE, found |-> FALSE, expired |-> FALSE]

Put(p) == srv' = p.s /\ feed' = p.f /\ seen' = Quiet /\ UNCHANGED scenario

(* Who may name a key: on a replica each side has its own names.           *)
Owns(c, k) ==
    IF Master THEN c = "client" ELSE k \in IF c = "client" THEN scenario.LocalKeys ELSE scenario.MasterKeys

Callers == IF Master THEN {"client"} ELSE {"client", "master"}

Times == 0..MaxTime

(* SET with or without EX.                                                 *)
Set ==
    \E c \in Callers, d \in Dbs, k \in Keys, when \in Times \cup {NoExpire} :
        /\ "set" \in Ops /\ Owns(c, k)
        /\ when # NoExpire => when > srv.now
        /\ LET p == lookupKeyWrite(Pre, d, k)
               s == setKey(p.s, d, k)
           IN  Put(Pair(IF when = NoExpire THEN s ELSE setExpire(s, c, d, k, when),
                        FeedSet(p.f, d, k, when)))

expireGenericCommand ==
    \E c \in Callers, d \in Dbs, k \in Keys, when \in Times :
        /\ "expire" \in Ops /\ Owns(c, k)
        /\ LET p == lookupKeyWrite(Pre, d, k)
           IN  Put(IF ~Exists(p, d, k) THEN p
                   ELSE IF when <= p.s.now /\ Master
                   THEN Pair(dbDelete(p.s, d, k), FeedDel(p.f, d, k))
                   ELSE Pair(setExpire(p.s, c, d, k, when), FeedWhen(p.f, d, k, when)))

persistCommand ==
    \E c \in Callers, d \in Dbs, k \in Keys :
        /\ "persist" \in Ops /\ Owns(c, k)
        /\ LET p == lookupKeyWrite(Pre, d, k)
           IN  Put(IF ~Exists(p, d, k) THEN p
                   ELSE Pair(removeExpire(p.s, d, k), FeedWhen(p.f, d, k, NoExpire)))

delGenericCommand ==
    \E c \in Callers, d \in Dbs, k \in Keys :
        /\ "del" \in Ops /\ Owns(c, k)
        /\ LET p == expireIfNeeded(Pre, d, k)
           IN  Put(IF ~Exists(p, d, k) THEN p ELSE Pair(dbDelete(p.s, d, k), FeedDel(p.f, d, k)))

(* RENAME: a target that exists is deleted first, and the time to live     *)
(* goes with the key.                                                      *)
renameGenericCommand ==
    \E c \in Callers, d \in Dbs, k, k2 \in Keys :
        /\ "rename" \in Ops /\ Owns(c, k) /\ Owns(c, k2) /\ k # k2
        /\ Cluster => Slot(k) = Slot(k2)
        /\ LET p == lookupKeyWrite(Pre, d, k)
               q == lookupKeyWrite(p, d, k2)
               when == getExpire(q.s, d, k)
               s == dbAdd(IF Exists(q, d, k2) THEN dbDelete(q.s, d, k2) ELSE q.s, d, k2)
               t == IF when = NoExpire THEN s ELSE setExpire(s, c, d, k2, when)
           IN  Put(IF ~Exists(p, d, k) THEN p
                   ELSE Pair(dbDelete(t, d, k), FeedMove(q.f, d, k, d, k2)))

moveCommand ==
    \E c \in Callers, d, e \in Dbs, k \in Keys :
        /\ "move" \in Ops /\ Owns(c, k) /\ d # e /\ ~Cluster
        /\ LET p == lookupKeyWrite(Pre, d, k)
               q == lookupKeyWrite(p, e, k)
               when == getExpire(q.s, d, k)
               s == dbAdd(q.s, e, k)
               t == IF when = NoExpire THEN s ELSE setExpire(s, c, e, k, when)
           IN  Put(IF ~Exists(p, d, k) THEN p
                   ELSE IF Exists(q, e, k) THEN q
                   ELSE Pair(dbDelete(t, d, k), FeedMove(q.f, d, k, e, k)))

flushCommand ==
    \E dbs \in {{d} : d \in Dbs} \cup {Dbs} :
        /\ "flush" \in Ops
        /\ Put(Pair(emptyDb(srv, dbs), FeedFlush(feed, dbs)))

swapdbCommand ==
    /\ "swapdb" \in Ops /\ Master /\ ~Cluster
    /\ \E d, e \in Dbs : d < e /\ Put(Pair(dbSwapDatabases(srv, d, e), dbSwapDatabases(feed, d, e)))

(* GET, EXISTS, TTL, TOUCH: what the lookup says.                          *)
Read ==
    \E d \in Dbs, k \in Keys :
        LET r == lookupKeyRead(Pre, d, k)
        IN  /\ srv' = r.pair.s /\ feed' = r.pair.f
            /\ seen' = [read |-> TRUE, found |-> r.found, expired |-> keyIsExpired(srv, d, k)]
            /\ UNCHANGED scenario

(* RANDOMKEY: expired keys are passed over, on a master they are deleted.  *)
(* On a replica that has only volatile keys the search gives up and may    *)
(* name an expired one.                                                    *)
dbRandomKey ==
    \E d \in Dbs :
        /\ "randomkey" \in Ops /\ srv.db[d].keys # {}
        /\ \E passed \in SUBSET {k \in srv.db[d].keys : keyIsExpired(srv, d, k)} :
              LET p == FoldSet(LAMBDA k, q : expireIfNeeded(q, d, k), Pre, passed)
                  allvolatile == srv.db[d].keys = Volatile(srv, d)
              IN  /\ srv' = p.s /\ feed' = p.f /\ UNCHANGED scenario
                  /\ \/ /\ p.s.db[d].keys = {} /\ seen' = Quiet
                     \/ \E k \in p.s.db[d].keys :
                          /\ ~keyIsExpired(p.s, d, k) \/ (~Master /\ allvolatile)
                          /\ seen' = [read |-> Master, found |-> TRUE, expired |-> keyIsExpired(p.s, d, k)]

(* CLUSTER DELSLOT and the like: the keys of a slot go one by one.         *)
delKeysInSlot ==
    \E n \in {Slot(k) : k \in Keys} :
        /\ "delslot" \in Ops /\ Cluster
        /\ LET gone == {pair[2] : pair \in {x \in srv.slots_to_keys : x[1] = n}}
           IN  Put(Pair(FoldSet(LAMBDA k, s : dbDelete(s, 0, k), srv, gone),
                        FoldSet(LAMBDA k, f : FeedDel(f, 0, k), feed, gone)))

----------------------------------------------------------------------------
(* Collection.                                                             *)

activeExpireCycleTryExpire(p, d, k) ==
    IF p.s.db[d].when[k] # NoExpire /\ p.s.now > p.s.db[d].when[k]
    THEN Pair(dbDelete(p.s, d, k), propagateExpire(p.f, d, k)) ELSE p

(* current_db moves on before a DB is worked on.                           *)
NextDb(s, n, limit) == (s.current_db + n) % scenario.DbNum

(* One call: up to dbs_per_call DBs, fewer when the time limit is hit in   *)
(* one of them; in each DB, a random sample of the volatile keys.          *)
activeExpireCycle ==
    /\ "cycle" \in Ops /\ Master
    /\ \E fast, limit \in BOOLEAN :
          LET perCall == IF CRON_DBS_PER_CALL > scenario.DbNum \/ srv.timelimit_exit
                         THEN scenario.DbNum ELSE CRON_DBS_PER_CALL
          IN  /\ fast => srv.timelimit_exit
              /\ \E n \in IF limit THEN 1..perCall ELSE {perCall} :
                   LET visited == {(srv.current_db + i) % scenario.DbNum : i \in 0..(n - 1)}
                       old == {x \in visited \X Keys : keyIsExpired(srv, x[1], x[2])}
                   IN  \E sample \in SUBSET old :
                         LET p == FoldSet(LAMBDA x, q : activeExpireCycleTryExpire(q, x[1], x[2]),
                                          Pre, sample)
                             s == [p.s EXCEPT !.current_db = NextDb(p.s, n, limit),
                                              !.timelimit_exit = limit,
                                              !.waited = [d \in Dbs |-> IF d \in visited THEN 0
                                                                        ELSE @[d] + 1]]
                         IN  Put(Pair(s, p.f))

(* One round of the loop of expireSlaveKeys(): a key that was given an     *)
(* expire by a client is looked at in every DB where it may be.            *)
expireSlaveKeys ==
    /\ ~Master
    /\ \E k \in Keys :
          /\ srv.slaveKeys[k] # {}
          /\ LET p == FoldSet(LAMBDA d, q : activeExpireCycleTryExpire(q, d, k), Pre, srv.slaveKeys[k])
                 s == [p.s EXCEPT !.slaveKeys[k] = {d \in @ : p.s.db[d].when[k] # NoExpire}]
             IN  Put(Pair(s, p.f))

Tick ==
    /\ srv.now < MaxTime + 1
    /\ srv' = [srv EXCEPT !.now = @ + 1]
    /\ seen' = Quiet
    /\ UNCHANGED <<scenario, feed>>

Init ==
    /\ scenario \in Scenarios
    /\ srv = [db |-> [d \in Dbs |-> Db], now |-> 0, slaveKeys |-> [k \in Keys |-> {}],
              slots_to_keys |-> {}, slots_keys_count |-> [n \in {Slot(k) : k \in Keys} |-> 0],
              current_db |-> 0, timelimit_exit |-> FALSE, waited |-> [d \in Dbs |-> 0]]
    /\ feed = Empty
    /\ seen = Quiet

Next ==
    \/ Set \/ expireGenericCommand \/ persistCommand \/ delGenericCommand \/ renameGenericCommand
    \/ moveCommand \/ flushCommand \/ swapdbCommand \/ Read \/ dbRandomKey \/ delKeysInSlot
    \/ activeExpireCycle \/ expireSlaveKeys \/ Tick

Spec == Init /\ [][Next]_vars

----------------------------------------------------------------------------
(* The structures of the keyspace agree: what removeExpire() and           *)
(* getExpire() assert, a time to live belongs to a key that exists; the    *)
(* slot map of a cluster node and its counters are exactly those of its    *)
(* keys; and a reader of the AOF or of the stream, which never expires keys*)
(* itself, has the same keys with the same times, because every deletion   *)
(* of an expired key is told to it.                                        *)
KeyspaceAgrees ==
    /\ \A d \in Dbs : Volatile(srv, d) \subseteq srv.db[d].keys
    /\ Cluster => /\ srv.slots_to_keys = {<<Slot(k), k>> : k \in srv.db[0].keys}
                  /\ \A n \in DOMAIN srv.slots_keys_count :
                       srv.slots_keys_count[n] = Cardinality({k \in srv.db[0].keys : Slot(k) = n})
    /\ feed.db = srv.db

(* No key that expired is shown to a client, though a replica keeps it     *)
(* until its master deletes it; every key that a client of a writable      *)
(* replica gave an expire to is among those expireSlaveKeys() looks at, or *)
(* it would stay forever; and no DB waits for activeExpireCycle() longer   *)
(* than the number of DBs, however often the cycle runs out of time.       *)
ExpiredAreCollected ==
    /\ seen.read /\ seen.found => ~seen.expired
    /\ ~Master => \A d \in Dbs : \A k \in scenario.LocalKeys \cap Volatile(srv, d) : d \in srv.slaveKeys[k]
    /\ \A d \in Dbs : srv.waited[d] < scenario.DbNum
=============================================================================
