------------------------------- MODULE Multi --------------------------------
(***************************************************************************)
(* Transactions (src/src/multi.c) over the keyspace API (src/src/db.c,     *)
(* src/src/expire.c): WATCH and the touching of watched keys, queueing and *)
(* its errors, EXEC and what it sends to replicas, keys that expire, and   *)
(* an instance that changes its role meanwhile.                            *)
(*                                                                         *)
(* A value is the number of the write that made it, with its expire time.  *)
(* A replica consumes the stream at once; it never expires keys by itself. *)
(* The instance is read only while it is a replica, and its own master     *)
(* sends nothing: Psync models that side.                                  *)
(***************************************************************************)
EXTENDS Integers, FiniteSets, SequencesExt

CONSTANTS
    Clients,
    FirstDb,      \* the DB of a new client
    Scenarios     \* configurations and bounds: records with the fields below

VARIABLES
    srv,     \* db, clock, role, clients, and the replica that reads the stream
    used     \* the scenario, and how much of each bound has been used up

vars == <<srv, used>>

NULL == <<>>

Keys == used.scenario.Keys
Dbs == used.scenario.Dbs
Ops == used.scenario.Ops                    \* the commands clients send
RoleInMulti == used.scenario.RoleInMulti    \* the role changes sent inside MULTI
MaxWrites == used.scenario.MaxWrites        \* bound on SET commands
MaxTime == used.scenario.MaxTime            \* bound on the clock
MaxQueue == used.scenario.MaxQueue          \* bound on the length of a transaction
MaxCmds == used.scenario.MaxCmds            \* bound on commands executed or queued
MaxRole == used.scenario.MaxRole            \* bound on role changes

NoExpire == -1

Cmd(op, key, arg) == [op |-> op, key |-> key, arg |-> arg]

READONLY == {"get"}
ADMIN    == {"demote", "promote"}
WRITE    == {"set", "del", "expire", "flushdb", "flushall", "rename", "move", "swapdb"}

----------------------------------------------------------------------------
(* What a command does to the data of a server once its keys are looked up.*)

setKey(db, d, k, v) == [db EXCEPT ![d][k] = [v |-> v, exp |-> NoExpire]]

dbDelete(db, d, k) == [db EXCEPT ![d][k] = NULL]

setExpire(db, d, k, when) == IF db[d][k] = NULL THEN db ELSE [db EXCEPT ![d][k].exp = when]

emptyDb(db, dbs) == [d \in Dbs |-> IF d \in dbs THEN [k \in Keys |-> NULL] ELSE db[d]]

renameKey(db, d, k, k2) ==
    IF db[d][k] = NULL \/ k = k2 THEN db
    ELSE dbDelete([db EXCEPT ![d][k2] = db[d][k]], d, k)

moveKey(db, d, k, d2) ==
    IF d = d2 \/ db[d][k] = NULL \/ db[d2][k] # NULL THEN db
    ELSE dbDelete([db EXCEPT ![d2][k] = db[d][k]], d, k)

dbSwapDatabases(db, d1, d2) == [db EXCEPT ![d1] = db[d2], ![d2] = db[d1]]

Effect(db, d, cmd) ==
    CASE cmd.op = "set"      -> setKey(db, d, cmd.key, cmd.arg)
      [] cmd.op = "del"      -> dbDelete(db, d, cmd.key)
      [] cmd.op = "expire"   -> setExpire(db, d, cmd.key, cmd.arg)
      [] cmd.op = "flushdb"  -> emptyDb(db, {d})
      [] cmd.op = "flushall" -> emptyDb(db, Dbs)
      [] cmd.op = "rename"   -> renameKey(db, d, cmd.key, cmd.arg)
      [] cmd.op = "move"     -> moveKey(db, d, cmd.key, cmd.arg)
      [] cmd.op = "swapdb"   -> dbSwapDatabases(db, cmd.key, cmd.arg)
      [] OTHER               -> db

----------------------------------------------------------------------------
(* A replica reading the stream: a transaction is executed at its EXEC.    *)

ReplicaStep(r, d, cmd) ==
    CASE cmd.op = "multi" -> [r EXCEPT !.multi = TRUE]
      [] cmd.op = "exec"  ->
           [r EXCEPT !.multi = FALSE, !.queue = <<>>, !.stray = @ \/ ~r.multi,
                     !.db = FoldLeft(LAMBDA db, q : Effect(db, q[1], q[2]), @, r.queue)]
      [] OTHER -> IF r.multi THEN [r EXCEPT !.queue = Append(@, <<d, cmd>>)]
                  ELSE [r EXCEPT !.db = Effect(@, d, cmd)]

\* replicationFeedSlaves: an instance that is a replica feeds nothing itself.
propagate(s, d, cmd) ==
    IF s.masterhost THEN s ELSE [s EXCEPT !.replica = ReplicaStep(@, d, cmd)]

----------------------------------------------------------------------------
(* Watched keys.                                                           *)

WatchedBy(c) == {w.key : w \in c.watched}

\* touchWatchedKey for every <<db, key>> of a set.
touchWatchedKeys(s, keys) ==
    [s EXCEPT !.cl = [c \in Clients |->
        IF WatchedBy(s.cl[c]) \cap keys = {} THEN s.cl[c]
        ELSE [s.cl[c] EXCEPT !.dirty_cas = TRUE]]]

\* A watched key remembers the value it had, for the properties.
watchForKey(s, c, k) ==
    LET key == <<s.cl[c].db, k>>
    IN  IF key \in WatchedBy(s.cl[c]) THEN s
        ELSE [s EXCEPT !.cl[c].watched = @ \cup {[key |-> key, val |-> s.db[key[1]][k]]}]

unwatchAllKeys(c) == [c EXCEPT !.watched = {}]

discardTransaction(c) ==
    unwatchAllKeys([c EXCEPT !.multi = FALSE, !.dirty_cas = FALSE, !.dirty_exec = FALSE,
                             !.queue = <<>>, !.failed = FALSE])

\* A client that was refused a command: failed remembers it for the properties.
Refused(c) == [c EXCEPT !.failed = c.multi]

flagTransaction(c) == [c EXCEPT !.dirty_exec = @ \/ c.multi]

----------------------------------------------------------------------------
(* Expiration.                                                             *)

Expired(val, now) == val # NULL /\ val.exp # NoExpire /\ now > val.exp

keyIsExpired(s, d, k) == Expired(s.db[d][k], s.now)

\* expireIfNeeded: the owner of the key space deletes it and tells its replicas.
expireIfNeeded(s, d, k) ==
    IF keyIsExpired(s, d, k) /\ ~s.masterhost
    THEN [propagate(s, d, Cmd("del", k, NULL)) EXCEPT !.db[d][k] = NULL] ELSE s

----------------------------------------------------------------------------
(* The commands: the keys looked up (and so expired) first, what the       *)
(* command is rewritten to, whether it changes anything, what it touches.  *)

LookupBoth(s, d1, k1, d2, k2) ==
    LET s1 == expireIfNeeded(s, d1, k1)
    IN  IF s1.db[d1][k1] = NULL THEN s1 ELSE expireIfNeeded(s1, d2, k2)

LookupKeys(s, d, cmd) ==
    CASE cmd.op \in {"set", "del", "get", "expire"} -> expireIfNeeded(s, d, cmd.key)
      [] cmd.op = "rename" -> LookupBoth(s, d, cmd.key, d, cmd.arg)
      [] cmd.op = "move" /\ cmd.arg # d -> LookupBoth(s, d, cmd.key, cmd.arg, cmd.key)
      [] OTHER -> s

\* expireGenericCommand: a time in the past is a DEL, except on a replica.
expireGeneric(s, cmd) ==
    IF cmd.op = "expire" /\ cmd.arg <= s.now /\ ~s.masterhost
    THEN Cmd("del", cmd.key, NULL) ELSE cmd

Present(s, dbs) == {p \in dbs \X Keys : s.db[p[1]][p[2]] # NULL}

\* What a command adds to server.dirty.
Dirties(s, d, cmd) ==
    LET k == cmd.key
        If(b) == IF b THEN 1 ELSE 0
    IN  CASE cmd.op \in {"set", "swapdb"}    -> 1
          [] cmd.op \in {"del", "expire"}    -> If(s.db[d][k] # NULL)
          [] cmd.op = "rename" -> If(s.db[d][k] # NULL /\ k # cmd.arg)
          [] cmd.op = "move"   -> If(cmd.arg # d /\ s.db[d][k] # NULL /\ s.db[cmd.arg][k] = NULL)
          [] cmd.op = "flushdb"  -> Cardinality(Present(s, {d}))
          [] cmd.op = "flushall" -> Cardinality(Present(s, Dbs)) + 1
          [] OTHER -> 0

TouchSourceOnly(s, d, cmd) ==     \* mutant: RENAME signals one key
    CASE cmd.op \in {"set", "del", "expire", "rename"} -> {<<d, cmd.key>>}
      [] cmd.op = "flushdb"  -> Present(s, {d})
      [] cmd.op = "flushall" -> Present(s, Dbs)
      [] OTHER -> {}

\* signalModifiedKey and signalFlushedDb; MOVE and SWAPDB call neither.
Touched(s, d, cmd) ==
    CASE cmd.op \in {"set", "del", "expire"} -> {<<d, cmd.key>>}
      [] cmd.op = "rename"   -> {<<d, cmd.key>>, <<d, cmd.arg>>}
      [] cmd.op = "flushdb"  -> Present(s, {d})
      [] cmd.op = "flushall" -> Present(s, Dbs)
      [] OTHER -> {}

Modify(s, d, cmd) ==
    IF Dirties(s, d, cmd) = 0 THEN s
    ELSE [touchWatchedKeys(s, Touched(s, d, cmd))
            EXCEPT !.db = Effect(@, d, cmd), !.dirty = @ + Dirties(s, d, cmd)]

\* SELECT, REPLICAOF and SAVE (rdbSave resets dirty) touch no key.
Proc(s, c, cmd) ==
    CASE cmd.op = "select"  -> [s EXCEPT !.cl[c].db = cmd.arg]
      [] cmd.op = "demote"  -> [s EXCEPT !.masterhost = TRUE]
      [] cmd.op = "promote" -> [s EXCEPT !.masterhost = FALSE]
      [] cmd.op = "save"    -> [s EXCEPT !.dirty = 0]
      [] OTHER              -> Modify(s, s.cl[c].db, cmd)

\* call: a command that changed something is sent to the replicas.
call(s, c, cmd) ==
    LET s1  == LookupKeys(s, s.cl[c].db, cmd)
        out == expireGeneric(s1, cmd)
        s2  == Proc(s1, c, out)
    IN  IF s2.dirty > s.dirty THEN propagate(s2, s2.cl[c].db, out) ELSE s2

----------------------------------------------------------------------------
(* EXEC.                                                                   *)

Multi == Cmd("multi", NULL, NULL)
Exec  == Cmd("exec", NULL, NULL)

\* One queued command; MULTI goes out before the first that may write.
ExecOne(acc, c, cmd) ==
    LET first == ~acc.must /\ cmd.op \notin READONLY \cup ADMIN
    IN  [s    |-> call(IF first THEN propagate(acc.s, acc.s.cl[c].db, Multi) ELSE acc.s, c, cmd),
         must |-> acc.must \/ first]

\* mutant: a transaction cut by REPLICAOF is left open in the backlog
CloseByCallOnly(s, c, was_master, dirty) ==
    IF s.dirty + 1 > dirty THEN propagate([s EXCEPT !.dirty = @ + 1], s.cl[c].db, Exec)
    ELSE [s EXCEPT !.dirty = @ + 1]

\* After the queue: EXEC ends what MULTI began, in the backlog directly when
\* the instance is no longer a master, and otherwise by the propagation that
\* call does for the EXEC command itself when dirty has grown.
CloseMulti(s, c, was_master, dirty) ==
    LET s1 == [s EXCEPT !.dirty = @ + 1]
        s2 == IF was_master /\ s1.masterhost
              THEN [s1 EXCEPT !.replica = ReplicaStep(@, s1.cl[c].db, Exec)] ELSE s1
    IN  IF s2.dirty > dirty THEN propagate(s2, s2.cl[c].db, Exec) ELSE s2

ExecQueue(s, c) ==
    LET acc == FoldLeft(LAMBDA a, cmd : ExecOne(a, c, cmd),
                        [s |-> [s EXCEPT !.cl[c] = unwatchAllKeys(@)], must |-> FALSE],
                        s.cl[c].queue)
        s1  == [acc.s EXCEPT !.cl[c] = discardTransaction(@)]
    IN  IF acc.must THEN CloseMulti(s1, c, ~s.masterhost, s.dirty)
        ELSE s1

DenyNone(s, c) == FALSE       \* mutant

\* The transaction was queued on a master that is a read only replica now.
DeniedOnReplica(s, c) ==
    s.masterhost /\ \E i \in DOMAIN s.cl[c].queue : s.cl[c].queue[i].op \in WRITE

----------------------------------------------------------------------------
(* Actions.                                                                *)

Init ==
    /\ \E sc \in Scenarios : used = [cmds |-> 0, writes |-> 0, roles |-> 0, scenario |-> sc]
    /\ srv = [db |-> [d \in Dbs |-> [k \in Keys |-> NULL]],
              now |-> 0, dirty |-> 0, masterhost |-> FALSE,
              cl |-> [c \in Clients |-> [db |-> FirstDb, multi |-> FALSE, dirty_cas |-> FALSE,
                                         dirty_exec |-> FALSE, watched |-> {}, queue |-> <<>>,
                                         failed |-> FALSE]],
              replica |-> [db |-> [d \in Dbs |-> [k \in Keys |-> NULL]],
                           multi |-> FALSE, queue |-> <<>>, stray |-> FALSE]]

Count(op) ==
    /\ used.cmds < MaxCmds
    /\ op = "set" => used.writes < MaxWrites
    /\ op \in ADMIN => used.roles < MaxRole
    /\ used' = [used EXCEPT !.cmds = @ + 1,
                            !.writes = @ + (IF op = "set" THEN 1 ELSE 0),
                            !.roles = @ + (IF op \in ADMIN THEN 1 ELSE 0)]

\* The arguments of a command: a SET writes a value never written before.
Commands ==
    {Cmd("set", k, used.writes + 1) : k \in Keys}
      \cup {Cmd("expire", k, t) : k \in Keys, t \in 0..(MaxTime - 1)}
      \cup {Cmd("rename", k1, k2) : k1 \in Keys, k2 \in Keys}
      \cup {Cmd("move", k, d) : k \in Keys, d \in Dbs}
      \cup {Cmd("swapdb", d1, d2) : d1 \in Dbs, d2 \in Dbs}
      \cup {Cmd(op, k, NULL) : op \in {"get", "del"}, k \in Keys}
      \cup {Cmd("select", NULL, d) : d \in Dbs}
      \cup {Cmd(op, NULL, NULL) : op \in {"flushdb", "flushall", "save", "demote", "promote"}}

\* A command of a client, queued inside MULTI and executed outside. A write
\* sent to a read only replica is refused without flagTransaction.
processCommand(c, cmd) ==
    /\ cmd.op \in Ops
    /\ cmd.op = "demote" => ~srv.masterhost
    /\ cmd.op = "promote" => srv.masterhost
    /\ cmd.op \in ADMIN /\ srv.cl[c].multi => cmd.op \in RoleInMulti
    /\ Count(cmd.op)
    /\ \/ /\ srv.masterhost
          /\ cmd.op \in WRITE
          /\ srv' = [srv EXCEPT !.cl[c] = Refused(@)]
       \/ /\ ~(srv.masterhost /\ cmd.op \in WRITE)
          /\ srv.cl[c].multi
          /\ Len(srv.cl[c].queue) < MaxQueue
          /\ srv' = [srv EXCEPT !.cl[c].queue = Append(@, cmd)]
       \/ /\ ~(srv.masterhost /\ cmd.op \in WRITE)
          /\ ~srv.cl[c].multi
          /\ srv' = call(srv, c, cmd)

\* An unknown command, a wrong arity, out of memory, not enough replicas...
refusedCommand(c) ==
    /\ Count("error")
    /\ srv' = [srv EXCEPT !.cl[c] = flagTransaction(Refused(@))]

watchCommand(c) ==
    /\ "watch" \in Ops /\ Count("watch")
    /\ ~srv.cl[c].multi
    /\ \E k \in Keys : srv' = watchForKey(srv, c, k)

\* Outside MULTI; a queued UNWATCH finds nothing left to do at EXEC.
unwatchCommand(c) ==
    /\ Count("unwatch")
    /\ ~srv.cl[c].multi
    /\ srv' = [srv EXCEPT !.cl[c] = [unwatchAllKeys(@) EXCEPT !.dirty_cas = FALSE]]

multiCommand(c) ==
    /\ ~srv.cl[c].multi
    /\ srv' = [srv EXCEPT !.cl[c].multi = TRUE]
    /\ UNCHANGED used

discardCommand(c) ==
    /\ srv.cl[c].multi
    /\ srv' = [srv EXCEPT !.cl[c] = discardTransaction(@)]
    /\ UNCHANGED used

execCommand(c) ==
    /\ srv.cl[c].multi
    /\ srv' = IF srv.cl[c].dirty_cas \/ srv.cl[c].dirty_exec \/ DeniedOnReplica(srv, c)
              THEN [srv EXCEPT !.cl[c] = discardTransaction(@)]
              ELSE ExecQueue(srv, c)
    /\ UNCHANGED used

\* freeClient, and the next client that takes its place.
freeClient(c) ==
    /\ Count("quit")
    /\ srv' = [srv EXCEPT !.cl[c] = [discardTransaction(@) EXCEPT !.db = FirstDb]]

\* activeExpireCycle deletes an expired key on a master only.
activeExpireCycle ==
    /\ ~srv.masterhost
    /\ \E d \in Dbs, k \in Keys :
          /\ keyIsExpired(srv, d, k)
          /\ srv' = expireIfNeeded(srv, d, k)
    /\ UNCHANGED used

Tick ==
    /\ srv.now < MaxTime
    /\ srv' = [srv EXCEPT !.now = @ + 1]
    /\ UNCHANGED used

Next ==
    \/ \E c \in Clients, cmd \in Commands : processCommand(c, cmd)
    \/ \E c \in Clients :
          \/ refusedCommand(c)
          \/ watchCommand(c)
          \/ unwatchCommand(c)
          \/ multiCommand(c)
          \/ discardCommand(c)
          \/ execCommand(c)
          \/ freeClient(c)
    \/ activeExpireCycle
    \/ Tick

Spec == Init /\ [][Next]_vars

----------------------------------------------------------------------------
(* Properties.                                                             *)

Values == {NULL} \cup [v : 1..MaxWrites, exp : {NoExpire} \cup 0..MaxTime]

\* The types of the state; outside a command the replica has nothing queued
\* unless a transaction is open in its stream.
TypeOK ==
    /\ srv.db \in [Dbs -> [Keys -> Values]]
    /\ srv.now \in 0..MaxTime
    /\ srv.dirty \in Nat
    /\ srv.masterhost \in BOOLEAN
    /\ \A c \in Clients :
          LET x == srv.cl[c]
          IN  /\ x.db \in Dbs
              /\ {x.multi, x.dirty_cas, x.dirty_exec, x.failed} \subseteq BOOLEAN
              /\ x.watched \subseteq [key : Dbs \X Keys, val : Values]
              /\ Len(x.queue) <= MaxQueue
    /\ srv.replica.db \in [Dbs -> [Keys -> Values]]
    /\ {srv.replica.multi, srv.replica.stray} \subseteq BOOLEAN
    /\ ~srv.replica.multi => srv.replica.queue = <<>>

\* While EXEC of a client would go ahead, no command was refused after its
\* MULTI (as long as the instance has kept its role: a write refused with
\* -READONLY does not flag the client), and every key it watches still has the
\* value and the expire time it had at WATCH, whoever wrote to it, renamed a
\* key onto it or flushed the DB meanwhile. A key whose time to live ran out
\* is the one exception the tests ask for: its deletion aborts nothing.
ExecJustified ==
    \A c \in Clients :
        /\ used.roles = 0 /\ srv.cl[c].failed => srv.cl[c].dirty_exec
        /\ ~srv.cl[c].dirty_cas => \A w \in srv.cl[c].watched :
              LET cur == srv.db[w.key[1]][w.key[2]]
              IN  cur = w.val \/ (cur = NULL /\ Expired(w.val, srv.now))

\* Between two commands the replica that reads the stream is inside no
\* transaction: a MULTI that execCommand sends is always closed by an EXEC,
\* also when the instance became a replica half way. While the instance has
\* kept its role, no EXEC is sent whose MULTI was not: a transaction that only
\* reads leaves no trace in the stream.
MultiClosed == ~srv.replica.multi /\ (used.roles = 0 => ~srv.replica.stray)

\* While the instance has kept its role, a replica that reads the whole stream
\* has its data after each command, expired keys, rewritten EXPIREs and
\* transactions included, although it never deletes an expired key by itself.
ReplicaInSync == used.roles = 0 => srv.replica.db = srv.db

\* The data of a read only replica is not changed by its own clients, not
\* even by a transaction queued while it was a master, nor by the passing of
\* time: keys that expire wait for the DEL of its master.
ReplicaKeepsData == srv.masterhost /\ srv'.masterhost => srv'.db = srv.db
ReadOnlyReplica == [][ReplicaKeepsData]_vars
=============================================================================
