------------------------------ MODULE Blocked -------------------------------
(***************************************************************************)
(* Blocking operations on lists, sorted sets and streams                   *)
(* (src/src/blocked.c with t_list.c, t_zset.c, t_stream.c): clients that   *)
(* wait for keys, keys that become ready, the order in which clients are   *)
(* served, and the input a client sent while it was blocked or paused.     *)
(*                                                                         *)
(* An element is the number of the command that made it; the elements of a *)
(* sorted set have increasing scores. A stream has at most one group, and  *)
(* the consumer of a client has its name. A replica consumes the stream of *)
(* commands at once. Keys have no time to live here (see Multi).           *)
(***************************************************************************)
EXTENDS Integers, FiniteSets, SequencesExt

CONSTANTS
    Clients,
    Scenarios     \* configurations and bounds: records with the fields below

VARIABLES
    srv,     \* the server, its clients, and the replica that reads its stream
    used     \* the scenario, and how much of each bound has been used up

vars == <<srv, used>>

Keys == used.scenario.Keys
Dbs == used.scenario.Dbs
Requests == used.scenario.Requests      \* what clients send, see Request
Pushes == used.scenario.Pushes          \* what modules and a master write
Events == used.scenario.Events          \* the other events of this scenario
ReadCount == used.scenario.ReadCount    \* COUNT of XREADGROUP, 0 for none
MaxElements == used.scenario.MaxElements \* bound on elements and entries
MaxBlocks == used.scenario.MaxBlocks    \* bound on how often clients block
MaxRequests == used.scenario.MaxRequests \* bound on requests
MaxPending == used.scenario.MaxPending  \* bound on requests in an input buffer
MaxEvents == used.scenario.MaxEvents    \* bound on the other events

NULL == <<>>

Cmd(op, key, arg) == [op |-> op, key |-> key, arg |-> arg]

\* A command, or the commands of a transaction or script, which never block.
Request(multi, cmds) == [multi |-> multi, cmds |-> cmds]

NoGroup == [on |-> FALSE, last |-> 0, pel |-> {}, seen |-> {}, twice |-> FALSE]
None == [type |-> "none", items |-> <<>>, last |-> 0, grp |-> NoGroup]

----------------------------------------------------------------------------
(* What a command does to a dataset.                                       *)

Is(data, d, k, type) == data[d][k].type \in {"none", type}

Value(data, d, k, type, items) ==
    [data EXCEPT ![d][k] = IF items = <<>> THEN None ELSE [None EXCEPT !.type = type, !.items = items]]

\* listTypePush and listTypePop, zsetDel of the first or the last element.
Push(items, v, where) == IF where = "head" THEN <<v>> \o items ELSE Append(items, v)
End(items, where) == IF where = "head" THEN Head(items) ELSE Last(items)
Pop(items, where) == IF where = "head" THEN Tail(items) ELSE Front(items)

PopKey(data, d, k, type, where) ==
    IF data[d][k].type # type THEN data
    ELSE Value(data, d, k, type, Pop(data[d][k].items, where))

PushKey(data, d, k, type, v, where) ==
    IF ~Is(data, d, k, type) THEN data
    ELSE Value(data, d, k, type, Push(data[d][k].items, v, where))

streamAppendItem(data, d, k, id) ==
    IF ~Is(data, d, k, "stream") THEN data
    ELSE [data EXCEPT ![d][k] = [@ EXCEPT !.type = "stream", !.items = Append(@, id), !.last = id]]

\* The group after entry id went to consumer c; NULL: no pending entry.
Deliver(grp, id, c) ==
    [grp EXCEPT !.last = IF id > @ THEN id ELSE @,
                !.pel = IF c = NULL THEN @ ELSE {p \in @ : p[1] # id} \cup {<<id, c>>},
                !.seen = @ \cup {id},
                !.twice = @ \/ id \in grp.seen]

RPopLPush(data, d, k, k2) ==
    IF data[d][k].type # "list" \/ ~Is(data, d, k2, "list") THEN data
    ELSE LET popped == [data EXCEPT ![d][k].items = Front(@)]
             pushed == [popped EXCEPT ![d][k2].type = "list",
                                      ![d][k2].items = <<Last(data[d][k].items)>> \o @]
         IN  Value(pushed, d, k, "list", pushed[d][k].items)

renameKey(data, d, k, k2) ==
    IF data[d][k] = None \/ k = k2 THEN data
    ELSE [data EXCEPT ![d][k2] = data[d][k], ![d][k] = None]

xgroup(data, d, k) ==     \* XGROUP CREATE k 0 MKSTREAM
    IF ~Is(data, d, k, "stream") \/ data[d][k].grp.on THEN data
    ELSE [data EXCEPT ![d][k].type = "stream", ![d][k].grp.on = TRUE]

Effect(data, d, cmd) ==
    LET k == cmd.key
        v == cmd.arg     \* in "xclaim", no consumer stands for XGROUP SETID
        stream == data[d][k].type = "stream"
    IN  CASE cmd.op = "rpush"    -> PushKey(data, d, k, "list", v, "tail")
          [] cmd.op = "lpush"    -> PushKey(data, d, k, "list", v, "head")
          [] cmd.op = "lpop"     -> PopKey(data, d, k, "list", "head")
          [] cmd.op = "rpop"     -> PopKey(data, d, k, "list", "tail")
          [] cmd.op = "rpoplpush" -> RPopLPush(data, d, k, v)
          [] cmd.op = "zadd"     -> PushKey(data, d, k, "zset", v, "tail")
          [] cmd.op = "zpopmin"  -> PopKey(data, d, k, "zset", "head")
          [] cmd.op = "zpopmax"  -> PopKey(data, d, k, "zset", "tail")
          [] cmd.op = "xadd"     -> streamAppendItem(data, d, k, v)
          [] cmd.op = "xadd0"    -> IF data[d][k] = None THEN [data EXCEPT ![d][k].type = "stream"] ELSE data
          [] cmd.op = "xtrim"    -> IF stream THEN [data EXCEPT ![d][k].items = <<>>] ELSE data
          [] cmd.op = "xgroup"   -> xgroup(data, d, k)
          [] cmd.op = "xdestroy" -> [data EXCEPT ![d][k].grp = NoGroup]
          [] cmd.op = "xclaim"   -> [data EXCEPT ![d][k].grp = Deliver(@, v[1], v[2])]
          [] cmd.op = "del"      -> [data EXCEPT ![d][k] = None]
          [] cmd.op = "rename"   -> renameKey(data, d, k, v)
          [] cmd.op = "store"    -> Value(data, d, k, "list", <<v>>)
          [] cmd.op = "swapdb"   -> [data EXCEPT ![k] = data[v], ![v] = data[k]]
          [] OTHER               -> data

propagate(s, d, cmd) == [s EXCEPT !.replica = Effect(@, d, cmd)]

\* The elements of all lists and sorted sets.
Elements(data) ==
    UNION {ToSet(data[d][k].items) : <<d, k>> \in
             {x \in Dbs \X Keys : data[x[1]][x[2]].type \in {"list", "zset"}}}

\* A client is given an element: remembered for the properties.
Give(s, c, v) == [s EXCEPT !.live = @ \ {v}, !.twice = @ \/ v \notin s.live,
                           !.served = @ \cup {c}]

----------------------------------------------------------------------------
(* The tables of blocked clients and of ready keys.                        *)

signalKeyAsReady(s, d, k) ==
    IF s.blocking[d][k] = <<>> \/ <<d, k>> \in s.db_ready THEN s
    ELSE [s EXCEPT !.ready_keys = Append(@, <<d, k>>), !.db_ready = @ \cup {<<d, k>>}]

\* The signal of dbAdd, for a key that was just added.
dbAdd(s, d, k) ==
    IF s.data[d][k].type \in {"list", "zset"} THEN signalKeyAsReady(s, d, k) ELSE s

scanDatabaseForReadyLists(s, d) ==
    FoldLeft(LAMBDA x, k : IF x.data[d][k] = None THEN x ELSE signalKeyAsReady(x, d, k),
             s, SetToSeq(Keys))

queueClientForReprocessing(s, c) ==
    IF s.cl[c].unblocked THEN s
    ELSE [s EXCEPT !.unblocked_clients = Append(@, c), !.cl[c].unblocked = TRUE]

unblockClient(s, c) ==
    LET d == s.cl[c].db
    IN  queueClientForReprocessing(
          [s EXCEPT !.blocking[d] = [k \in Keys |-> IF k \in DOMAIN s.cl[c].keys
                                                    THEN Remove(@[k], c) ELSE @[k]],
                    !.cl[c].btype = "none", !.cl[c].keys = NULL, !.cl[c].target = NULL,
                    !.cl[c].group = FALSE, !.cl[c].noack = FALSE, !.cl[c].lastcmd = "none",
                    !.cl[c].at = 0, !.cl[c].since = 0], c)

\* The keys to wait for, and the ID every entry must exceed; at and since
\* remember when the client blocked, for the properties.
BlockAtHead(s, c, btype, cmd, keys, target, gt) ==    \* mutant: last come, first served
    LET d == s.cl[c].db
    IN  [s EXCEPT !.blocking[d] = [k \in Keys |-> IF k \in ToSet(keys) THEN <<c>> \o @[k] ELSE @[k]],
                  !.cl[c].btype = btype, !.cl[c].lastcmd = cmd, !.cl[c].target = target,
                  !.cl[c].keys = [k \in ToSet(keys) |-> gt[k]],
                  !.cl[c].at = s.nblocks + 1, !.cl[c].since = s.n, !.nblocks = @ + 1]

blockForKeys(s, c, btype, cmd, keys, target, gt) ==
    LET d == s.cl[c].db
        mixes(k) == \E o \in ToSet(s.blocking[d][k]) : s.cl[o].btype # btype
    IN  [s EXCEPT !.blocking[d] = [k \in Keys |-> IF k \in ToSet(keys) THEN Append(@[k], c) ELSE @[k]],
                  !.cl[c].btype = btype, !.cl[c].lastcmd = cmd, !.cl[c].target = target,
                  !.cl[c].keys = [k \in ToSet(keys) |-> gt[k]],
                  !.cl[c].at = s.nblocks + 1, !.cl[c].since = s.n, !.nblocks = @ + 1,
                  !.mixed = @ \cup {<<d, k>> : k \in {x \in ToSet(keys) : mixes(x)}}]

----------------------------------------------------------------------------
(* Serving the clients of a ready key.                                     *)

\* rpoplpushHandlePush: the key is added when it does not exist.
rpoplpushHandlePush(s, d, k, v) ==
    LET s1 == [s EXCEPT !.data[d][k].type = "list", !.data[d][k].items = Push(@, v, "head")]
    IN  IF s.data[d][k].type = "none" THEN dbAdd(s1, d, k) ELSE s1

Where(cmd) == IF cmd \in {"blpop", "bzpopmin"} THEN "head" ELSE "tail"

propagatePop(s, d, k, where) ==
    propagate(s, d, Cmd(IF where = "head" THEN "lpop" ELSE "rpop", k, NULL))

\* Element v, popped from key k, for client c: BLPOP and BRPOP, or the second
\* half of BRPOPLPUSH; when that fails the caller undoes the pop.
serveClientBlockedOnList(s, c, d, k, target, v, where) ==
    CASE target = NULL -> Give(propagatePop(s, d, k, where), c, v)
      [] target # NULL /\ Is(s.data, d, target, "list") ->
           LET s1 == propagate(s, d, Cmd("rpop", k, NULL))
               s2 == rpoplpushHandlePush(s1, d, target, v)
           IN  propagate([s2 EXCEPT !.served = @ \cup {c}], d, Cmd("lpush", target, v))
      [] OTHER -> [s EXCEPT !.data[d][k].items = Push(@, v, where)]

\* A client that waits for another type goes to the tail of the list.
Rotate(s, d, k) == [s EXCEPT !.blocking[d][k] = Append(Tail(@), Head(@))]

RECURSIVE ServeList(_, _, _, _)
ServeList(s, d, k, numclients) ==
    LET c == Head(s.blocking[d][k])
        x == s.cl[c]
        items == s.data[d][k].items
        where == Where(x.lastcmd)
        popped == [s EXCEPT !.data[d][k].items = Pop(@, where)]
    IN  IF numclients = 0 THEN s
        ELSE IF x.btype # "list" THEN ServeList(Rotate(s, d, k), d, k, numclients - 1)
        ELSE IF items = <<>> THEN s
        ELSE ServeList(serveClientBlockedOnList(unblockClient(popped, c), c, d, k, x.target,
                                                End(items, where), where),
                       d, k, numclients - 1)

RECURSIVE ServeZset(_, _, _, _)
ServeZset(s, d, k, numclients) ==
    LET c == Head(s.blocking[d][k])
        items == s.data[d][k].items
        where == Where(s.cl[c].lastcmd)
        pop == Cmd(IF where = "head" THEN "zpopmin" ELSE "zpopmax", k, NULL)
        popped == [unblockClient(s, c) EXCEPT !.data = PopKey(@, d, k, "zset", where)]
    IN  IF numclients = 0 \/ items = <<>> THEN s
        ELSE IF s.cl[c].btype # "zset" THEN ServeZset(Rotate(s, d, k), d, k, numclients - 1)
        ELSE ServeZset(propagate(Give(popped, c, End(items, where)), d, pop), d, k, numclients - 1)

\* The entries after gt, at most count of them; for a group they become
\* pending and replicas are told, with XCLAIM or XGROUP SETID.
streamReplyWithRange(s, c, d, k, gt, group, noack, count) ==
    LET after == SelectSeq(s.data[d][k].items, LAMBDA id : id > gt)
        ids == IF count = 0 THEN after ELSE SubSeq(after, 1, Min({count, Len(after)}))
        claim(id) == Cmd("xclaim", k, <<id, IF noack THEN NULL ELSE c>>)
        one(x, id) == propagate([x EXCEPT !.data = Effect(@, d, claim(id))], d, claim(id))
        s1 == IF ids = <<>> THEN [s EXCEPT !.empty = @ \cup {c}] ELSE [s EXCEPT !.served = @ \cup {c}]
    IN  IF group THEN FoldLeft(one, s1, ids) ELSE s1

ServeStreamClient(s, d, k, c) ==
    LET x == s.cl[c]
        grp == s.data[d][k].grp
        gt == IF x.group THEN grp.last ELSE x.keys[k]
    IN  IF x.btype # "stream" THEN s
        ELSE IF x.group /\ ~grp.on
        THEN unblockClient(s, c)
        ELSE IF s.data[d][k].last > gt
        THEN unblockClient(streamReplyWithRange(s, c, d, k, gt, x.group, x.noack, ReadCount), c)
        ELSE [s EXCEPT !.cl[c].keys[k] = gt]

ServeKey(s, d, k) ==
    LET clients == s.blocking[d][k]
        type == s.data[d][k].type
        served == ServeList(s, d, k, Len(clients))
    IN  CASE type = "list"   -> [served EXCEPT !.data = Value(@, d, k, "list", @[d][k].items)]
          [] type = "zset"   -> ServeZset(s, d, k, Len(clients))
          [] type = "stream" -> FoldLeft(LAMBDA x, c : ServeStreamClient(x, d, k, c), s, clients)
          [] OTHER           -> s

\* The key leaves db_ready first, so that serving can signal it again.
ServeReady(s, d, k) == ServeKey([s EXCEPT !.db_ready = @ \ {<<d, k>>}], d, k)

ServeOneRound(s) ==           \* mutant: keys signalled meanwhile are dropped
    LET served == FoldLeft(LAMBDA x, rl : ServeReady(x, rl[1], rl[2]), s, s.ready_keys)
    IN  [served EXCEPT !.ready_keys = <<>>, !.db_ready = {}]

RECURSIVE handleClientsBlockedOnKeys(_)
handleClientsBlockedOnKeys(s) ==
    IF s.ready_keys = <<>> THEN s
    ELSE handleClientsBlockedOnKeys(
           FoldLeft(LAMBDA x, rl : ServeReady(x, rl[1], rl[2]),
                    [s EXCEPT !.ready_keys = <<>>], s.ready_keys))

----------------------------------------------------------------------------
(* Commands.                                                               *)

\* A command that does not block.
Write(s, d, cmd) ==
    LET makes == cmd.op \in {"rpush", "lpush", "zadd", "xadd", "store"}
        out == IF makes THEN [cmd EXCEPT !.arg = s.n + 1] ELSE cmd
        after == Effect(s.data, d, out)
        lost == Elements(s.data) \ Elements(after)
        new == IF cmd.op = "xadd" THEN {} ELSE Elements(after) \ Elements(s.data)
        k == IF cmd.op = "rename" THEN cmd.arg ELSE cmd.key
        done == after # s.data
        s1 == [s EXCEPT !.data = after, !.live = (@ \ lost) \cup new,
                        !.n = IF done /\ makes THEN @ + 1 ELSE @]
        s2 == IF cmd.op = "xadd0" THEN s1 ELSE propagate(s1, d, out)
    IN  CASE ~done                -> s1
          [] cmd.op = "swapdb"    -> scanDatabaseForReadyLists(scanDatabaseForReadyLists(s2, cmd.key), cmd.arg)
          [] cmd.op = "xadd"      -> IF \E o \in Clients : s2.cl[o].btype = "stream"
                                     THEN signalKeyAsReady(s2, d, k) ELSE s2
          [] cmd.op = "rename"    -> dbAdd(s2, d, k)
          [] makes                -> IF s.data[d][k] = None THEN dbAdd(s2, d, k) ELSE s2
          [] OTHER                -> s2

NoGt == [k \in Keys |-> 0]

\* BLPOP, BRPOP, BZPOPMIN, BZPOPMAX: the first key that exists decides.
blockingPop(s, c, cmd, multi, type) ==
    LET d == s.cl[c].db
        present == SelectSeq(cmd.key, LAMBDA x : s.data[d][x] # None)
        k == Head(present)
        where == Where(cmd.op)
        pop == CASE cmd.op = "blpop" -> "lpop" [] cmd.op = "brpop" -> "rpop"
                 [] cmd.op = "bzpopmin" -> "zpopmin" [] OTHER -> "zpopmax"
        popped == [s EXCEPT !.data = PopKey(@, d, k, type, where)]
    IN  IF present = <<>>
        THEN IF multi THEN s
             ELSE blockForKeys(s, c, type, cmd.op, cmd.key, NULL, NoGt)
        ELSE IF s.data[d][k].type # type THEN s
        ELSE propagate(Give(popped, c, End(s.data[d][k].items, where)), d, Cmd(pop, k, NULL))

brpoplpushCommand(s, c, cmd, multi) ==
    LET d == s.cl[c].db
        k == cmd.key
        s1 == propagate([s EXCEPT !.data = RPopLPush(@, d, k, cmd.arg)], d, Cmd("rpoplpush", k, cmd.arg))
        s2 == IF s.data[d][cmd.arg] = None THEN dbAdd(s1, d, cmd.arg) ELSE s1
    IN  IF s.data[d][k] = None
        THEN IF multi THEN s
             ELSE blockForKeys(s, c, "list", cmd.op, <<k>>, cmd.arg, NoGt)
        ELSE IF s.data[d][k].type # "list" \/ ~Is(s.data, d, cmd.arg, "list") THEN s
        ELSE [s2 EXCEPT !.served = @ \cup {c}]

\* XREAD with the IDs $ ("new") or 0, XREADGROUP with the ID > and NOACK or
\* not: every stream that has something is served, or the client blocks.
xreadCommand(s, c, cmd, multi) ==
    LET d == s.cl[c].db
        group == cmd.op = "xreadgroup"
        noack == cmd.arg = "noack"
        gt == [k \in Keys |-> IF group THEN s.data[d][k].grp.last
                              ELSE IF cmd.arg = "new" THEN s.data[d][k].last ELSE 0]
        some(k) == s.data[d][k].items # <<>> /\ s.data[d][k].last > gt[k]
        one(x, k) == streamReplyWithRange(x, c, d, k, gt[k], group, noack, ReadCount)
        serve == SelectSeq(cmd.key, some)
        blocked == blockForKeys(s, c, "stream", cmd.op, cmd.key, NULL, gt)
    IN  IF \E k \in ToSet(cmd.key) : ~Is(s.data, d, k, "stream") \/ (group /\ ~s.data[d][k].grp.on)
        THEN s
        ELSE IF serve # <<>> THEN FoldLeft(one, s, serve)
        ELSE IF multi THEN s
        ELSE [blocked EXCEPT !.cl[c].group = group, !.cl[c].noack = noack]

call(s, c, cmd, multi) ==
    CASE cmd.op \in {"blpop", "brpop"}       -> blockingPop(s, c, cmd, multi, "list")
      [] cmd.op \in {"bzpopmin", "bzpopmax"} -> blockingPop(s, c, cmd, multi, "zset")
      [] cmd.op = "brpoplpush"               -> brpoplpushCommand(s, c, cmd, multi)
      [] cmd.op \in {"xread", "xreadgroup"}  -> xreadCommand(s, c, cmd, multi)
      [] OTHER                               -> Write(s, s.cl[c].db, cmd)

\* A read only replica refuses what may write; all but XREAD may.
Refused(s, req) ==
    s.role = "slave" /\ \E i \in DOMAIN req.cmds : req.cmds[i].op # "xread"

\* A command or a whole transaction, and then the clients it made ready.
processCommand(s, c, req) ==
    IF Refused(s, req) THEN s
    ELSE handleClientsBlockedOnKeys(
           FoldLeft(LAMBDA x, cmd : call(x, c, cmd, req.multi), s, req.cmds))

RECURSIVE processInputBuffer(_, _)
processInputBuffer(s, c) ==
    LET x == s.cl[c]
    IN  IF x.querybuf = <<>> \/ s.paused \/ x.btype # "none" \/ x.closing THEN s
        ELSE processInputBuffer(
               processCommand([s EXCEPT !.cl[c].querybuf = Tail(@)], c, Head(x.querybuf)), c)

\* The first client of unblocked_clients; its flag goes before its input is
\* processed, which may block it and unblock it again.
ProcessUnblocked(s) ==
    LET c == Head(s.unblocked_clients)
    IN  processInputBuffer([s EXCEPT !.unblocked_clients = Tail(@), !.cl[c].unblocked = FALSE], c)

RECURSIVE processUnblockedClients(_)
processUnblockedClients(s) ==
    IF s.unblocked_clients = <<>> THEN s ELSE processUnblockedClients(ProcessUnblocked(s))

----------------------------------------------------------------------------
(* Actions.                                                                *)

NewClient(d) ==
    [db |-> d, btype |-> "none", keys |-> NULL, target |-> NULL, lastcmd |-> "none",
     group |-> FALSE, noack |-> FALSE, unblocked |-> FALSE, closing |-> FALSE,
     querybuf |-> <<>>, at |-> 0, since |-> 0]

Init ==
    /\ \E sc \in Scenarios : used = [requests |-> 0, events |-> 0, scenario |-> sc]
    /\ \E db \in [Clients -> Dbs] :
          srv = [data |-> [d \in Dbs |-> [k \in Keys |-> None]],
                 replica |-> [d \in Dbs |-> [k \in Keys |-> None]],
                 blocking |-> [d \in Dbs |-> [k \in Keys |-> <<>>]],
                 ready_keys |-> <<>>, db_ready |-> {}, unblocked_clients |-> <<>>,
                 role |-> "master", paused |-> FALSE,
                 cl |-> [c \in Clients |-> NewClient(db[c])],
                 n |-> 0, nblocks |-> 0, mixed |-> {},
                 live |-> {}, twice |-> FALSE, served |-> {}, empty |-> {}]

\* Who was served is remembered for one step.
Idle == [srv EXCEPT !.served = {}, !.empty = {}]

Event(e) ==
    /\ e \in Events
    /\ used.events < MaxEvents
    /\ used' = [used EXCEPT !.events = @ + 1]

\* A client sends a request: executed at once unless it is blocked or paused.
readQueryFromClient(c) ==
    /\ used.requests < MaxRequests
    /\ Len(srv.cl[c].querybuf) < MaxPending
    /\ used' = [used EXCEPT !.requests = @ + 1]
    /\ \E req \in Requests :
          srv' = processInputBuffer([Idle EXCEPT !.cl[c].querybuf = Append(@, req)], c)
    /\ srv'.n <= MaxElements
    /\ srv'.nblocks <= MaxBlocks

beforeSleep ==
    /\ srv.unblocked_clients # <<>>
    /\ srv' = processUnblockedClients(Idle)
    /\ srv'.n <= MaxElements
    /\ srv'.nblocks <= MaxBlocks
    /\ UNCHANGED used

\* serverCron: the timeout of a blocked client.
clientsCronHandleTimeout(c) ==
    /\ Event("timeout")
    /\ srv.cl[c].btype # "none"
    /\ srv' = unblockClient(Idle, c)

\* CLIENT UNBLOCK, sent by some other client; ready keys are handled after it.
clientUnblock(c) ==
    /\ Event("unblock")
    /\ ~srv.paused
    /\ srv.cl[c].btype # "none"
    /\ srv' = handleClientsBlockedOnKeys(unblockClient(Idle, c))

\* freeClient, and the next client that takes its place.
freeClient(c) ==
    /\ Event("close")
    /\ LET s1 == IF srv.cl[c].btype = "none" THEN Idle ELSE unblockClient(Idle, c)
       IN  \E d \in Dbs :
             srv' = [s1 EXCEPT !.unblocked_clients = Remove(@, c), !.cl[c] = NewClient(d)]

\* CLIENT PAUSE, and the end of the pause, which queues every client that is
\* not blocked.
pauseClients ==
    /\ Event("pause")
    /\ ~srv.paused
    /\ srv' = [Idle EXCEPT !.paused = TRUE]

PauseOver(s, cs) == FoldLeft(queueClientForReprocessing, [s EXCEPT !.paused = FALSE], cs)

clientsArePaused ==
    /\ srv.paused
    /\ \E cs \in SetToSeqs({c \in Clients : srv.cl[c].btype = "none"}) :
          srv' = PauseOver(Idle, cs)
    /\ UNCHANGED used

\* REPLICAOF: the blocked clients of a master that becomes a replica are
\* unblocked with an error and closed.
disconnectAllBlockedClients(s, cs) ==
    FoldLeft(LAMBDA x, c : [unblockClient(x, c) EXCEPT !.cl[c].closing = TRUE],
             [s EXCEPT !.role = "slave"], cs)

replicationSetMaster ==
    /\ Event("role")
    /\ ~srv.paused /\ srv.role = "master"
    /\ \E cs \in SetToSeqs({c \in Clients : srv.cl[c].btype # "none"}) :
          srv' = handleClientsBlockedOnKeys(disconnectAllBlockedClients(Idle, cs))

replicationUnsetMaster ==
    /\ Event("role")
    /\ ~srv.paused /\ srv.role = "slave"
    /\ srv' = handleClientsBlockedOnKeys([Idle EXCEPT !.role = "master"])

\* A module writes from a timer or a thread: nobody handles the ready keys.
moduleCall ==
    /\ Event("module")
    /\ srv.role = "master"
    /\ \E d \in Dbs, cmd \in Pushes : srv' = Write(Idle, d, cmd)
    /\ srv'.n <= MaxElements

\* The stream of the master of a replica.
commandFromMaster ==
    /\ Event("stream")
    /\ ~srv.paused /\ srv.role = "slave"
    /\ \E d \in Dbs, cmd \in Pushes : srv' = handleClientsBlockedOnKeys(Write(Idle, d, cmd))
    /\ srv'.n <= MaxElements

Next ==
    \/ \E c \in Clients :
          \/ readQueryFromClient(c)
          \/ clientsCronHandleTimeout(c)
          \/ clientUnblock(c)
          \/ freeClient(c)
    \/ beforeSleep
    \/ pauseClients
    \/ clientsArePaused
    \/ replicationSetMaster
    \/ replicationUnsetMaster
    \/ moduleCall
    \/ commandFromMaster

Spec == Init /\ [][Next]_vars

----------------------------------------------------------------------------
(* Properties.                                                             *)

Values ==
    [type : {"none", "list", "zset", "stream"}, items : BoundedSeq(1..MaxElements, MaxElements),
     last : 0..MaxElements,
     grp : [on : BOOLEAN, last : 0..MaxElements, pel : SUBSET ((1..MaxElements) \X Clients),
            seen : SUBSET (1..MaxElements), twice : BOOLEAN]]

\* The types of the state; no list or sorted set is left empty.
TypeOK ==
    /\ \A data \in {srv.data, srv.replica} : \A d \in Dbs, k \in Keys :
          /\ data[d][k] \in Values
          /\ data[d][k].type \in {"list", "zset"} => data[d][k].items # <<>>
    /\ \A c \in Clients :
          LET x == srv.cl[c]
          IN  /\ x.db \in Dbs
              /\ x.btype \in {"none", "list", "zset", "stream"}
              /\ DOMAIN x.keys \subseteq Keys
              /\ x.target \in Keys \cup {NULL}
              /\ Len(x.querybuf) <= MaxPending
    /\ srv.db_ready \subseteq Dbs \X Keys

Times(seq, e) == Cardinality({i \in DOMAIN seq : seq[i] = e})

\* The tables that blocked.c keeps in several places agree: a client is in
\* the list of a key, once, exactly when it is blocked on the key in that DB;
\* ready_keys and the db_ready dictionaries hold the same keys, once each; and
\* unblocked_clients holds, once each, the clients with CLIENT_UNBLOCKED.
TablesAgree ==
    /\ TypeOK
    /\ \A d \in Dbs, k \in Keys, c \in Clients :
          Times(srv.blocking[d][k], c) =
            IF srv.cl[c].btype # "none" /\ srv.cl[c].db = d /\ k \in DOMAIN srv.cl[c].keys THEN 1 ELSE 0
    /\ \A d \in Dbs, k \in Keys :
          Times(srv.ready_keys, <<d, k>>) = IF <<d, k>> \in srv.db_ready THEN 1 ELSE 0
    /\ \A c \in Clients : Times(srv.unblocked_clients, c) = IF srv.cl[c].unblocked THEN 1 ELSE 0

\* Client c, blocked on key k, could be served by what the key holds: for a
\* stream, by an entry added after the client blocked.
CouldServe(c, k) ==
    LET x == srv.cl[c]
        o == srv.data[x.db][k]
    IN  /\ x.btype = o.type
        /\ x.btype = "stream" =>
             /\ x.group => o.grp.on
             /\ \E id \in ToSet(o.items) :
                  id > x.since /\ id > x.keys[k] /\ (x.group => id > o.grp.last)

\* No wakeup is missed: between two commands a client is left blocked on a
\* key that could serve it only when the key is in ready_keys, where a module
\* left it, and the next command of any client serves it.
NoMissedWakeup ==
    \A c \in Clients : srv.cl[c].btype # "none" =>
        \A k \in DOMAIN srv.cl[c].keys : CouldServe(c, k) => <<srv.cl[c].db, k>> \in srv.db_ready

\* A consumer group delivers every entry to one consumer: never twice, and
\* none that is still in the stream is skipped, whether XREADGROUP answered at
\* once or the client had been blocked.
GroupDeliversOnce ==
    \A d \in Dbs, k \in Keys :
        LET o == srv.data[d][k]
        IN  o.grp.on => ~o.grp.twice /\ \A id \in ToSet(o.items) : id <= o.grp.last => id \in o.grp.seen

\* No element is lost or duplicated between a push and the client it goes to:
\* it is in exactly one list or sorted set until it is given to a client or
\* deleted, and given at most once, also when BRPOPLPUSH fails on its target.
\* The entries of a stream are delivered once to each group.
Conserved ==
    LET places == {x \in Dbs \X Keys : srv.data[x[1]][x[2]].type \in {"list", "zset"}}
    IN  /\ GroupDeliversOnce
        /\ ~srv.twice
        /\ Elements(srv.data) = srv.live
        /\ \A v \in srv.live : MapThenSumSet(LAMBDA x : Times(srv.data[x[1]][x[2]].items, v), places) = 1

\* A replica that reads the whole stream has the data of the server after each
\* command, although the server pops elements for clients it unblocks and the
\* replica only sees the pops and pushes propagated for them.
ReplicaInSync == srv.replica = srv.data

\* Among the clients blocked on one same key alone, for the same type, one
\* that blocked later is not given data while one that blocked earlier is left
\* waiting, as long as no client ever waited there for another type.
InOrder ==
    \A first, second \in Clients :
        LET a == srv.cl[first]
            b == srv.cl[second]
        IN  /\ a.btype # "none" /\ a.btype = b.btype /\ a.db = b.db
            /\ DOMAIN a.keys = DOMAIN b.keys /\ Cardinality(DOMAIN a.keys) = 1
            /\ a.at < b.at
            /\ \A k \in DOMAIN a.keys : <<a.db, k>> \notin srv.mixed
            /\ a.btype = "stream" => a.group /\ b.group
            /\ second \in srv'.served
            => srv'.cl[first].at # a.at
ServedInOrder == [][InOrder]_vars

\* The input a client sent while it was blocked or paused is not forgotten:
\* once the client is neither, it is in unblocked_clients.
InputScheduled ==
    \A c \in Clients :
        LET x == srv.cl[c]
        IN  x.querybuf # <<>> /\ x.btype = "none" /\ ~x.closing /\ ~srv.paused
              => c \in ToSet(srv.unblocked_clients)

\* On a read only replica no client waits for an operation that would write
\* when it is served, and the data changes only with the stream of the master.
ReadersOnly ==
    srv.role = "slave" =>
        /\ \A c \in Clients : srv.cl[c].btype \in {"none", "stream"} /\ ~srv.cl[c].group
        /\ srv'.role = "slave" /\ srv'.data # srv.data => srv'.n # srv.n
ReplicaServesReadersOnly == [][ReadersOnly]_vars

\* What the comment on handleClientsBlockedOnKeys says of clients of a group:
\* they are unblocked only for new messages. XREAD and XREADGROUP never end
\* with an empty answer.
WokenForData == srv.empty = {}
=============================================================================
