-------------------------------- MODULE Psync --------------------------------
(***************************************************************************)
(* Replication between instances (src/src/replication.c): full and partial *)
(* resynchronization, chained replicas, role changes, failovers, restarts  *)
(* from an RDB file that carries replication metadata.                     *)
(*                                                                         *)
(* One element of the replication stream (a SELECT, a write, a PING) counts*)
(* as one byte of the offset.  The data set of an instance is the sequence *)
(* of the writes applied to it, each with the DB it was applied to.  The   *)
(* circular buffer is the sliding window that module Backlog implements.   *)
(* The handshake, the PSYNC request and syncCommand are one step: what a   *)
(* replica asks for cannot change while the request is on its way, since   *)
(* every role change closes the connection.  A request that is refused     *)
(* (-NOMASTERLINK, PSYNC_TRY_LATER) changes nothing.  The stages of a full *)
(* synchronization on the master are modelled in FullSync.                 *)
(***************************************************************************)
EXTENDS Integers, FiniteSets, SequencesExt

CONSTANTS
    AllNodes,
    Scenarios      \* configurations and bounds: records with the fields below

VARIABLES
    node,    \* the server structure of each instance
    link,    \* for each instance, its connection to its master, or NULL
    used     \* the scenario, and how much of each bound has been used up

vars == <<node, link, used>>

NULL == <<>>

ReplicaOf == used.scenario.ReplicaOf      \* the replicaof line of each instance at the start
Nodes == DOMAIN ReplicaOf
DB == used.scenario.DB                    \* database numbers, 0 among them
BacklogSize == used.scenario.BacklogSize  \* repl-backlog-size
MaxWrites == used.scenario.MaxWrites      \* bound on client writes
MaxPings == used.scenario.MaxPings        \* bound on PINGs
MaxOffset == used.scenario.MaxOffset      \* bound on a replication offset
MaxIds == used.scenario.MaxIds            \* bound on replication IDs ever generated
MaxRole == used.scenario.MaxRole          \* bound on REPLICAOF commands
MaxLost == used.scenario.MaxLost          \* bound on lost links and failed loads
MaxCrash == used.scenario.MaxCrash        \* bound on restarts
MaxFrees == used.scenario.MaxFrees        \* bound on backlogs freed for lack of replicas
MaxSaves == used.scenario.MaxSaves        \* bound on RDB saves outside of replication

Sel(db) == [cmd |-> "select", arg |-> db]
Wr(w)   == [cmd |-> "write", arg |-> w]
Ping    == [cmd |-> "ping", arg |-> 0]

----------------------------------------------------------------------------
(* Replication IDs.  getRandomHexChars never repeats one.                  *)

NoId == 0

CanChangeId == used.ids < MaxIds

NewId == used.ids + 1

ShiftOneTooFar(n) ==     \* mutant: the old ID is honoured one offset too far
    [n EXCEPT !.replid2 = n.replid, !.second = n.offset + 2, !.replid = NewId]

shiftReplicationId(n) ==
    [n EXCEPT !.replid2 = n.replid, !.second = n.offset + 1, !.replid = NewId]

----------------------------------------------------------------------------
(* The backlog of an instance and the stream it sends to its replicas.     *)

createReplicationBacklog(n) == [n EXCEPT !.backlog = [off |-> n.offset + 1, items |-> <<>>]]

feedReplicationBacklog(n, items) ==
    IF n.backlog = NULL THEN n
    ELSE LET all == n.backlog.items \o items
             cut == IF Len(all) > BacklogSize THEN Len(all) - BacklogSize ELSE 0
         IN  [n EXCEPT !.offset = @ + Len(items),
                       !.backlog = [off |-> @.off + cut,
                                    items |-> SubSeq(all, cut + 1, Len(all))]]

SlaveOf(r, m) == link[r] # NULL /\ link[r].master = m /\ link[r].open

Slaves(m) == {r \in Nodes : SlaveOf(r, m)}

\* Every replica of m gets the items, except those in WAIT_BGSAVE_START.
FeedLinks(m, items) ==
    [r \in Nodes |->
        IF SlaveOf(r, m) /\ link[r].state # "wait_bgsave_start"
        THEN [link[r] EXCEPT !.queue = @ \o items] ELSE link[r]]

\* disconnectSlaves: what is already on its way can still be received.
disconnectSlaves(lk, m) ==
    [r \in Nodes |-> IF lk[r] # NULL /\ lk[r].master = m
                     THEN [lk[r] EXCEPT !.open = FALSE] ELSE lk[r]]

----------------------------------------------------------------------------
\* rdbPopulateSaveInfo: the metadata of an RDB file, or NULL.
rdbPopulateSaveInfo(n) ==
    LET info(db) == [replid |-> n.replid, offset |-> n.offset, db |-> db]
    IN  IF n.masterhost = NULL /\ n.backlog # NULL
        THEN info(IF n.slaveseldb = -1 THEN 0 ELSE n.slaveseldb)
        ELSE IF n.master # NULL THEN info(n.master.db)
        ELSE IF n.cached # NULL THEN info(n.cached.db)
        ELSE NULL

rdb(n) == [data |-> n.data, info |-> rdbPopulateSaveInfo(n)]

\* loadDataFromDisk restores the ID and offset only of a configured replica.
Resume(masterhost, file) == masterhost # NULL /\ file.info # NULL

\* initServer, and loadDataFromDisk with an RDB file.
Boot(masterhost, file, id) ==
    LET resume == Resume(masterhost, file)
    IN  [masterhost |-> masterhost,
         repl_state |-> IF masterhost = NULL THEN "none" ELSE "connect",
         replid |-> IF resume THEN file.info.replid ELSE id,
         replid2 |-> NoId, second |-> -1,
         offset |-> IF resume THEN file.info.offset ELSE 0,
         backlog |-> NULL, slaveseldb |-> -1,
         master |-> NULL,
         cached |-> IF resume /\ masterhost # NULL THEN file.info ELSE NULL,
         initial |-> NULL,
         data |-> file.data, rdb |-> file]

\* The first replication IDs are random: which is which makes no difference.
Init ==
    /\ \E sc \in Scenarios :
         used = [ids |-> Cardinality(DOMAIN sc.ReplicaOf), writes |-> 0, pings |-> 0, role |-> 0,
                 lost |-> 0, crash |-> 0, frees |-> 0, saves |-> 0, scenario |-> sc]
    /\ \E start \in {CHOOSE f \in [Nodes -> 1 .. Cardinality(Nodes)] : IsInjective(f)} :
         node = [n \in Nodes |-> Boot(ReplicaOf[n], [data |-> <<>>, info |-> NULL], start[n])]
    /\ link = [n \in Nodes |-> NULL]

----------------------------------------------------------------------------
(* Commands and cron of an instance.                                       *)

\* replicationFeedSlaves for a command executed in database db.
FeedItems(n, db, item) == (IF n.slaveseldb # db THEN <<Sel(db)>> ELSE <<>>) \o <<item>>

replicationFeedSlaves(m, n, db, item) ==
    LET items == FeedItems(n, db, item)
    IN  IF n.backlog = NULL
        THEN node' = [node EXCEPT ![m] = n] /\ UNCHANGED link
        ELSE /\ n.offset + Len(items) <= MaxOffset
             /\ node' = [node EXCEPT ![m] =
                           [feedReplicationBacklog(n, items) EXCEPT !.slaveseldb = db]]
             /\ link' = FeedLinks(m, items)

\* A write command of a client of a top level master (replicas are read only).
Write(m, db) ==
    LET n == node[m]
        w == used.writes + 1
    IN  /\ n.masterhost = NULL /\ used.writes < MaxWrites
        /\ used' = [used EXCEPT !.writes = w]
        /\ replicationFeedSlaves(m, [n EXCEPT !.data = Append(@, <<db, w>>)], db, Wr(w))

\* replicationCron: PING the replicas.
PingSlaves(m) ==
    /\ node[m].masterhost = NULL /\ Slaves(m) # {} /\ used.pings < MaxPings
    /\ used' = [used EXCEPT !.pings = @ + 1]
    /\ replicationFeedSlaves(m, node[m], node[m].slaveseldb, Ping)

\* replicationCron: changeReplicationId, clearReplicationId2, freeReplicationBacklog.
FreeBacklog(m) ==
    /\ CanChangeId
    /\ node' = [node EXCEPT ![m].backlog = NULL, ![m].replid = NewId,
                            ![m].replid2 = NoId, ![m].second = -1]
    /\ used' = [used EXCEPT !.ids = NewId, !.frees = @ + 1]

\* replicationCron: no replicas for longer than repl-backlog-ttl.
BacklogTimeLimit(m) ==
    /\ node[m].masterhost = NULL /\ Slaves(m) = {} /\ node[m].backlog # NULL
    /\ used.frees < MaxFrees
    /\ FreeBacklog(m)
    /\ UNCHANGED link

\* BGSAVE: the file is renamed into place when complete.
Save(m) ==
    /\ used.saves < MaxSaves
    /\ node' = [node EXCEPT ![m].rdb = rdb(node[m])]
    /\ used' = [used EXCEPT !.saves = @ + 1]
    /\ UNCHANGED link

\* Killed and started again, with the dump.rdb on disk and whatever
\* replicaof its configuration file has by then.
Restart(n, masterhost) ==
    /\ used.crash < MaxCrash /\ CanChangeId /\ masterhost # n
    /\ node' = [node EXCEPT ![n] = Boot(masterhost, node[n].rdb, NewId)]
    /\ link' = disconnectSlaves([link EXCEPT ![n] = NULL], n)
    /\ used' = [used EXCEPT !.crash = @ + 1, !.ids = NewId]

----------------------------------------------------------------------------
(* REPLICAOF.                                                              *)

\* freeClient(server.master): replicationCacheMaster keeps its state for a
\* later PSYNC, then replicationHandleMasterDisconnection.
replicationCacheMaster(n) ==
    IF n.master = NULL THEN n
    ELSE [n EXCEPT !.cached = n.master, !.master = NULL, !.repl_state = "connect"]

replicationCacheMasterUsingMyself(n) ==
    [n EXCEPT !.cached = [replid |-> n.replid, offset |-> n.offset, db |-> 0]]

replicationSetMaster(r, m) ==
    LET n    == [replicationCacheMaster(node[r]) EXCEPT !.masterhost = m]
        was_master == node[r].masterhost = NULL
    IN  /\ used.role < MaxRole /\ m # r /\ m # node[r].masterhost
        /\ node' = [node EXCEPT ![r] =
                      [(IF was_master THEN replicationCacheMasterUsingMyself(n) ELSE n)
                         EXCEPT !.repl_state = "connect"]]
        /\ link' = disconnectSlaves([link EXCEPT ![r] = NULL], r)
        /\ used' = [used EXCEPT !.role = @ + 1]

\* Everything replicationUnsetMaster changes in the server structure.
Promoted(n) ==
    [shiftReplicationId(n) EXCEPT !.masterhost = NULL, !.master = NULL, !.cached = NULL,
                                  !.repl_state = "none", !.slaveseldb = -1]

replicationUnsetMaster(r) ==
    /\ used.role < MaxRole /\ CanChangeId /\ node[r].masterhost # NULL
    /\ node' = [node EXCEPT ![r] = Promoted(node[r])]
    /\ link' = disconnectSlaves([link EXCEPT ![r] = NULL], r)
    /\ used' = [used EXCEPT !.role = @ + 1, !.ids = NewId]

----------------------------------------------------------------------------
(* The master side of a synchronization.                                   *)

\* The window of offsets this master can serve to a replica that knows its
\* data by replid.
KnownHistory(n, replid, offset) ==
    \/ replid = n.replid
    \/ replid = n.replid2 /\ offset <= n.second

InBacklog(n, offset) ==
    /\ n.backlog # NULL
    /\ offset >= n.backlog.off
    /\ offset <= n.backlog.off + Len(n.backlog.items)

masterTryPartialResynchronization(n, req) ==
    KnownHistory(n, req.replid, req.offset) /\ InBacklog(n, req.offset)

\* The connection of a replica to which the master sent this much so far.
Link(m, state, queue) == [master |-> m, open |-> TRUE, state |-> state, queue |-> queue]

\* The writing half of slaveTryPartialResynchronization.
PsyncRequest(n) ==
    IF n.cached = NULL THEN [replid |-> -1, offset |-> -1]
    ELSE [replid |-> n.cached.replid, offset |-> n.cached.offset + 1]

\* A replica connects, goes through the handshake and sends PSYNC; the
\* master answers, and if it cannot continue puts it in WAIT_BGSAVE_START.
syncCommand(m, r) ==
    LET n   == node[m]
        req == PsyncRequest(node[r])
        asking == [node EXCEPT ![r].repl_state = "receive_psync", ![r].initial = NULL]
        missing == SubSeq(n.backlog.items, req.offset - n.backlog.off + 1,
                          Len(n.backlog.items))
    IN  /\ node[r].repl_state = "connect" /\ node[r].masterhost = m
        /\ n.masterhost = NULL \/ n.repl_state = "connected"
        /\ IF masterTryPartialResynchronization(n, req)
           THEN /\ link' = [link EXCEPT ![r] = Link(m, "online",
                              <<[cmd |-> "continue", replid |-> n.replid]>> \o missing)]
                /\ node' = asking
                /\ UNCHANGED used
           ELSE /\ link' = [link EXCEPT ![r] = Link(m, "wait_bgsave_start", <<>>)]
                /\ IF n.backlog = NULL /\ Slaves(m) = {}
                   THEN /\ CanChangeId
                        /\ node' = [asking EXCEPT ![m] = createReplicationBacklog(
                                     [n EXCEPT !.replid = NewId, !.replid2 = NoId, !.second = -1])]
                        /\ used' = [used EXCEPT !.ids = NewId]
                   ELSE node' = asking /\ UNCHANGED used

\* replicationSetupSlaveForFullResync forces a SELECT.
SetupForFullResync(n) == [n EXCEPT !.slaveseldb = -1]

\* startBgsaveForReplication for all the replicas that wait for it.
startBgsaveForReplication(m) ==
    LET n == node[m]
        waiting == {r \in Slaves(m) : link[r].state = "wait_bgsave_start"}
        reply == <<[cmd |-> "fullresync", replid |-> n.replid, offset |-> n.offset],
                   [cmd |-> "rdb", file |-> rdb(n)]>>
    IN  /\ waiting # {}
        /\ IF rdbPopulateSaveInfo(n) = NULL
           THEN /\ link' = [r \in Nodes |-> IF r \in waiting
                              THEN [link[r] EXCEPT !.open = FALSE] ELSE link[r]]
                /\ UNCHANGED node
           ELSE /\ link' = [r \in Nodes |-> IF r \in waiting
                              THEN [link[r] EXCEPT !.state = "online", !.queue = reply]
                              ELSE link[r]]
                /\ node' = [node EXCEPT ![m] = SetupForFullResync(n)]
        /\ UNCHANGED used

----------------------------------------------------------------------------
(* The replica side of a synchronization.                                  *)

Received(r, state, cmds) ==
    /\ node[r].repl_state = state /\ link[r] # NULL /\ link[r].queue # <<>>
    /\ Head(link[r].queue).cmd \in cmds

Consume(lk, r) == [lk EXCEPT ![r].queue = Tail(@)]

\* +CONTINUE <replid>: adopt the new ID, remember the old one up to here.
AdoptId(n, newid) ==
    IF n.cached.replid = newid THEN n
    ELSE [n EXCEPT !.replid2 = n.cached.replid, !.second = n.offset + 1,
                   !.replid = newid, !.cached.replid = newid]

\* replicationResurrectCachedMaster.
Resurrect(n) == [n EXCEPT !.master = n.cached, !.cached = NULL, !.repl_state = "connected"]

\* slaveTryPartialResynchronization returns PSYNC_CONTINUE.
Continue(r) ==
    /\ Received(r, "receive_psync", {"continue"})
    /\ LET newid == Head(link[r].queue).replid
           n     == Resurrect(AdoptId(node[r], newid))
           lk    == Consume(link, r)
       IN  /\ node' = [node EXCEPT ![r] =
                         IF n.backlog = NULL THEN createReplicationBacklog(n) ELSE n]
           /\ link' = IF newid = node[r].cached.replid THEN lk ELSE disconnectSlaves(lk, r)
    /\ UNCHANGED used

\* slaveTryPartialResynchronization returns PSYNC_FULLRESYNC; the rest of
\* syncWithMaster disconnects the sub-replicas and frees the backlog.
FullResync(r) ==
    /\ Received(r, "receive_psync", {"fullresync"})
    /\ LET h == Head(link[r].queue)
       IN  node' = [node EXCEPT ![r].cached = NULL, ![r].backlog = NULL,
                      ![r].initial = [replid |-> h.replid, offset |-> h.offset],
                      ![r].repl_state = "transfer"]
    /\ link' = disconnectSlaves(Consume(link, r), r)
    /\ UNCHANGED used

\* readSyncBulkPayload at the end of the transfer: the file replaces
\* dump.rdb, the data set is replaced, the master's history is adopted.
Load(r) ==
    /\ Received(r, "transfer", {"rdb"})
    /\ LET n == node[r]
           f == Head(link[r].queue).file
           loaded == [n EXCEPT
                !.data = f.data, !.rdb = f, !.repl_state = "connected",
                !.master = [replid |-> n.initial.replid, offset |-> n.initial.offset,
                            db |-> IF f.info = NULL THEN 0 ELSE f.info.db],
                !.replid = n.initial.replid, !.offset = n.initial.offset,
                !.replid2 = NoId, !.second = -1]
       IN  node' = [node EXCEPT ![r] = IF n.backlog = NULL
                                       THEN createReplicationBacklog(loaded) ELSE loaded]
    /\ link' = Consume(link, r)
    /\ UNCHANGED used

\* readSyncBulkPayload: the old data set is gone and rdbLoad fails.
LoadFails(r) ==
    /\ used.lost < MaxLost
    /\ Received(r, "transfer", {"rdb"})
    /\ node' = [node EXCEPT ![r].data = <<>>, ![r].rdb = Head(link[r].queue).file,
                            ![r].repl_state = "connect"]
    /\ link' = [link EXCEPT ![r] = NULL]
    /\ used' = [used EXCEPT !.lost = @ + 1]

\* One command of the stream: executed, its offset accounted for, and
\* (replicationFeedSlavesFromMasterStream) proxied to the sub-replicas.
Execute(n, c) ==
    [n EXCEPT !.master.offset = @ + 1,
              !.master.db = IF c.cmd = "select" THEN c.arg ELSE @,
              !.data = IF c.cmd = "write" THEN Append(@, <<n.master.db, c.arg>>) ELSE @]

ApplyStream(r) ==
    /\ Received(r, "connected", {"select", "write", "ping"})
    /\ LET c == Head(link[r].queue)
       IN  /\ node' = [node EXCEPT ![r] = feedReplicationBacklog(Execute(@, c), <<c>>)]
           /\ link' = Consume(FeedLinks(r, <<c>>), r)
    /\ UNCHANGED used

\* The connection is lost, or was closed by the master and is drained.
Broken(r) ==
    /\ link[r] # NULL
    /\ \/ ~link[r].open /\ link[r].queue = <<>> /\ UNCHANGED used
       \/ used.lost < MaxLost /\ used' = [used EXCEPT !.lost = @ + 1]
    /\ link' = [link EXCEPT ![r] = NULL]

\* freeClient of a connected master, or cancelReplicationHandshake.
MasterLinkLost(r) ==
    /\ Broken(r)
    /\ node' = [node EXCEPT ![r] = [replicationCacheMaster(@) EXCEPT !.repl_state = "connect"]]

\* freeClient of a master whose client is already marked to be closed (after
\* a protocol error): its state is not kept.
MasterLinkDropped(r) ==
    /\ node[r].master # NULL
    /\ used.lost < MaxLost /\ used' = [used EXCEPT !.lost = @ + 1]
    /\ node' = [node EXCEPT ![r].master = NULL, ![r].repl_state = "connect"]
    /\ link' = [link EXCEPT ![r] = NULL]

----------------------------------------------------------------------------
Next ==
    \/ \E m \in Nodes, db \in DB : Write(m, db)
    \/ \E m \in Nodes : PingSlaves(m)
    \/ \E m \in Nodes : BacklogTimeLimit(m)
    \/ \E m \in Nodes : Save(m)
    \/ \E n \in Nodes, h \in Nodes \cup {NULL} : Restart(n, h)
    \/ \E r, m \in Nodes : replicationSetMaster(r, m)
    \/ \E r \in Nodes : replicationUnsetMaster(r)
    \/ \E m, r \in Nodes : syncCommand(m, r)
    \/ \E m \in Nodes : startBgsaveForReplication(m)
    \/ \E r \in Nodes : Continue(r)
    \/ \E r \in Nodes : FullResync(r)
    \/ \E r \in Nodes : Load(r)
    \/ \E r \in Nodes : LoadFails(r)
    \/ \E r \in Nodes : ApplyStream(r)
    \/ \E r \in Nodes : MasterLinkLost(r)
    \/ \E r \in Nodes : MasterLinkDropped(r)

Spec == Init /\ [][Next]_vars

\* replicationCron and the event loop keep running, sockets deliver what
\* was written to them or report their end.  Nothing is assumed of clients,
\* operators, crashes or link failures, which the bounds make finite.
Progress ==
    \E r \in Nodes :
       \/ \E m \in Nodes : syncCommand(m, r)
       \/ Continue(r) \/ FullResync(r) \/ Load(r) \/ ApplyStream(r)
       \/ MasterLinkLost(r) /\ UNCHANGED used
       \/ startBgsaveForReplication(r)

LiveSpec == Spec /\ WF_vars(Progress)

----------------------------------------------------------------------------
\* The states an instance can be in.
TypeOK ==
    \A n \in Nodes :
        LET s == node[n] IN
        /\ s.masterhost = NULL <=> s.repl_state = "none"
        /\ s.repl_state = "connected" <=> s.master # NULL
        /\ s.repl_state \in {"receive_psync", "transfer", "connected"} <=> link[n] # NULL
        /\ link[n] # NULL => link[n].master = s.masterhost
        /\ s.slaveseldb \in DB \cup {-1} /\ s.offset \in 0 .. MaxOffset

\* What the stream in flight makes of a data set and a selected DB.
Replay(data, db, items) ==
    FoldLeft(LAMBDA acc, c :
                [db |-> IF c.cmd = "select" THEN c.arg ELSE acc.db,
                 data |-> IF c.cmd = "write" THEN Append(acc.data, <<acc.db, c.arg>>)
                          ELSE acc.data],
             [db |-> db, data |-> data], items).data

\* Where replica r stands once it has read the first k elements of its
\* queue (the replies that start a synchronization): data, DB and offset.
Standing(r) ==
    LET n == node[r]
        q == link[r].queue
        at(data, db, offset, k) ==
            [data |-> Replay(data, db, SubSeq(q, k + 1, Len(q))),
             offset |-> offset + Len(q) - k]
    IN  CASE n.repl_state = "connected" -> at(n.data, n.master.db, n.master.offset, 0)
          [] n.repl_state = "transfer" ->
                at(q[1].file.data, q[1].file.info.db, n.initial.offset, 1)
          [] n.repl_state = "receive_psync" /\ q[1].cmd = "continue" ->
                at(n.data, n.cached.db, n.cached.offset, 1)
          [] n.repl_state = "receive_psync" /\ q[1].cmd = "fullresync" ->
                at(q[2].file.data, q[2].file.info.db, q[1].offset, 2)

\* A replica that is fed by a master (directly or through a chain) ends up,
\* after what is in flight, with exactly the master's data, in the right
\* databases, and at the master's offset: after partial and full
\* resynchronizations, failovers and restarts.
ReplicaConverges ==
    \A r, m \in Nodes :
        SlaveOf(r, m) /\ link[r].state = "online" =>
            Standing(r) = [data |-> node[m].data, offset |-> node[m].offset]

\* The history an instance would present in a PSYNC request or offer to its
\* replicas: nothing when it has neither a master state nor a backlog.
Presents(n) ==
    IF n.cached # NULL THEN {[replid |-> n.cached.replid, offset |-> n.cached.offset]}
    ELSE IF n.backlog # NULL THEN {[replid |-> n.replid, offset |-> n.offset]}
    ELSE {}

\* A replication ID and an offset identify a data set: if b would accept
\* the ID and offset that a presents (masterTryPartialResynchronization,
\* first or second ID), the data of a is a prefix of the data of b.
SharedHistory ==
    \A a, b \in Nodes :
        \A h \in Presents(node[a]) :
            /\ KnownHistory(node[b], h.replid, h.offset + 1)
            /\ node[b].backlog # NULL /\ h.offset <= node[b].offset
            => IsPrefix(node[a].data, node[b].data)

\* The state of an instance is well formed, and the assertions hold of
\* replicationFeedSlaves (no replica without a backlog), replicationCacheMaster
\* (no cached master while there is a master), and the master/backlog state
\* every connected replica relies on.
Asserts ==
    TypeOK /\ \A n \in Nodes :
        /\ Slaves(n) # {} => node[n].backlog # NULL
        /\ node[n].master # NULL =>
             /\ node[n].cached = NULL
             /\ node[n].backlog # NULL
             /\ node[n].offset = node[n].master.offset
             /\ node[n].replid = node[n].master.replid

\* The masters above r end at a top level master (no REPLICAOF loop).
RECURSIVE Follows(_, _)
Follows(r, seen) ==
    \/ node[r].masterhost = NULL
    \/ r \notin seen /\ Follows(node[r].masterhost, seen \cup {r})

\* What is checked at every step: replicas converge, histories are shared as
\* their IDs say, and the assertions of the code hold.
PsyncSound == ReplicaConverges /\ SharedHistory /\ Asserts

AllInSync ==
    \A r \in Nodes :
        node[r].masterhost # NULL /\ Follows(r, {}) =>
            /\ node[r].repl_state = "connected"
            /\ node[r].data = node[node[r].masterhost].data

\* Once roles and links stop changing, every replica whose masters lead to
\* a top level master is connected and has its data, whatever happened
\* before: replicationCron retries until it succeeds.
EventuallyInSync == <>[]AllInSync
=============================================================================
