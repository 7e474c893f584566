------------------------------ MODULE FullSync ------------------------------
(***************************************************************************)
(* The master's side of a full synchronization (src/src/replication.c,     *)
(* src/src/rdb.c): replicas wait for a BGSAVE, attach to one in progress,  *)
(* receive the RDB from a file or from the child itself, and get the       *)
(* commands accumulated meanwhile.                                         *)
(*                                                                         *)
(* The data set is the sequence of writes since the last FLUSHALL.  One    *)
(* command is one byte of the offset.  The replication backlog exists from *)
(* the start and partial resynchronization is refused: Psync models both.  *)
(* The other end of a connection is the state of its protocol parser.      *)
(***************************************************************************)
EXTENDS Integers, FiniteSets, SequencesExt

CONSTANTS
    Conns,        \* replicas; each has at most one connection at a time
    CapaOf,       \* the REPLCONF capa options each one sends, a subset of Capas
    Names,        \* values of dbfilename
    FirstName,    \* the configured one
    Scenarios     \* bounds: records with the fields below

Capas == {"eof", "psync2"}

VARIABLES
    srv,     \* the server structure, the RDB files and the child
    cl,      \* the client structure of each replica's connection, or NULL
    used     \* the scenario, and how much of each bound has been used up

vars == <<srv, cl, used>>

NULL == <<>>

MaxCmds    == used.scenario.MaxCmds       \* bound on commands fed to the replicas
MaxConns   == used.scenario.MaxConns      \* bound on SYNC requests
MaxFails   == used.scenario.MaxFails      \* bound on failed forks, children and RDB files
MaxLost    == used.scenario.MaxLost       \* bound on lost or timed out connections
MaxSaves   == used.scenario.MaxSaves      \* bound on SAVE and BGSAVE commands
MaxAof     == used.scenario.MaxAof        \* bound on AOF rewrites
MaxConfig  == used.scenario.MaxConfig     \* bound on changes of repl-diskless-sync
MaxRenames == used.scenario.MaxRenames    \* bound on changes of dbfilename

Budget(what, n, max) == used[what] + n <= max /\ used' = [used EXCEPT ![what] = @ + n]

Cost(ok) == IF ok THEN 0 ELSE 1

----------------------------------------------------------------------------
(* Data sets and the commands of the replication stream: a write is its    *)
(* number, FLUSHALL and PING are negative.                                 *)

Flush == -1
Ping  == -2

Apply(data, cmd) ==
    IF cmd = Flush THEN <<>> ELSE IF cmd = Ping THEN data ELSE Append(data, cmd)

File(data) == [data |-> data]

ApplyAll(data, cmds) == FoldLeft(Apply, data, cmds)

----------------------------------------------------------------------------
(* What a replica makes of the bytes it receives: +FULLRESYNC, newlines,   *)
(* the RDB preamble and body, commands.  A replica that did not announce   *)
(* the capability cannot parse the $EOF: preamble.                         *)

Waiting == [phase |-> "psync", off |-> 0, data |-> <<>>]

Garbage == [Waiting EXCEPT !.phase = "garbage"]

RecvFullResync(g, off) ==
    IF g.phase = "psync" THEN [g EXCEPT !.phase = "fullresync", !.off = off] ELSE Garbage

RecvNewline(g) == IF g.phase \in {"psync", "fullresync"} THEN g ELSE Garbage

RecvPreamble(g, kind, capa) ==
    IF g.phase = "fullresync" /\ (kind = "$EOF:" => "eof" \in capa)
    THEN [g EXCEPT !.phase = "bulk"] ELSE Garbage

RecvBody(g, data) ==
    IF g.phase = "bulk" THEN [g EXCEPT !.phase = "loaded", !.data = data] ELSE Garbage

RecvCommand(g, cmd) ==
    IF g.phase = "loaded" THEN [g EXCEPT !.off = @ + 1, !.data = Apply(@, cmd)] ELSE Garbage

----------------------------------------------------------------------------
(* The slaves list.                                                        *)

Slaves(k) == {c \in Conns : k[c] # NULL}

InState(k, state) == {c \in Slaves(k) : k[c].replstate = state}

\* The slaves list is in order of arrival.
First(k, set) == CHOOSE c \in set : \A d \in set : k[c].joined <= k[d].joined

Free(k, set) == [c \in Conns |-> IF c \in set THEN NULL ELSE k[c]]

\* freeClient shuts the socket down, so a child cannot write to it any more.
Unlinked(s, set) == IF s.child = NULL THEN s ELSE [s EXCEPT !.child.to = @ \ set]

PutOnlineLater(c) ==     \* mutant: the write handler is not installed
    [c EXCEPT !.replstate = "online", !.onack = FALSE]

putSlaveOnline(c) == [c EXCEPT !.replstate = "online", !.onack = FALSE, !.writer = TRUE]

\* clientInstallWriteHandler: may the output buffer be sent at this stage?
CanReceive(c) == c.replstate = "online" /\ ~c.onack

\* replicationFeedSlaves and prepareClientToWrite for one client.
FeedOne(c, cmd) ==
    IF c.replstate = "wait_bgsave_start" THEN c
    ELSE [c EXCEPT !.obuf = Append(@, cmd),
                   !.writer = @ \/ (c.obuf = <<>> /\ CanReceive(c))]

Feed(k, cmd) == [c \in Conns |-> IF k[c] = NULL THEN NULL ELSE FeedOne(k[c], cmd)]

Executed(s, cmd) == [s EXCEPT !.offset = @ + 1, !.data = Apply(@, cmd)]

----------------------------------------------------------------------------
(* Starting a BGSAVE.                                                      *)

Child(s, type, to) ==
    [type |-> type, snap |-> s.data, name |-> s.rdb_filename, to |-> to,
     begun |-> FALSE, ok |-> {}, exit |-> "running"]

NoChild(s) == s.child = NULL /\ ~s.aof_child

replicationSetupSlaveForFullResync(c, off) ==
    [c EXCEPT !.replstate = "wait_bgsave_end", !.psync_initial_offset = off,
              !.peer = RecvFullResync(@, off)]

\* mincapa of updateSlavesWaitingBgsave and replicationCron.
MinCapa(set) == {x \in Capas : \A c \in set : x \in CapaOf[c]}

SocketTarget(s, mincapa) == s.repl_diskless_sync /\ "eof" \in mincapa

StartFails(s, k) ==     \* the waiting replicas get an error and are dropped
    [srv |-> s, cl |-> Free(k, InState(k, "wait_bgsave_start"))]

\* startBgsaveForReplication(mincapa); fork tells whether fork() succeeds.
startBgsaveForReplication(s, k, mincapa, fork) ==
    LET waiting == InState(k, "wait_bgsave_start")
        socket  == SocketTarget(s, mincapa)
    IN  IF ~NoChild(s) \/ ~fork THEN StartFails(s, k)
        ELSE [srv |-> [s EXCEPT !.child =
                          Child(s, IF socket THEN "socket" ELSE "disk", IF socket THEN waiting ELSE {})],
              cl |-> [c \in Conns |->
                        IF c \in waiting THEN replicationSetupSlaveForFullResync(k[c], s.offset)
                        ELSE k[c]]]

Become(new) == srv' = new.srv /\ cl' = new.cl

----------------------------------------------------------------------------
(* SYNC and PSYNC, once a partial resynchronization has been refused.      *)

NewSlave ==
    [replstate |-> "wait_bgsave_start", joined |-> used.conns + 1, psync_initial_offset |-> 0,
     obuf |-> <<>>, onack |-> FALSE, writer |-> FALSE, image |-> NULL, peer |-> Waiting]

AttachAtPresent(new, other) ==     \* mutant: the offset of now, not of the fork
    replicationSetupSlaveForFullResync([new EXCEPT !.obuf = other.obuf], srv.offset)

\* CASE 1: copyClientOutputBuffer and the offset sent to the other replica.
Attach(new, other) ==
    replicationSetupSlaveForFullResync([new EXCEPT !.obuf = other.obuf],
                                       other.psync_initial_offset)

\* A BGSAVE with disk target for which some replica registers differences.
CanAttach(c) ==
    LET ends == InState(cl, "wait_bgsave_end")
    IN  srv.child.type = "disk" /\ ends # {} /\ CapaOf[First(cl, ends)] \subseteq CapaOf[c]

syncCommand(c) ==
    /\ cl[c] = NULL
    /\ used.conns < MaxConns
    /\ LET added == [cl EXCEPT ![c] = NewSlave]
       IN  \E fork \in BOOLEAN :
             /\ fork \/ used.fails < MaxFails
             /\ used' = [used EXCEPT !.conns = @ + 1, !.fails = @ + Cost(fork)]
             /\ IF srv.child # NULL
                THEN /\ fork
                     /\ UNCHANGED srv
                     /\ cl' = IF CanAttach(c)
                              THEN [cl EXCEPT ![c] =
                                      Attach(NewSlave, cl[First(cl, InState(cl, "wait_bgsave_end"))])]
                              ELSE added
                ELSE IF SocketTarget(srv, CapaOf[c]) \/ srv.aof_child
                THEN fork /\ UNCHANGED srv /\ cl' = added
                ELSE Become(startBgsaveForReplication(srv, added, CapaOf[c], fork))

----------------------------------------------------------------------------
(* The child.  A disk child renames its file when it is complete; a socket *)
(* child writes to all its sockets and reports which ones took everything. *)

ChildSaves ==
    /\ srv.child # NULL /\ srv.child.exit = "running" /\ srv.child.type = "disk"
    /\ \E ok \in BOOLEAN :
         /\ Budget("fails", Cost(ok), MaxFails)
         /\ srv' = [srv EXCEPT !.child.exit = IF ok THEN "ok" ELSE "error",
                               !.file[srv.child.name] = IF ok THEN File(srv.child.snap) ELSE @]
    /\ UNCHANGED cl

\* rdbSaveRioWithEOFMark: the preamble, and then the body, to every socket.
ChildStreams ==
    /\ srv.child # NULL /\ srv.child.exit = "running" /\ srv.child.type = "socket"
    /\ IF ~srv.child.begun
       THEN /\ srv' = [srv EXCEPT !.child.begun = TRUE]
            /\ cl' = [c \in Conns |->
                        IF c \in srv.child.to
                        THEN [cl[c] EXCEPT !.peer = RecvPreamble(@, "$EOF:", CapaOf[c])] ELSE cl[c]]
            /\ UNCHANGED used
       ELSE \E ok \in SUBSET srv.child.to :
            /\ Budget("fails", Cardinality(srv.child.to \ ok), MaxFails)
            /\ srv' = [srv EXCEPT !.child.ok = ok,
                                  !.child.exit = IF ok = {} THEN "error" ELSE "ok"]
            /\ cl' = [c \in Conns |->
                        IF c \in ok
                        THEN [cl[c] EXCEPT !.peer = RecvBody(@, srv.child.snap)] ELSE cl[c]]

----------------------------------------------------------------------------
(* serverCron reaps the child.                                             *)

\* A replica in WAIT_BGSAVE_END when a child of the given type has ended.
BgsaveEnded(s, c, ok, type) ==
    IF type = "socket" THEN [c EXCEPT !.replstate = "online", !.onack = TRUE]
    ELSE IF ok /\ s.file[s.rdb_filename] # NULL
    THEN [c EXCEPT !.replstate = "send_bulk", !.image = s.file[s.rdb_filename], !.writer = FALSE]
    ELSE NULL

updateSlavesWaitingBgsave(s, k, ok, type, fork) ==
    LET waiting == InState(k, "wait_bgsave_start")
        ended   == [c \in Conns |-> IF c \in InState(k, "wait_bgsave_end")
                                    THEN BgsaveEnded(s, k[c], ok, type) ELSE k[c]]
    IN  IF waiting = {} THEN [srv |-> s, cl |-> ended]
        ELSE startBgsaveForReplication(s, ended, MinCapa(waiting), fork)

\* backgroundSaveDoneHandlerSocket closes the replicas that were not served.
Served(k, child) ==
    IF child.type = "disk" THEN k ELSE Free(k, InState(k, "wait_bgsave_end") \ child.ok)

backgroundSaveDoneHandler ==
    /\ srv.child # NULL /\ srv.child.exit # "running"
    /\ \E fork \in BOOLEAN :
         /\ fork \/ InState(cl, "wait_bgsave_start") # {}
         /\ Budget("fails", Cost(fork), MaxFails)
         /\ Become(updateSlavesWaitingBgsave([srv EXCEPT !.child = NULL], Served(cl, srv.child),
                                             srv.child.exit = "ok", srv.child.type, fork))

----------------------------------------------------------------------------
(* Sending the file, and then the accumulated commands.                    *)

\* The body may take many calls; the last one puts the replica online.
sendBulkToSlave(c) ==
    /\ c \in InState(cl, "send_bulk")
    /\ \E last \in BOOLEAN :
         LET begun == IF cl[c].peer.phase = "bulk" THEN cl[c].peer
                      ELSE RecvPreamble(cl[c].peer, "$<length>", CapaOf[c])
         IN  cl' = [cl EXCEPT ![c] =
                      IF last THEN putSlaveOnline([@ EXCEPT !.image = NULL,
                                                   !.peer = RecvBody(begun, cl[c].image.data)])
                      ELSE [@ EXCEPT !.peer = begun]]
    /\ UNCHANGED <<srv, used>>

\* REPLCONF ACK: a replica sends it once it has loaded the RDB.
replconfAck(c) ==
    /\ c \in InState(cl, "online") /\ cl[c].onack
    /\ cl[c].peer.phase = "loaded"
    /\ cl' = [cl EXCEPT ![c] = putSlaveOnline(@)]
    /\ UNCHANGED <<srv, used>>

\* handleClientsWithPendingWrites or sendReplyToClient; one command at a time.
writeToClient(c) ==
    /\ c \in Slaves(cl) /\ cl[c].writer
    /\ cl' = [cl EXCEPT ![c] =
                IF @.obuf = <<>> THEN [@ EXCEPT !.writer = FALSE]
                ELSE [@ EXCEPT !.obuf = Tail(@), !.writer = Len(cl[c].obuf) > 1,
                               !.peer = RecvCommand(@, Head(cl[c].obuf))]]
    /\ UNCHANGED <<srv, used>>

----------------------------------------------------------------------------
(* Commands, cron and configuration.                                       *)

Write ==
    /\ Budget("cmds", 1, MaxCmds)
    /\ srv' = Executed(srv, used.cmds + 1)
    /\ cl' = Feed(cl, used.cmds + 1)

Killed(s) ==
    IF s.child # NULL /\ s.child.exit = "running" THEN [s EXCEPT !.child.exit = "signal"] ELSE s

\* flushallCommand kills the child and, with save points, saves the RDB file.
flushallCommand ==
    /\ Budget("cmds", 1, MaxCmds)
    /\ \E saved \in BOOLEAN :
         srv' = Executed(IF saved THEN [Killed(srv) EXCEPT !.file[srv.rdb_filename] = File(<<>>)]
                         ELSE Killed(srv), Flush)
    /\ cl' = Feed(cl, Flush)

saveCommand ==
    /\ srv.child = NULL
    /\ Budget("saves", 1, MaxSaves)
    /\ srv' = [srv EXCEPT !.file[srv.rdb_filename] = File(srv.data)]
    /\ UNCHANGED cl

bgsaveCommand ==
    /\ NoChild(srv)
    /\ Budget("saves", 1, MaxSaves)
    /\ srv' = [srv EXCEPT !.child = Child(srv, "disk", {})]
    /\ UNCHANGED cl

rewriteAppendOnlyFileBackground ==
    /\ NoChild(srv)
    /\ Budget("aof", 1, MaxAof)
    /\ srv' = [srv EXCEPT !.aof_child = TRUE]
    /\ UNCHANGED cl

backgroundRewriteDoneHandler ==
    /\ srv.aof_child
    /\ srv' = [srv EXCEPT !.aof_child = FALSE]
    /\ UNCHANGED <<cl, used>>

ConfigSetDiskless ==
    /\ Budget("config", 1, MaxConfig)
    /\ srv' = [srv EXCEPT !.repl_diskless_sync = ~@]
    /\ UNCHANGED cl

ConfigSetDbfilename ==
    /\ Budget("renames", 1, MaxRenames)
    /\ \E n \in Names \ {srv.rdb_filename} : srv' = [srv EXCEPT !.rdb_filename = n]
    /\ UNCHANGED cl

freeClient(c) ==
    /\ c \in Slaves(cl)
    /\ Budget("lost", 1, MaxLost)
    /\ srv' = Unlinked(srv, {c})
    /\ cl' = Free(cl, {c})

\* The newline that keeps a replica waiting for an RDB file from timing out.
Newline(s, c) ==
    IF \/ c.replstate = "wait_bgsave_start"
       \/ c.replstate = "wait_bgsave_end" /\ s.child.type # "socket"
    THEN [c EXCEPT !.peer = RecvNewline(@)] ELSE c

\* PING, newlines, timed out replicas, and a BGSAVE for those that wait (with
\* repl-diskless-sync only after a delay).
replicationCron ==
    \E ping, start, fork \in BOOLEAN, dead \in SUBSET InState(cl, "online") :
        LET s == Unlinked(IF ping THEN Executed(srv, Ping) ELSE srv, dead)
            k == IF ping THEN Feed(cl, Ping) ELSE cl
            n == Free([c \in Conns |-> IF k[c] = NULL THEN NULL ELSE Newline(srv, k[c])], dead)
            waiting == InState(n, "wait_bgsave_start")
        IN  /\ ping => Slaves(cl) # {} /\ used.cmds < MaxCmds
            /\ used.lost + Cardinality(dead) <= MaxLost
            /\ fork \/ (start /\ used.fails < MaxFails)
            /\ IF waiting # {} /\ NoChild(s) THEN start \/ s.repl_diskless_sync ELSE ~start
            /\ used' = [used EXCEPT !.cmds = @ + Cost(~ping), !.fails = @ + Cost(fork),
                                    !.lost = @ + Cardinality(dead)]
            /\ Become(IF start THEN startBgsaveForReplication(s, n, MinCapa(waiting), fork)
                      ELSE [srv |-> s, cl |-> n])

----------------------------------------------------------------------------
Init ==
    /\ \E diskless \in BOOLEAN :
         srv = [data |-> <<>>, offset |-> 0, rdb_filename |-> FirstName, child |-> NULL,
                file |-> [n \in Names |-> NULL], aof_child |-> FALSE,
                repl_diskless_sync |-> diskless]
    /\ cl = [c \in Conns |-> NULL]
    /\ \E sc \in Scenarios :
         used = [cmds |-> 0, conns |-> 0, fails |-> 0, lost |-> 0, saves |-> 0, aof |-> 0,
                 config |-> 0, renames |-> 0, scenario |-> sc]

Next ==
    \/ \E c \in Conns :
         syncCommand(c) \/ sendBulkToSlave(c) \/ replconfAck(c) \/ writeToClient(c) \/ freeClient(c)
    \/ ChildSaves \/ ChildStreams \/ backgroundSaveDoneHandler
    \/ replicationCron
    \/ Write \/ flushallCommand \/ saveCommand \/ bgsaveCommand
    \/ rewriteAppendOnlyFileBackground \/ backgroundRewriteDoneHandler
    \/ ConfigSetDiskless \/ ConfigSetDbfilename

Spec == Init /\ [][Next]_vars

\* A cron that starts the BGSAVE: the delay of diskless replication ends.
CronStarts == replicationCron /\ srv'.child # srv.child

\* The last chunk of a file is eventually sent.
BulkEnds(c) == sendBulkToSlave(c) /\ cl'[c].replstate = "online"

\* Timers, children and the event loop go on; everything else is optional.
Progress ==
    \/ CronStarts \/ ChildSaves \/ ChildStreams
    \/ backgroundSaveDoneHandler \/ backgroundRewriteDoneHandler
    \/ \E c \in Conns : BulkEnds(c) \/ replconfAck(c) \/ writeToClient(c)

LiveSpec == Spec /\ WF_vars(Progress)

----------------------------------------------------------------------------
Commands == (1 .. MaxCmds) \cup {Flush, Ping}

\* The shape of the server structure, its child and its clients.
TypeOK ==
    /\ srv.data \in Seq(1 .. MaxCmds) /\ srv.offset \in 0 .. MaxCmds
    /\ srv.rdb_filename \in Names
    /\ srv.child # NULL =>
         /\ srv.child.type \in {"disk", "socket"} /\ srv.child.to \subseteq Slaves(cl)
         /\ srv.child.exit \in {"running", "ok", "error", "signal"}
         /\ ~srv.aof_child
    /\ \A c \in Slaves(cl) :
         /\ cl[c].replstate \in {"wait_bgsave_start", "wait_bgsave_end", "send_bulk", "online"}
         /\ cl[c].obuf \in Seq(Commands)
         /\ cl[c].psync_initial_offset \in 0 .. srv.offset

\* No replica ever receives bytes it cannot parse at that point: newlines or
\* commands inside an RDB transfer, a streamed RDB it did not ask for, two RDBs.
ProtocolOrder == \A c \in Slaves(cl) : cl[c].peer.phase # "garbage"

\* The data set a replica has, or will get from the RDB chosen for it.
Base(c) ==
    IF cl[c].peer.phase = "loaded" THEN cl[c].peer.data
    ELSE IF cl[c].replstate = "send_bulk" THEN cl[c].image.data ELSE srv.child.snap

\* The RDB of every replica that accumulates differences, followed by exactly
\* these differences, is the data set of the master, and the offset announced
\* to it is the one of that RDB.
RdbPlusDifferences ==
    \A c \in Slaves(cl) :
        cl[c].replstate # "wait_bgsave_start" =>
            /\ ApplyAll(Base(c), cl[c].obuf) = srv.data
            /\ cl[c].peer.off + Len(cl[c].obuf) = srv.offset

\* A replica in WAIT_BGSAVE_END always has a child that is working for it: no
\* other event takes it out of that state.
WaitersHaveChild ==
    \A c \in InState(cl, "wait_bgsave_end") :
        /\ srv.child # NULL
        /\ srv.child.type = "socket" => c \in srv.child.to

AllServed == \A c \in Slaves(cl) : cl[c].replstate = "online" /\ cl[c].obuf = <<>>

\* When nothing more happens, every replica still connected is online and has
\* received everything.
EveryReplicaServed == <>[]AllServed
=============================================================================
