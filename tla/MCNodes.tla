------------------------------- MODULE MCNodes --------------------------------
(***************************************************************************)
(* What lasts beyond a command, on one instance and between several:       *)
(* transactions, blocked clients and WAIT, the append only file,           *)
(* replication; and the parts whose progress is checked.  A behaviour of   *)
(* this module is a behaviour of one of the parts, which share the         *)
(* variables.                                                              *)
(***************************************************************************)
EXTENDS Integers, Sequences, FiniteSets, TLC

CONSTANTS
    TransactionScenarios,   \* the scenarios of the transactions
    i1, i2, i3,             \* instances
    r1, r2, r3,             \* replicas
    c1, c2, c3,             \* clients
    k1, k2                  \* keys

VARIABLES part, scenario, one, two, three, four, five, six, seven, eight

vars == <<part, scenario, one, two, three, four, five, six, seven, eight>>

NULL == <<>>

-----------------------------------------------------------------------------
(* Full synchronization of three replicas, of which r1 cannot parse a       *)
(* streamed RDB.                                                            *)

Mixed == [r \in {r1, r2, r3} |-> IF r = r1 THEN {"psync2"} ELSE {"eof", "psync2"}]

Quiet == [MaxCmds |-> 1, MaxConns |-> 3, MaxFails |-> 0, MaxLost |-> 0, MaxSaves |-> 0,
          MaxAof |-> 0, MaxConfig |-> 0, MaxRenames |-> 0]

\* Lost connections, failing forks and children, and AOF rewrites.
Failing == [Quiet EXCEPT !.MaxFails = 1, !.MaxLost = 1, !.MaxAof = 1]

\* The same with repl-diskless-sync switched at any time, and fewer connections.
Switching == [Failing EXCEPT !.MaxConns = 2, !.MaxConfig = 1]

\* FLUSHALL and SAVE among the commands.
Flushing == [Quiet EXCEPT !.MaxCmds = 2, !.MaxConns = 2, !.MaxSaves = 1]

Full == INSTANCE FullSync WITH
          Conns <- {r1, r2, r3}, CapaOf <- Mixed, Names <- {1}, FirstName <- 1,
          Scenarios <- {Quiet, Failing, Switching, Flushing}, srv <- one, cl <- two, used <- three

Symmetry == Permutations({r2, r3})

-----------------------------------------------------------------------------
(* The handshake with one or two masters, with and without a password, of  *)
(* this version or older than PSYNC, that refuse for a while or answer     *)
(* late.                                                                   *)

M(auth, old, errors) == [auth |-> auth, old |-> old, errors |-> errors]

Masters(host, auth, ip, faults, conns, changes, off) ==
  [Host |-> host, Auth |-> auth, AnnounceIp |-> ip, Faults |-> faults, MaxConns |-> conns,
   MaxChanges |-> changes, MaxOff |-> off]

Pairs ==
  {Masters("m" :> M(FALSE, FALSE, {"-LOADING", "-NOMASTERLINK"}), FALSE, TRUE,
        {"drop", "load", "rename", "timeout"}, 2, 2, 3),
   Masters("m" :> M(TRUE, FALSE, {}) @@ "n" :> M(FALSE, FALSE, {}), FALSE, FALSE, {"protocol", "timeout"}, 3, 3, 2),
   Masters("m" :> M(TRUE, FALSE, {}), TRUE, TRUE, {"write", "late", "drop"}, 2, 1, 2),
   Masters("m" :> M(FALSE, TRUE, {"-BUSY"}), FALSE, FALSE, {"drop", "timeout", "late"}, 3, 2, 2)}

Link == INSTANCE Handshake WITH Scenarios <- Pairs, srv <- one, net <- two, world <- three

-----------------------------------------------------------------------------
(* Background threads with two jobs of each of two types, and a caller that *)
(* waits for a step of them.                                                *)

Threads == INSTANCE Bio WITH
             BioTypes <- {"aof_fsync", "lazy_free"}, Callers <- {"main"}, MaxJobs <- 2,
             bio_jobs <- one, bio_pending <- two, mutex <- three, bioPc <- four,
             waiter <- five, stepped <- six, created <- seven, executed <- eight

-----------------------------------------------------------------------------
(* The append only file, with a busy fsync thread and children in the way,  *)
(* and with a write that fails.                                             *)

SwitchOn == [DBs |-> {0}, Policies |-> {"everysec"}, Kinds |-> {"set"},
             TornCommands |-> FALSE, PowerLoss |-> FALSE, NoFsyncOnRewrite |-> TRUE,
             UseRdbPreamble |-> TRUE, RewriteMinSize |-> 9, MaxCmds |-> 1, MaxCrashes |-> 0,
             MaxSwitches |-> 2, MaxForks |-> 2, MaxSaves |-> 1, MaxErrors |-> 0]

Idle == [SwitchOn EXCEPT !.NoFsyncOnRewrite = FALSE, !.MaxCmds = 3, !.MaxSwitches = 0,
                         !.MaxForks = 0, !.MaxSaves = 0, !.MaxErrors = 1]

File == INSTANCE Aof WITH Scenarios <- {SwitchOn, Idle}, srv <- one, cmds <- two, inTxn <- three,
                          acked <- four, waiting <- five, up <- six, conf <- seven, bounds <- eight

-----------------------------------------------------------------------------
(* The same for its safety.  Each scenario lets one kind of trouble happen  *)
(* often enough, and the others not at all.                                 *)

Plain == [SwitchOn EXCEPT !.Policies = {"no"}, !.NoFsyncOnRewrite = FALSE, !.MaxCmds = 2,
                          !.MaxSwitches = 0, !.MaxForks = 0, !.MaxSaves = 0]

\* Short writes and power losses, with every fsync policy.
Flush == [Plain EXCEPT !.DBs = {0, 1}, !.Policies = {"always", "everysec", "no"},
                       !.TornCommands = TRUE, !.PowerLoss = TRUE,
                       !.MaxCrashes = 2, !.MaxErrors = 2]

\* A power loss at any moment of a background rewrite.
Rewrite == [Plain EXCEPT !.DBs = {0, 1}, !.Policies = {"always", "everysec"},
                         !.PowerLoss = TRUE, !.RewriteMinSize = 3,
                         !.MaxCrashes = 1, !.MaxForks = 1]

\* LogTransactions, and the rewrite format without the RDB preamble.
LogTransactions == [Plain EXCEPT !.Kinds = {"set", "txn"}, !.PowerLoss = TRUE,
                              !.UseRdbPreamble = FALSE, !.MaxCmds = 3,
                              !.MaxCrashes = 1, !.MaxForks = 1]

\* The same with two databases and fewer commands.
LogTransactionDbs == [LogTransactions EXCEPT !.DBs = {0, 1}, !.MaxCmds = 2]

\* appendonly turned off and on, with BGSAVE children in the way.
Switch == [Plain EXCEPT !.MaxCrashes = 1, !.MaxSwitches = 2, !.MaxForks = 2, !.MaxSaves = 1]

\* A power loss inside a command of a transaction.
TornTransaction == [Plain EXCEPT !.Kinds = {"set", "txn"}, !.TornCommands = TRUE,
                                 !.PowerLoss = TRUE, !.MaxCmds = 3, !.MaxCrashes = 1]

Log == INSTANCE Aof WITH Scenarios <- {Flush, Rewrite, LogTransactions, LogTransactionDbs, Switch},
                         srv <- one, cmds <- two, inTxn <- three, acked <- four,
                         waiting <- five, up <- six, conf <- seven, bounds <- eight

Torn == INSTANCE Aof WITH Scenarios <- {TornTransaction},
                          srv <- one, cmds <- two, inTxn <- three, acked <- four,
                          waiting <- five, up <- six, conf <- seven, bounds <- eight

ASSUME File!ConstantsOK /\ Log!ConstantsOK /\ Torn!ConstantsOK

-----------------------------------------------------------------------------
(* Partial synchronization: a pair whose link is lost, and a chain whose    *)
(* roles change.                                                            *)

Lossy == [ReplicaOf |-> i1 :> NULL @@ i2 :> i1, DB |-> {0}, BacklogSize |-> 1, MaxWrites |-> 1,
          MaxPings |-> 0, MaxOffset |-> 2, MaxIds |-> 9, MaxRole |-> 1, MaxLost |-> 1,
          MaxCrash |-> 0, MaxFrees |-> 1, MaxSaves |-> 0]

Chain == [Lossy EXCEPT !.ReplicaOf = i1 :> NULL @@ i2 :> i1 @@ i3 :> i2, !.MaxLost = 0]

Partial == INSTANCE Psync WITH AllNodes <- {i1, i2, i3}, Scenarios <- {Lossy, Chain},
                               node <- one, link <- two, used <- three

-----------------------------------------------------------------------------
(* The same for its safety.  Each scenario lets one kind of disturbance     *)
(* happen often enough, and the others less or not at all.                  *)

Pair == [Lossy EXCEPT !.DB = {0, 1}, !.BacklogSize = 2, !.MaxWrites = 2, !.MaxOffset = 3,
                      !.MaxIds = 5, !.MaxRole = 2, !.MaxLost = 0, !.MaxFrees = 0]

\* Roles change, with writes to two databases on both sides of a split.
Failover == [Pair EXCEPT !.MaxRole = 3]

\* One more role change, with one database.
Rounds == [Failover EXCEPT !.DB = {0}, !.MaxRole = 4]

\* A sub-replica below the replica whose role changes.
Chained == [Pair EXCEPT !.ReplicaOf = Chain.ReplicaOf, !.DB = {0}, !.MaxWrites = 1, !.MaxOffset = 2,
                       !.MaxIds = 4]

\* A restart from an RDB file of any age.
RestartOnce == [Pair EXCEPT !.DB = {0}, !.MaxWrites = 1, !.MaxOffset = 2, !.MaxCrash = 1, !.MaxSaves = 1]

\* The same with two databases and writes, and fewer role changes.
RestartDbs == [RestartOnce EXCEPT !.DB = {0, 1}, !.MaxWrites = 2, !.MaxIds = 4, !.MaxRole = 1]

\* A lost link or a failed load, and a backlog freed for lack of replicas.
Links == [Pair EXCEPT !.DB = {0}, !.MaxRole = 1, !.MaxPings = 1, !.MaxLost = 1, !.MaxFrees = 1]

Roles == INSTANCE Psync WITH
           AllNodes <- {i1, i2, i3},
           Scenarios <- {Failover, Rounds, Chained, RestartOnce, RestartDbs, Links},
           node <- one, link <- two, used <- three

-----------------------------------------------------------------------------
(* Full synchronization of two replicas, with failures and AOF rewrites: a  *)
(* connection is lost, or dbfilename changed while the file is written.     *)

Interrupted == [Quiet EXCEPT !.MaxCmds = 1, !.MaxFails = 1, !.MaxLost = 1, !.MaxAof = 1]
Renamed == [Interrupted EXCEPT !.MaxLost = 0, !.MaxRenames = 1]

Served == INSTANCE FullSync WITH
            Conns <- {r1, r2}, CapaOf <- [r \in {r1, r2} |-> Mixed[r]], Names <- {1, 2}, FirstName <- 1,
            Scenarios <- {Interrupted, Renamed}, srv <- one, cl <- two, used <- three

-----------------------------------------------------------------------------
(* Two hosts that compete for the lead of their cluster, for its progress:  *)
(* MCProved checks its safety with more functions and operations.           *)

Elections == {[Functions |-> {"f"}, Timeout |-> 2, MaxOps |-> 1]}

Suma == INSTANCE Apollo WITH Hosts <- {"a", "b"}, ApolloScenarios <- Elections, db <- one, engine <- two,
                             host <- three, past <- four

ASSUME Suma!ApolloConstantsOK

-----------------------------------------------------------------------------
(* Transactions of two clients, on a few keys and one or two DBs.           *)

\* One DB with two keys: WATCH against everything that changes a key.
Watching == [Keys |-> {k1, k2}, Dbs |-> {0}, RoleInMulti |-> {},
             Ops |-> {"watch", "set", "del", "expire", "flushall", "rename"},
             MaxWrites |-> 2, MaxTime |-> 1, MaxQueue |-> 1, MaxCmds |-> 5, MaxRole |-> 0]

\* The same with reads, which delete what has expired, and with FLUSHDB.
Reading == [Watching EXCEPT !.Ops = {"watch", "set", "get", "expire", "flushdb"}, !.MaxCmds = 4]

\* Two DBs with one key each: what the replicas are sent.
Streaming == [Watching EXCEPT !.Keys = {k1}, !.Dbs = {0, 1}, !.MaxQueue = 2, !.MaxCmds = 4,
                 !.Ops = {"set", "get", "expire", "move", "swapdb", "flushall", "select"}]

\* The instance changes its role between and inside transactions.
ChangingRole == [Streaming EXCEPT !.RoleInMulti = {"demote"}, !.MaxRole = 2, !.MaxTime = 2,
                    !.Ops = {"set", "del", "get", "expire", "select", "demote", "promote"}]

AllTransactions == {Watching, Reading, Streaming, ChangingRole}

\* SAVE inside a transaction.
Saving == {[Streaming EXCEPT !.Ops = {"set", "save"}]}

Txns == INSTANCE Multi WITH Clients <- {c1, c2}, FirstDb <- 0, Scenarios <- TransactionScenarios, srv <- one, used <- two

-----------------------------------------------------------------------------
(* Two or three clients that block on two keys.                             *)

Cmd(op, key, arg) == [op |-> op, key |-> key, arg |-> arg]
Request(multi, cmds) == [multi |-> multi, cmds |-> cmds]
One(op, key, arg) == Request(FALSE, <<Cmd(op, key, arg)>>)
Txn(cmds) == Request(TRUE, cmds)

\* BLPOP, BRPOP and chains of BRPOPLPUSH, with targets that are not lists.
Pops == [Keys |-> {k1, k2}, Dbs |-> {0}, ReadCount |-> 0, Pushes |-> {},
          Events |-> {"timeout"},
          Requests |-> {One("blpop", <<k1, k2>>, NULL), One("brpop", <<k1, k1>>, NULL),
                        One("brpoplpush", k1, k2), One("brpoplpush", k2, k1),
                        One("rpush", k1, NULL), One("zadd", k2, NULL),
                        Txn(<<Cmd("rpush", k1, NULL), Cmd("lpush", k1, NULL)>>)},
          MaxElements |-> 3, MaxBlocks |-> 3, MaxRequests |-> 5, MaxPending |-> 1, MaxEvents |-> 1]

\* Clients that wait for different types of the same key, repeated pops of a
\* sorted set, renames and deletions inside transactions.
Types == [Pops EXCEPT !.Events = {"close"},
             !.Requests = {One("blpop", <<k1>>, NULL), One("bzpopmin", <<k1>>, NULL),
                           One("bzpopmax", <<k2, k1>>, NULL), One("xread", <<k1>>, "all"),
                           Txn(<<Cmd("zadd", k2, NULL), Cmd("zadd", k2, NULL), Cmd("rename", k2, k1)>>),
                           Txn(<<Cmd("rpush", k1, NULL), Cmd("del", k1, NULL), Cmd("xadd", k1, NULL)>>),
                           One("rpush", k1, NULL), One("del", k1, NULL)}]

\* XREAD and XREADGROUP, with and without NOACK, groups that come and go.
Groups == [Pops EXCEPT !.Events = {"timeout"}, !.ReadCount = 1, !.Keys = {k1},
              !.Requests = {One("xread", <<k1>>, "new"), One("xreadgroup", <<k1>>, "ack"),
                            One("xreadgroup", <<k1>>, "noack"), One("xadd", k1, NULL),
                            One("xgroup", k1, NULL), One("xdestroy", k1, NULL),
                            Txn(<<Cmd("xadd", k1, NULL), Cmd("xadd", k1, NULL)>>),
                            Txn(<<Cmd("xadd", k1, NULL), Cmd("xtrim", k1, NULL)>>)}]

\* SWAPDB gives the clients of one DB the keys of another one.
Swaps == [Pops EXCEPT !.Keys = {k1}, !.Dbs = {0, 1}, !.Events = {}, !.MaxRequests = 4,
             !.Requests = {One("blpop", <<k1>>, NULL), One("brpoplpush", k1, k1),
                           One("bzpopmin", <<k1>>, NULL), One("xread", <<k1>>, "new"),
                           One("rpush", k1, NULL), One("xadd", k1, NULL), One("zadd", k1, NULL),
                           One("swapdb", 0, 1)}]

\* Clients with input that waits: pauses, disconnections, changes of role,
\* writes of modules and of a master.
Input == [Pops EXCEPT !.Keys = {k1}, !.MaxEvents = 2, !.MaxRequests = 4,
             !.Events = {"timeout", "unblock", "close", "pause", "role", "module", "stream"},
             !.Pushes = {Cmd("rpush", k1, NULL), Cmd("xadd", k1, NULL)},
             !.Requests = {One("blpop", <<k1>>, NULL), One("xread", <<k1>>, "new"),
                           One("rpush", k1, NULL)}]

Waiting == INSTANCE Blocked WITH Clients <- {c1, c2, c3}, Scenarios <- {Pops, Types, Groups, Swaps, Input},
              srv <- one, used <- two

-----------------------------------------------------------------------------
(* Clients that wait for one or two replicas.                               *)

Acks(linked, replicas, counts, faults, min, off, links, waits) ==
  [Linked |-> linked, Replicas |-> replicas, Counts |-> counts, Faults |-> faults, MinSlaves |-> min,
   Offset |-> 1, MaxOff |-> off, MaxLinks |-> links, MaxWaits |-> waits]

Waits ==
  {Acks({"r", "s"}, {"r", "s"}, "c" :> {2} @@ "d" :> {1}, {"cron"}, 0, 4, 1, 1),
   Acks({}, {"r"}, "c" :> {1}, {"drop", "timeout", "quit", "cron", "read"}, 0, 5, 2, 2),
   Acks({"r"}, {"r", "s"}, "c" :> {2}, {"replicaof"}, 1, 4, 1, 1)}

Sync == INSTANCE Wait WITH Scenarios <- Waits, srv <- one, replicas <- two, honest <- three

-----------------------------------------------------------------------------
(* How many of the variables a part uses.                                   *)

Size == "fullsync" :> 3 @@ "handshake" :> 3 @@ "threads" :> 8 @@ "file" :> 8 @@ "log" :> 8 @@ "torn" :> 8
          @@ "partial" :> 3 @@ "roles" :> 3 @@ "served" :> 3 @@ "apollo" :> 4
          @@ "multi" :> 2 @@ "blocked" :> 2 @@ "wait" :> 3

Unused ==
  /\ part \notin {"handshake", "apollo", "wait"} => scenario = 0
  /\ Size[part] < 3 => three = 0
  /\ Size[part] < 4 => four = 0
  /\ Size[part] < 5 => five = 0
  /\ Size[part] < 8 => six = 0 /\ seven = 0 /\ eight = 0

KeepUnused ==
  /\ UNCHANGED part
  /\ part \notin {"handshake", "apollo", "wait"} => UNCHANGED scenario
  /\ Size[part] < 3 => UNCHANGED three
  /\ Size[part] < 4 => UNCHANGED four
  /\ Size[part] < 5 => UNCHANGED five
  /\ Size[part] < 8 => UNCHANGED <<six, seven, eight>>

(* The append only file of an instance that crashes and restarts. *)
LogInit == part = "log" /\ Log!Init /\ Unused

LogNext == File!Next /\ KeepUnused

LogSpec == LogInit /\ [][LogNext]_vars

(* The same with a power loss inside a command of a transaction. *)
TornInit == part = "torn" /\ Torn!Init /\ Unused

TornSpec == TornInit /\ [][LogNext]_vars

(* Partial and full synchronization, and the handshake. *)
ReplicationInit ==
  /\ \/ part = "roles" /\ Roles!Init
     \/ part = "fullsync" /\ Full!Init
     \/ part = "handshake" /\ Link!Init
  /\ Unused

ReplicationNext ==
  /\ \/ part = "roles" /\ Roles!Next
     \/ part = "fullsync" /\ Full!Next
     \/ part = "handshake" /\ Link!Next
  /\ KeepUnused

ReplicationSpec == ReplicationInit /\ [][ReplicationNext]_vars

(* Transactions. *)
MultiInit == part = "multi" /\ Txns!Init /\ Unused

MultiNext == Txns!Next /\ KeepUnused

MultiSpec == MultiInit /\ [][MultiNext]_vars

(* Clients that block or WAIT. *)
BlockedInit ==
  /\ \/ part = "blocked" /\ Waiting!Init
     \/ part = "wait" /\ Sync!Init
  /\ Unused

BlockedNext ==
  /\ \/ part = "blocked" /\ Waiting!Next
     \/ part = "wait" /\ Sync!Next
  /\ KeepUnused

BlockedSpec == BlockedInit /\ [][BlockedNext]_vars

TwoClients == Permutations({c1, c2})
ThreeClients == Permutations({c1, c2, c3})

(* The parts whose progress is checked. *)
LiveInit ==
  /\ \/ part = "threads" /\ Threads!BioInit
     \/ part = "file" /\ File!Init
     \/ part = "partial" /\ Partial!Init
     \/ part = "served" /\ Served!Init
     \/ part = "apollo" /\ Suma!ApolloInit
  /\ Unused

LiveNext ==
  /\ \/ part = "threads" /\ Threads!BioNext
     \/ part = "file" /\ File!Next
     \/ part = "partial" /\ Partial!Next
     \/ part = "served" /\ Served!Next
     \/ part = "apollo" /\ Suma!ApolloNext
  /\ KeepUnused

LiveSpec == LiveInit /\ [][LiveNext]_vars

(* The fairness of each part is that of its module (see there).  Fairness   *)
(* of the union is fairness of the part's own action, for a behaviour has   *)
(* only one part.                                                           *)

Turn(p, Step) == part = p /\ Step /\ KeepUnused

FairSpec ==
  /\ LiveSpec
  /\ WF_vars(\/ Turn("partial", Partial!Progress) \/ Turn("served", Served!Progress)
             \/ Turn("threads", Threads!BioThread("aof_fsync")) \/ Turn("file", File!beforeSleep)
             \/ Turn("apollo", \E late \in 0..1 : Suma!Poll("a", late, FALSE)))
  /\ WF_vars(\/ Turn("threads", Threads!BioThread("lazy_free")) \/ Turn("file", File!serverCron(TRUE))
             \/ Turn("apollo", \E late \in 0..1 : Suma!Poll("b", late, FALSE)))
  /\ WF_vars(Turn("file", File!aofChildPipeReadable) \/ Turn("apollo", Suma!localCmds("a")))
  /\ WF_vars(Turn("file", File!ChildSteps) \/ Turn("apollo", Suma!localCmds("b")))
  /\ WF_vars(Turn("file", File!BioSteps))
  /\ SF_vars(Turn("threads", Threads!WaitStepReturn("main")))

-----------------------------------------------------------------------------
\* See FullSync: the stages follow each other, who waits has a child to wait for,
\* and the file with the differences after it is the dataset.
FullSyncSound ==
  part = "fullsync" => Full!TypeOK /\ Full!ProtocolOrder /\ Full!WaitersHaveChild /\ Full!RdbPlusDifferences

\* See Handshake: the link is in the state its connection calls for, and what
\* the replica applied is the stream of its master.
LinkSound == part = "handshake" => Link!LinkSound /\ Link!StreamExact

\* See Aof: the file and the buffer, and what a rewrite has so far, replay to the
\* dataset.
FilesReplayToDataset == part = "log" => Log!FilesReplayToDataset

\* See Aof: what was acknowledged is in the file, and on disk with "always".
AckedIsDurable == part = "log" => Log!AckedIsDurable

\* See Aof: no file is refused, and a restart loses a suffix of the history.
RestartKeepsPrefix ==
  /\ [](part = "log" => Log!Loadable)
  /\ [][part = "log" => Log!KeepsPrefix]_vars

\* See Aof: a restart leaves complete commands and transactions in the file.
RestartRemovesTail == [][part = "torn" => Torn!RemovesTail]_vars

\* See Psync: replicas converge, histories are shared as their IDs say, and the
\* assertions of the code hold.
PsyncSound == part = "roles" => Roles!PsyncSound

\* See Bio, Aof, Psync, FullSync and Apollo.  Jobs are executed and callers that
\* wait for one return; what was fed reaches the file and the disk, and the
\* first rewrite is not waited for for ever; replicas are connected with the
\* dataset of their master, or have everything they were sent; and while some
\* host polls, the absence of a leader ends.
Settles ==
  /\ <>[](/\ part = "threads" => Threads!AllDone
          /\ part = "file" => File!AllOnDisk
          /\ part = "partial" => Partial!AllInSync
          /\ part = "served" => Served!AllServed)
  /\ \A h \in {"a", "b"} : []<>(part = "apollo" => ~Suma!PollsWithoutLeader(h))

\* See Multi: what an EXEC that was not refused ran is what its WATCHes allow,
\* and the replica that reads the stream has the dataset of the master.
ExecSound == part = "multi" => Txns!TypeOK /\ Txns!ExecJustified /\ Txns!ReplicaInSync

\* See Multi: every MULTI that was propagated is closed by an EXEC.
MultiClosed == part = "multi" => Txns!MultiClosed

\* See Multi: a read-only replica changes nothing that its master did not send.
ReadOnlyReplica == [][part = "multi" => Txns!ReplicaKeepsData]_vars

\* See Blocked: the tables agree, no wake-up is missed, no element is lost or
\* given twice, the replica follows, and input that waited is taken up again.
BlockedSound ==
  part = "blocked" => /\ Waiting!TablesAgree /\ Waiting!NoMissedWakeup /\ Waiting!Conserved
                      /\ Waiting!ReplicaInSync /\ Waiting!InputScheduled

\* See Blocked: clients are served in the order they blocked, and on a replica
\* only those that read.
ServedInOrder == [][part = "blocked" => Waiting!InOrder /\ Waiting!ReadersOnly]_vars

\* See Wait: an answer counts replicas that acknowledged, and nobody waits for
\* what is already there.
WaitSound == part = "wait" => Sync!WaitSound
=============================================================================
