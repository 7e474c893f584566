-------------------------------- MODULE Aof ---------------------------------
(***************************************************************************)
(* The append only file (src/src/aof.c): feeding, flushing, the three      *)
(* fsync policies with the background fsync, background rewriting with the *)
(* diff sent to the child, turning the AOF on and off, shutdown, crashes   *)
(* and loading.                                                            *)
(*                                                                         *)
(* The dataset is the sequence of the write commands executed, each with   *)
(* the database it ran in; what a command writes does not matter, that it  *)
(* is replayed once, in order and in its database does.  The log is a      *)
(* sequence of tokens, one per command in it; only a short write or a      *)
(* power loss splits a token.  Sizes and offsets are counted in tokens.    *)
(*                                                                         *)
(* The functions of aof.c that call each other are operators from a state  *)
(* record to the set of the states they may leave.                         *)
(***************************************************************************)
EXTENDS Integers, Sequences, SequencesExt, FiniteSets

CONSTANT
    Scenarios  \* configurations and bounds: records with the fields below

ConstantsOK ==
    \A sc \in Scenarios :
       /\ sc.DBs \subseteq Nat /\ 0 \in sc.DBs
       /\ sc.Policies \subseteq {"always", "everysec", "no"}
       /\ sc.Kinds \subseteq {"set", "txn"}

VARIABLES
    srv,      \* the AOF part of struct redisServer, its files and children
    cmds,     \* the dataset: <<database, command number>> in execution order
    inTxn,    \* history: lengths of cmds that are in the middle of a MULTI
    acked,    \* the last command whose reply was sent
    waiting,  \* are there replies in the output buffers
    up,       \* is the server running
    conf,     \* the scenario, and server.aof_fsync
    bounds    \* what the bounds count

vars == <<srv, cmds, inTxn, acked, waiting, up, conf, bounds>>

DBs == conf.scenario.DBs                    \* database ids, 0 among them
Kinds == conf.scenario.Kinds                \* "set", "txn": MULTI/EXEC with 2 writes
TornCommands == conf.scenario.TornCommands  \* may a short write or a power loss split a command
PowerLoss == conf.scenario.PowerLoss        \* does a crash lose what was not fsynced
NoFsyncOnRewrite == conf.scenario.NoFsyncOnRewrite  \* aof_no_fsync_on_rewrite
UseRdbPreamble == conf.scenario.UseRdbPreamble      \* aof_use_rdb_preamble
RewriteMinSize == conf.scenario.RewriteMinSize      \* aof_rewrite_min_size, in tokens
MaxCmds == conf.scenario.MaxCmds            \* bound: commands executed
MaxCrashes == conf.scenario.MaxCrashes      \* bound: crashes and shutdowns
MaxSwitches == conf.scenario.MaxSwitches    \* bound: CONFIG SET appendonly yes|no
MaxForks == conf.scenario.MaxForks          \* bound: AOF rewrites started
MaxSaves == conf.scenario.MaxSaves          \* bound: BGSAVE children started
MaxErrors == conf.scenario.MaxErrors        \* bound: failed or short write(2)

policy == conf.policy

None == -1

Start(file, synced) ==
    [state |-> "on", buf |-> <<>>, file |-> file, synced |-> synced,
     size |-> Len(file), fsyncOffset |-> Len(file), base |-> Len(file),
     seldb |-> None, age |-> 0, postponed |-> 0, status |-> "ok",
     jobs |-> <<>>, fsyncing |-> FALSE, exited |-> FALSE, errors |-> 0, forks |-> 0,
     scheduled |-> FALSE, rdbChild |-> "none", child |-> "none", snap |-> <<>>,
     rwbuf |-> <<>>, pipe |-> <<>>, diff |-> <<>>, stop |-> FALSE, ack |-> FALSE]

Init ==
    /\ srv = Start(<<>>, 0)
    /\ cmds = <<>> /\ inTxn = {} /\ acked = 0 /\ waiting = FALSE
    /\ up = TRUE
    /\ \E sc \in Scenarios : \E p \in sc.Policies : conf = [scenario |-> sc, policy |-> p]
    /\ bounds = [crashes |-> 0, switches |-> 0, saves |-> 0]

-----------------------------------------------------------------------------
(* Feeding *)

\* aofRewriteBufferAppend: the diff for the child, while there is one.
aofRewriteBufferAppend(s, toks) ==
    IF s.child # "none" THEN [s EXCEPT !.rwbuf = @ \o toks] ELSE s

\* SELECT first when the command is for another database than the last one.
feedAppendOnlyFile(s, d, toks) ==
    LET buf == (IF d # s.seldb THEN << <<"select", d>> >> ELSE <<>>) \o toks
        s1  == [s EXCEPT !.seldb = d,
                         !.buf = IF s.state = "on" THEN @ \o buf ELSE @]
    IN  aofRewriteBufferAppend(s1, buf)

\* propagate() calls feedAppendOnlyFile unless the AOF is off.
propagate(s, d, toks) == IF s.state = "off" THEN s ELSE feedAppendOnlyFile(s, d, toks)

-----------------------------------------------------------------------------
(* Flushing *)

\* fsync of the file behind aof_fd.
redis_fsync(s) == [s EXCEPT !.synced = Len(s.file)]

aofFsyncInProgress(s) == s.jobs # <<>>

\* A job for an fd that is closed or replaced does nothing to the AOF.
aof_background_fsync(s) ==
    [s EXCEPT !.jobs = Append(@, IF s.state = "off" THEN "old" ELSE "cur")]

\* The part of flushAppendOnlyFile from the label try_fsync.
TryFsync(s, inProgress) ==
    IF NoFsyncOnRewrite /\ (s.child # "none" \/ s.rdbChild # "none") THEN s
    ELSE IF policy = "always"
    THEN [redis_fsync(s) EXCEPT !.fsyncOffset = s.size, !.age = 0]
    ELSE IF policy = "everysec" /\ s.age > 0
    THEN IF inProgress THEN [s EXCEPT !.age = 0]
         ELSE [aof_background_fsync(s) EXCEPT !.fsyncOffset = s.size, !.age = 0]
    ELSE s

\* What aofWrite may leave behind short of everything: n tokens, or n tokens
\* and a half, or nothing (-1, the only outcome when aof_fd is -1).
ShortWrites(s) ==
    LET Cut(n) == [out |-> SubSeq(s.buf, 1, n), rest |-> SubSeq(s.buf, n + 1, Len(s.buf))]
        Half(n) == [out |-> SubSeq(s.buf, 1, n) \o << <<"half">> >>,
                    rest |-> << <<"rest", s.buf[n + 1]>> >> \o SubSeq(s.buf, n + 2, Len(s.buf))]
        Whole == {k \in 1..Len(s.buf) : s.buf[k][1] # "rest"}
    IN  IF s.state = "off" THEN {Cut(0)}
        ELSE {Cut(n) : n \in 0..(Len(s.buf) - 1)} \cup
             {Half(k - 1) : k \in IF TornCommands THEN Whole ELSE {}}

\* ftruncate cuts, or extends with zeros, which no command starts with.
ftruncate(file, n) == [i \in 1..n |-> IF i <= Len(file) THEN file[i] ELSE <<"zeros">>]

\* A failed or short write: the tail is removed with ftruncate, or, when that
\* fails too, the buffer is trimmed.  With the policy "always" the server exits.
WriteError(s) ==
    LET AfterWrite(w, truncated) ==
            IF w.out = <<>> THEN s
            ELSE IF truncated
            THEN [s EXCEPT !.file = ftruncate(s.file \o w.out, s.size)]
            ELSE [s EXCEPT !.file = @ \o w.out, !.size = @ + Len(w.out), !.buf = w.rest]
    IN  {[AfterWrite(w, t) EXCEPT !.errors = IF s.state = "off" THEN @ ELSE @ + 1,
                                  !.postponed = 0,
                                  !.status = IF policy = "always" THEN @ ELSE "err",
                                  !.exited = (policy = "always")] :
            w \in ShortWrites(s), t \in BOOLEAN}

\* With aof_fd = -1 every write fails.
WriteBuffer(s, inProgress) ==
    (IF s.errors < MaxErrors \/ s.state = "off" THEN WriteError(s) ELSE {}) \cup
    (IF s.state = "off" THEN {}
     ELSE {TryFsync([s EXCEPT !.file = @ \o s.buf, !.size = @ + Len(s.buf), !.buf = <<>>,
                              !.postponed = 0, !.status = "ok"], inProgress)})

\* postponed is 0, or 1 plus the seconds since the flush was first postponed.
flushAppendOnlyFile(s, force) ==
    LET inProgress == aofFsyncInProgress(s) IN
    IF s.buf = <<>>
    THEN {IF policy = "everysec" /\ s.fsyncOffset # s.size /\ s.age > 0 /\ ~inProgress
          THEN TryFsync(s, FALSE) ELSE s}
    ELSE IF policy = "everysec" /\ ~force /\ inProgress /\ s.postponed = 0
    THEN {[s EXCEPT !.postponed = 1]}
    ELSE IF policy = "everysec" /\ ~force /\ inProgress /\ s.postponed < 3
    THEN {s}
    ELSE WriteBuffer(s, policy = "everysec" /\ inProgress)

-----------------------------------------------------------------------------
(* Rewriting *)

\* aofRewriteBufferReset, aofClosePipes and aofRemoveTempFile.
ResetRewrite(s) ==
    [s EXCEPT !.child = "none", !.snap = <<>>, !.rwbuf = <<>>, !.pipe = <<>>,
              !.diff = <<>>, !.stop = FALSE, !.ack = FALSE]

\* The fork: the child owns a copy of the dataset.  The SELECT is forced so
\* that the diff can be appended to what the child writes.
rewriteAppendOnlyFileBackground(s) ==
    [ResetRewrite(s) EXCEPT !.child = "rewriting", !.snap = cmds,
                            !.scheduled = FALSE, !.seldb = None, !.forks = @ + 1]

killAppendOnlyChild(s) == IF s.child = "none" THEN s ELSE ResetRewrite(s)

\* What the child wrote: the snapshot and the diff it received.
TempFile(s) == << <<"snapshot", s.snap>> >> \o s.diff

\* The residual diff is appended and the file takes the name of the AOF.  The
\* child fsynced its part; the descriptor of the jobs still queued is now old.
RenameTemp(s) ==
    [s EXCEPT !.file = TempFile(s) \o s.rwbuf,
              !.synced = Len(TempFile(s)),
              !.jobs = [i \in DOMAIN @ |-> "old"]]

\* Mutant: the new file is not fsynced.
SwitchWithoutFsync(s) ==
    LET n == [RenameTemp(s) EXCEPT !.state = IF @ = "off" THEN "off" ELSE "on"]
    IN  [n EXCEPT !.seldb = None, !.size = Len(n.file), !.base = Len(n.file), !.buf = <<>>]

\* The rest of the success branch.  With the AOF off only the file changes.
SwitchToNewFile(s) ==
    LET n  == [RenameTemp(s) EXCEPT !.state = IF @ = "off" THEN "off" ELSE "on"]
        n1 == IF policy = "always" THEN redis_fsync(n)
              ELSE IF policy = "everysec" THEN aof_background_fsync(n)
              ELSE n
    IN  IF s.state = "off" THEN n
        ELSE [n1 EXCEPT !.seldb = None, !.size = Len(n.file), !.base = Len(n.file),
                        !.buf = <<>>]

\* Cleanup; a rewrite that failed while the AOF waits for it is retried.
RewriteCleanup(s) ==
    [ResetRewrite(s) EXCEPT !.scheduled = @ \/ s.state = "wait_rewrite"]

\* Success only if the child exited with 0 and the residual diff could be
\* appended and the file renamed.
backgroundRewriteDoneHandler(s) ==
    {RewriteCleanup(s)} \cup
    (IF s.child = "exit0" THEN {RewriteCleanup(SwitchToNewFile(s))} ELSE {})

-----------------------------------------------------------------------------
(* The main thread *)

\* writeCommandsDeniedByDiskError
Denied(s) == s.state # "off" /\ s.status = "err"

set(n) == << <<"set", n>> >>

\* A write command, or EXEC with two of them queued: MULTI, the commands and
\* EXEC are propagated one by one.
call(d, kind) ==
    /\ up
    /\ ~Denied(srv)
    /\ LET n == Len(cmds) IN
       IF kind = "set"
       THEN /\ n + 1 <= MaxCmds
            /\ cmds' = Append(cmds, <<d, n + 1>>)
            /\ srv' = propagate(srv, d, set(n + 1))
            /\ UNCHANGED inTxn
       ELSE /\ n + 2 <= MaxCmds
            /\ cmds' = cmds \o << <<d, n + 1>>, <<d, n + 2>> >>
            /\ inTxn' = inTxn \cup {n + 1}
            /\ srv' = propagate(propagate(propagate(propagate(srv,
                          d, << <<"multi">> >>), d, set(n + 1)), d, set(n + 2)),
                          d, << <<"exec">> >>)
    /\ waiting' = TRUE
    /\ UNCHANGED <<acked, up, conf, bounds>>

\* The AOF is flushed, then the replies are sent.
beforeSleep ==
    /\ up
    /\ \E s \in flushAppendOnlyFile(srv, FALSE) :
          /\ srv' = s
          /\ up' = ~s.exited
          /\ acked' = IF waiting /\ ~s.exited THEN Len(cmds) ELSE acked
    /\ waiting' = FALSE
    /\ UNCHANGED <<cmds, inTxn, conf, bounds>>

bgrewriteaofCommand ==
    /\ up
    /\ srv.child = "none"
    /\ IF srv.rdbChild # "none" THEN srv' = [srv EXCEPT !.scheduled = TRUE]
       ELSE /\ srv.forks < MaxForks
            /\ srv' = rewriteAppendOnlyFileBackground(srv)
    /\ UNCHANGED <<cmds, inTxn, acked, waiting, up, conf, bounds>>

\* BGSAVE, or the save points of serverCron; what it writes is not modelled.
bgsaveCommand ==
    /\ up
    /\ srv.child = "none" /\ srv.rdbChild = "none"
    /\ bounds.saves < MaxSaves
    /\ srv' = [srv EXCEPT !.rdbChild = "saving"]
    /\ bounds' = [bounds EXCEPT !.saves = @ + 1]
    /\ UNCHANGED <<cmds, inTxn, acked, waiting, up, conf>>

\* The clock moves on: age is 0 while unixtime = aof_last_fsync.
updateCachedTime(s) ==
    [s EXCEPT !.age = 1,
              !.postponed = IF @ = 0 THEN 0 ELSE IF @ < 3 THEN @ + 1 ELSE 3]

CanFork(s) == s.child = "none" /\ s.rdbChild = "none" /\ s.forks < MaxForks

CronScheduled(s) ==
    IF s.scheduled /\ CanFork(s) THEN rewriteAppendOnlyFileBackground(s) ELSE s

\* The rewrite triggered by growth: aof_rewrite_perc is 100.
NeedsRewrite(s) ==
    LET base == IF s.base = 0 THEN 1 ELSE s.base
    IN  s.state = "on" /\ s.size > RewriteMinSize /\ (s.size * 100) \div base - 100 >= 100

\* wait3 collects a child that is over.
CronChildren(s) ==
    IF s.child \in {"exit0", "exit1"} THEN backgroundRewriteDoneHandler(s)
    ELSE IF s.rdbChild = "exit" THEN {[s EXCEPT !.rdbChild = "none"]}
    ELSE {IF NeedsRewrite(s) /\ CanFork(s) THEN rewriteAppendOnlyFileBackground(s) ELSE s}

CronPostponed(s) == IF s.postponed > 0 THEN flushAppendOnlyFile(s, FALSE) ELSE {s}

\* Once per second; this call of serverCron may or may not be the one.
CronAfterError(s) ==
    {s} \cup (IF s.status = "err" /\ ~s.exited THEN flushAppendOnlyFile(s, FALSE) ELSE {})

\* tick: has the second changed since the last call.
serverCron(tick) ==
    /\ up
    /\ LET s0 == IF tick THEN updateCachedTime(srv) ELSE srv IN
       \E s1 \in CronChildren(CronScheduled(s0)) :
       \E s2 \in CronPostponed(s1) :
       \E s3 \in CronAfterError(s2) :
          /\ srv' = s3
          /\ up' = ~s3.exited
    /\ UNCHANGED <<cmds, inTxn, acked, waiting, conf, bounds>>

\* CONFIG SET appendonly no, or a full synchronisation of a replica.
stopAppendOnly ==
    /\ up
    /\ srv.state # "off"
    /\ bounds.switches < MaxSwitches
    /\ bounds' = [bounds EXCEPT !.switches = @ + 1]
    /\ \E s \in flushAppendOnlyFile(srv, TRUE) :
          /\ srv' = IF s.exited THEN s
                    ELSE killAppendOnlyChild(
                           [redis_fsync(s) EXCEPT !.state = "off", !.seldb = None,
                                                  !.jobs = [i \in DOMAIN @ |-> "old"]])
          /\ up' = ~s.exited
    /\ UNCHANGED <<cmds, inTxn, acked, waiting, conf>>

\* Mutant: a rewrite started while the AOF was off is kept.
StartKeepsChild ==
    /\ up
    /\ srv.state = "off"
    /\ bounds.switches < MaxSwitches
    /\ bounds' = [bounds EXCEPT !.switches = @ + 1]
    /\ LET s == [srv EXCEPT !.state = "wait_rewrite", !.age = 0] IN
       IF s.child # "none" THEN srv' = s
       ELSE srv' = [s EXCEPT !.scheduled = TRUE]
    /\ UNCHANGED <<cmds, inTxn, acked, waiting, up, conf>>

\* CONFIG SET appendonly yes.
startAppendOnly ==
    /\ up
    /\ srv.state = "off"
    /\ bounds.switches < MaxSwitches
    /\ bounds' = [bounds EXCEPT !.switches = @ + 1]
    /\ LET s == [srv EXCEPT !.state = "wait_rewrite", !.age = 0] IN
       IF s.rdbChild # "none" THEN srv' = [s EXCEPT !.scheduled = TRUE]
       ELSE /\ s.forks < MaxForks
            /\ srv' = rewriteAppendOnlyFileBackground(killAppendOnlyChild(s))
    /\ UNCHANGED <<cmds, inTxn, acked, waiting, up, conf>>

\* aofChildWriteDiffData sends what the pipe takes.
aofChildWriteDiffData ==
    /\ up
    /\ srv.child # "none" /\ ~srv.stop
    /\ \E n \in 1..Len(srv.rwbuf) :
          srv' = [srv EXCEPT !.pipe = @ \o SubSeq(srv.rwbuf, 1, n),
                             !.rwbuf = SubSeq(srv.rwbuf, n + 1, Len(srv.rwbuf))]
    /\ UNCHANGED <<cmds, inTxn, acked, waiting, up, conf, bounds>>

\* aofChildPipeReadable: the ack of the child's request may not be delivered.
aofChildPipeReadable ==
    /\ up
    /\ srv.child = "asked" /\ ~srv.stop
    /\ \E sent \in BOOLEAN : srv' = [srv EXCEPT !.stop = TRUE, !.ack = sent]
    /\ UNCHANGED <<cmds, inTxn, acked, waiting, up, conf, bounds>>

-----------------------------------------------------------------------------
(* The rewriting child and the fsync thread *)

aofReadDiffFromParent(s) == [s EXCEPT !.diff = @ \o s.pipe, !.pipe = <<>>]

ChildReads ==
    /\ up
    /\ srv.child = "rewriting" /\ srv.pipe # <<>>
    /\ srv' = aofReadDiffFromParent(srv)
    /\ UNCHANGED <<cmds, inTxn, acked, waiting, up, conf, bounds>>

\* "Ask the master to stop sending diffs."
ChildAsks ==
    /\ up
    /\ srv.child = "rewriting"
    /\ srv' = [srv EXCEPT !.child = "asked"]
    /\ UNCHANGED <<cmds, inTxn, acked, waiting, up, conf, bounds>>

\* The acknowledgement arrived: the final diff is read, the file is closed.
ChildFinishes ==
    /\ up
    /\ srv.child = "asked" /\ srv.ack
    /\ srv' = [aofReadDiffFromParent(srv) EXCEPT !.child = "exit0"]
    /\ UNCHANGED <<cmds, inTxn, acked, waiting, up, conf, bounds>>

\* A write error, no acknowledgement within 5 seconds, or a signal.
ChildFails ==
    /\ up
    /\ srv.child \in {"rewriting", "asked"}
    /\ srv' = [srv EXCEPT !.child = "exit1"]
    /\ UNCHANGED <<cmds, inTxn, acked, waiting, up, conf, bounds>>

RdbChildExits ==
    /\ up
    /\ srv.rdbChild = "saving"
    /\ srv' = [srv EXCEPT !.rdbChild = "exit"]
    /\ UNCHANGED <<cmds, inTxn, acked, waiting, up, conf, bounds>>

\* bioProcessBackgroundJobs for BIO_AOF_FSYNC: the fsync, then the job is
\* removed from the list.
BioFsync ==
    /\ up
    /\ srv.jobs # <<>> /\ ~srv.fsyncing
    /\ srv' = [(IF Head(srv.jobs) = "cur" THEN redis_fsync(srv) ELSE srv)
                  EXCEPT !.fsyncing = TRUE]
    /\ UNCHANGED <<cmds, inTxn, acked, waiting, up, conf, bounds>>

BioFinish ==
    /\ up
    /\ srv.fsyncing
    /\ srv' = [srv EXCEPT !.fsyncing = FALSE, !.jobs = Tail(@)]
    /\ UNCHANGED <<cmds, inTxn, acked, waiting, up, conf, bounds>>

-----------------------------------------------------------------------------
(* Loading *)

\* The loader's state.  valid and beforeMulti are file offsets.
LoadInit == [sel |-> 0, data |-> <<>>, multi |-> FALSE, queue |-> <<>>, half |-> FALSE,
             pos |-> 0, valid |-> 0, beforeMulti |-> 0, bad |-> FALSE]

\* The database the fake client is left in by the rewritten part: the RDB
\* preamble does not touch it, the SELECTs of the other format go up.
SelectedAfter(data) ==
    IF UseRdbPreamble THEN 0
    ELSE CHOOSE d \in DBs : /\ d = 0 \/ \E i \in DOMAIN data : data[i][1] = d
                            /\ \A i \in DOMAIN data : data[i][1] <= d

\* The effect of a command run by the fake client outside MULTI.
Apply(l, tok) ==
    CASE tok[1] = "select" -> [l EXCEPT !.sel = tok[2]]
      [] tok[1] = "set" -> [l EXCEPT !.data = Append(@, <<l.sel, tok[2]>>)]
      [] tok[1] = "snapshot" -> [l EXCEPT !.data = tok[2], !.sel = SelectedAfter(tok[2])]
      [] OTHER -> l

\* One well-formed command: queued inside MULTI, run otherwise.
LoadCommand(l, tok) ==
    LET l1 == IF tok[1] = "multi" THEN [l EXCEPT !.beforeMulti = l.valid] ELSE l
        l2 == IF l.multi /\ tok[1] # "exec" THEN [l1 EXCEPT !.queue = Append(@, tok)]
              ELSE IF tok[1] = "multi" THEN [l1 EXCEPT !.multi = TRUE, !.queue = <<>>]
              ELSE IF tok[1] = "exec"
              THEN [FoldLeft(Apply, l1, l1.queue) EXCEPT !.multi = FALSE, !.queue = <<>>]
              ELSE Apply(l1, tok)
    IN  [l2 EXCEPT !.pos = @ + 1, !.valid = l.pos + 1]

\* One token of the file; the two halves of a command are read as one.
LoadToken(l, tok) ==
    IF l.bad \/ tok[1] = "zeros" \/ (tok[1] = "rest") # l.half
    THEN [l EXCEPT !.bad = TRUE]
    ELSE CASE tok[1] = "half" -> [l EXCEPT !.half = TRUE, !.pos = @ + 1]
           [] tok[1] = "rest" -> LoadCommand([l EXCEPT !.half = FALSE], tok[2])
           [] OTHER -> LoadCommand(l, tok)

\* Mutant: an unfinished MULTI is cut at its last command.
LoadKeepsMulti(file) ==
    LET l == FoldLeft(LoadToken, LoadInit, file)
    IN  [data |-> l.data, fatal |-> l.bad, keep |-> l.valid]

\* With aof_load_truncated an unexpected end of file cuts the file at the last
\* well-formed command, or before an unfinished MULTI that ends in one.
loadAppendOnlyFile(file) ==
    LET l == FoldLeft(LoadToken, LoadInit, file)
    IN  [data |-> l.data, fatal |-> l.bad,
         keep |-> IF l.half THEN l.valid
                  ELSE IF l.multi THEN l.beforeMulti ELSE Len(file)]

Replay(file) == loadAppendOnlyFile(file).data

-----------------------------------------------------------------------------
(* Crashes, shutdown and restart *)

\* What the disk may hold after the crash of a server in state s: the file, or
\* after a power loss at least its fsynced part.
Survivors(s) ==
    LET Whole == IF PowerLoss THEN {SubSeq(s.file, 1, k) : k \in s.synced..Len(s.file)}
                 ELSE {s.file}
        CanTear(f) == Len(f) < Len(s.file) /\ s.file[Len(f) + 1][1] \notin {"half", "rest"}
    IN  Whole \cup {f \o << <<"half">> >> : f \in {g \in Whole : TornCommands /\ CanTear(g)}}

CrashFrom(s) ==
    /\ up
    /\ bounds.crashes < MaxCrashes
    /\ bounds' = [bounds EXCEPT !.crashes = @ + 1]
    /\ \E f \in Survivors(s) :
          srv' = [s EXCEPT !.file = f, !.synced = IF PowerLoss THEN Len(f) ELSE @]
    /\ up' = FALSE /\ waiting' = FALSE
    /\ UNCHANGED <<cmds, inTxn, acked, conf>>

Crash == CrashFrom(srv)

\* Inside backgroundRewriteDoneHandler, after rename and before the fsync.
CrashAfterRename == srv.child = "exit0" /\ CrashFrom(RenameTemp(srv))

\* SHUTDOWN NOSAVE, or SIGTERM without save points, with the AOF enabled.
prepareForShutdown ==
    /\ up
    /\ srv.state # "off"
    /\ ~(srv.child # "none" /\ srv.state = "wait_rewrite")
    /\ bounds.crashes < MaxCrashes
    /\ bounds' = [bounds EXCEPT !.crashes = @ + 1]
    /\ \E s \in flushAppendOnlyFile(srv, TRUE) : srv' = IF s.exited THEN s ELSE redis_fsync(s)
    /\ up' = FALSE /\ waiting' = FALSE
    /\ UNCHANGED <<cmds, inTxn, acked, conf>>

\* The configuration file says appendonly yes.
Restart ==
    /\ ~up
    /\ LET l == loadAppendOnlyFile(srv.file)
           f == SubSeq(srv.file, 1, l.keep)
       IN  /\ ~l.fatal
           /\ cmds' = l.data
           /\ inTxn' = {n \in inTxn : n < Len(l.data)}
           /\ acked' = IF acked < Len(l.data) THEN acked ELSE Len(l.data)
           /\ srv' = [Start(f, IF srv.synced < Len(f) THEN srv.synced ELSE Len(f))
                        EXCEPT !.errors = srv.errors, !.forks = srv.forks]
    /\ up' = TRUE /\ waiting' = FALSE
    /\ UNCHANGED <<conf, bounds>>

MainThread ==
    \/ \E d \in DBs, kind \in Kinds : call(d, kind)
    \/ beforeSleep
    \/ \E tick \in BOOLEAN : serverCron(tick)
    \/ bgrewriteaofCommand \/ bgsaveCommand
    \/ stopAppendOnly \/ startAppendOnly
    \/ aofChildWriteDiffData \/ aofChildPipeReadable

Child == ChildReads \/ ChildAsks \/ ChildFinishes \/ ChildFails \/ RdbChildExits

Next ==
    \/ MainThread \/ Child \/ BioFsync \/ BioFinish
    \/ Crash \/ CrashAfterRename \/ prepareForShutdown \/ Restart

Spec == Init /\ [][Next]_vars

\* The event loop goes on, the clock too, a rewriting child that is not told
\* otherwise gets to its end, and the fsync thread runs (module Bio).
ChildSteps == ChildAsks \/ ChildFinishes \/ ChildFails \/ RdbChildExits
BioSteps == BioFsync \/ BioFinish

Fairness ==
    /\ WF_vars(beforeSleep)
    /\ WF_vars(serverCron(TRUE))
    /\ WF_vars(aofChildPipeReadable)
    /\ WF_vars(ChildSteps)
    /\ WF_vars(BioSteps)

FairSpec == Spec /\ Fairness

-----------------------------------------------------------------------------
(* Properties *)

Tokens == {"select", "set", "multi", "exec", "snapshot", "half", "rest", "zeros"}

\* The shape of the state, and the sizes the code keeps in step.
TypeOK ==
    /\ srv.state \in {"on", "off", "wait_rewrite"}
    /\ \A q \in {srv.buf, srv.file, srv.rwbuf, srv.pipe, srv.diff} :
          \A i \in DOMAIN q : q[i][1] \in Tokens
    /\ srv.synced \in 0..Len(srv.file)
    /\ srv.seldb \in DBs \cup {None}
    /\ srv.age \in 0..1 /\ srv.postponed \in 0..3
    /\ srv.child \in {"none", "rewriting", "asked", "exit0", "exit1"}
    /\ acked \in 0..Len(cmds)
    /\ up /\ srv.state = "on" => srv.size = Len(srv.file)

\* While the AOF is on, the file followed by the buffer replays to exactly the
\* dataset in memory: every command once, in order, in its own database.  This
\* is what feedAppendOnlyFile, the short-write recovery of flushAppendOnlyFile
\* and the switch at the end of a rewrite have to keep.  And while a rewrite is
\* in flight, the snapshot of the child followed by the diff it has read, the
\* diff in the pipe and the diff the parent still holds do as well, wherever
\* the handshake on the pipes stands.
FilesReplayToDataset ==
    /\ TypeOK
    /\ up /\ srv.state = "on" => Replay(srv.file \o srv.buf) = cmds
    /\ up /\ srv.child \in {"rewriting", "asked", "exit0"} /\ srv.state # "off" =>
          Replay(TempFile(srv) \o srv.pipe \o srv.rwbuf) = cmds

\* With the policy "always" a command whose reply was sent is in the fsynced
\* part of the file ("we have the contract with the user that on acknowledged
\* write data is synced on disk"). With any policy it is in the file, unless
\* its write was postponed or failed: the crash of the process alone loses
\* nothing.
AckedIsDurable ==
    up /\ srv.state = "on" =>
        /\ policy = "always" /\ ~NoFsyncOnRewrite =>
              acked <= Len(Replay(SubSeq(srv.file, 1, srv.synced)))
        /\ srv.postponed = 0 /\ srv.status = "ok" => acked <= Len(Replay(srv.file))

EndsClean(file) ==
    LET l == FoldLeft(LoadToken, LoadInit, file) IN ~l.half /\ ~l.multi

\* "We want to remove the unprocessed tail and continue" (loadAppendOnlyFile):
\* the file a restart leaves behind holds complete commands and transactions
\* only, so what is appended next is replayed by the next restart.
RemovesTail == Restart => EndsClean(srv'.file)

RestartRemovesTail == [][RemovesTail]_vars

\* Whatever was torn, the loader does not refuse the file, and a restart loses
\* a suffix of the history and nothing else: the commands kept are the first
\* ones, no transaction is kept in part, and no torn tail stays in the file.
Loadable == ~up => ~loadAppendOnlyFile(srv.file).fatal

KeepsPrefix == Restart => IsPrefix(cmds', cmds) /\ Len(cmds') \notin inTxn /\ RemovesTail

RestartKeepsPrefix == []Loadable /\ [][KeepsPrefix]_vars

\* Nothing waits in the buffer, nothing in the page cache that everysec should
\* have synced, and no rewrite is waited for that could be started.
AllOnDisk ==
    up => /\ srv.state = "on" => srv.buf = <<>>
          /\ srv.state = "on" /\ policy = "everysec" => srv.synced = Len(srv.file)
          /\ srv.state = "wait_rewrite" => srv.forks = MaxForks

\* What was fed reaches the disk. A flush that is postponed or failed is done
\* in the end, although the fsync thread may be busy, because serverCron tries
\* again; with everysec the file is fsynced even if nobody writes again ("if
\* users stop write commands before fsync called in one second, the data in
\* page cache cannot be flushed in time"); and an AOF that was turned on does
\* not wait for its first rewrite for ever: one that fails, or finds an RDB
\* child, is started again.
EventuallyOnDisk == <>[]AllOnDisk
=============================================================================
