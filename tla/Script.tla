------------------------------- MODULE Script -------------------------------
(***************************************************************************)
(* Lua scripts and their propagation (src/src/scripting.c, call() of       *)
(* src/src/server.c, the script cache of src/src/replication.c): EVAL and  *)
(* EVALSHA with whole-script or single-command replication, SCRIPT LOAD,   *)
(* FLUSH and KILL, slow scripts, and the two consumers of what is          *)
(* propagated: the append only file and a replica.                         *)
(*                                                                         *)
(* The dataset is a counter: "incr" is not idempotent, and a command that  *)
(* runs twice, or not at all, at a consumer shows.  A random command draws *)
(* another value at a consumer than at the master.                         *)
(***************************************************************************)
EXTENDS Integers, FiniteSets, SequencesExt

CONSTANT Scenarios    \* configurations and bounds: records with the fields below

VARIABLES
    scenario,
    srv,       \* counter, scripts, script cache, and the script that runs
    sinks      \* what the AOF and the replica make of what is propagated

vars == <<scenario, srv, sinks>>

Ops == scenario.Ops
Programs == scenario.Programs                        \* script -> sequence of steps
Scripts == DOMAIN Programs
lua_always_replicate_commands == scenario.Effects    \* lua-replicate-commands
repl_scriptcache_size == scenario.CacheSize          \* 10000 in the code
MaxCommands == scenario.MaxCommands                  \* bound on the client commands

All == {"aof", "repl"}
Idle == [on |-> FALSE]

----------------------------------------------------------------------------
(* What one step of a script does where it runs: e has the counter, the    *)
(* messages published, the value drawn, the flags lua_random_dirty,        *)
(* lua_write_dirty and lua_replicate_commands, and lua_repl.               *)

Env(val, pubs) ==
    [val |-> val, pubs |-> pubs, reg |-> 0, random |-> FALSE, write |-> FALSE,
     rcmds |-> lua_always_replicate_commands, repl |-> All, stop |-> FALSE]

Amount(e, step, draw) == CASE step = "incr" -> 1 [] step = "add" -> e.reg [] step = "spop" -> draw
IsWrite(step) == step \in {"incr", "add", "spop"}
IsRandom(step) == step \in {"rand", "spop"}

redisCall(e, step, draw) ==
    IF IsWrite(step) /\ e.random /\ ~e.rcmds THEN [e EXCEPT !.stop = TRUE]
    ELSE [e EXCEPT !.random = @ \/ IsRandom(step), !.write = @ \/ IsWrite(step),
                   !.reg = IF step = "rand" THEN draw ELSE @,
                   !.val = IF IsWrite(step) THEN @ + Amount(e, step, draw) ELSE @,
                   !.pubs = IF step = "publish" THEN @ + 1 ELSE @]

luaRedisReplicateCommandsCommand(e) == IF e.write THEN e ELSE [e EXCEPT !.rcmds = TRUE]

luaRedisSetReplCommand(e, flags) == IF e.rcmds THEN [e EXCEPT !.repl = flags] ELSE [e EXCEPT !.stop = TRUE]

LuaStep(e, step, draw) ==
    CASE e.stop -> e
      [] ~e.stop /\ step = "rcmds" -> luaRedisReplicateCommandsCommand(e)
      [] ~e.stop /\ step = "aof" -> luaRedisSetReplCommand(e, {"aof"})
      [] ~e.stop /\ step = "none" -> luaRedisSetReplCommand(e, {})
      [] ~e.stop /\ step = "error" -> [e EXCEPT !.stop = TRUE]
      [] OTHER -> redisCall(e, step, draw)

----------------------------------------------------------------------------
(* A consumer applies what it is sent; between MULTI and EXEC it queues.   *)

RunScript(n, name) ==
    LET e == FoldLeft(LAMBDA x, step : LuaStep(x, step, 2), Env(n.val, n.pubs), Programs[name])
    IN  [n EXCEPT !.val = e.val, !.pubs = e.pubs, !.known = @ \cup {name}]

ApplyNow(n, op) ==
    CASE op[1] = "add" -> [n EXCEPT !.val = @ + op[2]]
      [] op[1] = "publish" -> [n EXCEPT !.pubs = @ + 1]
      [] op[1] = "load" -> [n EXCEPT !.known = @ \cup {op[2]}]
      [] op[1] = "flush" -> [n EXCEPT !.known = {}]
      [] op[1] = "eval" -> RunScript(n, op[2])
      [] op[1] = "evalsha" -> IF op[2] \in n.known THEN RunScript(n, op[2]) ELSE [n EXCEPT !.lost = TRUE]

Apply(n, op) ==
    CASE op[1] = "multi" -> [n EXCEPT !.open = TRUE, !.lost = @ \/ n.open]
      [] op[1] = "exec" -> [FoldLeft(ApplyNow, n, n.queue)
                            EXCEPT !.open = FALSE, !.queue = <<>>, !.lost = @ \/ ~n.open]
      [] OTHER -> IF n.open THEN [n EXCEPT !.queue = Append(@, op)] ELSE ApplyNow(n, op)

propagate(k, op, targets) == [t \in All |-> IF t \in targets THEN Apply(k[t], op) ELSE k[t]]

execCommandPropagateMulti(k) == propagate(k, <<"multi">>, All)

(* The end of call(): the command itself if it changed the dataset or is   *)
(* forced, unless prevented, then what alsoPropagate() collected.          *)
callEnd(k, op, dirty, force, prevent, also, targets) ==
    LET own == IF prevent THEN {} ELSE ((IF dirty THEN All ELSE {}) \cup force) \cap targets
    IN  FoldLeft(LAMBDA x, o : propagate(x, o, targets), propagate(k, op, own), also)

----------------------------------------------------------------------------
(* The cache of the scripts every consumer knows: newest first.            *)

replicationScriptCacheAdd(cache, name) ==
    <<name>> \o (IF Len(cache) = repl_scriptcache_size THEN Front(cache) ELSE cache)

replicationScriptCacheExists(cache, name) == Contains(cache, name)

----------------------------------------------------------------------------
(* Client commands.                                                        *)

MayCall == ~srv.run.on /\ srv.commands < MaxCommands
Counted(s) == [s EXCEPT !.commands = @ + 1]

incrCommand ==
    /\ MayCall /\ "incr" \in Ops
    /\ srv' = [Counted(srv) EXCEPT !.val = @ + 1]
    /\ sinks' = callEnd(sinks, <<"add", 1>>, TRUE, {}, FALSE, <<>>, All)
    /\ UNCHANGED scenario

(* The beginning of evalGenericCommand(); inside a transaction, EXEC has   *)
(* propagated MULTI before.                                                *)
evalGenericCommand(name, evalsha, multi) ==
    /\ MayCall
    /\ evalsha => "evalsha" \in Ops
    /\ multi => "multi" \in Ops
    /\ IF evalsha /\ name \notin srv.known
       THEN srv' = Counted(srv) /\ UNCHANGED sinks
       ELSE /\ srv' = [Counted(srv) EXCEPT
                !.known = @ \cup {name},
                !.run = [on |-> TRUE, name |-> name, pc |-> 1, sha |-> evalsha, multi |-> multi,
                         env |-> Env(srv.val, srv.pubs), emitted |-> FALSE, force |-> {}, timedout |-> FALSE,
                         kill |-> FALSE, dirty |-> FALSE, base |-> [t \in All |-> sinks[t].val], start |-> srv.val]]
            /\ sinks' = IF multi THEN execCommandPropagateMulti(sinks) ELSE sinks
    /\ UNCHANGED scenario

(* One redis.call(), or call of the redis table, of the script that runs:  *)
(* lua_multi_emitted brackets single-command replication.                  *)
luaRedisGenericCommand ==
    /\ srv.run.on /\ ~srv.run.kill
    /\ LET r == srv.run
           step == Programs[r.name][r.pc]
           e == r.env
           denied == IsWrite(step) /\ ~e.write /\ "oom" \in Ops
           f == LuaStep(e, step, 1)
           ran == ~f.stop /\ (IsWrite(step) \/ step = "publish")
           emit == ran /\ e.rcmds /\ ~r.emitted /\ ~r.multi /\ f.write /\ e.repl # {}
           k == IF emit THEN execCommandPropagateMulti(sinks) ELSE sinks
           op == IF step = "publish" THEN <<"publish">> ELSE <<"add", Amount(e, step, 1)>>
       IN  /\ ~e.stop /\ r.pc <= Len(Programs[r.name])
           /\ \/ /\ srv' = [srv EXCEPT !.run.env = f, !.run.pc = @ + 1, !.run.emitted = @ \/ emit,
                                       !.run.dirty = @ \/ (ran /\ IsWrite(step)),
                                       !.run.force = IF ran /\ step = "publish" THEN @ \cup {"repl"} ELSE @,
                                       !.skipped = [t \in All |-> IF ran /\ IsWrite(step) /\ e.rcmds /\ t \notin e.repl
                                                                  THEN @[t] + op[2] ELSE @[t]],
                                       !.unsent = IF ran /\ step = "publish" /\ e.rcmds /\ "repl" \notin e.repl
                                                  THEN @ + 1 ELSE @]
                 /\ sinks' = CASE ran /\ e.rcmds /\ step = "spop" -> callEnd(k, op, TRUE, {}, TRUE, <<op>>, e.repl)
                               [] ran /\ e.rcmds /\ step # "spop" ->
                                    callEnd(k, op, IsWrite(step), IF IsWrite(step) THEN {} ELSE {"repl"}, FALSE, <<>>, e.repl)
                               [] OTHER -> k
              \/ /\ denied                                        \* over maxmemory
                 /\ srv' = [srv EXCEPT !.run.env.stop = TRUE, !.run.pc = @ + 1]
                 /\ UNCHANGED sinks
    /\ UNCHANGED scenario

luaMaskCountHook ==
    /\ srv.run.on /\ ~srv.run.timedout /\ "slow" \in Ops
    /\ srv' = [srv EXCEPT !.run.timedout = TRUE]
    /\ UNCHANGED <<scenario, sinks>>

(* SCRIPT KILL, one of the few commands served while a script is slow; the *)
(* hook raises the error.                                                  *)
scriptKillCommand ==
    /\ srv.run.on /\ srv.run.timedout /\ ~srv.run.kill /\ ~srv.run.env.write
    /\ srv' = [srv EXCEPT !.run.kill = TRUE]
    /\ UNCHANGED <<scenario, sinks>>

(* The end of evalGenericCommand(), of call(), and of the EXEC around it.  *)
evalEnd ==
    /\ srv.run.on
    /\ srv.run.kill \/ srv.run.env.stop \/ srv.run.pc > Len(Programs[srv.run.name])
    /\ LET r == srv.run
           e == r.env
           rewrite == r.sha /\ ~e.rcmds /\ ~replicationScriptCacheExists(srv.cache, r.name)
           op == IF rewrite THEN <<IF r.dirty THEN "eval" ELSE "load", r.name>>
                 ELSE <<IF r.sha THEN "evalsha" ELSE "eval", r.name>>
           also == IF e.rcmds /\ r.emitted THEN <<<<"exec">>>> ELSE <<>>
           k == callEnd(sinks, op, r.dirty, IF rewrite THEN All ELSE r.force, e.rcmds, also, All)
       IN  /\ srv' = [srv EXCEPT !.val = e.val + (IF r.multi THEN 1 ELSE 0), !.pubs = e.pubs,
                                 !.cache = IF rewrite THEN replicationScriptCacheAdd(@, r.name) ELSE @,
                                 !.run = Idle]
           /\ sinks' = IF r.multi THEN propagate(propagate(k, <<"add", 1>>, All), <<"exec">>, All) ELSE k
    /\ UNCHANGED scenario

scriptLoadCommand(name) ==
    /\ MayCall /\ "load" \in Ops
    /\ srv' = [Counted(srv) EXCEPT !.known = @ \cup {name}]
    /\ sinks' = callEnd(sinks, <<"load", name>>, FALSE, All, FALSE, <<>>, All)
    /\ UNCHANGED scenario

scriptFlushCommand ==
    /\ MayCall /\ "flush" \in Ops
    /\ srv' = [Counted(srv) EXCEPT !.known = {}, !.cache = <<>>]
    /\ sinks' = callEnd(sinks, <<"flush">>, TRUE, {}, FALSE, <<>>, All)
    /\ UNCHANGED scenario

----------------------------------------------------------------------------
(* A consumer that starts again from a snapshot: the RDB file sent to a    *)
(* replica holds the scripts, a rewritten AOF does not.                    *)

Sink(val, pubs, known) ==
    [val |-> val, pubs |-> pubs, known |-> known, open |-> FALSE, queue |-> <<>>, lost |-> FALSE]

startBgsaveForReplication ==
    /\ MayCall /\ "sync" \in Ops
    /\ srv' = [Counted(srv) EXCEPT !.cache = <<>>, !.skipped["repl"] = 0, !.unsent = 0]
    /\ sinks' = [sinks EXCEPT !["repl"] = Sink(srv.val, srv.pubs, @.known \cup srv.known)]
    /\ UNCHANGED scenario

RewriteKeepsCache ==
    /\ MayCall /\ "rewrite" \in Ops
    /\ srv' = [Counted(srv) EXCEPT !.skipped["aof"] = 0]
    /\ sinks' = [sinks EXCEPT !["aof"] = Sink(srv.val, srv.pubs, {})]
    /\ UNCHANGED scenario

rewriteAppendOnlyFileBackground ==
    /\ MayCall /\ "rewrite" \in Ops
    /\ srv' = [Counted(srv) EXCEPT !.cache = <<>>, !.skipped["aof"] = 0]
    /\ sinks' = [sinks EXCEPT !["aof"] = Sink(srv.val, srv.pubs, {})]
    /\ UNCHANGED scenario

----------------------------------------------------------------------------
Init ==
    /\ scenario \in Scenarios
    /\ srv = [val |-> 0, pubs |-> 0, known |-> {}, cache |-> <<>>, run |-> Idle, commands |-> 0,
              skipped |-> [t \in All |-> 0], unsent |-> 0]
    /\ sinks = [t \in All |-> Sink(0, 0, {})]

Next ==
    \/ incrCommand \/ scriptFlushCommand \/ startBgsaveForReplication \/ rewriteAppendOnlyFileBackground
    \/ \E name \in Scripts : scriptLoadCommand(name) \/ \E sha, multi \in BOOLEAN : evalGenericCommand(name, sha, multi)
    \/ luaRedisGenericCommand \/ luaMaskCountHook \/ scriptKillCommand \/ evalEnd

Spec == Init /\ [][Next]_vars

----------------------------------------------------------------------------
(* ScriptReplicated: when no script runs, the AOF and the replica have     *)
(* executed every write and the replica every PUBLISH exactly once (less   *)
(* what redis.set_repl() kept from them), each EVALSHA found its script,   *)
(* and no transaction is left open or was opened twice: whatever mode the  *)
(* script was replicated in, and if it failed or was killed half way.      *)
ScriptReplicated ==
    ~srv.run.on => /\ \A t \in All : /\ ~sinks[t].open /\ ~sinks[t].lost
                                     /\ sinks[t].val = srv.val - srv.skipped[t]
                   /\ sinks["repl"].pubs = srv.pubs - srv.unsent

(* ScriptAtomic: while a script runs, and others are served because it is  *)
(* slow, no consumer shows a part of it; and a script that is killed has   *)
(* left the dataset as it was.                                             *)
ScriptAtomic ==
    srv.run.on => /\ \A t \in All : sinks[t].val = srv.run.base[t]
                  /\ srv.run.kill => srv.run.env.val = srv.run.start
=============================================================================
