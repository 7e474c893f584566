------------------------------- MODULE Apollo -------------------------------
(***************************************************************************)
(* The sumavlib module (src/mod/suma_apollo_core.c) with the Lua helpers   *)
(* it drives (register_c, biz_compile and run_c of src/src/scripting.c)    *)
(* and the polling client of src/tests/subtask_tool: leader election over  *)
(* a key with a time to live, keep-alive keys, the registry of hosts, the  *)
(* commands sent to hosts over channels, and the engine that runs          *)
(* registered functions from a module timer.                               *)
(*                                                                         *)
(* Times to live are what is left of them, in ticks; a key with 0 left is  *)
(* still there and goes with the next tick.  A command looks keys up more  *)
(* than once, and the clock may move in between: "late".                   *)
(***************************************************************************)
EXTENDS Integers, Sequences, FiniteSets

CONSTANTS
    Hosts,       \* the hosts of one cluster (owner and business identifier)
    ApolloScenarios    \* records with the functions and the bounds

VARIABLES
    scenario,
    db,        \* the keys of the module
    engine,    \* startup_atomic_lock, the timers pending, and func_hash
    host,      \* the polling clients
    past       \* leases promised, and how often the bounded steps were taken

apolloVars == <<scenario, db, engine, host, past>>

Functions == scenario.Functions
TIME_OUT_NUM == scenario.Timeout        \* 5000 ms in the code
MaxOps == scenario.MaxOps               \* bound on registrations, restarts and messages
None == [val |-> "none", ttl |-> 0]
NoExpire == 0 - 1

\* Nothing is assumed of the configurations but that a lease has a length.
ApolloConstantsOK ==
    /\ "none" \notin Hosts
    /\ \A c \in ApolloScenarios : c.Timeout \in Nat

\* A client that starts subscribes to the channel once its first poll returns;
\* "since" is the configuration there was then, "conf" the one it has cached.
Started == [poll |-> "try", up |-> TRUE, sub |-> FALSE, pub_ex |-> FALSE,
            inbox |-> <<>>, conf |-> 0, since |-> 0]

ApolloInit ==
    /\ scenario \in ApolloScenarios
    /\ db = [master |-> None, alive |-> [h \in Hosts |-> NoExpire], locked |-> FALSE,
             vips |-> {}, clusters |-> FALSE, conf |-> 0, warned |-> FALSE,
             list |-> <<>>, code |-> [f \in Functions |-> 0]]
    /\ engine = [lock |-> FALSE, timers |-> 0, funcs |-> [f \in Functions |-> 0]]
    /\ host = [h \in Hosts |-> Started]
    /\ past = [lease |-> [h \in Hosts |-> NoExpire], ops |-> 0]

----------------------------------------------------------------------------
(* The clock: what is left of every time to live shrinks, and what has     *)
(* nothing left expires.                                                   *)

Passed(ttl, t) == IF ttl - t < 0 THEN NoExpire ELSE ttl - t

AfterTime(d, t) ==
    LET m == d.master
    IN  [d EXCEPT !.master = IF m = None \/ m.ttl - t < 0 THEN None
                             ELSE [val |-> m.val, ttl |-> m.ttl - t],
                  !.alive = [h \in Hosts |-> Passed(d.alive[h], t)]]

LeasesAfter(x, t) == [x EXCEPT !.lease = [h \in Hosts |-> Passed(x.lease[h], t)]]

Tick ==
    /\ db' = AfterTime(db, 1)
    /\ past' = LeasesAfter(past, 1)
    /\ UNCHANGED <<scenario, engine, host>>

----------------------------------------------------------------------------
(* The engine.  register_c keeps the function that is there; biz_compile   *)
(* looks the name up without the prefix it is stored under, and stores     *)
(* what compiles; its result is dropped, so that the reply is 1 whatever   *)
(* it was.                                                                 *)

register_c(e, d, f) == IF e.funcs[f] = 0 THEN d.code[f] ELSE e.funcs[f]

\* The script that installs every function of biz_info.list; the second time
\* that a name comes up its function is there.
codes_install(e, d) ==
    [e EXCEPT !.funcs = [f \in Functions |->
        IF \E i \in DOMAIN d.list : d.list[i] = f THEN register_c(e, d, f) ELSE e.funcs[f]]]

biz_compile(d, f, version, compiles) ==
    IF compiles THEN [d EXCEPT !.code[f] = version, !.list = <<f>> \o @] ELSE d

\* sumavlib.epoll: one timer for the life of the process.  The reporter it
\* also means to register is passed where EVAL wants the number of keys, and
\* that EVAL fails.
TimerCommand_RedisCommand(e, d) ==
    IF e.lock THEN e ELSE codes_install([e EXCEPT !.timers = @ + 1, !.lock = TRUE], d)

Used == past.ops < MaxOps /\ past' = [past EXCEPT !.ops = @ + 1]

Epoll ==
    /\ engine' = TimerCommand_RedisCommand(engine, db)
    /\ UNCHANGED <<scenario, db, host, past>>

suma_biz_script_register(f, compiles) ==
    LET d == biz_compile(db, f, 1 + (db.code[f] % 2), compiles)
    IN  /\ Used
        /\ db' = d
        /\ engine' = codes_install(engine, d)
        /\ UNCHANGED <<scenario, host>>

\* A timer that fires is gone from the tree; run_c runs the body of every
\* function (here without effect), and the handler starts the next timer.
timerDataProcessorHandler ==
    /\ engine.timers > 0
    /\ engine' = [engine EXCEPT !.timers = (@ - 1) + 1]
    /\ UNCHANGED <<scenario, db, host, past>>

\* The server is shut down, which saves the keys, and started again: the
\* module's variables and the Lua state are new, and the subscriptions are
\* gone for good.
Restart ==
    /\ Used
    /\ engine' = [lock |-> FALSE, timers |-> 0, funcs |-> [f \in Functions |-> 0]]
    /\ host' = [h \in Hosts |-> [host[h] EXCEPT !.sub = FALSE]]
    /\ UNCHANGED <<scenario, db>>

----------------------------------------------------------------------------
(* The election.  A reply is 0 or 1, the name of the leader ("leader") or  *)
(* the keep-alive keys of the hosts ("list").                              *)

Reply(d, e, h, answer) == [db |-> d, engine |-> e, lease |-> h, answer |-> answer]

\* SETNX without asking first whether the key is there.
TakesOver(h, late) ==
    Reply([AfterTime(db, late) EXCEPT !.master = [val |-> h, ttl |-> TIME_OUT_NUM]],
          TimerCommand_RedisCommand(engine, db), TIME_OUT_NUM, "1")

suma_try_leader_string(h, late) ==
    LET later == AfterTime(db, late)
    IN  IF db.master = None
        THEN Reply([later EXCEPT !.master = [val |-> h, ttl |-> TIME_OUT_NUM]],
                   TimerCommand_RedisCommand(engine, db), TIME_OUT_NUM, "1")
        ELSE Reply(later, engine, NoExpire, IF later.master.val = h THEN "1" ELSE "0")

\* The leader is read first; the keys are opened, and written, later.
suma_keep_alive_string(h, late) ==
    LET later == [AfterTime(db, late) EXCEPT !.alive[h] = TIME_OUT_NUM]
        isLeader == db.master.val = h
    IN  CASE db.master = None -> Reply(AfterTime(db, late), engine, NoExpire, "0")
          [] db.master # None /\ later.master = None -> Reply(later, engine, NoExpire, "0")
          [] later.master # None /\ isLeader ->
                Reply([later EXCEPT !.master.ttl = TIME_OUT_NUM], engine, TIME_OUT_NUM, "list")
          [] later.master # None /\ ~isLeader -> Reply(later, engine, NoExpire, "leader")

\* The polling client asks to lead, then keeps alive until it is told 0 or
\* hears nothing.
Heard(c, what, answer, lost) ==
    [c EXCEPT !.poll = IF what = "keep" /\ (lost \/ answer = "0") THEN "try" ELSE "keep",
              !.sub = c.sub \/ ~c.pub_ex,
              !.pub_ex = TRUE,
              !.since = IF c.pub_ex THEN c.since ELSE db.conf]

Poll(h, late, lost) ==
    LET what == host[h].poll
        r == IF what = "try" THEN suma_try_leader_string(h, late) ELSE suma_keep_alive_string(h, late)
    IN  /\ host[h].up
        /\ what # "off"
        /\ lost => past.ops < MaxOps
        /\ db' = r.db
        /\ engine' = r.engine
        /\ host' = [host EXCEPT ![h] = Heard(host[h], what, r.answer, lost)]
        /\ past' = [LeasesAfter(past, late) EXCEPT
                       !.lease[h] = IF r.lease = NoExpire THEN @ ELSE r.lease,
                       !.ops = IF lost THEN @ + 1 ELSE @]
        /\ UNCHANGED scenario

Crash(h) ==
    /\ host[h].up
    /\ Used
    /\ host' = [host EXCEPT ![h].up = FALSE, ![h].sub = FALSE, ![h].inbox = <<>>]
    /\ UNCHANGED <<scenario, db, engine>>

Return(h) ==
    /\ ~host[h].up
    /\ host' = [host EXCEPT ![h] = Started]
    /\ UNCHANGED <<scenario, db, engine, past>>

----------------------------------------------------------------------------
(* Messages to the hosts: the module publishes, the client obeys.  What is *)
(* meant for one host goes to all, and the others leave it alone.          *)

Sent(targets, message) ==
    [h \in Hosts |-> IF h \in targets /\ host[h].sub
                     THEN [host[h] EXCEPT !.inbox = Append(@, message)] ELSE host[h]]

Publish(targets, message) ==
    /\ Used
    /\ host' = Sent(targets, message)
    /\ UNCHANGED <<scenario, db, engine>>

suma_vip_kill(h) == Publish({h}, "kill_vip")

suma_vip_reset(h) == Publish({h}, "reset_vip")

suma_ci_task == Publish(Hosts, "ci_task")

suma_diamond_publish ==
    /\ Used
    /\ db' = [db EXCEPT !.conf = @ + 1]
    /\ host' = Sent(Hosts, "diamond_config")
    /\ UNCHANGED <<scenario, engine>>

\* The client reads the configuration when it is told of it.
Obeyed(c, message) ==
    [c EXCEPT !.inbox = Tail(c.inbox),
              !.poll = CASE message = "kill_vip" -> "off"
                         [] message = "reset_vip" -> "keep"
                         [] message \in {"ci_task", "diamond_config"} -> c.poll,
              !.conf = IF message = "diamond_config" THEN db.conf ELSE c.conf]

localCmds(h) ==
    /\ host[h].inbox # <<>>
    /\ host' = [host EXCEPT ![h] = Obeyed(host[h], Head(host[h].inbox))]
    /\ UNCHANGED <<scenario, db, engine, past>>

----------------------------------------------------------------------------
(* The registry of hosts: with a sub-task, only the host that takes the    *)
(* lock of the sub-task is added.                                          *)

suma_vip_register_list(h, subtask) ==
    /\ Used
    /\ db' = [db EXCEPT !.clusters = @ \/ subtask,
                        !.vips = IF subtask /\ db.locked THEN @ ELSE @ \cup {<<h, subtask>>},
                        !.locked = @ \/ subtask]
    /\ UNCHANGED <<scenario, engine, host>>

suma_get_all_live_instance == {h \in Hosts : db.alive[h] # NoExpire}

\* The inspection of the clusters that are registered: a cluster without a
\* keep-alive key is recorded and reported.
suma_biz_id_cluster_online ==
    /\ db' = [db EXCEPT !.warned = @ \/ (db.clusters /\ suma_get_all_live_instance = {})]
    /\ UNCHANGED <<scenario, engine, host, past>>

ApolloNext ==
    \/ Tick
    \/ Epoll
    \/ timerDataProcessorHandler
    \/ Restart
    \/ suma_ci_task
    \/ suma_diamond_publish
    \/ suma_biz_id_cluster_online
    \/ \E f \in Functions, compiles \in BOOLEAN : suma_biz_script_register(f, compiles)
    \/ \E h \in Hosts :
        \/ \E late \in 0..1, lost \in BOOLEAN : Poll(h, late, lost)
        \/ Crash(h)
        \/ Return(h)
        \/ suma_vip_kill(h)
        \/ suma_vip_reset(h)
        \/ localCmds(h)
        \/ \E subtask \in BOOLEAN : suma_vip_register_list(h, subtask)

ApolloSpec == ApolloInit /\ [][ApolloNext]_apolloVars

\* A host that is up polls from a timer, and handles what it is sent.
ApolloFairness ==
    \A h \in Hosts : WF_apolloVars(\E late \in 0..1 : Poll(h, late, FALSE)) /\ WF_apolloVars(localCmds(h))

ApolloFairSpec == ApolloSpec /\ ApolloFairness

----------------------------------------------------------------------------
(***************************************************************************)
(* Leases hold.  A host that was made leader, or renewed as leader, leads  *)
(* for the whole time to live it was given: until then the key names that  *)
(* host and cannot go before, whatever the other hosts ask, however the    *)
(* clock moves between the lookups of one command, and across a restart.   *)
(* So two hosts never hold a lease at once.                                *)
(***************************************************************************)
LeaseHolds ==
    \A h \in Hosts : past.lease[h] # NoExpire =>
        db.master.val = h /\ db.master.ttl >= past.lease[h]

(***************************************************************************)
(* One engine.  However often sumavlib.epoll runs, from clients or from    *)
(* suma_try_leader, exactly one timer is pending once the engine has been  *)
(* started in this process and none before; and from then on every         *)
(* function of biz_info.list is installed, those registered before a       *)
(* restart included.  At most one host takes the lock of a sub-task.       *)
(***************************************************************************)
EngineSound ==
    /\ engine.timers = IF engine.lock THEN 1 ELSE 0
    /\ engine.lock => \A i \in DOMAIN db.list : engine.funcs[db.list[i]] # 0
    /\ Cardinality({v \in db.vips : v[2]}) <= 1

(***************************************************************************)
(* Configurations arrive.  A host that is subscribed, and has nothing left *)
(* to handle, has the configuration published last, unless none was        *)
(* published since it subscribed.                                          *)
(***************************************************************************)
ConfigurationSeen ==
    \A h \in Hosts :
        host[h].sub /\ host[h].inbox = <<>> /\ db.conf # host[h].since => host[h].conf = db.conf

(***************************************************************************)
(* What the module promises, whatever its hosts do.                        *)
(***************************************************************************)
ApolloSound == LeaseHolds /\ EngineSound /\ ConfigurationSeen

PollsWithoutLeader(h) == db.master = None /\ host[h].up /\ host[h].poll # "off"

(***************************************************************************)
(* A leader returns.  While some host polls, the absence of a leader ends: *)
(* a host that finds no leader when it keeps alive asks to lead next.      *)
(***************************************************************************)
LeaderReturns == \A h \in Hosts : []<>~PollsWithoutLeader(h)
=============================================================================
