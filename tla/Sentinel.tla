------------------------------ MODULE Sentinel ------------------------------
(***************************************************************************)
(* Redis Sentinel (src/src/sentinel.c): several processes that watch one   *)
(* master and its replicas, agree that the master is down, elect a leader  *)
(* for an epoch, promote a replica and spread the new configuration.       *)
(*                                                                         *)
(* An instance is its own address. Time is not measured: a timer has run   *)
(* out in the steps whose parameter says so. INFO is asked and answered in *)
(* one step; questions to other Sentinels, their answers, hello messages   *)
(* and SLAVEOF commands are delayed or lost. Replication offsets and run   *)
(* IDs are left out: of the replicas with the best priority any may be     *)
(* selected.                                                               *)
(***************************************************************************)
EXTENDS Integers, Sequences, FiniteSetsExt, Functions

CONSTANT Scenarios   \* deployments and bounds: records with the fields below

VARIABLES
    sen,     \* the state of each Sentinel, with its configuration file
    redis,   \* the Redis servers: running or not, replicating from whom
    net,     \* what is in flight
    hist,    \* history: the votes that were cast, the failovers that went ahead
    used     \* the scenario, and how much of each bound has been used up

vars == <<sen, redis, net, hist, used>>

Sentinels == used.scenario.Sentinels
Instances == used.scenario.Instances     \* the Redis servers
FirstMaster == used.scenario.FirstMaster \* the master in the beginning
Quorum == used.scenario.Quorum
Hello == used.scenario.Hello             \* are hello messages sent?
Timers == used.scenario.Timers           \* the timers that may run out
MaxEpoch == used.scenario.MaxEpoch       \* bound on current_epoch
MaxEvents(e) == used.scenario.Events[e]  \* bound on an event, per kind
ParallelSyncs == used.scenario.ParallelSyncs

NULL == "null"

\* What a deployment is: finitely many Sentinels, with names.
ConstantsOK ==
    \A c \in Scenarios : IsFiniteSet(c.Sentinels) /\ NULL \notin c.Sentinels

\* failover_state, in the order of its numbers.
States == <<"none", "wait_start", "select_slave", "send_slaveof_noone", "wait_promotion",
            "reconf_slaves", "update_config">>

\* said is what the slave said last: the instance it replicates from, "master",
\* or nothing yet.
NewSlave == [sdown |-> FALSE, said |-> NULL, reconf |-> {}]
NewPeer == [down |-> FALSE, leader |-> NULL, leader_epoch |-> 0]
Idle == [type |-> "none"]     \* no question on its way
NoHello == [from |-> NULL]

\* Can s talk to x, an instance or a Sentinel?
Reach(s, x) ==
    /\ <<s, x>> \notin net.cut
    /\ IF x \in Instances THEN redis[x].up ELSE sen[x].up

-----------------------------------------------------------------------------
\* The state of a Sentinel. The functions below map a state to the next one.

MasterAddressUntilSwitch(x) == x.addr     \* mutant: the old one until the end

sentinelGetCurrentMasterAddress(x) ==
    IF x.failover_state \in {"reconf_slaves", "update_config"} /\ x.promoted # NULL
    THEN x.promoted ELSE x.addr

\* What rewriteConfigSentinelOption writes.
Config(x) ==
    LET addr == sentinelGetCurrentMasterAddress(x)
    IN  [addr |-> addr, current_epoch |-> x.current_epoch,
         config_epoch |-> x.config_epoch, leader_epoch |-> x.leader_epoch,
         slaves |-> {IF i = addr THEN x.addr ELSE i : i \in DOMAIN x.slaves},
         peers |-> DOMAIN x.peers]

sentinelFlushConfig(x) == [x EXCEPT !.disk = Config(x)]

\* A Sentinel that starts with configuration file d.
Load(d) ==
    [up |-> TRUE, tilt |-> FALSE, disk |-> d,
     current_epoch |-> IF d.config_epoch > d.current_epoch THEN d.config_epoch ELSE d.current_epoch,
     addr |-> d.addr, config_epoch |-> d.config_epoch,
     leader |-> NULL, leader_epoch |-> d.leader_epoch,
     sdown |-> FALSE, odown |-> FALSE, role |-> "master",
     failover_state |-> "none", failover_epoch |-> 0, force |-> FALSE, promoted |-> NULL,
     slaves |-> [i \in d.slaves |-> NewSlave], peers |-> [t \in d.peers |-> NewPeer]]

sentinelResetMaster(x, peers) ==
    [x EXCEPT !.slaves = <<>>, !.peers = peers, !.sdown = FALSE, !.odown = FALSE, !.force = FALSE,
              !.leader = NULL, !.failover_state = "none", !.promoted = NULL, !.role = "master"]

sentinelResetMasterAndChangeAddress(x, addr) ==
    LET slaves == (DOMAIN x.slaves \ {addr}) \cup (IF addr # x.addr THEN {x.addr} ELSE {})
    IN  sentinelFlushConfig([sentinelResetMaster(x, x.peers) EXCEPT
            !.addr = addr, !.slaves = [i \in slaves |-> NewSlave]])

sentinelVoteLeader(x, req_epoch, id) ==
    LET y == IF req_epoch > x.current_epoch
             THEN sentinelFlushConfig([x EXCEPT !.current_epoch = req_epoch]) ELSE x
    IN  IF y.leader_epoch < req_epoch /\ y.current_epoch <= req_epoch
        THEN sentinelFlushConfig([y EXCEPT !.leader = id, !.leader_epoch = y.current_epoch])
        ELSE y

MajorityIsHalf(voters) == voters \div 2     \* mutant: half of the votes win

Majority(voters) == voters \div 2 + 1

\* The leader that s finds for an epoch (NULL for none), after it has voted
\* itself. Votes of others count when they are of the current epoch.
sentinelGetLeader(x, s, epoch) ==
    LET count(l) == Cardinality({t \in DOMAIN x.peers :
                        x.peers[t].leader = l /\ x.peers[t].leader_epoch = x.current_epoch})
        max == Max({count(l) : l \in Sentinels})
        found(w) ==
            LET y == sentinelVoteLeader(x, epoch, IF w = NULL THEN s ELSE w)
                mine == IF y.leader # NULL /\ y.leader_epoch = epoch THEN {y.leader} ELSE {}
                won == {l \in mine : count(l) + 1 > max}
                votes == IF won = {} THEN max ELSE max + 1
                few == votes < Majority(Cardinality(DOMAIN x.peers) + 1) \/ votes < Quorum
            IN  [x |-> y,
                 leader |-> IF few THEN NULL ELSE IF won = {} THEN w ELSE CHOOSE l \in won : TRUE]
    IN  {found(w) : w \in IF max = 0 THEN {NULL} ELSE {l \in Sentinels : count(l) = max}}

\* The replicas that may be promoted: which of the good ones have sent INFO
\* recently, and which of those is the best, is left open.
sentinelSelectSlave(x, s) ==
    {i \in DOMAIN x.slaves : ~x.slaves[i].sdown /\ x.slaves[i].said # NULL /\ Reach(s, i)}

sentinelStartFailover(x) ==
    [x EXCEPT !.failover_state = "wait_start", !.current_epoch = @ + 1,
              !.failover_epoch = x.current_epoch + 1]

sentinelAbortFailover(x) ==
    [x EXCEPT !.failover_state = "none", !.force = FALSE, !.promoted = NULL]

-----------------------------------------------------------------------------
\* The timer. A step of the state machine is a record: the next state x, the
\* commands out that are sent to instances, and whether the failover goes ahead.

Step(x) == [x |-> x, out |-> {}, won |-> FALSE]

\* An instance is down when it has not answered, or a master has said that it
\* is a slave, for long enough.
sentinelCheckSubjectivelyDown(x, s, late) ==
    LET wrong == ~Reach(s, x.addr) \/ x.role = "slave"
    IN  [x EXCEPT !.sdown = wrong /\ (@ \/ late = "down")]

CheckSlaves(x, s, late) ==
    LET sdown(i) == ~Reach(s, i) /\ (x.slaves[i].sdown \/ late = "down")
    IN  [x EXCEPT !.slaves = [i \in DOMAIN @ |-> [@[i] EXCEPT !.sdown = sdown(i)]]]

sentinelCheckObjectivelyDown(x) ==
    [x EXCEPT !.odown =
        x.sdown /\ Cardinality({t \in DOMAIN x.peers : x.peers[t].down}) + 1 >= Quorum]

sentinelStartFailoverIfNeeded(x, late) ==
    IF x.odown /\ x.failover_state = "none" /\ late = "start" /\ x.current_epoch < MaxEpoch
    THEN sentinelStartFailover(x) ELSE x

sentinelFailoverWaitStart(x, s, late) ==
    {LET won == r.leader = s
         y == r.x
     IN  IF ~won /\ ~y.force
         THEN Step(IF late = "timeout" THEN sentinelAbortFailover(y) ELSE y)
         ELSE [Step([y EXCEPT !.failover_state = "select_slave"]) EXCEPT !.won = TRUE]
     : r \in sentinelGetLeader(x, s, x.failover_epoch)}

sentinelFailoverSelectSlave(x, s) ==
    LET good == sentinelSelectSlave(x, s)
    IN  {Step(sentinelAbortFailover(x))} \cup
        {Step([x EXCEPT !.promoted = i, !.failover_state = "send_slaveof_noone"]) : i \in good}

sentinelFailoverSendSlaveOfNoOne(x, s, late) ==
    IF ~Reach(s, x.promoted)
    THEN Step(IF late = "timeout" THEN sentinelAbortFailover(x) ELSE x)
    ELSE [Step([x EXCEPT !.failover_state = "wait_promotion"]) EXCEPT !.out = {<<x.promoted, NULL>>}]

sentinelFailoverWaitPromotion(x, late) ==
    Step(IF late = "timeout" THEN sentinelAbortFailover(x) ELSE x)

\* What is done to the slaves so far: done.slaves, and the commands done.out.
sentinelSendSlaveOf(done, i, promoted) ==
    [done EXCEPT !.slaves[i].reconf = @ \cup {"sent"}, !.out = @ \cup {<<i, promoted>>}]

sentinelFailoverDetectEnd(x, done, s, late) ==
    LET slaves == done.slaves
        left == {i \in DOMAIN slaves \ {x.promoted} :
                    "done" \notin slaves[i].reconf /\ ~slaves[i].sdown}
        over == late = "timeout"
        rest == {i \in DOMAIN slaves : slaves[i].reconf \cap {"done", "sent"} = {} /\ Reach(s, i)}
        end == (left = {} \/ over) /\ ~slaves[x.promoted].sdown
        all == IF end /\ over
               THEN FoldSet(LAMBDA i, d : sentinelSendSlaveOf(d, i, x.promoted), done, rest)
               ELSE done
    IN  [x |-> [x EXCEPT !.slaves = all.slaves,
                         !.failover_state = IF end THEN "update_config" ELSE @],
         out |-> all.out, won |-> FALSE]

\* The slaves are visited in the order of a hash table, until parallel_syncs
\* of them are busy. One whose timer has run out counts as done, and is sent
\* the command again.
sentinelFailoverReconfNextSlave(x, s, late) ==
    LET busy(slaves) == {i \in DOMAIN slaves : slaves[i].reconf \cap {"sent", "inprog"} # {}}
        visit(done, i) ==
            LET flags == done.slaves[i].reconf
                new == IF "sent" \in flags /\ late = "reconf"
                       THEN (flags \ {"sent"}) \cup {"done"} ELSE flags
                seen == [done EXCEPT !.slaves[i].reconf = new]
            IN  IF Cardinality(busy(done.slaves)) >= ParallelSyncs \/ i = x.promoted \/ "done" \in flags
                THEN done
                ELSE IF new \cap {"sent", "inprog"} # {} \/ ~Reach(s, i) THEN seen
                ELSE sentinelSendSlaveOf(seen, i, x.promoted)
        start == [slaves |-> x.slaves, out |-> {}]
        n == Cardinality(DOMAIN x.slaves)
        walk(order) ==
            LET done[k \in 0..n] == IF k = 0 THEN start ELSE visit(done[k - 1], order[k])
            IN  done[n]
    IN  {sentinelFailoverDetectEnd(x, walk(order), s, late)
            : order \in Bijection(1..n, DOMAIN x.slaves)}

sentinelFailoverStateMachine(x, s, late) ==
    CASE x.failover_state = "wait_start"         -> sentinelFailoverWaitStart(x, s, late)
      [] x.failover_state = "select_slave"       -> sentinelFailoverSelectSlave(x, s)
      [] x.failover_state = "send_slaveof_noone" -> {sentinelFailoverSendSlaveOfNoOne(x, s, late)}
      [] x.failover_state = "wait_promotion"     -> {sentinelFailoverWaitPromotion(x, late)}
      [] x.failover_state = "reconf_slaves"      -> sentinelFailoverReconfNextSlave(x, s, late)
      [] OTHER                                   -> {Step(x)}

\* Answers that are too old are forgotten.
Forget(x) == [x EXCEPT !.peers = [t \in DOMAIN @ |-> [@[t] EXCEPT !.down = FALSE, !.leader = NULL]]]

\* What the timer makes of x, when the timer "late" has run out. In TILT mode
\* nothing is done.
sentinelHandleRedisInstance(x, s, late) ==
    IF x.tilt /\ late # "tilt" THEN {Step(x)}
    ELSE LET up == sentinelCheckSubjectivelyDown([x EXCEPT !.tilt = FALSE], s, late)
             y == sentinelStartFailoverIfNeeded(sentinelCheckObjectivelyDown(up), late)
         IN  {[st EXCEPT !.x = IF late = "expire" THEN Forget(@) ELSE @]
                : st \in sentinelFailoverStateMachine(y, s, late)}

\* The rest of the timer, after the master: its slaves, and the switch to the
\* promoted one.
sentinelHandleDictOfRedisInstances(x, s, late) ==
    LET y == IF x.tilt THEN x ELSE CheckSlaves(x, s, late)
    IN  IF y.failover_state = "update_config"
        THEN sentinelResetMasterAndChangeAddress(y, y.promoted) ELSE y

-----------------------------------------------------------------------------
\* Replies and messages.

sentinelMasterLooksSane(x) == x.role = "master" /\ ~x.sdown /\ ~x.odown

\* INFO of the master: its replicas become known.
RefreshMaster(x, i) ==
    LET new == {j \in Instances \ {i} : redis[j].up /\ redis[j].of = i} \ DOMAIN x.slaves
        y == [x EXCEPT !.role = IF redis[i].of = NULL THEN "master" ELSE "slave",
                       !.slaves = [j \in DOMAIN @ \cup new |-> IF j \in new THEN NewSlave ELSE @[j]]]
    IN  Step(IF new = {} THEN y ELSE sentinelFlushConfig(y))

\* INFO of a slave. With late set, it reports this for longer than wait_time.
RefreshSlave(x, i, late) ==
    LET of == redis[i].of
        old == x.slaves[i]
        said == IF of = NULL THEN "master" ELSE of
        sent == IF "sent" \in old.reconf /\ of = x.promoted
                THEN (old.reconf \ {"sent"}) \cup {"inprog"} ELSE old.reconf
        done == IF "inprog" \in sent /\ redis[of].up
                THEN (sent \ {"inprog"}) \cup {"done"} ELSE sent
        y == [x EXCEPT !.slaves[i].said = said]
        fix == late /\ said = old.said /\ sentinelMasterLooksSane(x)
    IN  IF x.tilt THEN Step(y)
        ELSE IF of # NULL
        THEN [Step([y EXCEPT !.slaves[i].reconf = done])
              EXCEPT !.out = IF of # x.addr /\ fix THEN {<<i, x.addr>>} ELSE {}]
        ELSE IF x.promoted = i /\ x.failover_state = "wait_promotion"
        THEN Step(sentinelFlushConfig([y EXCEPT !.config_epoch = x.failover_epoch,
                                                !.failover_state = "reconf_slaves"]))
        ELSE [Step(y) EXCEPT !.out = IF x.promoted # i /\ fix THEN {<<i, x.addr>>} ELSE {}]

sentinelRefreshInstanceInfo(x, i, late) ==
    IF i = x.addr THEN RefreshMaster(x, i) ELSE RefreshSlave(x, i, late)

\* A hello message m.
sentinelProcessHelloMessage(x, m) ==
    LET known == IF m.from \in DOMAIN x.peers THEN x
                 ELSE sentinelFlushConfig([x EXCEPT !.peers = [t \in DOMAIN @ \cup {m.from} |->
                                              IF t = m.from THEN NewPeer ELSE @[t]]])
        y == IF m.current_epoch > known.current_epoch
             THEN sentinelFlushConfig([known EXCEPT !.current_epoch = m.current_epoch]) ELSE known
        z == [y EXCEPT !.config_epoch = m.config_epoch]
    IN  IF y.config_epoch >= m.config_epoch THEN y
        ELSE IF m.addr = y.addr THEN z
        ELSE sentinelResetMasterAndChangeAddress(z, m.addr)

\* SENTINEL is-master-down-by-addr: the next state and the reply.
isMasterDownByAddr(x, q) ==
    LET mine == q.addr = x.addr
        y == IF mine /\ q.id # NULL THEN sentinelVoteLeader(x, q.epoch, q.id) ELSE x
        voted == mine /\ q.id # NULL /\ y.leader # NULL
    IN  [x |-> y,
         reply |-> [type |-> "reply", down |-> mine /\ ~x.tilt /\ x.sdown,
                    leader |-> IF voted THEN y.leader ELSE NULL,
                    epoch |-> IF mine /\ q.id # NULL THEN y.leader_epoch ELSE 0]]

sentinelReceiveIsMasterDownReply(x, t, r) ==
    LET voted == r.leader # NULL
    IN  [x EXCEPT !.peers[t] =
            [down |-> r.down,
             leader |-> IF voted THEN r.leader ELSE x.peers[t].leader,
             leader_epoch |-> IF voted THEN r.epoch ELSE x.peers[t].leader_epoch]]

-----------------------------------------------------------------------------
\* The actions.

\* The configuration file in the beginning: the Sentinels have discovered the
\* replicas and each other.
FirstConfig(s) ==
    [addr |-> FirstMaster, current_epoch |-> 0, config_epoch |-> 0, leader_epoch |-> 0,
     slaves |-> Instances \ {FirstMaster}, peers |-> Sentinels \ {s}]

Init ==
    /\ used \in {[scenario |-> c, events |-> [e \in DOMAIN c.Events |-> 0]] : c \in Scenarios}
    /\ sen = [s \in Sentinels |-> Load(FirstConfig(s))]
    /\ redis = [i \in Instances |-> [up |-> TRUE, of |-> IF i = FirstMaster THEN NULL ELSE FirstMaster]]
    /\ net = [ask |-> [s \in Sentinels |-> [t \in Sentinels |-> Idle]],
              cmd |-> [s \in Sentinels |-> [i \in Instances |-> <<>>]],
              hello |-> [s \in Sentinels |-> NoHello], cut |-> used.scenario.Cut]
    /\ hist = [votes |-> {}, elected |-> {}]

\* An event the environment may bring about a bounded number of times.
Event(e) ==
    /\ e \in DOMAIN used.events
    /\ used.events[e] < MaxEvents(e)
    /\ used' = [used EXCEPT !.events[e] = @ + 1]

\* The vote that a step of s from x to y has cast.
Votes(s, x, y) ==
    IF x.leader_epoch = y.leader_epoch THEN {}
    ELSE {[voter |-> s, epoch |-> y.leader_epoch, leader |-> y.leader]}

\* A connection delivers in order; a command is not sent again while the same
\* one is the last on its way.
Send(q, c) == IF q # <<>> /\ q[Len(q)] = c THEN q ELSE Append(q, c)

SendAll(cmd, s, out) ==
    [cmd EXCEPT ![s] = [i \in Instances |->
        FoldSet(LAMBDA c, q : Send(q, c[2]), @[i], {c \in out : c[1] = i})]]

\* The questions that are asked: one at a time to each Sentinel.
sentinelAskMasterStateToOtherSentinels(x, s) ==
    [t \in Sentinels |->
        IF t \in DOMAIN x.peers /\ x.sdown /\ Reach(s, t) /\ net.ask[s][t] = Idle
        THEN [type |-> "ask", addr |-> x.addr, epoch |-> x.current_epoch,
              id |-> IF x.failover_state = "none" THEN NULL ELSE s]
        ELSE net.ask[s][t]]

\* The timers that may have run out since the last call, of those that matter.
Late(x, s) ==
    {"none"} \cup (Timers \cap
    (     (IF \E i \in {x.addr} \cup DOMAIN x.slaves : ~Reach(s, i) \/ x.role = "slave" THEN {"down"} ELSE {})
    \cup (IF x.failover_state = "none" THEN {"start"} ELSE {"timeout", "reconf"})
    \cup (IF \E t \in DOMAIN x.peers : x.peers[t].down \/ x.peers[t].leader # NULL THEN {"expire"} ELSE {})
    \cup (IF x.tilt THEN {"tilt"} ELSE {})))

sentinelTimer(s) ==
    /\ sen[s].up
    /\ \E late \in Late(sen[s], s) :
       \E st \in sentinelHandleRedisInstance(sen[s], s, late) :
        LET x == sentinelHandleDictOfRedisInstances(st.x, s, late)
        IN  /\ sen' = [sen EXCEPT ![s] = x]
            /\ net' = [net EXCEPT !.ask[s] = IF x.tilt THEN @ ELSE sentinelAskMasterStateToOtherSentinels(st.x, s),
                                  !.cmd = SendAll(@, s, st.out)]
            /\ hist' = [votes |-> hist.votes \cup Votes(s, sen[s], x),
                        elected |-> hist.elected \cup
                            IF ~st.won THEN {}
                            ELSE {[leader |-> s, epoch |-> st.x.failover_epoch,
                                   plain |-> /\ ~st.x.force
                                             /\ st.x.current_epoch = st.x.failover_epoch
                                             /\ DOMAIN st.x.peers = Sentinels \ {s}]}]
    /\ UNCHANGED <<redis, used>>

HandleAsk(s, t) ==
    /\ net.ask[s][t].type = "ask"
    /\ sen[t].up
    /\ LET r == isMasterDownByAddr(sen[t], net.ask[s][t])
       IN  /\ sen' = [sen EXCEPT ![t] = r.x]
           /\ net' = [net EXCEPT !.ask[s][t] = r.reply]
           /\ hist' = [hist EXCEPT !.votes = @ \cup Votes(t, sen[t], r.x)]
    /\ UNCHANGED <<redis, used>>

HandleReply(s, t) ==
    /\ net.ask[s][t].type = "reply"
    /\ sen' = IF t \in DOMAIN sen[s].peers
              THEN [sen EXCEPT ![s] = sentinelReceiveIsMasterDownReply(sen[s], t, net.ask[s][t])] ELSE sen
    /\ net' = [net EXCEPT !.ask[s][t] = Idle]
    /\ UNCHANGED <<redis, hist, used>>

\* The question or the answer is lost with the connection.
LoseAsk(s, t) ==
    /\ Event("lose")
    /\ net.ask[s][t] # Idle
    /\ net' = [net EXCEPT !.ask[s][t] = Idle]
    /\ UNCHANGED <<sen, redis, hist>>

\* A hello is published through an instance, or sent directly. The last one of
\* each Sentinel may arrive at any time later, and more than once.
sentinelSendHello(s) ==
    /\ sen[s].up /\ Hello
    /\ net' = [net EXCEPT !.hello[s] =
                [from |-> s, current_epoch |-> sen[s].current_epoch,
                 addr |-> sentinelGetCurrentMasterAddress(sen[s]), config_epoch |-> sen[s].config_epoch]]
    /\ UNCHANGED <<sen, redis, hist, used>>

ReceiveHello(s, t) ==
    /\ sen[s].up
    /\ s # t /\ net.hello[t] # NoHello
    /\ sen' = [sen EXCEPT ![s] = sentinelProcessHelloMessage(sen[s], net.hello[t])]
    /\ UNCHANGED <<redis, net, hist, used>>

InfoReply(s, i) ==
    /\ sen[s].up /\ Reach(s, i)
    /\ i = sen[s].addr \/ i \in DOMAIN sen[s].slaves
    /\ \E late \in BOOLEAN :
        LET st == sentinelRefreshInstanceInfo(sen[s], i, late)
        IN  /\ sen' = [sen EXCEPT ![s] = st.x]
            /\ net' = [net EXCEPT !.cmd = SendAll(@, s, st.out)]
    /\ UNCHANGED <<redis, hist, used>>

\* The instance executes SLAVEOF, and rewrites its configuration file.
Slaveof(s, i) ==
    /\ net.cmd[s][i] # <<>>
    /\ redis[i].up
    /\ redis' = [redis EXCEPT ![i].of = Head(net.cmd[s][i])]
    /\ net' = [net EXCEPT !.cmd[s][i] = Tail(@)]
    /\ UNCHANGED <<sen, hist, used>>

CrashInstance(i) ==
    /\ Event("crash_instance")
    /\ redis[i].up
    /\ redis' = [redis EXCEPT ![i].up = FALSE]
    /\ net' = [net EXCEPT !.cmd = [s \in Sentinels |-> [@[s] EXCEPT ![i] = <<>>]]]
    /\ UNCHANGED <<sen, hist>>

RestartInstance(i) ==
    /\ Event("restart_instance")
    /\ ~redis[i].up
    /\ redis' = [redis EXCEPT ![i].up = TRUE]
    /\ UNCHANGED <<sen, net, hist>>

CrashSentinel(s) ==
    /\ Event("crash_sentinel")
    /\ sen[s].up
    /\ sen' = [sen EXCEPT ![s].up = FALSE]
    /\ net' = [net EXCEPT !.ask = [t \in Sentinels |-> [u \in Sentinels |->
                                      IF t = s \/ u = s THEN Idle ELSE @[t][u]]]]
    /\ UNCHANGED <<redis, hist>>

RestartSentinel(s) ==
    /\ ~sen[s].up
    /\ sen' = [sen EXCEPT ![s] = Load(sen[s].disk)]
    /\ UNCHANGED <<redis, net, hist, used>>

\* The link between a Sentinel and an instance breaks, or works again.
Cut(s, i) ==
    /\ Event("cut")
    /\ net' = [net EXCEPT !.cut = (@ \cup {<<s, i>>}) \ (@ \cap {<<s, i>>}), !.cmd[s][i] = <<>>]
    /\ UNCHANGED <<sen, redis, hist>>

sentinelCheckTiltCondition(s) ==
    /\ Event("tilt")
    /\ sen[s].up
    /\ sen' = [sen EXCEPT ![s].tilt = TRUE]
    /\ UNCHANGED <<redis, net, hist>>

\* SENTINEL FAILOVER and SENTINEL RESET.
ForceFailover(s) ==
    /\ Event("failover")
    /\ sen[s].up /\ sen[s].failover_state = "none"
    /\ sentinelSelectSlave(sen[s], s) # {}
    /\ sen[s].current_epoch < MaxEpoch
    /\ sen' = [sen EXCEPT ![s] = [sentinelStartFailover(sen[s]) EXCEPT !.force = TRUE]]
    /\ UNCHANGED <<redis, net, hist>>

ResetCommand(s) ==
    /\ Event("reset")
    /\ sen[s].up
    /\ sen' = [sen EXCEPT ![s] = sentinelResetMaster(sen[s], <<>>)]
    /\ UNCHANGED <<redis, net, hist>>

Next ==
    \/ \E s \in Sentinels :
        \/ sentinelTimer(s) \/ sentinelSendHello(s)
        \/ CrashSentinel(s) \/ RestartSentinel(s) \/ sentinelCheckTiltCondition(s)
        \/ ForceFailover(s) \/ ResetCommand(s)
        \/ \E t \in Sentinels : ReceiveHello(s, t) \/ HandleAsk(s, t) \/ HandleReply(s, t) \/ LoseAsk(s, t)
        \/ \E i \in Instances : InfoReply(s, i) \/ Slaveof(s, i) \/ Cut(s, i)
    \/ \E i \in Instances : CrashInstance(i) \/ RestartInstance(i)

Spec == Init /\ [][Next]_vars

-----------------------------------------------------------------------------
\* Properties.

\* The pointers that the state machine follows without looking are valid, its
\* assertions hold, and what has been promised to others is on disk: a restart
\* cannot take back a vote or an epoch (sentinelFlushConfig before the reply).
TypeOK ==
    \A s \in Sentinels : LET x == sen[s] IN
        /\ x.failover_state \in Range(States)
        /\ x.addr \in Instances /\ x.addr \notin DOMAIN x.slaves
        /\ x.failover_state \in {"send_slaveof_noone", "wait_promotion", "reconf_slaves"}
            => x.promoted \in DOMAIN x.slaves
        /\ x.failover_state \in {"none", "wait_start", "select_slave"} => x.promoted = NULL
        /\ \A i \in DOMAIN x.slaves : x.slaves[i].reconf # {} => x.failover_state = "reconf_slaves"
        /\ x.leader_epoch <= x.current_epoch /\ x.config_epoch <= x.current_epoch
        /\ x.disk.leader_epoch = x.leader_epoch /\ x.leader_epoch <= x.disk.current_epoch

\* One vote per epoch, and leaders with a majority of votes in their epoch:
\* the elections that count the votes of their own epoch implement Election.
E == INSTANCE Election WITH members <- Sentinels, votes <- hist.votes,
        elected <- {[leader |-> e.leader, epoch |-> e.epoch] : e \in {f \in hist.elected : f.plain}}
ImplementsElection == E!ElectionSpec

\* The epochs that a failover has used without such an election.
Odd == {e.epoch : e \in {f \in hist.elected : ~f.plain}}

\* Sentinels with the same configuration epoch tell clients the same address,
\* so that the newest configuration wins everywhere.
SameEpochSameAddress ==
    \A s, t \in Sentinels :
        sen[s].config_epoch = sen[t].config_epoch /\ sen[s].config_epoch \notin Odd
        => sentinelGetCurrentMasterAddress(sen[s]) = sentinelGetCurrentMasterAddress(sen[t])

\* No instance is told to replicate from itself. sentinelFailoverDetectEnd does
\* that to the promoted replica when the failover times out: it sends SLAVEOF to
\* "all the slaves still not reconfigured", and skips the promoted one nowhere.
NoSelfReplication == \A i \in Instances : redis[i].of # i
=============================================================================
