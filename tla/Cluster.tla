------------------------------ MODULE Cluster -------------------------------
(***************************************************************************)
(* The Redis Cluster bus (src/src/cluster.c): nodes that own hash slots,   *)
(* tell each other in ping and pong headers what they own under which      *)
(* configuration epoch, detect failures by gossip, elect a replica in      *)
(* place of a failed master, and carry out manual failovers.               *)
(*                                                                         *)
(* All nodes know each other. Time is not measured: a timer has run out in *)
(* the steps whose parameter says so. A node sends what it has to send     *)
(* after it has saved its configuration, at the end of the same turn of    *)
(* the event loop (clusterBeforeSleep), so a turn is one step. Of the      *)
(* headers from one node to another the last is kept until it arrives;     *)
(* the other messages arrive in any order, or never.                       *)
(***************************************************************************)
EXTENDS Integers, FiniteSetsExt, Functions

CONSTANT Scenarios   \* clusters and bounds: records with the fields below

VARIABLES
    node,     \* the state of each node, with its configuration file
    offset,   \* the replication offset of each node's data
    net,      \* what is in flight, and which links are broken
    hist,     \* history: votes, elections won, epochs taken without one
    used      \* the scenario, and how much of each bound has been used up

vars == <<node, offset, net, hist, used>>

Masters == used.scenario.Masters      \* the masters in the beginning, with their slots
Replicas == used.scenario.Replicas    \* the replicas in the beginning, with their masters
Nodes == DOMAIN Masters \cup DOMAIN Replicas
Rank == used.scenario.Rank            \* node IDs, in their order
Pings == used.scenario.Pings          \* who sends headers to whom
Timers == used.scenario.Timers        \* the timers that may run out
MaxEpoch == used.scenario.MaxEpoch    \* bound on currentEpoch
MaxOffset == used.scenario.MaxOffset  \* bound on the writes
MaxEvents(e) == used.scenario.Events[e]

NULL == "null"
Slots == UNION Range(Masters)

\* What a cluster is: nodes with names, in the beginning masters or replicas of
\* masters, and epochs that the nodes have seen.
ConstantsOK ==
    \A c \in Scenarios :
        /\ NULL \notin DOMAIN c.Masters \cup DOMAIN c.Replicas
        /\ \A n \in DOMAIN c.Replicas : n \notin DOMAIN c.Masters /\ c.Replicas[n] \in DOMAIN c.Masters
        /\ c.Epoch \in Nat
        /\ \A n \in DOMAIN c.Masters : c.Epochs[n] \in Nat /\ c.Epochs[n] <= c.Epoch

NoElection == [state |-> "none", epoch |-> 0, count |-> 0]

\* resetManualFailover. round says which request of the replica this is.
NoManual == [end |-> FALSE, can_start |-> FALSE, slave |-> NULL, master_offset |-> 0, round |-> 0]

-----------------------------------------------------------------------------
\* The state x of node me. The functions below map a state to the next one.

IsMaster(x, n) == x.nodes[n].slaveof = NULL
SlotsOf(x, n) == {j \in Slots : x.slots[j] = n}
Failed(x, n) == x.nodes[n].flag = "fail"
SlavesOf(x, n) == {m \in Nodes : x.nodes[m].slaveof = n}

clusterGetMaxEpoch(x) == Max({x.currentEpoch} \cup {x.nodes[n].configEpoch : n \in Nodes})

\* The configuration file: failure reports and migrate_to are not in it.
Saved(nodes) == [n \in Nodes |-> [nodes[n] EXCEPT !.reports = {}, !.migrate_to = FALSE]]

clusterSaveConfig(x) ==
    [x EXCEPT !.disk = [currentEpoch |-> x.currentEpoch, lastVoteEpoch |-> x.lastVoteEpoch,
                        nodes |-> Saved(x.nodes), slots |-> x.slots]]

Info(of, epoch, flag) ==
    [slaveof |-> of, configEpoch |-> epoch, flag |-> flag, reports |-> {}, migrate_to |-> FALSE]

\* What clusterLoadConfig makes of configuration file d. The cluster counts as
\* down, and its size as 1, until clusterUpdateState.
clusterLoadConfig(d) ==
    LET x == [up |-> TRUE, state |-> "fail", size |-> 1, disk |-> d,
              currentEpoch |-> d.currentEpoch, lastVoteEpoch |-> d.lastVoteEpoch,
              nodes |-> d.nodes, slots |-> d.slots, auth |-> NoElection, mf |-> NoManual]
    IN  [x EXCEPT !.currentEpoch = clusterGetMaxEpoch(x)]

\* late: the delays have passed that keep a master from serving queries
\* right after a restart or a partition.
clusterUpdateState(x, me, late) ==
    LET masters == {n \in Nodes : IsMaster(x, n) /\ SlotsOf(x, n) # {}}
        reachable == {n \in masters : x.nodes[n].flag = "ok"}
        ok == /\ \A j \in Slots : x.slots[j] # NULL /\ ~Failed(x, x.slots[j])
              /\ Cardinality(reachable) >= Cardinality(masters) \div 2 + 1
        new == [x EXCEPT !.size = Cardinality(masters), !.state = IF ok THEN "ok" ELSE "fail"]
    IN  IF IsMaster(x, me) /\ x.state = "fail" /\ ok /\ ~late THEN x ELSE new

\* The node may no longer, or must again, get replicas from others when its
\* last replica leaves or a first one joins.
RemoveSlave(x, s) ==
    LET m == x.nodes[s].slaveof
    IN  IF m # NULL /\ SlavesOf(x, m) = {s} THEN [x EXCEPT !.nodes[m].migrate_to = FALSE] ELSE x

clusterSetNodeAsMaster(x, me, n) ==
    IF IsMaster(x, n) THEN x
    ELSE [RemoveSlave(x, n) EXCEPT !.nodes[n].slaveof = NULL, !.nodes[n].migrate_to = @ \/ n # me]

SetSlaveof(x, s, m) ==
    [RemoveSlave(x, s) EXCEPT !.nodes[s].slaveof = m, !.nodes[m].migrate_to = TRUE]

clusterSetMaster(x, me, m) ==
    LET y == IF IsMaster(x, me) THEN [x EXCEPT !.nodes[me].migrate_to = FALSE] ELSE x
    IN  [SetSlaveof(y, me, m) EXCEPT !.mf = NoManual]

\* n claims slots under an epoch.
clusterUpdateSlotsConfigWith(x, me, n, epoch, slots) ==
    LET cur == IF IsMaster(x, me) THEN me ELSE x.nodes[me].slaveof
        taken == {j \in slots : /\ x.slots[j] # n
                                /\ x.slots[j] = NULL \/ x.nodes[x.slots[j]].configEpoch < epoch}
        y == [x EXCEPT !.slots = [j \in Slots |-> IF j \in taken THEN n ELSE @[j]]]
        lost == \E j \in taken : x.slots[j] = cur
    IN  IF n = me \/ taken = {} THEN x
        ELSE clusterSaveConfig(IF lost /\ SlotsOf(y, cur) = {} THEN clusterSetMaster(y, me, n) ELSE y)

\* Mutant: both nodes keep the epoch they have in common.
CollisionIgnored(x, me, n) == x

clusterHandleConfigEpochCollision(x, me, n) ==
    IF x.nodes[n].configEpoch # x.nodes[me].configEpoch \/ Rank[n] <= Rank[me] THEN x
    ELSE clusterSaveConfig([x EXCEPT !.currentEpoch = @ + 1,
                                     !.nodes[me].configEpoch = x.currentEpoch + 1])

clusterBumpConfigEpochWithoutConsensus(x, me) ==
    LET mine == x.nodes[me].configEpoch
    IN  IF mine # 0 /\ mine = clusterGetMaxEpoch(x) THEN x
        ELSE [x EXCEPT !.currentEpoch = @ + 1, !.nodes[me].configEpoch = x.currentEpoch + 1]

-----------------------------------------------------------------------------
\* Messages. Every message starts with a header.

clusterBuildMessageHdr(x, me, type) ==
    LET m == IF IsMaster(x, me) THEN me ELSE x.nodes[me].slaveof
    IN  [type |-> type, from |-> me, currentEpoch |-> x.currentEpoch,
         configEpoch |-> x.nodes[m].configEpoch, slaveof |-> x.nodes[me].slaveof,
         slots |-> SlotsOf(x, m), offset |-> offset[me],
         paused |-> IsMaster(x, me) /\ x.mf.end,
         bad |-> {n \in Nodes : x.nodes[n].flag # "ok"}]

\* A turn of the event loop: the next state x and the packets that are sent.
Turn(x) == [x |-> x, msgs |-> {}]

\* about carries what the messages of the type have beside the header.
NoData == [node |-> NULL, number |-> 0, slots |-> {}, force |-> FALSE]

Packet(x, me, type, about, to) ==
    [to |-> to, about |-> about, hdr |-> clusterBuildMessageHdr(x, me, type)]

Others(me) == {n \in Nodes : n # me /\ <<me, n>> \notin net.cut}

clusterBroadcastMessage(x, me, type, about) == {Packet(x, me, type, about, n) : n \in Others(me)}

\* The epochs, the offset and the manual failover flag in any header.
ProcessHeader(x, me, h) ==
    LET y == IF h.configEpoch > x.nodes[h.from].configEpoch
             THEN clusterSaveConfig([x EXCEPT !.currentEpoch = Max({@, h.currentEpoch}),
                                              !.nodes[h.from].configEpoch = h.configEpoch])
             ELSE [x EXCEPT !.currentEpoch = Max({@, h.currentEpoch})]
    IN  IF y.mf.end /\ y.nodes[me].slaveof = h.from /\ h.paused /\ y.mf.master_offset = 0
        THEN [y EXCEPT !.mf.master_offset = h.offset] ELSE y

\* A pong proves that the node can be reached. late: it has been failing for so
\* long that nobody seems to replace it.
clearNodeFailureIfNeeded(x, n, late) ==
    IF ~IsMaster(x, n) \/ SlotsOf(x, n) = {} \/ late THEN [x EXCEPT !.nodes[n].flag = "ok"] ELSE x

\* The role the sender claims.
ProcessRole(x, me, h) ==
    LET n == h.from
        demoted == IF IsMaster(x, n)
                   THEN [x EXCEPT !.slots = [j \in Slots |-> IF @[j] = n THEN NULL ELSE @[j]],
                                  !.nodes[n].migrate_to = FALSE]
                   ELSE x
    IN  IF h.slaveof = NULL THEN clusterSetNodeAsMaster(x, me, n)
        ELSE IF x.nodes[n].slaveof = h.slaveof THEN x
        ELSE SetSlaveof(demoted, n, h.slaveof)

markNodeAsFailingIfNeeded(x, me, n, reports) ==
    /\ x.nodes[n].flag = "pfail"
    /\ Cardinality(reports) + (IF IsMaster(x, me) THEN 1 ELSE 0) >= x.size \div 2 + 1

\* What the sender says about the other nodes counts when it is a master. FAIL
\* messages look the same whichever node is treated first.
clusterProcessGossipSection(t, me, h) ==
    LET x == t.x
        about == Nodes \ {me, h.from}
        reports == [n \in Nodes |-> IF n \in h.bad THEN x.nodes[n].reports \cup {h.from}
                                    ELSE x.nodes[n].reports \ {h.from}]
        failing == {n \in about \cap h.bad : markNodeAsFailingIfNeeded(x, me, n, reports[n])}
        y == [x EXCEPT !.nodes = [n \in Nodes |->
                IF n \notin about THEN x.nodes[n]
                ELSE [x.nodes[n] EXCEPT !.reports = reports[n],
                                        !.flag = IF n \in failing THEN "fail" ELSE x.nodes[n].flag]]]
        z == IF failing = {} THEN y ELSE clusterSaveConfig(y)
        fails == UNION {clusterBroadcastMessage(z, me, "fail", [NoData EXCEPT !.node = n]) : n \in failing}
    IN  IF ~IsMaster(x, h.from) THEN t
        ELSE [x |-> z, msgs |-> t.msgs \cup IF IsMaster(x, me) THEN fails ELSE {}]

\* The sender is told of one owner with a newer configuration for a slot it
\* claims: of the first such slot.
OutdatedClaim(x, me, h) ==
    LET newer == {j \in h.slots : /\ x.slots[j] \notin {h.from, NULL}
                                  /\ x.nodes[x.slots[j]].configEpoch > h.configEpoch}
        first == {j \in newer : \A k \in newer : j <= k}
        claim(n) == [NoData EXCEPT !.node = n, !.slots = SlotsOf(x, n), !.number = x.nodes[n].configEpoch]
    IN  IF h.from \notin Others(me) THEN {}
        ELSE {Packet(x, me, "update", claim(x.slots[j]), h.from) : j \in first}

Pong(y, me, h) ==
    IF h.type = "ping" /\ h.from \in Others(me) THEN {Packet(y, me, "pong", NoData, h.from)} ELSE {}

\* A PONG shows that its sender can be reached.
ProcessPong(y, h, late) ==
    IF h.type = "ping" \/ y.nodes[h.from].flag = "ok" THEN y
    ELSE IF y.nodes[h.from].flag = "pfail" THEN clusterSaveConfig([y EXCEPT !.nodes[h.from].flag = "ok"])
    ELSE clearNodeFailureIfNeeded(y, h.from, late)

\* The sender, or its master, has other slots here than it says.
Dirty(r, h) == SlotsOf(r, IF IsMaster(r, h.from) THEN h.from ELSE r.nodes[h.from].slaveof) # h.slots

ProcessClaim(r, me, h) ==
    IF IsMaster(r, h.from) /\ Dirty(r, h)
    THEN clusterUpdateSlotsConfigWith(r, me, h.from, h.configEpoch, h.slots) ELSE r

ProcessCollision(s, me, h) ==
    IF IsMaster(s, me) /\ IsMaster(s, h.from) /\ h.configEpoch = s.nodes[me].configEpoch
       /\ s.currentEpoch < MaxEpoch
    THEN clusterHandleConfigEpochCollision(s, me, h.from) ELSE s

\* z, r and s: before the role of the sender was looked at, after that, and after
\* its slots were.
AfterClaim(z, r, s, me, h, pong) ==
    [Turn(IF r # z THEN clusterSaveConfig(ProcessCollision(s, me, h)) ELSE ProcessCollision(s, me, h))
        EXCEPT !.msgs = pong \cup (IF Dirty(r, h) THEN OutdatedClaim(s, me, h) ELSE {})]

AfterRole(z, r, me, h, pong) == AfterClaim(z, r, ProcessClaim(r, me, h), me, h, pong)

AfterPong(z, me, h, pong) == AfterRole(z, ProcessRole(z, me, h), me, h, pong)

AfterHeader(y, me, h, late) ==
    clusterProcessGossipSection(AfterPong(ProcessPong(y, h, late), me, h, Pong(y, me, h)), me, h)

\* PING and PONG. A PING is answered first.
ProcessPing(x, me, h, late) == AfterHeader(ProcessHeader(x, me, h), me, h, late)

\* Mutant: the vote is not written to the configuration file before it is sent.
VoteUnsaved(x, me, h, force, late) ==
    LET n == h.from
        m == x.nodes[n].slaveof
        y == [x EXCEPT !.lastVoteEpoch = x.currentEpoch]
    IN  IF /\ IsMaster(x, me) /\ SlotsOf(x, me) # {} /\ h.currentEpoch >= x.currentEpoch
           /\ x.lastVoteEpoch # x.currentEpoch /\ m # NULL /\ (Failed(x, m) \/ force)
        THEN [Turn(y) EXCEPT !.msgs = {Packet(y, me, "ack", NoData, n)}] ELSE Turn(x)

\* A request for a vote. late: it is long since a vote for a replica of the
\* same master.
clusterSendFailoverAuthIfNeeded(x, me, h, force, late) ==
    LET n == h.from
        m == x.nodes[n].slaveof
        y == clusterSaveConfig([x EXCEPT !.lastVoteEpoch = x.currentEpoch])
        grant == /\ IsMaster(x, me) /\ SlotsOf(x, me) # {}
                 /\ h.currentEpoch >= x.currentEpoch
                 /\ x.lastVoteEpoch # x.currentEpoch
                 /\ m # NULL /\ (Failed(x, m) \/ force)
                 /\ late
                 /\ \A j \in h.slots : x.slots[j] = NULL \/ x.nodes[x.slots[j]].configEpoch <= h.configEpoch
    IN  IF ~grant THEN Turn(x)
        ELSE [Turn(y) EXCEPT !.msgs = {Packet(y, me, "ack", NoData, n)}]

ProcessAck(x, h) ==
    IF IsMaster(x, h.from) /\ SlotsOf(x, h.from) # {} /\ h.currentEpoch >= x.auth.epoch
    THEN [x EXCEPT !.auth.count = @ + 1] ELSE x

ProcessUpdate(x, me, about) ==
    LET n == about.node
        y == [clusterSetNodeAsMaster(x, me, n) EXCEPT !.nodes[n].configEpoch = about.number]
    IN  IF x.nodes[n].configEpoch >= about.number THEN x
        ELSE clusterUpdateSlotsConfigWith(clusterSaveConfig(y), me, n, about.number, about.slots)

\* MFSTART: clients are paused from now on.
ProcessMFStart(x, me, h, round) ==
    IF x.nodes[h.from].slaveof # me THEN x
    ELSE [x EXCEPT !.mf = [NoManual EXCEPT !.end = TRUE, !.slave = h.from, !.round = round]]

ProcessFail(x, me, n) ==
    IF n = me \/ Failed(x, n) THEN x ELSE clusterSaveConfig([x EXCEPT !.nodes[n].flag = "fail"])

clusterProcessPacket(x, me, p, late) ==
    LET h == p.hdr
        y == ProcessHeader(x, me, h)
    IN  CASE h.type \in {"ping", "pong"} -> ProcessPing(x, me, h, late)
          [] h.type = "fail"    -> Turn(ProcessFail(y, me, p.about.node))
          [] h.type = "request" -> clusterSendFailoverAuthIfNeeded(y, me, h, p.about.force, late)
          [] h.type = "ack"     -> Turn(ProcessAck(y, h))
          [] h.type = "mfstart" -> Turn(ProcessMFStart(y, me, h, p.about.number))
          [] h.type = "update"  -> Turn(ProcessUpdate(y, me, p.about))

-----------------------------------------------------------------------------
\* Failover of a replica.

\* The replica takes over the slots of its master and tells everybody.
clusterFailoverReplaceYourMaster(x, me, late) ==
    LET old == x.nodes[me].slaveof
        y == [clusterSetNodeAsMaster(x, me, me) EXCEPT
                !.slots = [j \in Slots |-> IF @[j] = old THEN me ELSE @[j]]]
        z == clusterSaveConfig(clusterUpdateState(y, me, late))
    IN  [Turn([z EXCEPT !.mf = NoManual]) EXCEPT
            !.msgs = clusterBroadcastMessage(z, me, "pong", NoData)]

\* An election is scheduled ("waiting"), then votes are asked for ("sent"), and
\* counted until the time for a new attempt has come. A manual failover does
\* not wait.
clusterHandleSlaveFailover(x, me, timer) ==
    LET m == x.nodes[me].slaveof
        manual == x.mf.end /\ x.mf.can_start
        asked == [x EXCEPT !.currentEpoch = @ + 1, !.auth = [@ EXCEPT !.state = "sent", !.epoch = x.currentEpoch + 1]]
        won == [x EXCEPT !.nodes[me].configEpoch = Max({@, x.auth.epoch})]
    IN  IF m = NULL \/ ~(Failed(x, m) \/ manual) \/ SlotsOf(x, m) = {} THEN Turn(x)
        ELSE IF x.auth.state = "none" \/ timer = "retry"
        THEN Turn([x EXCEPT !.auth = [@ EXCEPT !.state = "waiting", !.count = 0]])
        ELSE IF x.auth.state = "waiting"
        THEN IF (timer = "delay" \/ x.mf.end) /\ x.currentEpoch < MaxEpoch
             THEN [Turn(clusterSaveConfig(asked)) EXCEPT !.msgs = clusterBroadcastMessage(asked, me, "request", [NoData EXCEPT !.force = x.mf.end])]
             ELSE Turn(x)
        ELSE IF x.auth.count >= x.size \div 2 + 1 THEN clusterFailoverReplaceYourMaster(won, me, FALSE)
        ELSE Turn(x)

\* The replica moves to a master that has lost its replicas, when its own has
\* most of them and it is the one with the smallest ID.
clusterHandleSlaveMigration(x, me) ==
    LET ok(n) == {s \in SlavesOf(x, n) : ~Failed(x, s)}
        most == Max({Cardinality(ok(n)) : n \in {k \in Nodes : IsMaster(x, k) /\ ~Failed(x, k)}} \cup {0})
        m == x.nodes[me].slaveof
        orphans == {n \in Nodes : /\ IsMaster(x, n) /\ ~Failed(x, n) /\ x.nodes[n].migrate_to
                                  /\ ok(n) = {} /\ SlotsOf(x, n) # {}}
        rivals == UNION {SlavesOf(x, n) : n \in {k \in Nodes : IsMaster(x, k) /\ Cardinality(ok(k)) = most}}
    IN  IF /\ m # NULL /\ most >= 2 /\ ~Failed(x, m) /\ Cardinality(ok(m)) = most
           /\ x.state = "ok"
           /\ Cardinality({s \in SlavesOf(x, m) : x.nodes[s].flag = "ok"}) > 1
           /\ \A s \in rivals : Rank[me] <= Rank[s]
        THEN {clusterSetMaster(x, me, n) : n \in orphans} ELSE {}

clusterHandleManualFailover(x, me) ==
    IF x.mf.end /\ x.mf.master_offset # 0 /\ x.mf.master_offset = offset[me]
    THEN [x EXCEPT !.mf.can_start = TRUE] ELSE x

\* The periodic work, when a timer has run out: "pfail" for the nodes that have
\* not answered for too long, "manual" for a manual failover, "delay" and
\* "retry" for an election, "orphan" for a master without replicas, "writable"
\* for a master that has been kept from serving.
clusterCron(x, me, timer) ==
    LET reach(n) == n \in Others(me) /\ node[n].up
        seen == [x EXCEPT !.nodes = [n \in Nodes |->
                    IF timer = "pfail" /\ n # me /\ ~reach(n) /\ @[n].flag = "ok"
                    THEN [@[n] EXCEPT !.flag = "pfail"] ELSE @[n]]]
        y == IF timer = "manual" THEN [seen EXCEPT !.mf = NoManual] ELSE seen
        slave == x.nodes[me].slaveof # NULL
        turn == IF slave THEN clusterHandleSlaveFailover(clusterHandleManualFailover(y, me), me, timer)
                ELSE Turn(y)
        moved == IF slave /\ timer = "orphan" THEN clusterHandleSlaveMigration(turn.x, me) ELSE {}
        ends == IF moved = {} THEN {turn} ELSE {[turn EXCEPT !.x = z] : z \in moved}
    IN  {[t EXCEPT !.x = clusterUpdateState(@, me, timer = "writable")] : t \in ends}

-----------------------------------------------------------------------------
\* The actions.

FirstConfig ==
    [currentEpoch |-> used.scenario.Epoch, lastVoteEpoch |-> 0,
     nodes |-> [n \in Nodes |->
        IF n \in DOMAIN Masters
        THEN Info(NULL, used.scenario.Epochs[n], IF n \in used.scenario.Failed THEN "fail" ELSE "ok")
        ELSE Info(Replicas[n], 0, "ok")],
     slots |-> [j \in Slots |-> CHOOSE n \in DOMAIN Masters : j \in Masters[n]]]

\* The nodes have been running for a while. A failed master is down.
FirstState(n) ==
    LET x == [clusterLoadConfig(FirstConfig) EXCEPT !.up = n \notin used.scenario.Failed]
        y == [x EXCEPT !.nodes = [m \in Nodes |-> [@[m] EXCEPT !.migrate_to = m \in Range(Replicas)]]]
    IN  clusterUpdateState(y, n, TRUE)

Init ==
    /\ used \in {[scenario |-> c, events |-> [e \in DOMAIN c.Events |-> 0]] : c \in Scenarios}
    /\ net = [msgs |-> {}, cut |-> used.scenario.Cut]
    /\ offset = [n \in Nodes |-> 1]
    /\ node = [n \in Nodes |-> FirstState(n)]
    /\ hist = [votes |-> {}, elected |-> {}, alone |-> {}, lost |-> FALSE]

Event(e) ==
    /\ e \in DOMAIN used.events
    /\ used.events[e] < MaxEvents(e)
    /\ used' = [used EXCEPT !.events[e] = @ + 1]

\* A header replaces the one before it on its way to the same node. What is sent
\* to a node that is down is lost.
Send(msgs, new) ==
    {p \in msgs : ~\E q \in new : /\ q.to = p.to /\ q.hdr.from = p.hdr.from
                                 /\ {q.hdr.type, p.hdr.type} \subseteq {"ping", "pong"}}
        \cup {q \in new : node[q.to].up}

\* The effect of turn t of node n on packet in, or on none.
Do(n, t, in) ==
    LET x == node[n]
        old == x.nodes[n].slaveof
        took == old # NULL /\ IsMaster(t.x, n)
        epoch == t.x.nodes[n].configEpoch
    IN  /\ node' = [node EXCEPT ![n] = t.x]
        /\ net' = [net EXCEPT !.msgs = Send(@ \ in, t.msgs)]
        /\ hist' = [votes |-> hist.votes \cup
                        IF t.x.lastVoteEpoch = x.lastVoteEpoch THEN {}
                        ELSE {[voter |-> n, epoch |-> t.x.lastVoteEpoch, leader |-> p.hdr.from] : p \in in},
                    elected |-> hist.elected \cup
                        IF took /\ x.auth.count >= x.size \div 2 + 1
                        THEN {[leader |-> n, epoch |-> x.auth.epoch, renewed |-> epoch > x.nodes[old].configEpoch]} ELSE {},
                    alone |-> hist.alone,
                    lost |-> hist.lost \/ (took /\ x.mf.master_offset # 0 /\ offset[n] < offset[old])]

\* n sends a PING.
clusterSendPing(n, m) ==
    /\ node[n].up /\ <<n, m>> \in Pings /\ m \in Others(n)
    /\ net' = [net EXCEPT !.msgs = Send(@, {Packet(node[n], n, "ping", NoData, m)})]
    /\ UNCHANGED <<node, offset, hist, used>>

Receive(p) ==
    /\ p.to \in Nodes /\ node[p.to].up
    /\ \E late \in BOOLEAN :
        LET t == clusterProcessPacket(node[p.to], p.to, p, late)
        IN  Do(p.to, [t EXCEPT !.x = clusterUpdateState(@, p.to, FALSE)], {p})
    /\ UNCHANGED <<offset, used>>

\* A master's timer for a manual failover runs out after that of the replica
\* that asked for it, and the time to a new election is so long (four node
\* timeouts) that no message of the last one is still in flight.
TimerMayFire(n, timer) ==
    LET mf == node[n].mf
    IN  CASE timer = "manual" ->
                /\ mf.end
                /\ mf.slave # NULL => node[mf.slave].mf.round # mf.round \/ ~node[mf.slave].mf.end
          [] timer = "retry" ->
                ~\E p \in net.msgs : \/ p.hdr.type = "request" /\ p.hdr.from = n
                                     \/ p.hdr.type = "ack" /\ p.to = n
          [] OTHER -> TRUE

Cron(n) ==
    /\ node[n].up
    /\ \E timer \in {"none"} \cup Timers : \E t \in clusterCron(node[n], n, timer) :
        /\ TimerMayFire(n, timer)
        /\ Do(n, t, {})
    /\ UNCHANGED <<offset, used>>

\* CLUSTER FAILOVER, with FORCE or TAKEOVER.
FailoverCommand(n, how) ==
    LET x == node[n]
        m == x.nodes[n].slaveof
        y == [x EXCEPT !.mf = [NoManual EXCEPT !.end = TRUE, !.can_start = how = "force",
                                               !.round = used.events[how] + 1]]
        bumped == clusterSaveConfig(clusterBumpConfigEpochWithoutConsensus(y, n))
    IN  /\ Event(how)
        /\ x.up /\ m # NULL
        /\ how = "failover" => ~Failed(x, m) /\ m \in Others(n)
        /\ IF how = "takeover"
           THEN LET t == clusterFailoverReplaceYourMaster(bumped, n, FALSE)
                IN  /\ x.currentEpoch < MaxEpoch
                    /\ node' = [node EXCEPT ![n] = t.x]
                    /\ net' = [net EXCEPT !.msgs = Send(@, t.msgs)]
                    /\ hist' = [hist EXCEPT !.alone = @ \cup {bumped.nodes[n].configEpoch}]
           ELSE /\ node' = [node EXCEPT ![n] = y]
                /\ net' = [net EXCEPT !.msgs = Send(@,
                            IF how = "force" THEN {} ELSE {Packet(y, n, "mfstart", [NoData EXCEPT !.number = y.mf.round], m)})]
                /\ UNCHANGED hist
    /\ UNCHANGED offset

\* A client writes to a master that serves queries; a replica catches up.
Write(n) ==
    /\ node[n].up /\ IsMaster(node[n], n) /\ SlotsOf(node[n], n) # {}
    /\ node[n].state = "ok" /\ ~node[n].mf.end
    /\ offset[n] < MaxOffset
    /\ offset' = [offset EXCEPT ![n] = @ + 1]
    /\ UNCHANGED <<node, net, hist, used>>

Replicate(n) ==
    LET m == node[n].nodes[n].slaveof
    IN  /\ node[n].up /\ m # NULL /\ node[m].up
        /\ offset[n] < offset[m]
        /\ offset' = [offset EXCEPT ![n] = @ + 1]
        /\ UNCHANGED <<node, net, hist, used>>

Crash(n) ==
    /\ Event("crash")
    /\ node[n].up
    /\ node' = [node EXCEPT ![n].up = FALSE]
    /\ net' = [net EXCEPT !.msgs = {p \in @ : p.to # n}]
    /\ UNCHANGED <<offset, hist>>

Restart(n) ==
    /\ Event("restart")
    /\ ~node[n].up
    /\ node' = [node EXCEPT ![n] = clusterLoadConfig(@.disk)]
    /\ UNCHANGED <<offset, net, hist>>

\* The links between two nodes break, or work again.
Cut(n, m) ==
    /\ Event("cut")
    /\ n # m
    /\ LET links == {<<n, m>>, <<m, n>>}
       IN  net' = IF <<n, m>> \in net.cut THEN [net EXCEPT !.cut = @ \ links]
                  ELSE [net EXCEPT !.cut = @ \cup links,
                                   !.msgs = {p \in @ : <<p.hdr.from, p.to>> \notin links}]
    /\ UNCHANGED <<node, offset, hist>>

Next ==
    \/ \E p \in net.msgs : Receive(p)
    \/ \E n \in Nodes :
        \/ Cron(n) \/ Write(n) \/ Replicate(n) \/ Crash(n) \/ Restart(n)
        \/ \E m \in Nodes : clusterSendPing(n, m) \/ Cut(n, m)
        \/ \E how \in {"failover", "force", "takeover"} : FailoverCommand(n, how)

Spec == Init /\ [][Next]_vars

-----------------------------------------------------------------------------
\* Properties.

\* A master votes once in an epoch, across restarts (lastVoteEpoch is saved
\* before the vote is sent).
VotesOnce == \A v, w \in hist.votes : v.voter = w.voter /\ v.epoch = w.epoch => v = w

\* So at most one replica is elected in an epoch.
ElectionSafe ==
    /\ VotesOnce
    /\ \A a, b \in hist.elected : a.epoch = b.epoch => a.leader = b.leader

\* Nodes that both believe to own a slot have different configuration epochs, so
\* that one of the claims wins everywhere. Epochs that a node gave itself
\* without an election are excluded: they may collide.
OwnersDiffer ==
    \A n, m \in Nodes : \A j \in Slots :
        n # m /\ node[n].slots[j] = n /\ node[m].slots[j] = m
        => LET e == node[n].nodes[n].configEpoch
           IN  e # node[m].nodes[m].configEpoch \/ e \in hist.alone

\* The tables of a node agree: slots belong to masters, no node is its own
\* replica (the assertions of clusterSetMaster), epochs are not ahead of the
\* current one, and what a restart would read is not ahead of memory.
TablesAgree ==
    \A n \in Nodes : LET x == node[n] IN
        /\ \A j \in Slots : x.slots[j] # NULL => IsMaster(x, x.slots[j])
        /\ \A m \in Nodes : x.nodes[m].slaveof # m /\ x.nodes[m].configEpoch <= x.currentEpoch
        /\ x.lastVoteEpoch <= x.currentEpoch /\ x.disk.lastVoteEpoch = x.lastVoteEpoch

\* What every election and every claim of slots rests on: the nodes vote once in
\* an epoch, and their tables agree.
TablesAndVotes == VotesOnce /\ TablesAgree

\* A manual failover waits until the replica has everything that the paused
\* master has written: nothing is lost.
ManualLosesNothing == ~hist.lost

\* The nodes do not get stuck in disagreement: when nothing is in flight and no
\* header that any node could send would make its receiver or, by the answer,
\* its sender change anything, all nodes have the same owner for each slot and
\* masters have different configuration epochs.
Settled ==
    /\ net = [msgs |-> {}, cut |-> {}]
    /\ \A n, m \in Nodes : n # m =>
        LET idle(t) == t.x = node[m] /\ \A p \in t.msgs : p.hdr.type = "pong" /\ node[n].up
        IN  idle(ProcessPing(node[m], m, clusterBuildMessageHdr(node[n], n, "ping"), FALSE))
SettledAgree == Settled =>
    /\ \A n, m \in Nodes : node[n].slots = node[m].slots
    /\ \A n, m \in Nodes : n # m /\ IsMaster(node[n], n) /\ IsMaster(node[m], m)
        => node[n].nodes[n].configEpoch # node[m].nodes[m].configEpoch

\* The cluster as a whole: elections, owners, manual failovers and the end of
\* disagreements.
ClusterSound == ElectionSafe /\ OwnersDiffer /\ ManualLosesNothing /\ SettledAgree

\* A replica that takes over has a newer configuration epoch than the master it
\* replaces: "it's up to the caller to be sure that the node got a new
\* configuration epoch already".
TakeoverHasNewEpoch == \A e \in hist.elected : e.renewed
=============================================================================
