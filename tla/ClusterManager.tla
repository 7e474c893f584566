--------------------------- MODULE ClusterManager ---------------------------
(***************************************************************************)
(* The plans redis-cli --cluster makes (src/src/redis-cli.c): create (slot *)
(* ranges, replicas on other hosts than their masters, the random search   *)
(* for anti-affinity), add-node, del-node, reshard and rebalance.  How a   *)
(* single slot moves is module Reshard; here it moves or the command ends. *)
(*                                                                         *)
(* Nodes are numbered in the order of cluster_manager.nodes; 0 is NULL.    *)
(* Quotients of floats are exact here.                                     *)
(***************************************************************************)
EXTENDS Integers, FiniteSetsExt, SequencesExt

CONSTANT Scenarios    \* configurations and bounds: records with the fields below

VARIABLES
    scenario,
    cluster,  \* what the nodes know once they have been told
    job,      \* the command that runs
    done      \* how the last command ended, and the bounds

vars == <<scenario, cluster, job, done>>

N == scenario.Nodes                          \* nodes given to create
All == 1..(N + 1)                            \* and one to be added later
Slots == 0..(scenario.Slots - 1)             \* CLUSTER_MANAGER_SLOTS: 16384 in the code
Replicas == scenario.Replicas                \* --cluster-replicas
Weights == scenario.Weights                  \* sets of weights to rebalance with
Threshold == 2                               \* --cluster-threshold
Ops == scenario.Ops
Moves == scenario.Moves                      \* the numbers of slots to reshard
MaxJobs == scenario.MaxJobs                  \* bound on the commands after create
MaxFaults == scenario.MaxFaults              \* bound on the replies that are errors

Idle == [kind |-> "idle"]
ip == cluster.ip
Owned(n) == {s \in Slots : cluster.owner[s] = n}
Masters == {n \in cluster.members : cluster.replicate[n] = 0}
Count(n) == Cardinality(Owned(n))
replicas_count(n) == Cardinality({r \in cluster.members : cluster.replicate[r] = n})

Sorted(set, less(_, _)) ==
    [i \in 1..Cardinality(set) |-> CHOOSE x \in set : Cardinality({y \in set : less(y, x)}) = i - 1]
Ascending(set) == Sorted(set, LAMBDA a, b : a < b)

----------------------------------------------------------------------------
(* create: the plan.                                                       *)

masters_count == N \div (Replicas + 1)

(* One node of each host in turn, hosts in the order they were met.        *)
Interleaved ==
    LET before(n) == {m \in 1..n : ip[m] = ip[n]}
        round(n) == Cardinality(before(n))
        host(n) == Min({m \in 1..N : ip[m] = ip[n]})
    IN  Sorted(1..N, LAMBDA a, b : round(a) < round(b) \/ (round(a) = round(b) /\ host(a) < host(b)))

Abs(x) == IF x < 0 THEN -x ELSE x

lround(a, b) == (2 * a + b) \div (2 * b)     \* of a / b, not negative

(* The first slot of master i, the first one being 1.                      *)
FirstSlot ==
    LET first[i \in 1..(masters_count + 1)] ==
          IF i = 1 THEN 0
          ELSE LET last == lround((i - 1) * scenario.Slots - masters_count, masters_count)
                   end == IF last > scenario.Slots \/ i - 1 = masters_count THEN scenario.Slots - 1 ELSE last
               IN  (IF end < first[i - 1] THEN first[i - 1] ELSE end) + 1
    IN  first

SlotsOf(i) == FirstSlot[i]..(FirstSlot[i + 1] - 1)

Rotated(s) == IF s = <<>> THEN s ELSE Append(Tail(s), Head(s))

(* One replica for a master: the first node left that is of another host,  *)
(* else the first node left, and the array begins after it.                *)
AssignOne(p, master) ==
    LET left == {j \in DOMAIN p.free : p.free[j] # 0}
        other == {j \in left : ip[p.free[j]] # ip[master]}
    IN  IF left = {} THEN p
        ELSE IF other # {} THEN [p EXCEPT !.replicate[p.free[Min(other)]] = master, !.free[Min(other)] = 0]
        ELSE [p EXCEPT !.replicate[p.free[Min(left)]] = master, !.free = SubSeq(@, Min(left) + 1, Len(@))]

Repeated(s, k) == FlattenSeq([i \in DOMAIN s |-> [j \in 1..k |-> s[i]]])

(* Every master its replicas, then one more each for the nodes left.       *)
assign_replicas(masters, free) ==
    LET p == FoldLeft(AssignOne, [replicate |-> [n \in All |-> 0], free |-> Rotated(free)], Repeated(masters, Replicas))
    IN  FoldLeft(AssignOne, p, masters).replicate

----------------------------------------------------------------------------
(* Anti-affinity: the nodes of one host that belong to the same master.    *)

Types(rep, host, name) ==
    FoldLeft(LAMBDA types, n : IF rep[n] = 0 THEN types \o <<"m">> \o types ELSE Append(types, "s"),
             <<>>, SelectSeq([i \in 1..N |-> i], LAMBDA n : ip[n] = host /\ (n = name \/ rep[n] = name)))

Groups == {ip[n] : n \in 1..N} \X (1..N)

clusterManagerGetAntiAffinityScore(rep) ==
    LET score(g) == LET types == Types(rep, g[1], g[2])
                    IN  IF Len(types) < 2 THEN 0
                        ELSE IF types[1] = "m" THEN 10000 * (Len(types) - 1) ELSE Len(types)
    IN  MapThenSumSet(score, {g \in Groups : rep[g[2]] = 0})

Offending(rep) ==
    LET slaves(g) == {n \in 1..N : rep[n] = g[2] /\ ip[n] = g[1]}
        bad == {g \in Groups : rep[g[2]] = 0 /\ Len(Types(rep, g[1], g[2])) >= 2}
    IN  {Min(slaves(g)) : g \in {b \in bad : slaves(b) # {}}}

(* One turn of the optimizer: two replicas swap masters, unless the score  *)
(* gets worse.                                                             *)
clusterManagerOptimizeAntiAffinity ==
    /\ job.kind = "create" /\ job.phase = "optimize"
    /\ LET score == clusterManagerGetAntiAffinityScore(job.replicate)
       IN  /\ score > 0
           /\ \E first \in Offending(job.replicate) :
              \E second \in {n \in 1..N : n # first /\ job.replicate[n] # 0} :
                LET rep == [job.replicate EXCEPT ![first] = job.replicate[second], ![second] = job.replicate[first]]
                IN  /\ clusterManagerGetAntiAffinityScore(rep) <= score
                    /\ job' = [job EXCEPT !.replicate = rep]
    /\ UNCHANGED <<scenario, cluster, done>>

----------------------------------------------------------------------------
(* create: the commands sent.  A step is the next node of the list.        *)

clusterManagerCommandCreate ==
    /\ job.kind = "idle" /\ cluster.members = {} /\ masters_count >= 3
    /\ LET masters == SubSeq(Interleaved, 1, masters_count)
           rep == assign_replicas(masters, SubSeq(Interleaved, masters_count + 1, N))
       IN  job' = [kind |-> "create", phase |-> "optimize", masters |-> masters, replicate |-> rep,
                   start |-> clusterManagerGetAntiAffinityScore(rep), node |-> 1, dirty |-> 1..N]
    /\ UNCHANGED <<scenario, cluster, done>>

(* The score is zero, or the effort is spent, and the user says yes.       *)
OptimizeEnd ==
    /\ job.kind = "create" /\ job.phase = "optimize"
    /\ job' = [job EXCEPT !.phase = "flush"]
    /\ UNCHANGED <<scenario, cluster, done>>

Fault == done.faults < MaxFaults
Fresh(faults, jobs) ==
    [kind |-> "none", ok |-> TRUE, faults |-> faults, jobs |-> jobs, asked |-> 0, moved |-> 0, had |-> 0, sources |-> 0,
     expected |-> <<>>, before |-> <<>>, assertion |-> FALSE]
Abort == job' = Idle /\ done' = [done EXCEPT !.faults = @ + 1, !.kind = job.kind, !.ok = FALSE]

(* clusterManagerFlushNodeConfig(): slots for the masters; a replica that  *)
(* does not know its master yet answers an error and stays dirty.          *)
clusterManagerFlushNodeConfig ==
    /\ job.kind = "create" /\ job.phase \in {"flush", "again"} /\ job.node <= N
    /\ LET n == job.node
           role == job.replicate[n]
           mine == SelectInSeq(job.masters, LAMBDA x : x = n)
           next == [job EXCEPT !.node = @ + 1]
           clean == [next EXCEPT !.dirty = @ \ {n}]
       IN  \/ /\ n \in job.dirty /\ role # 0 /\ role \in cluster.members
              /\ cluster' = [cluster EXCEPT !.replicate[n] = role]
              /\ job' = clean /\ UNCHANGED done
           \/ /\ \/ n \notin job.dirty
                 \/ role # 0 /\ (role \notin cluster.members \/ Fault)
                 \/ role = 0 /\ mine = 0
              /\ job' = next
              /\ done' = IF n \in job.dirty /\ role \in cluster.members THEN [done EXCEPT !.faults = @ + 1] ELSE done
              /\ UNCHANGED cluster
           \/ /\ n \in job.dirty /\ mine # 0
              /\ \/ /\ cluster' = [cluster EXCEPT !.owner = [s \in Slots |-> IF s \in SlotsOf(mine) THEN n ELSE @[s]]]
                    /\ job' = clean /\ UNCHANGED done
                 \/ Fault /\ Abort /\ UNCHANGED cluster
    /\ UNCHANGED scenario

(* Epochs and CLUSTER MEET, then clusterManagerWaitForClusterJoin(), and   *)
(* the configuration once more.                                            *)
Joined ==
    /\ job.kind = "create" /\ job.phase = "flush" /\ job.node > N
    /\ \/ /\ cluster' = [cluster EXCEPT !.members = 1..N]
          /\ job' = [job EXCEPT !.phase = "again", !.node = 1]
          /\ UNCHANGED done
       \/ Fault /\ Abort /\ UNCHANGED cluster
    /\ UNCHANGED scenario

Created ==
    /\ job.kind = "create" /\ job.phase = "again" /\ job.node > N
    /\ job' = Idle
    /\ done' = [done EXCEPT !.kind = "create", !.ok = (job.dirty \cap {n \in 1..N : job.replicate[n] # 0} = {})]
    /\ UNCHANGED <<scenario, cluster>>

----------------------------------------------------------------------------
(* add-node and del-node.                                                  *)

(* clusterManagerCheckCluster(): every slot has an owner.                  *)
Sane == \A s \in Slots : cluster.owner[s] # 0

Start(op) == job.kind = "idle" /\ cluster.members # {} /\ op \in Ops /\ done.jobs < MaxJobs
Begun == Fresh(done.faults, done.jobs + 1)
Ended(kind, ok) == [Begun EXCEPT !.kind = kind, !.ok = ok]

clusterManagerNodeWithLeastReplicas ==
    Min({n \in Masters : \A m \in Masters : replicas_count(n) <= replicas_count(m)})

(* CLUSTER MEET, then CLUSTER REPLICATE, which may fail.                   *)
clusterManagerCommandAddNode(slave) ==
    /\ Start("add") /\ Sane /\ N + 1 \notin cluster.members
    /\ LET c == [cluster EXCEPT !.members = @ \cup {N + 1}]
       IN  \/ /\ cluster' = IF slave THEN [c EXCEPT !.replicate[N + 1] = clusterManagerNodeWithLeastReplicas] ELSE c
              /\ done' = Ended("add", TRUE)
           \/ /\ slave /\ Fault
              /\ cluster' = c
              /\ done' = [Ended("add", FALSE) EXCEPT !.faults = @ + 1]
    /\ UNCHANGED <<scenario, job>>

(* The others are told one by one: a replica of the node gets the master   *)
(* with the fewest replicas, as counted in the beginning, and each forgets *)
(* the node, which a node refuses to do with its own master.               *)
clusterManagerCommandDeleteNode(x) ==
    /\ Start("del") /\ x \in cluster.members /\ Owned(x) = {}
    /\ LET least == clusterManagerNodeWithLeastReplicas
           forget(p, n) == IF ~p.ok \/ n = x THEN p
                           ELSE LET rep == IF cluster.replicate[n] = x THEN least ELSE cluster.replicate[n]
                                IN  [p EXCEPT !.replicate[n] = rep, !.ok = (rep # x)]
           told == FoldLeft(forget, [replicate |-> cluster.replicate, ok |-> TRUE],
                            Ascending(cluster.members))
       IN  /\ cluster' = [cluster EXCEPT !.replicate = IF told.ok THEN [told.replicate EXCEPT ![x] = 0] ELSE told.replicate,
                                         !.members = IF told.ok THEN @ \ {x} ELSE @]
           /\ done' = Ended("del", told.ok)
    /\ UNCHANGED <<scenario, job>>

----------------------------------------------------------------------------
(* reshard and rebalance.                                                  *)

ByCount(sources) == Sorted(sources, LAMBDA a, b : Count(a) > Count(b) \/ (Count(a) = Count(b) /\ a < b))

(* A share of each source, rounded up for the largest and down for the     *)
(* others, lowest slots first: <<source, slot>> pairs.                     *)
clusterManagerComputeReshardTable(sources, numslots) ==
    LET total == Cardinality(UNION {Owned(n) : n \in sources})
        sorted == ByCount(sources)
        share(i) == LET a == numslots * Count(sorted[i])
                    IN  IF i = 1 THEN (a + total - 1) \div total ELSE a \div total
        take(moved, i) == LET own == Ascending(Owned(sorted[i]))
                              k == Min({share(i), numslots - Len(moved), Len(own)})
                          IN  moved \o [j \in 1..k |-> <<sorted[i], own[j]>>]
    IN  IF total = 0 THEN <<>> ELSE FoldLeft(take, <<>>, [i \in 1..Len(sorted) |-> i])

clusterManagerCommandReshard(target, sources, numslots) ==
    /\ Start("reshard") /\ Sane /\ target \in Masters /\ sources # {} /\ sources \subseteq Masters \ {target}
    /\ LET table == clusterManagerComputeReshardTable(sources, numslots)
       IN  /\ job' = [kind |-> "reshard", target |-> target, table |-> table]
           /\ done' = [Begun EXCEPT !.asked = numslots, !.moved = Len(table), !.sources = Cardinality(sources),
                                    !.had = Cardinality(UNION {Owned(n) : n \in sources})]
    /\ UNCHANGED <<scenario, cluster>>

(* clusterManagerMoveSlot() of the next entry of the table.                *)
clusterManagerMoveSlot ==
    /\ job.kind \in {"reshard", "rebalance"} /\ job.table # <<>>
    /\ LET item == Head(job.table)
       IN  \/ /\ cluster' = [cluster EXCEPT !.owner[item[2]] = job.target]
              /\ job' = [job EXCEPT !.table = Tail(@)]
              /\ UNCHANGED done
           \/ Fault /\ Abort /\ UNCHANGED cluster
    /\ UNCHANGED scenario

Resharded ==
    /\ job.kind = "reshard" /\ job.table = <<>>
    /\ job' = Idle /\ done' = [done EXCEPT !.kind = "reshard", !.ok = TRUE]
    /\ UNCHANGED <<scenario, cluster>>

BalanceAsIs(balance, involved) == balance

(* What rounding left over goes to the nodes that give nothing, one each,  *)
(* again and again, until the balances sum up to zero.                     *)
Rounded(balance, involved) ==
    LET takers == SelectSeq(Ascending(involved), LAMBDA n : balance[n] <= 0)
        total == MapThenSumSet(LAMBDA n : balance[n], involved)
        times(n) == Cardinality({t \in 1..total : takers[((t - 1) % Len(takers)) + 1] = n})
    IN  IF total <= 0 THEN balance ELSE [n \in involved |-> balance[n] - times(n)]

clusterManagerCommandRebalance(weight, use_empty) ==
    /\ Start("rebalance") /\ Sane
    /\ LET involved == {n \in Masters : use_empty \/ Owned(n) # {}}
           total == MapThenSumSet(LAMBDA n : weight[n], involved)
           expected == [n \in involved |-> (scenario.Slots * weight[n]) \div total]
           off(n) == IF Owned(n) # {} THEN 100 * Abs(Count(n) - expected[n]) > Threshold * Count(n) ELSE expected[n] > 1
           balance == Rounded([n \in involved |-> Count(n) - expected[n]], involved)
           order == Sorted(involved, LAMBDA a, b : balance[a] < balance[b] \/ (balance[a] = balance[b] /\ a < b))
       IN  /\ total > 0
           /\ IF \E n \in involved : off(n)
              THEN /\ job' = [kind |-> "rebalance", target |-> 0, table |-> <<>>, balance |-> balance, order |-> order,
                              dst |-> 1, src |-> Len(order), numslots |-> 0]
                   /\ done' = [Begun EXCEPT !.expected = expected,
                                            !.before = [n \in involved |-> Count(n)]]
              ELSE UNCHANGED job /\ done' = Ended("balanced", TRUE)
    /\ UNCHANGED <<scenario, cluster>>

(* The next pair: who gets most from who gives most.                       *)
RebalancePair ==
    /\ job.kind = "rebalance" /\ job.table = <<>> /\ job.numslots = 0 /\ job.dst < job.src
    /\ LET dst == job.order[job.dst]
           src == job.order[job.src]
           numslots == Min({Abs(job.balance[dst]), Abs(job.balance[src])})
           table == IF numslots = 0 THEN <<>> ELSE clusterManagerComputeReshardTable({src}, numslots)
       IN  IF numslots # 0
           THEN IF Len(table) # numslots
                THEN job' = Idle /\ done' = [done EXCEPT !.kind = "rebalance", !.ok = FALSE, !.assertion = TRUE]
                ELSE job' = [job EXCEPT !.target = dst, !.table = table, !.numslots = numslots] /\ UNCHANGED done
           ELSE /\ job.balance[dst] = 0 \/ job.balance[src] = 0
                /\ job' = [job EXCEPT !.dst = IF job.balance[dst] = 0 THEN @ + 1 ELSE @,
                                      !.src = IF job.balance[src] = 0 THEN @ - 1 ELSE @]
                /\ UNCHANGED done
    /\ UNCHANGED <<scenario, cluster>>

PairMoved ==
    /\ job.kind = "rebalance" /\ job.table = <<>> /\ job.numslots > 0
    /\ LET dst == job.order[job.dst]
           src == job.order[job.src]
           b == [job.balance EXCEPT ![dst] = @ + job.numslots, ![src] = @ - job.numslots]
       IN  job' = [job EXCEPT !.balance = b, !.numslots = 0,
                              !.dst = IF b[dst] = 0 THEN @ + 1 ELSE @, !.src = IF b[src] = 0 THEN @ - 1 ELSE @]
    /\ UNCHANGED <<scenario, cluster, done>>

Rebalanced ==
    /\ job.kind = "rebalance" /\ job.table = <<>> /\ job.numslots = 0 /\ job.dst >= job.src
    /\ job' = Idle /\ done' = [done EXCEPT !.kind = "rebalance", !.ok = TRUE]
    /\ UNCHANGED <<scenario, cluster>>

----------------------------------------------------------------------------
(* The hosts of the nodes are inputs: the first node is of host 1, and so  *)
(* on in order of appearance.                                              *)
Init ==
    /\ scenario \in Scenarios
    /\ cluster \in {[ip |-> h, members |-> {}, owner |-> [s \in Slots |-> 0], replicate |-> [n \in All |-> 0]] :
                      h \in {h \in [1..N -> 1..scenario.Hosts] :
                               \A n \in 1..N : h[n] <= 1 + Max({0} \cup {h[m] : m \in 1..(n - 1)})}}
    /\ job = Idle
    /\ done = Fresh(0, 0)

Next ==
    \/ clusterManagerCommandCreate \/ clusterManagerOptimizeAntiAffinity \/ OptimizeEnd
    \/ clusterManagerFlushNodeConfig \/ Joined \/ Created
    \/ \E slave \in BOOLEAN : clusterManagerCommandAddNode(slave)
    \/ \E n \in All :
         \/ clusterManagerCommandDeleteNode(n)
         \/ \E sources \in SUBSET Masters, k \in Moves : clusterManagerCommandReshard(n, sources, k)
    \/ \E w \in Weights, empty \in BOOLEAN : clusterManagerCommandRebalance(w, empty)
    \/ clusterManagerMoveSlot \/ Resharded \/ RebalancePair \/ PairMoved \/ Rebalanced

Spec == Init /\ [][Next]_vars

----------------------------------------------------------------------------
(* Reference for the score: per replica on its master's host, and per      *)
(* group of replicas of a master that share another host.                  *)
Affinity(rep) ==
    LET slaves(h, m) == Cardinality({n \in 1..N : rep[n] = m /\ ip[n] = h})
        score(g) == IF ip[g[2]] = g[1] THEN 10000 * slaves(g[1], g[2])
                    ELSE IF slaves(g[1], g[2]) >= 2 THEN slaves(g[1], g[2]) ELSE 0
    IN  MapThenSumSet(score, {g \in Groups : rep[g[2]] = 0})

(* CreateSound: the cluster that create leaves behind, when it reports no  *)
(* error, has every slot at one master, ranges that differ by one slot at  *)
(* most, and as many replicas per master as asked for, or one more; the    *)
(* search for anti-affinity starts from the score it documents, finds a    *)
(* replica to move as long as that is not zero, and never ends worse.      *)
CreateSound ==
    /\ (job.kind = "create" /\ job.phase = "optimize") =>
         LET score == clusterManagerGetAntiAffinityScore(job.replicate)
         IN  score = Affinity(job.replicate) /\ score <= job.start /\ (score > 0 => Offending(job.replicate) # {})
    /\ (done.kind = "create" /\ done.ok /\ job.kind = "idle") =>
         /\ Sane
         /\ \A n, m \in {cluster.owner[s] : s \in Slots} : Abs(Count(n) - Count(m)) <= 1
         /\ Cardinality({cluster.owner[s] : s \in Slots}) = masters_count
         /\ \A n \in {cluster.owner[s] : s \in Slots} : replicas_count(n) \in {Replicas, Replicas + 1}

(* PlanSound: whatever commands follow, and wherever they stop, no slot is *)
(* left without an owner or given to a node that is not a master, and no   *)
(* replica follows a node that is not a member and a master.  A reshard    *)
(* moves no more slots than asked for, and less only by rounding: under    *)
(* one per source.  A rebalance makes no node both give and take, leaves   *)
(* every node its share, and its own assertion holds.                      *)
PlanSound ==
    (cluster.members # {} /\ Sane) =>
      /\ \A s \in Slots : cluster.owner[s] \in Masters
      /\ \A n \in cluster.members : cluster.replicate[n] # 0 => cluster.replicate[n] \in Masters
      /\ done.moved <= done.asked
      /\ done.moved > Min({done.asked, done.had}) - Max({1, done.sources})
      /\ ~done.assertion
      /\ (done.kind = "rebalance" /\ done.ok /\ job.kind = "idle") =>
           \A n \in DOMAIN done.expected :
             /\ Count(n) >= done.expected[n]
             /\ done.before[n] > done.expected[n] => Count(n) = done.expected[n]
             /\ Count(n) - done.expected[n] < Cardinality(DOMAIN done.expected)
=============================================================================
