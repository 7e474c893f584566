------------------------------ MODULE MCCluster -------------------------------
(***************************************************************************)
(* Redis Cluster: its bus, in a module with theorems, the slots and keys   *)
(* that move between its nodes, and the plans of redis-cli.  A behaviour   *)
(* of this module is a behaviour of one of the parts: the variables of the *)
(* bus stay in an initial state when it is another one.                    *)
(***************************************************************************)
EXTENDS Cluster, TLC

CONSTANTS A, B, C, S, T      \* nodes

VARIABLES part,
    conf, db, mig, chan, cli, client, history, count,    \* see Reshard
    scenario, cluster, job, done                         \* see ClusterManager

moveVars == <<conf, db, mig, chan, cli, client, history, count>>
planVars == <<scenario, cluster, job, done>>
allVars == <<part, vars, moveVars, planVars>>

-----------------------------------------------------------------------------
(* The bus: masters A, B and C own one slot each.  What each scenario *)
(* leaves out (links that are broken from the start, headers that are not   *)
(* sent) keeps the other interleavings few enough.                          *)

Both(n, m) == {<<n, m>>, <<m, n>>}

\* A has failed: S and T compete for the votes of B and C, which may crash.
ClusterElection ==
    [Masters |-> (A :> {1}) @@ (B :> {2}) @@ (C :> {3}), Replicas |-> (S :> A) @@ (T :> A),
     Rank |-> (A :> 1) @@ (B :> 2) @@ (C :> 3) @@ (S :> 4) @@ (T :> 5), Epoch |-> 3,
     Epochs |-> (A :> 1) @@ (B :> 2) @@ (C :> 3), Failed |-> {A},
     Cut |-> Both(S, T) \cup Both(B, C) \cup Both(A, B) \cup Both(A, S),
     Pings |-> {}, Timers |-> {"delay"}, MaxEpoch |-> 4, MaxOffset |-> 1,
     Events |-> [crash |-> 1, restart |-> 1]]

\* The elections are repeated.
Retries == [ClusterElection EXCEPT !.Timers = {"delay", "retry"}, !.MaxEpoch = 5, !.Events = <<>>]

TwoMasters == [ClusterElection EXCEPT !.Masters = (A :> {1}) @@ (B :> {2}), !.Replicas = S :> A, !.Epoch = 2,
                               !.MaxEpoch = 3, !.Failed = {}, !.Timers = {}]

\* S takes over while A is cut off, and the partition heals.
Heal == [TwoMasters EXCEPT !.Cut = Both(A, B) \cup Both(A, S), !.Pings = {<<A, B>>, <<A, S>>, <<B, A>>},
                     !.Events = [takeover |-> 1, cut |-> 2]]

\* Manual failovers, with writes.
Manual == [TwoMasters EXCEPT !.Masters = (A :> {1}), !.Pings = {<<A, S>>}, !.Timers = {"manual", "writable"},
                       !.MaxOffset = 3, !.Cut = {}, !.Events = [failover |-> 1]]

\* The same, without waiting for the master.
Forced == [Manual EXCEPT !.Events = [force |-> 1]]

\* A is cut off from C, and from B after a while or not: is it failing?
Detect == [ClusterElection EXCEPT !.Replicas = <<>>, !.Failed = {}, !.Timers = {"pfail"}, !.Cut = Both(A, C),
                           !.Pings = {<<B, C>>, <<C, B>>, <<A, B>>}, !.Events = [cut |-> 1]]

\* A new cluster: all epochs are 0.
Collide == [Detect EXCEPT !.Timers = {}, !.Epoch = 0, !.Epochs = (A :> 0) @@ (B :> 0) @@ (C :> 0),
                          !.Cut = {}, !.Pings = {<<A, B>>, <<B, C>>, <<C, A>>}, !.Events = <<>>]

\* B may lose its only replica, C; A has two.
Orphan == [TwoMasters EXCEPT !.Replicas = (S :> A) @@ (T :> A) @@ (C :> B), !.Cut = Both(A, C) \cup Both(S, T) \cup Both(S, C) \cup Both(B, C),
                       !.Timers = {"pfail", "orphan"}, !.Pings = {<<B, A>>}, !.Events = <<>>]

Clusters == {ClusterElection, Retries, Heal, Manual, Forced, Detect, Collide, Orphan}

ASSUME ConstantsOK

-----------------------------------------------------------------------------
(* A slot with two keys that moves between three masters.                   *)

Scenario(queryKeys, volatile, events) ==
    [MaxEpoch |-> 9, CheckOwners |-> FALSE, MaxQueryKeys |-> queryKeys, Volatile |-> volatile, Events |-> events]

\* Clients read and write, one or both keys, while the slot moves.
Clients == Scenario(2, {}, [reshard |-> 1, query |-> 1, write |-> 2])
\* ... and then moves on, or back, and a node is restarted.
Twice == Scenario(1, {}, [reshard |-> 2, query |-> 1, write |-> 1])
\* MIGRATE fails.
Faults == Scenario(1, {}, [reshard |-> 1, query |-> 1, write |-> 1, timeout |-> 1, error |-> 1])
\* A reshard is interrupted, and the slot fixed.
Killed == Scenario(1, {}, [reshard |-> 1, fix |-> 1, kill |-> 1, restart |-> 1])
\* The same, and MIGRATE fails in either.
FixAgain == Scenario(1, {}, [reshard |-> 1, fix |-> 2, kill |-> 1, timeout |-> 1, error |-> 1])
\* An operator leaves the slot in a strange state before it is fixed.
Confused == [Scenario(1, {}, [byhand |-> 3, fix |-> 1]) EXCEPT !.CheckOwners = TRUE]
Reshardings == {Clients, Twice, Faults, Killed, FixAgain, Confused}

Moving == INSTANCE Reshard WITH Nodes <- <<A, B, C>>, Keys <- {"k1", "k2"}, Scenarios <- Reshardings,
  hist <- history, used <- count

-----------------------------------------------------------------------------
(* Plans for five to eight nodes on two or three hosts.                     *)

Plan(nodes, hosts, replicas, slots, weights, ops, moves, jobs, faults) ==
  [Nodes |-> nodes, Hosts |-> hosts, Replicas |-> replicas, Slots |-> slots, Weights |-> weights, Ops |-> ops,
   Moves |-> moves, MaxJobs |-> jobs, MaxFaults |-> faults]

Weighted(nodes) == {[n \in 1..(nodes + 1) |-> 1], [n \in 1..(nodes + 1) |-> n % 3]}

Plans ==
  {Plan(7, 2, 1, 10, {}, {}, {}, 0, 0), Plan(6, 3, 1, 5, {}, {}, {}, 0, 0),
   Plan(6, 1, 1, 4, {}, {"add", "del", "reshard"}, {3}, 2, 1),
   Plan(3, 1, 0, 8, Weighted(3), {"add", "reshard", "rebalance"}, {2, 5}, 2, 0)}

Manager == INSTANCE ClusterManager WITH Scenarios <- Plans

-----------------------------------------------------------------------------
NoMove ==
  /\ conf = 0 /\ db = 0 /\ mig = 0 /\ chan = 0
  /\ cli = 0 /\ client = 0 /\ history = 0 /\ count = 0

NoPlan == scenario = 0 /\ cluster = 0 /\ job = 0 /\ done = 0

ClusterInit ==
  /\ Init
  /\ \/ part = "bus" /\ NoMove /\ NoPlan
     \/ part = "reshard" /\ Moving!Init /\ NoPlan
     \/ part = "manager" /\ Manager!Init /\ NoMove
  /\ part # "bus" => used.scenario = Heal

ClusterNext ==
  /\ \/ part = "bus" /\ Next /\ UNCHANGED <<moveVars, planVars>>
     \/ part = "reshard" /\ Moving!Next /\ UNCHANGED <<vars, planVars>>
     \/ part = "manager" /\ Manager!Next /\ UNCHANGED <<vars, moveVars>>
  /\ UNCHANGED part

ClusterSpec == ClusterInit /\ [][ClusterNext]_allVars

-----------------------------------------------------------------------------
\* See Reshard: ServedIsLatest and FixRestores.
KeysFollowSlots == part = "reshard" => Moving!ServedIsLatest /\ Moving!FixRestores

\* See ClusterManager: CreateSound and PlanSound.
ManagerSound == part = "manager" => Manager!CreateSound /\ Manager!PlanSound
=============================================================================
