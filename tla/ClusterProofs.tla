---------------------------- MODULE ClusterProofs ----------------------------
(***************************************************************************)
(* For any cluster, with any number of nodes, slots, epochs, crashes,      *)
(* partitions and lost messages: the tables of every node agree, and a     *)
(* master votes once in an epoch, across restarts.                         *)
(***************************************************************************)
EXTENDS Cluster, TLAPS

Fields ==
    {"up", "state", "size", "disk", "currentEpoch", "lastVoteEpoch", "nodes", "slots", "auth", "mf"}

\* What a node knows of node n of N, in epoch cur.
InfoOK(N, n, i, cur) ==
    /\ DOMAIN i = {"slaveof", "configEpoch", "flag", "reports", "migrate_to"}
    /\ i.slaveof \in N \cup {NULL} /\ i.slaveof # n
    /\ i.configEpoch \in Nat /\ i.configEpoch <= cur

NodesOK(N, nodes, cur) ==
    /\ DOMAIN nodes = N /\ NULL \notin N
    /\ \A n \in N : InfoOK(N, n, nodes[n], cur)

\* The slots J belong to masters.
SlotsOK(N, J, nodes, slots) ==
    /\ DOMAIN slots = J
    /\ \A j \in J : slots[j] # NULL => slots[j] \in N /\ nodes[slots[j]].slaveof = NULL

EpochsOK(cur, vote) == cur \in Nat /\ vote \in Nat /\ vote <= cur

\* What the file of a node holds: the epoch of its last vote.
DiskOK(N, J, d, vote) ==
    /\ d.lastVoteEpoch = vote
    /\ EpochsOK(d.currentEpoch, d.lastVoteEpoch)
    /\ NodesOK(N, d.nodes, d.currentEpoch) /\ SlotsOK(N, J, d.nodes, d.slots)

AuthOK(a, cur) == DOMAIN a = {"state", "epoch", "count"} /\ a.epoch \in Nat /\ a.epoch <= cur

StateOK(N, J, x) ==
    /\ DOMAIN x = Fields
    /\ EpochsOK(x.currentEpoch, x.lastVoteEpoch)
    /\ NodesOK(N, x.nodes, x.currentEpoch) /\ SlotsOK(N, J, x.nodes, x.slots)
    /\ DiskOK(N, J, x.disk, x.lastVoteEpoch)
    /\ AuthOK(x.auth, x.currentEpoch)

\* A step from x to y that casts no vote.
Keeps(N, J, x, y) ==
    StateOK(N, J, y) /\ y.lastVoteEpoch = x.lastVoteEpoch /\ y.currentEpoch >= x.currentEpoch

-----------------------------------------------------------------------------
(* Changes of the tables.                                                  *)

\* The newest epoch of two.
LEMMA MaxOfTwo ==
  ASSUME NEW a \in Nat, NEW b \in Nat
  PROVE  Max({a, b}) \in Nat /\ Max({a, b}) >= a /\ Max({a, b}) >= b /\ Max({a, b}) \in {a, b}
  BY DEF Max

\* No epoch is behind itself.
LEMMA NotBehind == \A e \in Nat : e >= e
  OBVIOUS

\* Later epochs are no harm.
LEMMA LaterNodes ==
  ASSUME NEW N, NEW nodes, NEW cur \in Nat, NEW e \in Nat, e >= cur, NodesOK(N, nodes, cur)
  PROVE  NodesOK(N, nodes, e)
  BY DEF NodesOK, InfoOK

\* The file leaves out only the failure reports and the migration flags.
LEMMA SavedOK ==
  ASSUME NEW x, StateOK(Nodes, Slots, x)
  PROVE  /\ NodesOK(Nodes, Saved(x.nodes), x.currentEpoch)
         /\ SlotsOK(Nodes, Slots, Saved(x.nodes), x.slots)
  <1> DEFINE nodes == Saved(x.nodes)
  <1>1. NodesOK(Nodes, x.nodes, x.currentEpoch) /\ SlotsOK(Nodes, Slots, x.nodes, x.slots)
    BY Zenon DEF StateOK
  <1>2. DOMAIN nodes = Nodes
    BY Zenon DEF Saved
  <1>3. ASSUME NEW n \in Nodes
        PROVE  /\ InfoOK(Nodes, n, nodes[n], x.currentEpoch)
               /\ nodes[n].slaveof = x.nodes[n].slaveof
    <2> DEFINE i == x.nodes[n]
    <2>1. nodes[n] = [i EXCEPT !.reports = {}, !.migrate_to = FALSE]
      BY Zenon DEF Saved
    <2>2. InfoOK(Nodes, n, i, x.currentEpoch)
      BY Zenon, <1>1 DEF NodesOK
    <2> HIDE DEF nodes, i
    <2>3. /\ DOMAIN nodes[n] = DOMAIN i /\ nodes[n].slaveof = i.slaveof
          /\ nodes[n].configEpoch = i.configEpoch
      BY <2>1, <2>2 DEF InfoOK
    <2>4. QED
      BY Zenon, <2>2, <2>3 DEF InfoOK, i
  <1> HIDE DEF nodes
  <1>4. NodesOK(Nodes, nodes, x.currentEpoch)
    BY Zenon, <1>1, <1>2, <1>3 DEF NodesOK
  <1>5. SlotsOK(Nodes, Slots, nodes, x.slots)
    BY Zenon, <1>1, <1>3 DEF SlotsOK
  <1>6. QED
    BY Zenon, <1>4, <1>5 DEF nodes

\* A node may save its configuration at any time.
LEMMA SaveOK ==
  ASSUME NEW x, StateOK(Nodes, Slots, x)
  PROVE  LET y == clusterSaveConfig(x)
         IN  /\ Keeps(Nodes, Slots, x, y)
             /\ y.nodes = x.nodes /\ y.slots = x.slots /\ y.currentEpoch = x.currentEpoch
             /\ y.auth = x.auth /\ y.mf = x.mf
  <1> DEFINE d == [currentEpoch |-> x.currentEpoch, lastVoteEpoch |-> x.lastVoteEpoch,
                   nodes |-> Saved(x.nodes), slots |-> x.slots]
             y == [x EXCEPT !.disk = d]
  <1>0. clusterSaveConfig(x) = y
    BY DEF clusterSaveConfig
  <1>1. /\ d.currentEpoch = x.currentEpoch /\ d.lastVoteEpoch = x.lastVoteEpoch
        /\ d.nodes = Saved(x.nodes) /\ d.slots = x.slots
    OBVIOUS
  <1> HIDE DEF d
  <1>2. /\ DOMAIN y = Fields /\ y.currentEpoch = x.currentEpoch /\ y.lastVoteEpoch = x.lastVoteEpoch
        /\ y.nodes = x.nodes /\ y.slots = x.slots /\ y.disk = d /\ y.auth = x.auth /\ y.mf = x.mf
    BY DEF StateOK, Fields
  <1> HIDE DEF y
  <1>3. /\ NodesOK(Nodes, Saved(x.nodes), x.currentEpoch)
        /\ SlotsOK(Nodes, Slots, Saved(x.nodes), x.slots)
    BY SavedOK
  <1>4. DiskOK(Nodes, Slots, d, x.lastVoteEpoch)
    BY <1>1, <1>3 DEF StateOK, DiskOK
  <1>5. StateOK(Nodes, Slots, y)
    BY <1>2, <1>4 DEF StateOK
  <1>6. y.currentEpoch >= x.currentEpoch
    BY <1>2 DEF StateOK, EpochsOK
  <1>7. QED
    BY <1>0, <1>2, <1>5, <1>6 DEF Keeps

\* What is left to show when y has the file, the vote and the election of x.
LEMMA TablesOK ==
  ASSUME NEW N, NEW J, NEW x, NEW y, StateOK(N, J, x),
         DOMAIN y = Fields, y.disk = x.disk, y.lastVoteEpoch = x.lastVoteEpoch, y.auth = x.auth,
         y.currentEpoch \in Nat, y.currentEpoch >= x.currentEpoch,
         NodesOK(N, y.nodes, y.currentEpoch), SlotsOK(N, J, y.nodes, y.slots)
  PROVE  Keeps(N, J, x, y)
  <1>1. EpochsOK(y.currentEpoch, y.lastVoteEpoch) /\ AuthOK(y.auth, y.currentEpoch)
    BY DEF StateOK, EpochsOK, AuthOK
  <1>2. StateOK(N, J, y)
    BY <1>1 DEF StateOK
  <1>3. QED
    BY <1>2 DEF Keeps

\* y has the masters, replicas and slots of x.
SameRoles(N, x, y) ==
    y.slots = x.slots /\ \A n \in N : y.nodes[n].slaveof = x.nodes[n].slaveof

\* y is as good as x, with the same roles and the same epoch.
Same(N, J, x, y) == Keeps(N, J, x, y) /\ SameRoles(N, x, y) /\ y.currentEpoch = x.currentEpoch

\* Two steps without a vote are one.
LEMMA KeepsTrans ==
  ASSUME NEW N, NEW J, NEW x, NEW y, NEW z, StateOK(N, J, x), Keeps(N, J, x, y), Keeps(N, J, y, z)
  PROVE  Keeps(N, J, x, z)
  BY DEF Keeps, StateOK, EpochsOK

\* What a node knows of the others may change, but for their roles.
LEMMA NodesOnlyOK ==
  ASSUME NEW x, StateOK(Nodes, Slots, x), NEW nodes, NodesOK(Nodes, nodes, x.currentEpoch),
         \A n \in Nodes : nodes[n].slaveof = x.nodes[n].slaveof
  PROVE  LET y == [x EXCEPT !.nodes = nodes]
         IN  Same(Nodes, Slots, x, y) /\ y.nodes = nodes /\ y.auth = x.auth
  <1> DEFINE y == [x EXCEPT !.nodes = nodes]
  <1>1. /\ DOMAIN y = Fields /\ y.disk = x.disk /\ y.lastVoteEpoch = x.lastVoteEpoch
        /\ y.auth = x.auth /\ y.currentEpoch = x.currentEpoch /\ y.slots = x.slots /\ y.nodes = nodes
    BY DEF StateOK, Fields
  <1> HIDE DEF y
  <1>2. SlotsOK(Nodes, Slots, nodes, x.slots) /\ x.currentEpoch \in Nat
    BY DEF StateOK, SlotsOK, EpochsOK
  <1>3. y.currentEpoch >= x.currentEpoch
    BY <1>1, <1>2
  <1>4. Keeps(Nodes, Slots, x, y)
    BY <1>1, <1>2, <1>3, TablesOK
  <1>5. QED
    BY <1>1, <1>4 DEF SameRoles, Same, y

\* A flag of a node may change.
LEMMA FlagOK ==
  ASSUME NEW x, StateOK(Nodes, Slots, x), NEW n \in Nodes, NEW f
  PROVE  Same(Nodes, Slots, x, [x EXCEPT !.nodes[n].flag = f])
  <1> DEFINE nodes == [x.nodes EXCEPT ![n].flag = f]
  <1>1. [x EXCEPT !.nodes[n].flag = f] = [x EXCEPT !.nodes = nodes]
    BY DEF StateOK, Fields
  <1>2. /\ NodesOK(Nodes, nodes, x.currentEpoch)
        /\ \A m \in Nodes : nodes[m].slaveof = x.nodes[m].slaveof
    BY DEF StateOK, NodesOK, InfoOK
  <1> HIDE DEF nodes
  <1>3. QED
    BY <1>1, <1>2, NodesOnlyOK

\* Whether replicas may move to a node may change.
LEMMA MigrateOK ==
  ASSUME NEW x, StateOK(Nodes, Slots, x), NEW n \in Nodes, NEW f
  PROVE  Same(Nodes, Slots, x, [x EXCEPT !.nodes[n].migrate_to = f])
  <1> DEFINE nodes == [x.nodes EXCEPT ![n].migrate_to = f]
  <1>1. [x EXCEPT !.nodes[n].migrate_to = f] = [x EXCEPT !.nodes = nodes]
    BY DEF StateOK, Fields
  <1>2. /\ NodesOK(Nodes, nodes, x.currentEpoch)
        /\ \A m \in Nodes : nodes[m].slaveof = x.nodes[m].slaveof
    BY DEF StateOK, NodesOK, InfoOK
  <1> HIDE DEF nodes
  <1>3. QED
    BY <1>1, <1>2, NodesOnlyOK

\* A configuration epoch may change up to the current epoch.
LEMMA ConfigEpochOK ==
  ASSUME NEW x, StateOK(Nodes, Slots, x), NEW n \in Nodes, NEW e \in Nat, e <= x.currentEpoch
  PROVE  Same(Nodes, Slots, x, [x EXCEPT !.nodes[n].configEpoch = e])
  <1> DEFINE nodes == [x.nodes EXCEPT ![n].configEpoch = e]
  <1>1. [x EXCEPT !.nodes[n].configEpoch = e] = [x EXCEPT !.nodes = nodes]
    BY DEF StateOK, Fields
  <1>2. /\ NodesOK(Nodes, nodes, x.currentEpoch)
        /\ \A m \in Nodes : nodes[m].slaveof = x.nodes[m].slaveof
    BY DEF StateOK, NodesOK, InfoOK
  <1> HIDE DEF nodes
  <1>3. QED
    BY <1>1, <1>2, NodesOnlyOK

\* The current epoch may grow.
LEMMA EpochOK ==
  ASSUME NEW x, StateOK(Nodes, Slots, x), NEW e \in Nat, e >= x.currentEpoch
  PROVE  LET y == [x EXCEPT !.currentEpoch = e]
         IN  /\ Keeps(Nodes, Slots, x, y) /\ y.currentEpoch = e /\ y.nodes = x.nodes
             /\ y.slots = x.slots /\ y.auth = x.auth
  <1> DEFINE y == [x EXCEPT !.currentEpoch = e]
  <1>1. /\ DOMAIN y = Fields /\ y.disk = x.disk /\ y.lastVoteEpoch = x.lastVoteEpoch
        /\ y.auth = x.auth /\ y.currentEpoch = e /\ y.slots = x.slots /\ y.nodes = x.nodes
    BY DEF StateOK, Fields
  <1> HIDE DEF y
  <1>2. SlotsOK(Nodes, Slots, x.nodes, x.slots) /\ NodesOK(Nodes, x.nodes, e)
    BY LaterNodes DEF StateOK, EpochsOK
  <1>3. Keeps(Nodes, Slots, x, y)
    BY <1>1, <1>2, TablesOK
  <1>4. QED
    BY <1>1, <1>3 DEF y

\* Both at once.
WithEpochs(x, n, c, e) == [x EXCEPT !.currentEpoch = e, !.nodes[n].configEpoch = c]

\* The current epoch may grow together with the configuration epoch of a node.
LEMMA BothEpochsOK ==
  ASSUME NEW x, StateOK(Nodes, Slots, x), NEW n \in Nodes, NEW c \in Nat, NEW e \in Nat,
         e >= x.currentEpoch, c <= e
  PROVE  LET y == WithEpochs(x, n, c, e)
         IN  Keeps(Nodes, Slots, x, y) /\ SameRoles(Nodes, x, y) /\ y.currentEpoch = e
  <1> DEFINE z == [x EXCEPT !.currentEpoch = e]
             y == [z EXCEPT !.nodes[n].configEpoch = c]
  <1>1. WithEpochs(x, n, c, e) = y
    BY DEF WithEpochs
  <1>2. /\ Keeps(Nodes, Slots, x, z) /\ z.currentEpoch = e /\ z.nodes = x.nodes /\ z.slots = x.slots
        /\ StateOK(Nodes, Slots, z)
    BY EpochOK DEF Keeps
  <1> HIDE DEF z
  <1>3. Same(Nodes, Slots, z, y)
    BY <1>2, ConfigEpochOK
  <1> HIDE DEF y
  <1>4. Keeps(Nodes, Slots, x, y)
    BY <1>2, <1>3, KeepsTrans DEF Same
  <1>5. QED
    BY <1>1, <1>2, <1>3, <1>4 DEF Same, SameRoles

\* The fields that the tables are not in may change.
LEMMA AsideOK ==
  ASSUME NEW x, NEW y, StateOK(Nodes, Slots, x), DOMAIN y = Fields, y.disk = x.disk,
         y.currentEpoch = x.currentEpoch, y.lastVoteEpoch = x.lastVoteEpoch,
         y.nodes = x.nodes, y.slots = x.slots, y.auth = x.auth
  PROVE  Same(Nodes, Slots, x, y)
  <1>1. StateOK(Nodes, Slots, y)
    BY DEF StateOK
  <1>2. y.currentEpoch >= x.currentEpoch
    BY DEF StateOK, EpochsOK
  <1>3. QED
    BY <1>1, <1>2 DEF Same, SameRoles, Keeps

\* A step may change nothing.
LEMMA SameSelf ==
  ASSUME NEW x, StateOK(Nodes, Slots, x)
  PROVE  Same(Nodes, Slots, x, x)
  BY AsideOK DEF StateOK

\* Manual failovers come and go.
LEMMA ManualOK ==
  ASSUME NEW x, StateOK(Nodes, Slots, x), NEW v
  PROVE  Same(Nodes, Slots, x, [x EXCEPT !.mf = v])
  <1> DEFINE y == [x EXCEPT !.mf = v]
  <1>1. /\ DOMAIN y = Fields /\ y.disk = x.disk /\ y.lastVoteEpoch = x.lastVoteEpoch
        /\ y.auth = x.auth /\ y.currentEpoch = x.currentEpoch /\ y.slots = x.slots /\ y.nodes = x.nodes
    BY DEF StateOK, Fields
  <1> HIDE DEF y
  <1>2. QED
    BY <1>1, AsideOK DEF y

\* clusterUpdateState sets the state and the size of the cluster.
LEMMA UpdateStateOK ==
  ASSUME NEW x, StateOK(Nodes, Slots, x), NEW me, NEW late
  PROVE  Same(Nodes, Slots, x, clusterUpdateState(x, me, late))
  <1> DEFINE y == clusterUpdateState(x, me, late)
  <1>1. PICK size, state : y \in {x, [x EXCEPT !.size = size, !.state = state]}
    BY DEF clusterUpdateState
  <1> HIDE DEF y
  <1>2. /\ DOMAIN y = Fields /\ y.disk = x.disk /\ y.lastVoteEpoch = x.lastVoteEpoch
        /\ y.auth = x.auth /\ y.currentEpoch = x.currentEpoch /\ y.slots = x.slots /\ y.nodes = x.nodes
    BY <1>1 DEF StateOK, Fields
  <1>3. QED
    BY <1>2, AsideOK DEF y

\* What clusterLoadConfig makes of a file.
LEMMA LoadOK ==
  ASSUME NEW d, DiskOK(Nodes, Slots, d, d.lastVoteEpoch)
  PROVE  LET y == clusterLoadConfig(d)
         IN  /\ StateOK(Nodes, Slots, y) /\ y.lastVoteEpoch = d.lastVoteEpoch
             /\ y.nodes = d.nodes /\ y.slots = d.slots
  <1> DEFINE x == [up |-> TRUE, state |-> "fail", size |-> 1, disk |-> d,
                   currentEpoch |-> d.currentEpoch, lastVoteEpoch |-> d.lastVoteEpoch,
                   nodes |-> d.nodes, slots |-> d.slots, auth |-> NoElection, mf |-> NoManual]
             e == clusterGetMaxEpoch(x)
             y == [x EXCEPT !.currentEpoch = e]
  <1>1. clusterLoadConfig(d) = y
    BY DEF clusterLoadConfig
  <1>2. /\ DOMAIN x = Fields /\ x.disk = d /\ x.currentEpoch = d.currentEpoch
        /\ x.lastVoteEpoch = d.lastVoteEpoch /\ x.nodes = d.nodes /\ x.slots = d.slots
        /\ x.auth = NoElection
    BY DEF Fields
  <1> HIDE DEF x
  <1>3. d.currentEpoch \in Nat /\ \A n \in Nodes : d.nodes[n].configEpoch \in Nat /\ d.nodes[n].configEpoch <= d.currentEpoch
    BY DEF DiskOK, NodesOK, InfoOK, EpochsOK
  <1>4. AuthOK(NoElection, d.currentEpoch)
    BY <1>3 DEF AuthOK, NoElection
  <1>5. StateOK(Nodes, Slots, x)
    BY <1>2, <1>4 DEF StateOK, DiskOK
  <1>6. e = d.currentEpoch
    <2> DEFINE T == {d.currentEpoch} \cup {d.nodes[n].configEpoch : n \in Nodes}
    <2>1. e = Max(T)
      BY <1>2 DEF clusterGetMaxEpoch
    <2>2. d.currentEpoch \in T /\ \A t \in T : t \in Nat /\ d.currentEpoch >= t
      BY <1>3
    <2> HIDE DEF T
    <2>3. QED
      BY <1>3, <2>1, <2>2 DEF Max
  <1> HIDE DEF e
  <1>7. e \in Nat /\ e >= x.currentEpoch
    BY <1>2, <1>3, <1>6
  <1>8. QED
    BY <1>1, <1>2, <1>5, <1>7, EpochOK DEF Keeps

-----------------------------------------------------------------------------
(* Changes of roles and slots.                                             *)

\* y differs from x in that s replicates from m, or is a master if m is NULL.
Replicates(N, x, y, s, m) ==
    /\ y.slots = x.slots
    /\ \A n \in N : y.nodes[n].slaveof = IF n = s THEN m ELSE x.nodes[n].slaveof

\* A node may become a master, and a node without slots the replica of another.
LEMMA RoleOK ==
  ASSUME NEW x, StateOK(Nodes, Slots, x), NEW s \in Nodes, NEW m \in Nodes \cup {NULL}, m # s,
         m # NULL => \A j \in Slots : x.slots[j] # s
  PROVE  LET y == [x EXCEPT !.nodes[s].slaveof = m]
         IN  /\ Keeps(Nodes, Slots, x, y) /\ Replicates(Nodes, x, y, s, m)
             /\ y.currentEpoch = x.currentEpoch
  <1> DEFINE nodes == [x.nodes EXCEPT ![s].slaveof = m]
             y == [x EXCEPT !.nodes[s].slaveof = m]
  <1>1. /\ DOMAIN y = Fields /\ y.disk = x.disk /\ y.lastVoteEpoch = x.lastVoteEpoch
        /\ y.auth = x.auth /\ y.currentEpoch = x.currentEpoch /\ y.slots = x.slots /\ y.nodes = nodes
    BY DEF StateOK, Fields
  <1> HIDE DEF y
  <1>2. /\ NodesOK(Nodes, nodes, x.currentEpoch)
        /\ \A n \in Nodes : nodes[n].slaveof = IF n = s THEN m ELSE x.nodes[n].slaveof
    BY DEF StateOK, NodesOK, InfoOK
  <1> HIDE DEF nodes
  <1>3. SlotsOK(Nodes, Slots, nodes, x.slots) /\ x.currentEpoch \in Nat
    BY <1>2 DEF StateOK, SlotsOK, EpochsOK
  <1>4. y.currentEpoch >= x.currentEpoch
    BY <1>1, <1>3
  <1>5. Keeps(Nodes, Slots, x, y)
    BY <1>1, <1>2, <1>3, <1>4, TablesOK
  <1>6. Replicates(Nodes, x, y, s, m)
    BY <1>1, <1>2 DEF Replicates
  <1>7. QED
    BY <1>1, <1>5, <1>6 DEF y

\* The master of a node in a table is another node.
LEMMA MasterOfOK ==
  ASSUME NEW x, StateOK(Nodes, Slots, x), NEW n \in Nodes
  PROVE  /\ x.nodes[n].slaveof \in Nodes \cup {NULL} /\ x.nodes[n].slaveof # n /\ n # NULL
         /\ x.nodes[n].configEpoch \in Nat /\ x.nodes[n].configEpoch <= x.currentEpoch
  BY DEF StateOK, NodesOK, InfoOK

\* The slots of a table belong to masters.
LEMMA OwnersOK ==
  ASSUME NEW x, StateOK(Nodes, Slots, x), NEW j \in Slots, x.slots[j] # NULL
  PROVE  x.slots[j] \in Nodes /\ x.nodes[x.slots[j]].slaveof = NULL
  BY DEF StateOK, SlotsOK

\* When a replica leaves, nothing but migrate_to of its master changes.
LEMMA RemoveSlaveOK ==
  ASSUME NEW x, StateOK(Nodes, Slots, x), NEW s \in Nodes
  PROVE  Same(Nodes, Slots, x, RemoveSlave(x, s))
  <1> DEFINE m == x.nodes[s].slaveof
             y == RemoveSlave(x, s)
  <1>1. m \in Nodes \cup {NULL}
    BY MasterOfOK
  <1>2. CASE m # NULL /\ SlavesOf(x, m) = {s}
    <2>1. y = [x EXCEPT !.nodes[m].migrate_to = FALSE]
      BY <1>2 DEF RemoveSlave
    <2>2. m \in Nodes
      BY <1>1, <1>2
    <2> HIDE DEF m, y
    <2>3. QED
      BY <2>1, <2>2, MigrateOK DEF y
  <1>3. CASE ~(m # NULL /\ SlavesOf(x, m) = {s})
    <2>1. y = x
      BY <1>3 DEF RemoveSlave
    <2> HIDE DEF y
    <2>2. QED
      BY <2>1, SameSelf DEF y
  <1>4. QED
    BY <1>2, <1>3

\* clusterSetNodeAsMaster makes a replica a master.
LEMMA SetNodeAsMasterOK ==
  ASSUME NEW x, StateOK(Nodes, Slots, x), NEW me, NEW n \in Nodes
  PROVE  LET y == clusterSetNodeAsMaster(x, me, n)
         IN  /\ Keeps(Nodes, Slots, x, y) /\ Replicates(Nodes, x, y, n, NULL)
             /\ y.currentEpoch = x.currentEpoch
  <1> DEFINE y == clusterSetNodeAsMaster(x, me, n)
  <1>1. CASE IsMaster(x, n)
    <2>1. y = x
      BY <1>1 DEF clusterSetNodeAsMaster
    <2> HIDE DEF y
    <2>2. QED
      BY <1>1, <2>1 DEF Replicates, Keeps, IsMaster, StateOK, EpochsOK, y
  <1>2. CASE ~IsMaster(x, n)
    <2> DEFINE r == RemoveSlave(x, n)
               z == [r EXCEPT !.nodes[n].slaveof = NULL]
               f == z.nodes[n].migrate_to \/ n # me
    <2>1. y = [z EXCEPT !.nodes[n].migrate_to = f]
      BY <1>2 DEF clusterSetNodeAsMaster
    <2>2. Same(Nodes, Slots, x, r)
      BY RemoveSlaveOK
    <2>3. NULL # n
      BY <1>2, MasterOfOK DEF IsMaster
    <2> HIDE DEF r
    <2>4. Keeps(Nodes, Slots, r, z) /\ Replicates(Nodes, r, z, n, NULL) /\ z.currentEpoch = r.currentEpoch
      BY <2>2, <2>3, RoleOK DEF Same, Keeps
    <2> HIDE DEF z
    <2>5. Same(Nodes, Slots, z, y)
      BY <2>1, <2>4, MigrateOK DEF Keeps
    <2> HIDE DEF y, f
    <2>6. Keeps(Nodes, Slots, x, y)
      BY <2>2, <2>4, <2>5, KeepsTrans DEF Same, Keeps
    <2>7. QED
      BY <2>2, <2>4, <2>5, <2>6 DEF Same, SameRoles, Replicates, y
  <1>3. QED
    BY <1>1, <1>2

\* A node without slots becomes the replica of another.
LEMMA SetSlaveofOK ==
  ASSUME NEW x, StateOK(Nodes, Slots, x), NEW s \in Nodes, NEW m \in Nodes, m # s,
         \A j \in Slots : x.slots[j] # s
  PROVE  LET y == SetSlaveof(x, s, m)
         IN  /\ Keeps(Nodes, Slots, x, y) /\ Replicates(Nodes, x, y, s, m)
             /\ y.currentEpoch = x.currentEpoch
  <1> DEFINE r == RemoveSlave(x, s)
             z == [r EXCEPT !.nodes[s].slaveof = m]
             y == SetSlaveof(x, s, m)
  <1>1. y = [z EXCEPT !.nodes[m].migrate_to = TRUE]
    BY DEF SetSlaveof
  <1>2. Same(Nodes, Slots, x, r)
    BY RemoveSlaveOK
  <1> HIDE DEF r
  <1>3. Keeps(Nodes, Slots, r, z) /\ Replicates(Nodes, r, z, s, m) /\ z.currentEpoch = r.currentEpoch
    BY <1>2, RoleOK DEF Same, SameRoles, Keeps
  <1> HIDE DEF z
  <1>4. Same(Nodes, Slots, z, y)
    BY <1>1, <1>3, MigrateOK DEF Keeps
  <1> HIDE DEF y
  <1>5. Keeps(Nodes, Slots, x, y)
    BY <1>2, <1>3, <1>4, KeepsTrans DEF Same, Keeps
  <1>6. QED
    BY <1>2, <1>3, <1>4, <1>5 DEF Same, SameRoles, Replicates, y

\* clusterSetMaster makes a node without slots the replica of another.
LEMMA SetMasterOK ==
  ASSUME NEW x, StateOK(Nodes, Slots, x), NEW me \in Nodes, NEW m \in Nodes, m # me,
         \A j \in Slots : x.slots[j] # me
  PROVE  LET y == clusterSetMaster(x, me, m)
         IN  Keeps(Nodes, Slots, x, y) /\ y.currentEpoch = x.currentEpoch
  <1> DEFINE w == IF IsMaster(x, me) THEN [x EXCEPT !.nodes[me].migrate_to = FALSE] ELSE x
             z == SetSlaveof(w, me, m)
             y == clusterSetMaster(x, me, m)
  <1>1. y = [z EXCEPT !.mf = NoManual]
    BY DEF clusterSetMaster
  <1>2. Same(Nodes, Slots, x, w)
    <2>1. Same(Nodes, Slots, x, x)
      BY SameSelf
    <2>2. Same(Nodes, Slots, x, [x EXCEPT !.nodes[me].migrate_to = FALSE])
      BY MigrateOK
    <2>3. QED
      BY <2>1, <2>2
  <1> HIDE DEF w
  <1>3. Keeps(Nodes, Slots, w, z) /\ z.currentEpoch = w.currentEpoch
    BY <1>2, SetSlaveofOK DEF Same, SameRoles, Keeps
  <1> HIDE DEF z
  <1>4. Same(Nodes, Slots, z, y)
    BY <1>1, <1>3, ManualOK DEF Keeps
  <1> HIDE DEF y
  <1>5. QED
    BY <1>2, <1>3, <1>4, KeepsTrans DEF Same, Keeps, y

\* Slots may be given to masters, and taken from anybody.
LEMMA SlotsOnlyOK ==
  ASSUME NEW x, StateOK(Nodes, Slots, x), NEW slots, DOMAIN slots = Slots,
         \A j \in Slots : slots[j] # NULL => slots[j] \in Nodes /\ x.nodes[slots[j]].slaveof = NULL
  PROVE  LET y == [x EXCEPT !.slots = slots]
         IN  /\ Keeps(Nodes, Slots, x, y) /\ y.currentEpoch = x.currentEpoch
             /\ y.slots = slots /\ y.nodes = x.nodes
  <1> DEFINE y == [x EXCEPT !.slots = slots]
  <1>1. /\ DOMAIN y = Fields /\ y.disk = x.disk /\ y.lastVoteEpoch = x.lastVoteEpoch
        /\ y.auth = x.auth /\ y.currentEpoch = x.currentEpoch /\ y.slots = slots /\ y.nodes = x.nodes
    BY DEF StateOK, Fields
  <1> HIDE DEF y
  <1>2. /\ SlotsOK(Nodes, Slots, x.nodes, slots) /\ x.currentEpoch \in Nat
        /\ NodesOK(Nodes, x.nodes, x.currentEpoch)
    BY DEF StateOK, SlotsOK, EpochsOK
  <1>3. y.currentEpoch >= x.currentEpoch
    BY <1>1, <1>2
  <1>4. Keeps(Nodes, Slots, x, y)
    BY <1>1, <1>2, <1>3, TablesOK
  <1>5. QED
    BY <1>1, <1>4 DEF y

\* clusterUpdateSlotsConfigWith gives slots to a master, whose replica the node
\* becomes when it loses its last one.
LEMMA UpdateSlotsOK ==
  ASSUME NEW x, StateOK(Nodes, Slots, x), NEW me \in Nodes, NEW n \in Nodes, NEW epoch, NEW slots,
         IsMaster(x, n), slots \subseteq Slots
  PROVE  Keeps(Nodes, Slots, x, clusterUpdateSlotsConfigWith(x, me, n, epoch, slots))
  <1> DEFINE cur == IF IsMaster(x, me) THEN me ELSE x.nodes[me].slaveof
             taken == {j \in slots : /\ x.slots[j] # n
                                     /\ x.slots[j] = NULL \/ x.nodes[x.slots[j]].configEpoch < epoch}
             table == [j \in Slots |-> IF j \in taken THEN n ELSE x.slots[j]]
             y == [x EXCEPT !.slots = table]
             lost == \E j \in taken : x.slots[j] = cur
             z == IF lost /\ SlotsOf(y, cur) = {} THEN clusterSetMaster(y, me, n) ELSE y
             r == clusterUpdateSlotsConfigWith(x, me, n, epoch, slots)
  <1>1. r = IF n = me \/ taken = {} THEN x ELSE clusterSaveConfig(z)
    BY DEF clusterUpdateSlotsConfigWith
  <1>2. CASE n = me \/ taken = {}
    <2>1. Same(Nodes, Slots, x, x)
      BY SameSelf
    <2>2. r = x
      BY <1>1, <1>2
    <2> HIDE DEF r
    <2>3. QED
      BY <2>1, <2>2 DEF Same, r
  <1>3. CASE ~(n = me \/ taken = {})
    <2>1. /\ DOMAIN table = Slots
          /\ \A j \in Slots : table[j] # NULL => table[j] \in Nodes /\ x.nodes[table[j]].slaveof = NULL
      BY OwnersOK DEF IsMaster
    <2> HIDE DEF table, taken, lost
    <2>2. Keeps(Nodes, Slots, x, y) /\ y.nodes = x.nodes
      BY <2>1, SlotsOnlyOK
    <2> HIDE DEF y
    <2>3. Keeps(Nodes, Slots, y, z)
      <3>1. CASE lost /\ SlotsOf(y, cur) = {}
        <4>1. \A j \in Slots : y.slots[j] # me
          <5>1. CASE IsMaster(x, me)
            BY <3>1, <5>1 DEF SlotsOf
          <5>2. CASE ~IsMaster(x, me)
            <6>1. \A j \in Slots : y.slots[j] # NULL => y.nodes[y.slots[j]].slaveof = NULL
              BY <2>2, OwnersOK DEF Keeps
            <6>2. me # NULL
              BY MasterOfOK
            <6>3. QED
              BY <2>2, <5>2, <6>1, <6>2 DEF IsMaster
          <5>3. QED
            BY <5>1, <5>2
        <4>2. z = clusterSetMaster(y, me, n)
          BY <3>1
        <4> HIDE DEF z
        <4>3. QED
          BY <1>3, <2>2, <4>1, <4>2, SetMasterOK DEF Keeps
      <3>2. CASE ~(lost /\ SlotsOf(y, cur) = {})
        <4>1. Same(Nodes, Slots, y, y)
          BY <2>2, SameSelf DEF Keeps
        <4>2. z = y
          BY <3>2
        <4>3. QED
          BY <4>1, <4>2 DEF Same
      <3>3. QED
        BY <3>1, <3>2
    <2> HIDE DEF z
    <2>4. Keeps(Nodes, Slots, z, clusterSaveConfig(z))
      BY <2>3, SaveOK DEF Keeps
    <2>5. r = clusterSaveConfig(z)
      BY <1>1, <1>3
    <2> HIDE DEF r
    <2>6. QED
      BY <2>2, <2>3, <2>4, <2>5, KeepsTrans DEF Keeps, r
  <1>4. QED
    BY <1>2, <1>3

-----------------------------------------------------------------------------
(* Messages.                                                               *)

HdrOK(N, J, h) ==
    /\ h.type \in {"ping", "pong", "fail", "request", "ack", "mfstart", "update"}
    /\ h.from \in N /\ h.slaveof \in N \cup {NULL} /\ h.slaveof # h.from
    /\ h.currentEpoch \in Nat /\ h.configEpoch \in Nat /\ h.configEpoch <= h.currentEpoch
    /\ h.slots \subseteq J

\* The node and the epoch that a message is about.
AboutOK(N, J, type, about, cur) ==
    /\ type \in {"fail", "update"} => about.node \in N
    /\ type = "update" => about.number \in Nat /\ about.number <= cur /\ about.slots \subseteq J

PacketOK(N, J, p) ==
    /\ p.to \in N /\ HdrOK(N, J, p.hdr)
    /\ AboutOK(N, J, p.hdr.type, p.about, p.hdr.currentEpoch)

Types == {"ping", "pong", "fail", "request", "ack", "mfstart", "update"}

\* The header says what the tables of the node say.
LEMMA BuildHdrOK ==
  ASSUME NEW x, StateOK(Nodes, Slots, x), NEW me \in Nodes, NEW type \in Types
  PROVE  LET h == clusterBuildMessageHdr(x, me, type)
         IN  HdrOK(Nodes, Slots, h) /\ h.type = type /\ h.currentEpoch = x.currentEpoch
  <1> DEFINE m == IF IsMaster(x, me) THEN me ELSE x.nodes[me].slaveof
             h == clusterBuildMessageHdr(x, me, type)
  <1>1. m \in Nodes
    BY MasterOfOK DEF IsMaster
  <1>2. x.nodes[m].configEpoch \in Nat /\ x.nodes[m].configEpoch <= x.currentEpoch
    BY <1>1, MasterOfOK
  <1>3. /\ h.type = type /\ h.from = me /\ h.currentEpoch = x.currentEpoch
        /\ h.configEpoch = x.nodes[m].configEpoch /\ h.slaveof = x.nodes[me].slaveof
        /\ h.slots = SlotsOf(x, m)
    BY DEF clusterBuildMessageHdr
  <1> HIDE DEF h, m
  <1>4. SlotsOf(x, m) \subseteq Slots /\ x.currentEpoch \in Nat
    BY DEF SlotsOf, StateOK, EpochsOK
  <1>5. h.slaveof \in Nodes \cup {NULL} /\ h.slaveof # h.from
    BY <1>3, MasterOfOK
  <1>6. QED
    BY <1>2, <1>3, <1>4, <1>5 DEF HdrOK, Types, h

\* What a node sends is true of its tables.
LEMMA PacketIsOK ==
  ASSUME NEW x, StateOK(Nodes, Slots, x), NEW me \in Nodes, NEW type \in Types, NEW about,
         AboutOK(Nodes, Slots, type, about, x.currentEpoch), NEW to \in Nodes
  PROVE  PacketOK(Nodes, Slots, Packet(x, me, type, about, to))
  <1> DEFINE h == clusterBuildMessageHdr(x, me, type)
             p == Packet(x, me, type, about, to)
  <1>1. HdrOK(Nodes, Slots, h) /\ h.type = type /\ h.currentEpoch = x.currentEpoch
    BY BuildHdrOK
  <1>2. p.to = to /\ p.about = about /\ p.hdr = h
    BY DEF Packet
  <1> HIDE DEF h, p
  <1>3. QED
    BY <1>1, <1>2 DEF PacketOK, p

PacketsOK(N, J, msgs) == \A p \in msgs : PacketOK(N, J, p)

\* The same for what a node sends to all others.
LEMMA BroadcastOK ==
  ASSUME NEW x, StateOK(Nodes, Slots, x), NEW me \in Nodes, NEW type \in Types, NEW about,
         AboutOK(Nodes, Slots, type, about, x.currentEpoch)
  PROVE  PacketsOK(Nodes, Slots, clusterBroadcastMessage(x, me, type, about))
  <1>1. \A n \in Nodes : PacketOK(Nodes, Slots, Packet(x, me, type, about, n))
    BY PacketIsOK
  <1>2. QED
    BY <1>1 DEF PacketsOK, clusterBroadcastMessage, Others

\* No message with these types is about a node.
LEMMA NoDataOK ==
  ASSUME NEW N, NEW J, NEW about, NEW cur, NEW type \in {"ping", "pong", "request", "ack", "mfstart"}
  PROVE  AboutOK(N, J, type, about, cur) /\ type \in Types
  BY DEF AboutOK, Types

\* The header of a message moves the node to a later epoch.
LEMMA ProcessHeaderOK ==
  ASSUME NEW x, StateOK(Nodes, Slots, x), NEW me, NEW h, HdrOK(Nodes, Slots, h)
  PROVE  LET y == ProcessHeader(x, me, h)
         IN  /\ Keeps(Nodes, Slots, x, y) /\ SameRoles(Nodes, x, y)
             /\ y.currentEpoch >= h.currentEpoch
  <1> DEFINE e == Max({x.currentEpoch, h.currentEpoch})
             both == WithEpochs(x, h.from, h.configEpoch, e)
             one == [x EXCEPT !.currentEpoch = e]
             y == IF h.configEpoch > x.nodes[h.from].configEpoch THEN clusterSaveConfig(both) ELSE one
             v == [y.mf EXCEPT !.master_offset = h.offset]
             r == ProcessHeader(x, me, h)
  <1>1. r \in {y, [y EXCEPT !.mf = v]}
    BY DEF ProcessHeader, WithEpochs
  <1>2. x.currentEpoch \in Nat /\ h.currentEpoch \in Nat /\ h.configEpoch \in Nat /\ h.from \in Nodes
    BY DEF StateOK, EpochsOK, HdrOK
  <1>3. e \in Nat /\ e >= x.currentEpoch /\ e >= h.currentEpoch /\ h.configEpoch <= e
    <2>1. e \in Nat /\ e >= x.currentEpoch /\ e >= h.currentEpoch
      BY <1>2, MaxOfTwo
    <2> HIDE DEF e
    <2>2. QED
      BY <1>2, <2>1 DEF HdrOK
  <1> HIDE DEF e
  <1>4. Keeps(Nodes, Slots, x, both) /\ SameRoles(Nodes, x, both) /\ both.currentEpoch = e
    BY <1>2, <1>3, BothEpochsOK
  <1>5. Keeps(Nodes, Slots, x, one) /\ SameRoles(Nodes, x, one) /\ one.currentEpoch = e
    BY <1>3, EpochOK DEF SameRoles
  <1> HIDE DEF both, one
  <1>6. LET s == clusterSaveConfig(both)
        IN  Keeps(Nodes, Slots, both, s) /\ s.nodes = both.nodes /\ s.slots = both.slots /\ s.currentEpoch = e
    BY <1>4, SaveOK DEF Keeps
  <1>7. Keeps(Nodes, Slots, x, y) /\ SameRoles(Nodes, x, y) /\ y.currentEpoch = e
    BY <1>4, <1>5, <1>6, KeepsTrans DEF SameRoles
  <1> HIDE DEF y
  <1>8. Same(Nodes, Slots, y, y) /\ Same(Nodes, Slots, y, [y EXCEPT !.mf = v])
    BY <1>7, SameSelf, ManualOK DEF Keeps
  <1>9. Same(Nodes, Slots, y, r)
    BY <1>1, <1>8
  <1> HIDE DEF r
  <1>10. QED
    BY <1>3, <1>7, <1>9, KeepsTrans DEF Same, SameRoles, r

\* The node takes a new epoch after a collision, or by itself.
LEMMA OwnEpochOK ==
  ASSUME NEW x, StateOK(Nodes, Slots, x), NEW me \in Nodes, NEW n \in Nodes
  PROVE  /\ Keeps(Nodes, Slots, x, clusterHandleConfigEpochCollision(x, me, n))
         /\ Keeps(Nodes, Slots, x, clusterBumpConfigEpochWithoutConsensus(x, me))
  <1> DEFINE e == x.currentEpoch + 1
             y == WithEpochs(x, me, e, e)
  <1>1. x.currentEpoch \in Nat /\ e \in Nat /\ e >= x.currentEpoch /\ e <= e
    BY DEF StateOK, EpochsOK
  <1>2. clusterHandleConfigEpochCollision(x, me, n) \in {x, clusterSaveConfig(y)}
    BY DEF clusterHandleConfigEpochCollision, WithEpochs
  <1>3. clusterBumpConfigEpochWithoutConsensus(x, me) \in {x, y}
    BY DEF clusterBumpConfigEpochWithoutConsensus, WithEpochs
  <1> HIDE DEF e
  <1>4. Keeps(Nodes, Slots, x, y)
    BY <1>1, BothEpochsOK
  <1> HIDE DEF y
  <1>5. Keeps(Nodes, Slots, x, clusterSaveConfig(y))
    BY <1>4, SaveOK, KeepsTrans DEF Keeps
  <1>6. Keeps(Nodes, Slots, x, x)
    BY SameSelf DEF Same
  <1>7. QED
    BY <1>2, <1>3, <1>4, <1>5, <1>6

\* What the flags of a node become when it answers.
LEMMA ClearOK ==
  ASSUME NEW x, StateOK(Nodes, Slots, x), NEW n \in Nodes, NEW late
  PROVE  Keeps(Nodes, Slots, x, clearNodeFailureIfNeeded(x, n, late))
  <1>1. clearNodeFailureIfNeeded(x, n, late) \in {x, [x EXCEPT !.nodes[n].flag = "ok"]}
    BY DEF clearNodeFailureIfNeeded
  <1>2. Same(Nodes, Slots, x, x) /\ Same(Nodes, Slots, x, [x EXCEPT !.nodes[n].flag = "ok"])
    BY SameSelf, FlagOK
  <1>3. QED
    BY <1>1, <1>2 DEF Same

\* A master that claims to be a replica has lost its slots.
LEMMA ProcessRoleOK ==
  ASSUME NEW x, StateOK(Nodes, Slots, x), NEW me, NEW h, HdrOK(Nodes, Slots, h)
  PROVE  Keeps(Nodes, Slots, x, ProcessRole(x, me, h))
  <1> DEFINE n == h.from
             slots == [j \in Slots |-> IF x.slots[j] = n THEN NULL ELSE x.slots[j]]
             freed == [x EXCEPT !.slots = slots]
             demoted == IF IsMaster(x, n) THEN [freed EXCEPT !.nodes[n].migrate_to = FALSE] ELSE x
             r == ProcessRole(x, me, h)
  <1>0. n \in Nodes /\ h.slaveof \in Nodes \cup {NULL} /\ h.slaveof # n /\ n # NULL
    BY MasterOfOK DEF HdrOK
  <1>1. r = IF h.slaveof = NULL THEN clusterSetNodeAsMaster(x, me, n)
            ELSE IF x.nodes[n].slaveof = h.slaveof THEN x
            ELSE SetSlaveof(demoted, n, h.slaveof)
    BY DEF ProcessRole
  <1>2. Keeps(Nodes, Slots, x, x)
    BY SameSelf DEF Same
  <1>3. Keeps(Nodes, Slots, x, clusterSetNodeAsMaster(x, me, n))
    BY <1>0, SetNodeAsMasterOK
  <1>4. ASSUME h.slaveof # NULL
        PROVE  Keeps(Nodes, Slots, x, SetSlaveof(demoted, n, h.slaveof))
    <2>1. /\ DOMAIN slots = Slots /\ \A j \in Slots : slots[j] # n
          /\ \A j \in Slots : slots[j] # NULL => slots[j] \in Nodes /\ x.nodes[slots[j]].slaveof = NULL
      BY <1>0, OwnersOK
    <2> HIDE DEF slots
    <2>2. Keeps(Nodes, Slots, x, freed) /\ freed.slots = slots
      BY <2>1, SlotsOnlyOK
    <2> HIDE DEF freed
    <2>3. Same(Nodes, Slots, freed, [freed EXCEPT !.nodes[n].migrate_to = FALSE])
      BY <1>0, <2>2, MigrateOK DEF Keeps
    <2>4. CASE IsMaster(x, n)
      <3>1. demoted = [freed EXCEPT !.nodes[n].migrate_to = FALSE]
        BY <2>4
      <3> HIDE DEF demoted
      <3>2. Keeps(Nodes, Slots, x, demoted) /\ \A j \in Slots : demoted.slots[j] # n
        BY <2>1, <2>2, <2>3, <3>1, KeepsTrans DEF Same, SameRoles
      <3> HIDE DEF n
      <3>3. Keeps(Nodes, Slots, demoted, SetSlaveof(demoted, n, h.slaveof))
        BY <1>0, <1>4, <3>2, SetSlaveofOK DEF Keeps
      <3>4. QED
        BY <3>2, <3>3, KeepsTrans
    <2>5. CASE ~IsMaster(x, n)
      <3>1. demoted = x
        BY <2>5
      <3>2. \A j \in Slots : x.slots[j] # n
        BY <1>0, <2>5, OwnersOK DEF IsMaster
      <3> HIDE DEF demoted, n
      <3>3. QED
        BY <1>0, <1>4, <3>1, <3>2, SetSlaveofOK
    <2>6. QED
      BY <2>4, <2>5
  <1>5. QED
    BY <1>1, <1>2, <1>3, <1>4

\* A turn that casts no vote.
TurnOK(N, J, x, t) ==
    DOMAIN t = {"x", "msgs"} /\ Keeps(N, J, x, t.x) /\ PacketsOK(N, J, t.msgs)

\* A turn with nothing to send.
LEMMA SilentOK ==
  ASSUME NEW N, NEW J, NEW x, NEW y, Keeps(N, J, x, y)
  PROVE  TurnOK(N, J, x, Turn(y))
  BY DEF TurnOK, Turn, PacketsOK

\* A turn with packets to send.
LEMMA TalkingOK ==
  ASSUME NEW N, NEW J, NEW x, NEW y, NEW msgs, Keeps(N, J, x, y), PacketsOK(N, J, msgs)
  PROVE  LET t == [Turn(y) EXCEPT !.msgs = msgs]
         IN  TurnOK(N, J, x, t) /\ t.x = y /\ t.msgs = msgs
  BY DEF TurnOK, Turn

\* Gossip changes flags and failure reports, and failures are told to all.
LEMMA GossipOK ==
  ASSUME NEW w, StateOK(Nodes, Slots, w), NEW t, TurnOK(Nodes, Slots, w, t),
         NEW me \in Nodes, NEW h, HdrOK(Nodes, Slots, h)
  PROVE  TurnOK(Nodes, Slots, w, clusterProcessGossipSection(t, me, h))
  <1> DEFINE x == t.x
             about == Nodes \ {me, h.from}
             reports == [n \in Nodes |-> IF n \in h.bad THEN x.nodes[n].reports \cup {h.from}
                                         ELSE x.nodes[n].reports \ {h.from}]
             failing == {n \in about \cap h.bad : markNodeAsFailingIfNeeded(x, me, n, reports[n])}
             nodes == [n \in Nodes |->
                IF n \notin about THEN x.nodes[n]
                ELSE [x.nodes[n] EXCEPT !.reports = reports[n],
                                        !.flag = IF n \in failing THEN "fail" ELSE x.nodes[n].flag]]
             y == [x EXCEPT !.nodes = nodes]
             z == IF failing = {} THEN y ELSE clusterSaveConfig(y)
             fails == UNION {clusterBroadcastMessage(z, me, "fail", [NoData EXCEPT !.node = n]) : n \in failing}
             r == clusterProcessGossipSection(t, me, h)
  <1>1. r = IF ~IsMaster(x, h.from) THEN t
            ELSE [x |-> z, msgs |-> t.msgs \cup IF IsMaster(x, me) THEN fails ELSE {}]
    BY DEF clusterProcessGossipSection
  <1>2. StateOK(Nodes, Slots, x) /\ Keeps(Nodes, Slots, w, x) /\ PacketsOK(Nodes, Slots, t.msgs)
    BY DEF TurnOK, Keeps
  <1>3. failing \subseteq Nodes
    OBVIOUS
  <1> HIDE DEF failing, reports, about
  <1>4. NodesOK(Nodes, nodes, x.currentEpoch) /\ \A n \in Nodes : nodes[n].slaveof = x.nodes[n].slaveof
    <2>1. \A n \in Nodes : InfoOK(Nodes, n, x.nodes[n], x.currentEpoch)
      BY <1>2 DEF StateOK, NodesOK
    <2>2. \A n \in Nodes : nodes[n].slaveof = x.nodes[n].slaveof /\ InfoOK(Nodes, n, nodes[n], x.currentEpoch)
      BY <2>1 DEF InfoOK
    <2>3. DOMAIN nodes = Nodes /\ NULL \notin Nodes
      BY <1>2 DEF StateOK, NodesOK
    <2> HIDE DEF nodes
    <2>4. QED
      BY <2>2, <2>3 DEF NodesOK
  <1> HIDE DEF nodes, x
  <1>5. Keeps(Nodes, Slots, x, y)
    BY <1>2, <1>4, NodesOnlyOK DEF Same
  <1> HIDE DEF y
  <1>6. Keeps(Nodes, Slots, y, clusterSaveConfig(y))
    BY <1>5, SaveOK DEF Keeps
  <1>7. Keeps(Nodes, Slots, w, z)
    BY <1>2, <1>5, <1>6, KeepsTrans
  <1> HIDE DEF z
  <1>8. PacketsOK(Nodes, Slots, fails)
    <2>1. ASSUME NEW n \in failing
          PROVE  PacketsOK(Nodes, Slots, clusterBroadcastMessage(z, me, "fail", [NoData EXCEPT !.node = n]))
      <3> DEFINE a == [NoData EXCEPT !.node = n]
      <3>1. AboutOK(Nodes, Slots, "fail", a, z.currentEpoch) /\ "fail" \in Types
        BY <1>3, <2>1 DEF AboutOK, NoData, Types
      <3> HIDE DEF a
      <3>2. PacketsOK(Nodes, Slots, clusterBroadcastMessage(z, me, "fail", a))
        BY <1>7, <3>1, BroadcastOK DEF Keeps
      <3>3. QED
        BY <3>2 DEF a
    <2>2. QED
      BY <2>1 DEF PacketsOK
  <1> HIDE DEF fails
  <1>9. CASE ~IsMaster(x, h.from)
    BY <1>1, <1>9
  <1>10. CASE IsMaster(x, h.from)
    <2>1. /\ DOMAIN r = {"x", "msgs"} /\ r.x = z
          /\ r.msgs = t.msgs \cup IF IsMaster(x, me) THEN fails ELSE {}
      BY <1>1, <1>10
    <2> HIDE DEF r
    <2>2. PacketsOK(Nodes, Slots, r.msgs)
      BY <1>2, <1>8, <2>1 DEF PacketsOK
    <2>3. QED
      BY <1>7, <2>1, <2>2 DEF TurnOK, r
  <1>11. QED
    BY <1>9, <1>10

\* The owner in an UPDATE message is a node that the sender knows.
LEMMA OutdatedClaimOK ==
  ASSUME NEW x, StateOK(Nodes, Slots, x), NEW me \in Nodes, NEW h, HdrOK(Nodes, Slots, h)
  PROVE  PacketsOK(Nodes, Slots, OutdatedClaim(x, me, h))
  <1> DEFINE claim(n) == [NoData EXCEPT !.node = n, !.slots = SlotsOf(x, n), !.number = x.nodes[n].configEpoch]
  <1>1. ASSUME NEW p \in OutdatedClaim(x, me, h)
        PROVE  PacketOK(Nodes, Slots, p)
    <2>1. PICK j \in h.slots : /\ x.slots[j] # NULL
                               /\ p = Packet(x, me, "update", claim(x.slots[j]), h.from)
      BY <1>1 DEF OutdatedClaim
    <2> DEFINE n == x.slots[j]
               a == claim(n)
    <2>2. n \in Nodes /\ h.from \in Nodes
      BY <2>1, OwnersOK DEF HdrOK
    <2> HIDE DEF n
    <2>3. x.nodes[n].configEpoch \in Nat /\ x.nodes[n].configEpoch <= x.currentEpoch
      BY <2>2, MasterOfOK
    <2>4. AboutOK(Nodes, Slots, "update", a, x.currentEpoch) /\ "update" \in Types
      BY <2>2, <2>3 DEF AboutOK, NoData, Types, SlotsOf
    <2>5. p = Packet(x, me, "update", a, h.from)
      BY <2>1 DEF n
    <2> HIDE DEF a
    <2>6. QED
      BY <2>2, <2>4, <2>5, PacketIsOK
  <1>2. QED
    BY <1>1 DEF PacketsOK

\* A PING or a PONG.
LEMMA ProcessPingOK ==
  ASSUME NEW x, StateOK(Nodes, Slots, x), NEW me \in Nodes, NEW h, HdrOK(Nodes, Slots, h), NEW late
  PROVE  TurnOK(Nodes, Slots, x, ProcessPing(x, me, h, late))
  <1> DEFINE n == h.from
             y == ProcessHeader(x, me, h)
             pong == IF h.type = "ping" /\ n \in Others(me)
                     THEN {Packet(y, me, "pong", NoData, n)} ELSE {}
             flagged == [y EXCEPT !.nodes[n].flag = "ok"]
             z == IF h.type = "ping" \/ y.nodes[n].flag = "ok" THEN y
                  ELSE IF y.nodes[n].flag = "pfail" THEN clusterSaveConfig(flagged)
                  ELSE clearNodeFailureIfNeeded(y, n, late)
             r == ProcessRole(z, me, h)
             m == IF IsMaster(r, n) THEN n ELSE r.nodes[n].slaveof
             dirty == SlotsOf(r, m) # h.slots
             s == IF IsMaster(r, n) /\ dirty
                  THEN clusterUpdateSlotsConfigWith(r, me, n, h.configEpoch, h.slots) ELSE r
             update == IF dirty THEN OutdatedClaim(s, me, h) ELSE {}
             c == IF IsMaster(s, me) /\ IsMaster(s, n) /\ h.configEpoch = s.nodes[me].configEpoch
                     /\ s.currentEpoch < MaxEpoch
                  THEN clusterHandleConfigEpochCollision(s, me, n) ELSE s
             saved == IF r # z THEN clusterSaveConfig(c) ELSE c
             msgs == pong \cup update
  <1>1. ProcessPing(x, me, h, late) = clusterProcessGossipSection([Turn(saved) EXCEPT !.msgs = msgs], me, h)
    BY DEF ProcessPing, AfterHeader, AfterPong, AfterRole, AfterClaim, ProcessPong, Pong, Dirty,
           ProcessClaim, ProcessCollision
  <1>2. n \in Nodes /\ h.slots \subseteq Slots
    BY DEF HdrOK
  <1>3. Keeps(Nodes, Slots, x, y) /\ StateOK(Nodes, Slots, y)
    BY ProcessHeaderOK DEF Keeps
  <1> HIDE DEF y, n
  <1>4. PacketsOK(Nodes, Slots, pong)
    <2>1. PacketOK(Nodes, Slots, Packet(y, me, "pong", NoData, n))
      BY <1>2, <1>3, NoDataOK, PacketIsOK
    <2>2. QED
      BY <2>1 DEF PacketsOK
  <1> HIDE DEF pong
  <1>5. Keeps(Nodes, Slots, y, z)
    <2>1. Keeps(Nodes, Slots, y, y)
      BY <1>3, SameSelf DEF Same
    <2>2. Keeps(Nodes, Slots, y, flagged)
      BY <1>2, <1>3, FlagOK DEF Same
    <2> HIDE DEF flagged
    <2>3. Keeps(Nodes, Slots, y, clusterSaveConfig(flagged))
      BY <1>3, <2>2, SaveOK, KeepsTrans DEF Keeps
    <2>4. Keeps(Nodes, Slots, y, clearNodeFailureIfNeeded(y, n, late))
      BY <1>2, <1>3, ClearOK
    <2>5. QED
      BY <2>1, <2>3, <2>4
  <1> HIDE DEF z
  <1>6. Keeps(Nodes, Slots, x, z) /\ StateOK(Nodes, Slots, z)
    BY <1>3, <1>5, KeepsTrans DEF Keeps
  <1>7. Keeps(Nodes, Slots, z, r)
    BY <1>6, ProcessRoleOK
  <1> HIDE DEF r
  <1>8. Keeps(Nodes, Slots, x, r) /\ StateOK(Nodes, Slots, r)
    BY <1>6, <1>7, KeepsTrans DEF Keeps
  <1> HIDE DEF dirty
  <1>9. Keeps(Nodes, Slots, r, s)
    <2>1. Keeps(Nodes, Slots, r, r)
      BY <1>8, SameSelf DEF Same
    <2>2. CASE IsMaster(r, n) /\ dirty
      <3>1. Keeps(Nodes, Slots, r, clusterUpdateSlotsConfigWith(r, me, n, h.configEpoch, h.slots))
        BY <1>2, <1>8, <2>2, UpdateSlotsOK
      <3>2. QED
        BY <2>2, <3>1
    <2>3. QED
      BY <2>1, <2>2
  <1> HIDE DEF s
  <1>10. Keeps(Nodes, Slots, x, s) /\ StateOK(Nodes, Slots, s)
    BY <1>8, <1>9, KeepsTrans DEF Keeps
  <1>11. PacketsOK(Nodes, Slots, update)
    <2>1. PacketsOK(Nodes, Slots, OutdatedClaim(s, me, h))
      BY <1>10, OutdatedClaimOK
    <2>2. QED
      BY <2>1 DEF PacketsOK
  <1> HIDE DEF update
  <1>12. Keeps(Nodes, Slots, s, c)
    <2>1. Keeps(Nodes, Slots, s, s)
      BY <1>10, SameSelf DEF Same
    <2>2. Keeps(Nodes, Slots, s, clusterHandleConfigEpochCollision(s, me, n))
      BY <1>2, <1>10, OwnEpochOK
    <2>3. QED
      BY <2>1, <2>2
  <1> HIDE DEF c
  <1>13. Keeps(Nodes, Slots, x, c) /\ StateOK(Nodes, Slots, c)
    BY <1>10, <1>12, KeepsTrans DEF Keeps
  <1>14. Keeps(Nodes, Slots, c, clusterSaveConfig(c))
    BY <1>13, SaveOK
  <1>15. Keeps(Nodes, Slots, x, saved)
    BY <1>13, <1>14, KeepsTrans
  <1> HIDE DEF saved
  <1>16. PacketsOK(Nodes, Slots, msgs)
    BY <1>4, <1>11 DEF PacketsOK
  <1> HIDE DEF msgs
  <1>17. TurnOK(Nodes, Slots, x, [Turn(saved) EXCEPT !.msgs = msgs])
    BY <1>15, <1>16, TalkingOK
  <1> DEFINE t == [Turn(saved) EXCEPT !.msgs = msgs]
  <1> HIDE DEF t
  <1>18. TurnOK(Nodes, Slots, x, clusterProcessGossipSection(t, me, h))
    BY <1>17, GossipOK DEF t
  <1>19. QED
    BY <1>1, <1>18 DEF t

\* A turn that may cast a vote in a later epoch.
VoteTurnOK(N, J, x, t) ==
    /\ DOMAIN t = {"x", "msgs"} /\ StateOK(N, J, t.x) /\ PacketsOK(N, J, t.msgs)
    /\ t.x.lastVoteEpoch >= x.lastVoteEpoch

\* Most turns do not.
LEMMA TurnIsVoteTurn ==
  ASSUME NEW N, NEW J, NEW x, StateOK(N, J, x), NEW t, TurnOK(N, J, x, t)
  PROVE  VoteTurnOK(N, J, x, t)
  <1>1. /\ DOMAIN t = {"x", "msgs"} /\ StateOK(N, J, t.x) /\ PacketsOK(N, J, t.msgs)
        /\ t.x.lastVoteEpoch = x.lastVoteEpoch
    BY Zenon DEF TurnOK, Keeps
  <1>2. x.lastVoteEpoch \in Nat
    BY Zenon DEF StateOK, EpochsOK
  <1>3. t.x.lastVoteEpoch >= x.lastVoteEpoch
    BY <1>1, <1>2
  <1>4. QED
    BY Zenon, <1>1, <1>3 DEF VoteTurnOK

\* A vote is cast in the current epoch, and saved before it is sent.
LEMMA SendAuthOK ==
  ASSUME NEW x, StateOK(Nodes, Slots, x), NEW me \in Nodes, NEW h, HdrOK(Nodes, Slots, h),
         NEW force, NEW late
  PROVE  VoteTurnOK(Nodes, Slots, x, clusterSendFailoverAuthIfNeeded(x, me, h, force, late))
  <1> DEFINE v == [x EXCEPT !.lastVoteEpoch = x.currentEpoch]
             y == clusterSaveConfig(v)
             msgs == {Packet(y, me, "ack", NoData, h.from)}
             t == clusterSendFailoverAuthIfNeeded(x, me, h, force, late)
  <1>1. t \in {Turn(x), [Turn(y) EXCEPT !.msgs = msgs]}
    BY DEF clusterSendFailoverAuthIfNeeded
  <1>2. VoteTurnOK(Nodes, Slots, x, Turn(x))
    BY SameSelf, SilentOK, TurnIsVoteTurn DEF Same
  <1>3. StateOK(Nodes, Slots, y) /\ y.lastVoteEpoch = x.currentEpoch
    <2> DEFINE d == [currentEpoch |-> v.currentEpoch, lastVoteEpoch |-> v.lastVoteEpoch,
                     nodes |-> Saved(v.nodes), slots |-> v.slots]
    <2>1. y = [v EXCEPT !.disk = d]
      BY DEF clusterSaveConfig
    <2>2. /\ DOMAIN v = Fields /\ v.currentEpoch = x.currentEpoch /\ v.lastVoteEpoch = x.currentEpoch
          /\ v.nodes = x.nodes /\ v.slots = x.slots /\ v.auth = x.auth
      BY DEF StateOK, Fields
    <2>3. /\ d.currentEpoch = x.currentEpoch /\ d.lastVoteEpoch = x.currentEpoch
          /\ d.nodes = Saved(x.nodes) /\ d.slots = x.slots
      BY <2>2
    <2> HIDE DEF v, d
    <2>4. /\ DOMAIN y = Fields /\ y.currentEpoch = x.currentEpoch /\ y.lastVoteEpoch = x.currentEpoch
          /\ y.nodes = x.nodes /\ y.slots = x.slots /\ y.auth = x.auth /\ y.disk = d
      BY <2>1, <2>2 DEF Fields
    <2>5. /\ NodesOK(Nodes, Saved(x.nodes), x.currentEpoch)
          /\ SlotsOK(Nodes, Slots, Saved(x.nodes), x.slots)
      BY SavedOK
    <2>6. EpochsOK(x.currentEpoch, x.currentEpoch)
      BY DEF StateOK, EpochsOK
    <2>7. DiskOK(Nodes, Slots, d, x.currentEpoch)
      BY <2>3, <2>5, <2>6 DEF DiskOK
    <2>8. QED
      BY <2>4, <2>6, <2>7 DEF StateOK
  <1> HIDE DEF y
  <1>4. PacketsOK(Nodes, Slots, msgs)
    <2>1. PacketOK(Nodes, Slots, Packet(y, me, "ack", NoData, h.from))
      BY <1>3, NoDataOK, PacketIsOK DEF HdrOK
    <2>2. QED
      BY <2>1 DEF PacketsOK
  <1> HIDE DEF msgs
  <1>5. y.lastVoteEpoch >= x.lastVoteEpoch
    BY <1>3 DEF StateOK, EpochsOK
  <1>6. VoteTurnOK(Nodes, Slots, x, [Turn(y) EXCEPT !.msgs = msgs])
    BY <1>3, <1>4, <1>5 DEF VoteTurnOK, Turn
  <1>7. QED
    BY <1>1, <1>2, <1>6

\* The election of a node may change, in an epoch it has seen.
LEMMA AuthOnlyOK ==
  ASSUME NEW x, StateOK(Nodes, Slots, x), NEW a, AuthOK(a, x.currentEpoch)
  PROVE  LET y == [x EXCEPT !.auth = a] IN Keeps(Nodes, Slots, x, y) /\ y.currentEpoch = x.currentEpoch
  <1> DEFINE y == [x EXCEPT !.auth = a]
  <1>1. /\ DOMAIN y = Fields /\ y.disk = x.disk /\ y.lastVoteEpoch = x.lastVoteEpoch
        /\ y.auth = a /\ y.currentEpoch = x.currentEpoch /\ y.slots = x.slots /\ y.nodes = x.nodes
    BY DEF StateOK, Fields
  <1> HIDE DEF y
  <1>2. StateOK(Nodes, Slots, y)
    BY <1>1 DEF StateOK
  <1>3. y.currentEpoch >= x.currentEpoch
    BY <1>1 DEF StateOK, EpochsOK
  <1>4. QED
    BY <1>1, <1>2, <1>3 DEF Keeps, y

\* A vote that arrives is counted.
LEMMA ProcessAckOK ==
  ASSUME NEW x, StateOK(Nodes, Slots, x), NEW h
  PROVE  Keeps(Nodes, Slots, x, ProcessAck(x, h))
  <1> DEFINE a == [x.auth EXCEPT !.count = @ + 1]
  <1>1. ProcessAck(x, h) \in {x, [x EXCEPT !.auth = a]}
    BY DEF ProcessAck
  <1>2. AuthOK(a, x.currentEpoch)
    BY DEF StateOK, AuthOK
  <1> HIDE DEF a
  <1>3. Keeps(Nodes, Slots, x, x) /\ Keeps(Nodes, Slots, x, [x EXCEPT !.auth = a])
    BY <1>2, SameSelf, AuthOnlyOK DEF Same
  <1>4. QED
    BY <1>1, <1>3

\* An UPDATE message gives slots to a node under an epoch that is not ahead.
LEMMA ProcessUpdateOK ==
  ASSUME NEW x, StateOK(Nodes, Slots, x), NEW me \in Nodes, NEW about,
         AboutOK(Nodes, Slots, "update", about, x.currentEpoch)
  PROVE  Keeps(Nodes, Slots, x, ProcessUpdate(x, me, about))
  <1> DEFINE n == about.node
             m == clusterSetNodeAsMaster(x, me, n)
             y == [m EXCEPT !.nodes[n].configEpoch = about.number]
             z == clusterSaveConfig(y)
  <1>1. ProcessUpdate(x, me, about) \in {x, clusterUpdateSlotsConfigWith(z, me, n, about.number, about.slots)}
    BY DEF ProcessUpdate
  <1>2. n \in Nodes /\ about.number \in Nat /\ about.number <= x.currentEpoch /\ about.slots \subseteq Slots
    BY DEF AboutOK
  <1>3. /\ Keeps(Nodes, Slots, x, m) /\ Replicates(Nodes, x, m, n, NULL)
        /\ m.currentEpoch = x.currentEpoch /\ StateOK(Nodes, Slots, m)
    BY <1>2, SetNodeAsMasterOK DEF Keeps
  <1> HIDE DEF m, n
  <1>4. Same(Nodes, Slots, m, y)
    BY <1>2, <1>3, ConfigEpochOK
  <1> HIDE DEF y
  <1>5. Keeps(Nodes, Slots, y, z) /\ z.nodes = y.nodes
    BY <1>4, SaveOK DEF Same, Keeps
  <1> HIDE DEF z
  <1>6. IsMaster(z, n)
    BY <1>2, <1>3, <1>4, <1>5 DEF Same, SameRoles, Replicates, IsMaster
  <1>7. Keeps(Nodes, Slots, x, z) /\ StateOK(Nodes, Slots, z)
    BY <1>3, <1>4, <1>5, KeepsTrans DEF Same, Keeps
  <1>8. Keeps(Nodes, Slots, z, clusterUpdateSlotsConfigWith(z, me, n, about.number, about.slots))
    BY <1>2, <1>6, <1>7, UpdateSlotsOK
  <1>9. Keeps(Nodes, Slots, x, x)
    BY SameSelf DEF Same
  <1>10. QED
    BY <1>1, <1>7, <1>8, <1>9, KeepsTrans

\* MFSTART.
LEMMA ProcessMFStartOK ==
  ASSUME NEW x, StateOK(Nodes, Slots, x), NEW me, NEW h, NEW round
  PROVE  Keeps(Nodes, Slots, x, ProcessMFStart(x, me, h, round))
  <1> DEFINE v == [NoManual EXCEPT !.end = TRUE, !.slave = h.from, !.round = round]
  <1>1. ProcessMFStart(x, me, h, round) \in {x, [x EXCEPT !.mf = v]}
    BY DEF ProcessMFStart
  <1> HIDE DEF v
  <1>2. QED
    BY <1>1, SameSelf, ManualOK DEF Same

\* FAIL.
LEMMA ProcessFailOK ==
  ASSUME NEW x, StateOK(Nodes, Slots, x), NEW me, NEW n \in Nodes
  PROVE  Keeps(Nodes, Slots, x, ProcessFail(x, me, n))
  <1> DEFINE y == [x EXCEPT !.nodes[n].flag = "fail"]
  <1>1. ProcessFail(x, me, n) \in {x, clusterSaveConfig(y)}
    BY DEF ProcessFail
  <1>2. Keeps(Nodes, Slots, x, y) /\ Keeps(Nodes, Slots, x, x)
    BY FlagOK, SameSelf DEF Same
  <1> HIDE DEF y
  <1>3. Keeps(Nodes, Slots, x, clusterSaveConfig(y))
    BY <1>2, SaveOK, KeepsTrans DEF Keeps
  <1>4. QED
    BY <1>1, <1>2, <1>3

\* A turn that begins with a step that casts no vote.
LEMMA AfterOK ==
  ASSUME NEW N, NEW J, NEW x, NEW y, NEW t, StateOK(N, J, x), Keeps(N, J, x, y), VoteTurnOK(N, J, y, t)
  PROVE  VoteTurnOK(N, J, x, t)
  BY DEF VoteTurnOK, Keeps

\* A packet.
LEMMA ProcessPacketOK ==
  ASSUME NEW x, StateOK(Nodes, Slots, x), NEW me \in Nodes, NEW p, PacketOK(Nodes, Slots, p), NEW late
  PROVE  VoteTurnOK(Nodes, Slots, x, clusterProcessPacket(x, me, p, late))
  <1> DEFINE h == p.hdr
             y == ProcessHeader(x, me, h)
             t == clusterProcessPacket(x, me, p, late)
  <1>1. /\ h.type \in {"ping", "pong"} => t = ProcessPing(x, me, h, late)
        /\ h.type = "fail" => t = Turn(ProcessFail(y, me, p.about.node))
        /\ h.type = "request" => t = clusterSendFailoverAuthIfNeeded(y, me, h, p.about.force, late)
        /\ h.type = "ack" => t = Turn(ProcessAck(y, h))
        /\ h.type = "mfstart" => t = Turn(ProcessMFStart(y, me, h, p.about.number))
        /\ h.type = "update" => t = Turn(ProcessUpdate(y, me, p.about))
    BY DEF clusterProcessPacket
  <1>2. /\ HdrOK(Nodes, Slots, h) /\ AboutOK(Nodes, Slots, h.type, p.about, h.currentEpoch)
        /\ h.type \in Types
    BY DEF PacketOK, HdrOK, Types
  <1> HIDE DEF h
  <1>3. Keeps(Nodes, Slots, x, y) /\ StateOK(Nodes, Slots, y) /\ y.currentEpoch >= h.currentEpoch
    BY <1>2, ProcessHeaderOK DEF Keeps
  <1> HIDE DEF y, t
  <1> SUFFICES VoteTurnOK(Nodes, Slots, x, t)
    BY DEF t
  <1>4. ASSUME NEW z, Keeps(Nodes, Slots, y, z), t = Turn(z)
        PROVE  VoteTurnOK(Nodes, Slots, x, t)
    BY <1>3, <1>4, SilentOK, TurnIsVoteTurn, AfterOK
  <1>5. CASE h.type \in {"ping", "pong"}
    BY <1>1, <1>2, <1>5, ProcessPingOK, TurnIsVoteTurn
  <1>6. CASE h.type = "fail"
    <2>1. p.about.node \in Nodes
      BY <1>2, <1>6 DEF AboutOK
    <2>2. QED
      BY <1>1, <1>3, <1>4, <1>6, <2>1, ProcessFailOK
  <1>7. CASE h.type = "request"
    BY <1>1, <1>2, <1>3, <1>7, SendAuthOK, AfterOK
  <1>8. CASE h.type = "ack"
    BY <1>1, <1>3, <1>4, <1>8, ProcessAckOK
  <1>9. CASE h.type = "mfstart"
    BY <1>1, <1>3, <1>4, <1>9, ProcessMFStartOK
  <1>10. CASE h.type = "update"
    <2>1. h.currentEpoch \in Nat /\ y.currentEpoch \in Nat
      BY <1>2, <1>3 DEF HdrOK, StateOK, EpochsOK
    <2>2. AboutOK(Nodes, Slots, "update", p.about, y.currentEpoch)
      <3>1. /\ p.about.node \in Nodes /\ p.about.number \in Nat
            /\ p.about.number <= h.currentEpoch /\ p.about.slots \subseteq Slots
        BY Zenon, <1>2, <1>10 DEF AboutOK
      <3>2. p.about.number <= y.currentEpoch
        BY <1>3, <2>1, <3>1
      <3>3. QED
        BY Zenon, <3>1, <3>2 DEF AboutOK
    <2>3. QED
      BY <1>1, <1>3, <1>4, <1>10, <2>2, ProcessUpdateOK
  <1>11. QED
    BY <1>2, <1>5, <1>6, <1>7, <1>8, <1>9, <1>10 DEF Types

-----------------------------------------------------------------------------
(* Failover of a replica, and the periodic work.                           *)

\* A replica takes over the slots of its master.
LEMMA ReplaceYourMasterOK ==
  ASSUME NEW x, StateOK(Nodes, Slots, x), NEW me \in Nodes, NEW late
  PROVE  TurnOK(Nodes, Slots, x, clusterFailoverReplaceYourMaster(x, me, late))
  <1> DEFINE old == x.nodes[me].slaveof
             m == clusterSetNodeAsMaster(x, me, me)
             slots == [j \in Slots |-> IF m.slots[j] = old THEN me ELSE m.slots[j]]
             y == [m EXCEPT !.slots = slots]
             u == clusterUpdateState(y, me, late)
             z == clusterSaveConfig(u)
             w == [z EXCEPT !.mf = NoManual]
             msgs == clusterBroadcastMessage(z, me, "pong", NoData)
  <1>1. clusterFailoverReplaceYourMaster(x, me, late) = [Turn(w) EXCEPT !.msgs = msgs]
    BY DEF clusterFailoverReplaceYourMaster
  <1>2. Keeps(Nodes, Slots, x, m) /\ StateOK(Nodes, Slots, m) /\ Replicates(Nodes, x, m, me, NULL)
    BY SetNodeAsMasterOK DEF Keeps
  <1> HIDE DEF m, old
  <1>3. /\ DOMAIN slots = Slots
        /\ \A j \in Slots : slots[j] # NULL => slots[j] \in Nodes /\ m.nodes[slots[j]].slaveof = NULL
    <2>1. m.nodes[me].slaveof = NULL
      BY <1>2 DEF Replicates
    <2>2. QED
      BY <1>2, <2>1, OwnersOK
  <1> HIDE DEF slots
  <1>4. Keeps(Nodes, Slots, m, y)
    BY <1>2, <1>3, SlotsOnlyOK
  <1> HIDE DEF y
  <1>5. Keeps(Nodes, Slots, y, u)
    BY <1>4, UpdateStateOK DEF Same, Keeps
  <1> HIDE DEF u
  <1>6. Keeps(Nodes, Slots, u, z) /\ StateOK(Nodes, Slots, z)
    BY <1>5, SaveOK DEF Keeps
  <1> HIDE DEF z
  <1>7. Keeps(Nodes, Slots, z, w)
    BY <1>6, ManualOK DEF Same
  <1> HIDE DEF w
  <1>8. Keeps(Nodes, Slots, x, y)
    BY <1>2, <1>4, KeepsTrans
  <1>9. Keeps(Nodes, Slots, x, z)
    BY <1>5, <1>6, <1>8, KeepsTrans
  <1>10. Keeps(Nodes, Slots, x, w)
    BY <1>7, <1>9, KeepsTrans
  <1>11. PacketsOK(Nodes, Slots, msgs)
    BY <1>6, NoDataOK, BroadcastOK
  <1> HIDE DEF msgs
  <1>12. QED
    BY <1>1, <1>10, <1>11, TalkingOK

\* An election of a replica, from its start to its end.
LEMMA SlaveFailoverOK ==
  ASSUME NEW x, StateOK(Nodes, Slots, x), NEW me \in Nodes, NEW timer
  PROVE  TurnOK(Nodes, Slots, x, clusterHandleSlaveFailover(x, me, timer))
  <1> DEFINE e == x.currentEpoch + 1
             later == [x EXCEPT !.currentEpoch = e]
             a == [x.auth EXCEPT !.state = "sent", !.epoch = e]
             asked == [later EXCEPT !.auth = a]
             waiting == [x EXCEPT !.auth = [x.auth EXCEPT !.state = "waiting", !.count = 0]]
             c == Max({x.nodes[me].configEpoch, x.auth.epoch})
             won == [x EXCEPT !.nodes[me].configEpoch = c]
             msgs == clusterBroadcastMessage(asked, me, "request", [NoData EXCEPT !.force = x.mf.end])
             t == clusterHandleSlaveFailover(x, me, timer)
  <1>1. \/ t \in {Turn(x), Turn(waiting), [Turn(clusterSaveConfig(asked)) EXCEPT !.msgs = msgs]}
        \/ t = clusterFailoverReplaceYourMaster(won, me, FALSE)
    <2>1. asked = [x EXCEPT !.currentEpoch = @ + 1, !.auth = [@ EXCEPT !.state = "sent", !.epoch = x.currentEpoch + 1]]
      BY DEF StateOK, Fields
    <2>2. won = [x EXCEPT !.nodes[me].configEpoch = Max({@, x.auth.epoch})]
      BY DEF StateOK, Fields, NodesOK
    <2> HIDE DEF asked, won, waiting
    <2>3. QED
      BY <2>1, <2>2 DEF clusterHandleSlaveFailover, waiting
  <1> SUFFICES TurnOK(Nodes, Slots, x, t)
    OBVIOUS
  <1> HIDE DEF t
  <1>2. TurnOK(Nodes, Slots, x, Turn(x))
    BY SameSelf, SilentOK DEF Same
  <1>3. TurnOK(Nodes, Slots, x, Turn(waiting))
    <2> DEFINE b == [x.auth EXCEPT !.state = "waiting", !.count = 0]
    <2>1. AuthOK(b, x.currentEpoch)
      BY DEF StateOK, AuthOK
    <2> HIDE DEF b
    <2>2. Keeps(Nodes, Slots, x, [x EXCEPT !.auth = b])
      BY <2>1, AuthOnlyOK
    <2>3. QED
      BY <2>2, SilentOK DEF b
  <1>4. TurnOK(Nodes, Slots, x, [Turn(clusterSaveConfig(asked)) EXCEPT !.msgs = msgs])
    <2>1. x.currentEpoch \in Nat /\ e \in Nat /\ e >= x.currentEpoch
      BY DEF StateOK, EpochsOK
    <2>2. AuthOK(a, e)
      BY <2>1 DEF StateOK, AuthOK
    <2> HIDE DEF e, a
    <2>3. Keeps(Nodes, Slots, x, later) /\ later.currentEpoch = e /\ StateOK(Nodes, Slots, later)
      BY <2>1, EpochOK DEF Keeps
    <2> HIDE DEF later
    <2>4. Keeps(Nodes, Slots, later, asked) /\ StateOK(Nodes, Slots, asked)
      BY <2>2, <2>3, AuthOnlyOK DEF Keeps
    <2> HIDE DEF asked
    <2>5. PacketsOK(Nodes, Slots, msgs)
      BY <2>4, NoDataOK, BroadcastOK
    <2> HIDE DEF msgs
    <2>6. Keeps(Nodes, Slots, x, asked)
      BY <2>3, <2>4, KeepsTrans
    <2>7. Keeps(Nodes, Slots, x, clusterSaveConfig(asked))
      BY <2>4, <2>6, SaveOK, KeepsTrans
    <2>8. QED
      BY <2>5, <2>7, TalkingOK
  <1>5. TurnOK(Nodes, Slots, x, clusterFailoverReplaceYourMaster(won, me, FALSE))
    <2>1. /\ x.nodes[me].configEpoch \in Nat /\ x.nodes[me].configEpoch <= x.currentEpoch
          /\ x.auth.epoch \in Nat /\ x.auth.epoch <= x.currentEpoch
      BY MasterOfOK DEF StateOK, AuthOK
    <2>2. c \in Nat /\ c \in {x.nodes[me].configEpoch, x.auth.epoch}
      BY <2>1, MaxOfTwo
    <2> HIDE DEF c
    <2>3. c <= x.currentEpoch
      BY <2>1, <2>2
    <2>4. Keeps(Nodes, Slots, x, won) /\ StateOK(Nodes, Slots, won)
      BY <2>2, <2>3, ConfigEpochOK DEF Same, Keeps
    <2> HIDE DEF won
    <2>5. TurnOK(Nodes, Slots, won, clusterFailoverReplaceYourMaster(won, me, FALSE))
      BY <2>4, ReplaceYourMasterOK
    <2>6. QED
      BY <2>4, <2>5, KeepsTrans DEF TurnOK
  <1>6. QED
    BY <1>1, <1>2, <1>3, <1>4, <1>5

\* A replica moves to another master.
LEMMA SlaveMigrationOK ==
  ASSUME NEW x, StateOK(Nodes, Slots, x), NEW me \in Nodes, NEW z \in clusterHandleSlaveMigration(x, me)
  PROVE  Keeps(Nodes, Slots, x, z)
  <1>1. PICK n \in Nodes : IsMaster(x, n) /\ x.nodes[me].slaveof # NULL /\ z = clusterSetMaster(x, me, n)
    BY DEF clusterHandleSlaveMigration
  <1>2. n # me
    BY <1>1 DEF IsMaster
  <1>3. \A j \in Slots : x.slots[j] # me
    BY <1>1, MasterOfOK, OwnersOK
  <1>4. QED
    BY <1>1, <1>2, <1>3, SetMasterOK

\* The periodic work.
LEMMA CronOK ==
  ASSUME NEW x, StateOK(Nodes, Slots, x), NEW me \in Nodes, NEW timer, NEW t \in clusterCron(x, me, timer)
  PROVE  TurnOK(Nodes, Slots, x, t)
  <1> DEFINE reach(n) == n \in Others(me) /\ node[n].up
             nodes == [n \in Nodes |->
                    IF timer = "pfail" /\ n # me /\ ~reach(n) /\ x.nodes[n].flag = "ok"
                    THEN [x.nodes[n] EXCEPT !.flag = "pfail"] ELSE x.nodes[n]]
             seen == [x EXCEPT !.nodes = nodes]
             y == IF timer = "manual" THEN [seen EXCEPT !.mf = NoManual] ELSE seen
             slave == x.nodes[me].slaveof # NULL
             ready == clusterHandleManualFailover(y, me)
             turn == IF slave THEN clusterHandleSlaveFailover(ready, me, timer) ELSE Turn(y)
             moved == IF slave /\ timer = "orphan" THEN clusterHandleSlaveMigration(turn.x, me) ELSE {}
             ends == IF moved = {} THEN {turn} ELSE {[turn EXCEPT !.x = z] : z \in moved}
  <1>1. PICK s \in ends : t = [s EXCEPT !.x = clusterUpdateState(@, me, timer = "writable")]
    BY DEF clusterCron
  <1>2. NodesOK(Nodes, nodes, x.currentEpoch) /\ \A n \in Nodes : nodes[n].slaveof = x.nodes[n].slaveof
    <2>1. \A n \in Nodes : InfoOK(Nodes, n, x.nodes[n], x.currentEpoch)
      BY DEF StateOK, NodesOK
    <2>2. \A n \in Nodes : nodes[n].slaveof = x.nodes[n].slaveof /\ InfoOK(Nodes, n, nodes[n], x.currentEpoch)
      BY <2>1 DEF InfoOK
    <2>3. DOMAIN nodes = Nodes /\ NULL \notin Nodes
      BY DEF StateOK, NodesOK
    <2> HIDE DEF nodes
    <2>4. QED
      BY <2>2, <2>3 DEF NodesOK
  <1> HIDE DEF nodes
  <1>3. Keeps(Nodes, Slots, x, seen) /\ StateOK(Nodes, Slots, seen)
    BY <1>2, NodesOnlyOK DEF Same, Keeps
  <1> HIDE DEF seen
  <1>4. Keeps(Nodes, Slots, x, [seen EXCEPT !.mf = NoManual])
    BY <1>3, ManualOK, KeepsTrans DEF Same
  <1>5. Keeps(Nodes, Slots, x, y) /\ StateOK(Nodes, Slots, y)
    BY <1>3, <1>4 DEF Keeps
  <1> HIDE DEF y
  <1>6. Keeps(Nodes, Slots, x, ready) /\ StateOK(Nodes, Slots, ready)
    <2> DEFINE v == [y.mf EXCEPT !.can_start = TRUE]
    <2>1. ready \in {y, [y EXCEPT !.mf = v]}
      BY DEF clusterHandleManualFailover
    <2> HIDE DEF v, ready
    <2>2. Keeps(Nodes, Slots, x, [y EXCEPT !.mf = v])
      BY <1>5, ManualOK, KeepsTrans DEF Same
    <2>3. QED
      BY <1>5, <2>1, <2>2 DEF Keeps
  <1> HIDE DEF ready, slave
  <1>7. TurnOK(Nodes, Slots, x, turn)
    <2>1. TurnOK(Nodes, Slots, x, Turn(y))
      BY <1>5, SilentOK
    <2>2. TurnOK(Nodes, Slots, ready, clusterHandleSlaveFailover(ready, me, timer))
      BY <1>6, SlaveFailoverOK
    <2>3. TurnOK(Nodes, Slots, x, clusterHandleSlaveFailover(ready, me, timer))
      BY <1>6, <2>2, KeepsTrans DEF TurnOK
    <2>4. QED
      BY <2>1, <2>3
  <1> HIDE DEF turn
  <1>8. TurnOK(Nodes, Slots, x, s)
    <2>1. CASE s = turn
      BY <1>7, <2>1
    <2>2. CASE s # turn
      <3>1. PICK z \in clusterHandleSlaveMigration(turn.x, me) : s = [turn EXCEPT !.x = z]
        BY <1>1, <2>2
      <3>2. StateOK(Nodes, Slots, turn.x) /\ Keeps(Nodes, Slots, x, turn.x)
        BY <1>7 DEF TurnOK, Keeps
      <3>3. Keeps(Nodes, Slots, turn.x, z)
        BY <3>2, SlaveMigrationOK
      <3>4. Keeps(Nodes, Slots, x, z)
        BY <3>2, <3>3, KeepsTrans
      <3>5. QED
        BY <1>7, <3>1, <3>4 DEF TurnOK
    <2>3. QED
      BY <2>1, <2>2
  <1>9. Keeps(Nodes, Slots, s.x, clusterUpdateState(s.x, me, timer = "writable"))
    BY <1>8, UpdateStateOK DEF TurnOK, Keeps, Same
  <1>10. Keeps(Nodes, Slots, x, clusterUpdateState(s.x, me, timer = "writable"))
    BY <1>8, <1>9, KeepsTrans DEF TurnOK
  <1>11. QED
    BY <1>1, <1>8, <1>10 DEF TurnOK

-----------------------------------------------------------------------------
(* The inductive invariant.                                                *)

\* The nodes, what is in flight and the votes that have been cast: no vote is
\* for a later epoch than the voter's last one.
IInv ==
    /\ used.scenario \in Scenarios /\ DOMAIN used = {"scenario", "events"}
    /\ DOMAIN net = {"msgs", "cut"} /\ PacketsOK(Nodes, Slots, net.msgs)
    /\ DOMAIN node = Nodes /\ \A n \in Nodes : StateOK(Nodes, Slots, node[n])
    /\ DOMAIN hist = {"votes", "elected", "alone", "lost"}
    /\ \A v \in hist.votes : v.voter \in Nodes /\ v.epoch \in Nat /\ v.epoch <= node[v.voter].lastVoteEpoch
    /\ VotesOnce

\* The invariant says that the tables agree.
LEMMA TablesFromIInv ==
  ASSUME IInv
  PROVE  TablesAgree
  <1> SUFFICES ASSUME NEW n \in Nodes
               PROVE  /\ \A j \in Slots : node[n].slots[j] # NULL => IsMaster(node[n], node[n].slots[j])
                      /\ \A m \in Nodes : /\ node[n].nodes[m].slaveof # m
                                          /\ node[n].nodes[m].configEpoch <= node[n].currentEpoch
                      /\ node[n].lastVoteEpoch <= node[n].currentEpoch
                      /\ node[n].disk.lastVoteEpoch = node[n].lastVoteEpoch
    BY DEF TablesAgree
  <1>1. StateOK(Nodes, Slots, node[n])
    BY DEF IInv
  <1>2. \A j \in Slots : node[n].slots[j] # NULL => IsMaster(node[n], node[n].slots[j])
    BY <1>1, OwnersOK DEF IsMaster
  <1>3. \A m \in Nodes : node[n].nodes[m].slaveof # m /\ node[n].nodes[m].configEpoch <= node[n].currentEpoch
    BY <1>1, MasterOfOK
  <1>4. node[n].lastVoteEpoch <= node[n].currentEpoch /\ node[n].disk.lastVoteEpoch = node[n].lastVoteEpoch
    BY <1>1 DEF StateOK, EpochsOK, DiskOK
  <1>5. QED
    BY <1>2, <1>3, <1>4

\* What a step has to show: the states of the nodes and the packets are good,
\* no node goes back to an earlier vote, and at most one vote is new, by n in a
\* later epoch than its last one.
GoodStep(n, new) ==
    /\ used'.scenario = used.scenario /\ DOMAIN used' = {"scenario", "events"}
    /\ DOMAIN net' = {"msgs", "cut"} /\ PacketsOK(Nodes, Slots, net'.msgs)
    /\ DOMAIN node' = Nodes
    /\ \A k \in Nodes : StateOK(Nodes, Slots, node'[k]) /\ node'[k].lastVoteEpoch >= node[k].lastVoteEpoch
    /\ DOMAIN hist' = {"votes", "elected", "alone", "lost"}
    /\ \A v \in hist'.votes \ hist.votes :
          v = new /\ v.voter = n /\ v.epoch = node'[n].lastVoteEpoch /\ v.epoch # node[n].lastVoteEpoch

\* A step that shows it keeps the invariant.
LEMMA StepOK ==
  ASSUME IInv, NEW n \in Nodes, NEW new, GoodStep(n, new)
  PROVE  IInv'
  <1>0. /\ used'.scenario = used.scenario /\ DOMAIN used' = {"scenario", "events"}
        /\ DOMAIN net' = {"msgs", "cut"} /\ PacketsOK(Nodes, Slots, net'.msgs)
        /\ DOMAIN node' = Nodes
        /\ \A k \in Nodes : StateOK(Nodes, Slots, node'[k]) /\ node'[k].lastVoteEpoch >= node[k].lastVoteEpoch
        /\ DOMAIN hist' = {"votes", "elected", "alone", "lost"}
        /\ \A v \in hist'.votes \ hist.votes :
              v = new /\ v.voter = n /\ v.epoch = node'[n].lastVoteEpoch /\ v.epoch # node[n].lastVoteEpoch
    BY Zenon DEF GoodStep
  <1>1. Nodes' = Nodes /\ Slots' = Slots
    BY <1>0 DEF Nodes, Slots, Masters, Replicas
  <1>2. \A k \in Nodes : node[k].lastVoteEpoch \in Nat /\ node'[k].lastVoteEpoch \in Nat
    BY <1>0 DEF IInv, StateOK, EpochsOK
  <1>3. \A v \in hist.votes : v.voter \in Nodes /\ v.epoch \in Nat /\ v.epoch <= node[v.voter].lastVoteEpoch
    BY DEF IInv
  <1>4. ASSUME NEW v \in hist'.votes
        PROVE  v.voter \in Nodes /\ v.epoch \in Nat /\ v.epoch <= node'[v.voter].lastVoteEpoch
    <2>1. CASE v \in hist.votes
      <3>1. v.voter \in Nodes /\ v.epoch \in Nat /\ v.epoch <= node[v.voter].lastVoteEpoch
        BY Zenon, <1>3, <2>1
      <3>2. /\ node[v.voter].lastVoteEpoch \in Nat /\ node'[v.voter].lastVoteEpoch \in Nat
            /\ node'[v.voter].lastVoteEpoch >= node[v.voter].lastVoteEpoch
        BY Zenon, <1>0, <1>2, <3>1
      <3>3. QED
        BY <3>1, <3>2
    <2>2. CASE v \notin hist.votes
      <3>1. v.voter = n /\ v.epoch = node'[n].lastVoteEpoch
        BY Zenon, <1>0, <2>2
      <3>2. QED
        BY <1>2, <3>1
    <2>3. QED
      BY Zenon, <2>1, <2>2
  <1>5. VotesOnce'
    <2> SUFFICES ASSUME NEW v \in hist'.votes, NEW w \in hist'.votes, v.voter = w.voter, v.epoch = w.epoch
                 PROVE  v = w
      BY DEF VotesOnce
    <2>1. CASE v \in hist.votes /\ w \in hist.votes
      BY <2>1 DEF IInv, VotesOnce
    <2>2. CASE v \notin hist.votes /\ w \notin hist.votes
      BY <1>0, <2>2
    <2>3. \A a \in hist.votes : \A b \in hist'.votes \ hist.votes : a.voter = b.voter => a.epoch # b.epoch
      <3> SUFFICES ASSUME NEW a \in hist.votes, NEW b \in hist'.votes \ hist.votes, a.voter = b.voter
                   PROVE  a.epoch # b.epoch
        OBVIOUS
      <3>1. a.voter = n /\ a.epoch \in Nat /\ a.epoch <= node[n].lastVoteEpoch
        BY Zenon, <1>0, <1>3
      <3>2. /\ b.epoch = node'[n].lastVoteEpoch /\ b.epoch # node[n].lastVoteEpoch
            /\ node'[n].lastVoteEpoch >= node[n].lastVoteEpoch
        BY Zenon, <1>0
      <3>3. QED
        BY <1>2, <3>1, <3>2
    <2>4. QED
      BY <2>1, <2>2, <2>3
  <1>6. PacketsOK(Nodes', Slots', net'.msgs)
    BY <1>0, <1>1
  <1>7. \A k \in Nodes' : StateOK(Nodes', Slots', node'[k])
    BY <1>0, <1>1
  <1>8. used'.scenario \in Scenarios
    BY <1>0 DEF IInv
  <1>9. QED
    BY Zenon, <1>0, <1>1, <1>4, <1>5, <1>6, <1>7, <1>8 DEF IInv

\* Packets are lost or replaced; new ones come from the node.
LEMMA SendOK ==
  ASSUME NEW N, NEW J, NEW msgs, NEW new, PacketsOK(N, J, msgs), PacketsOK(N, J, new)
  PROVE  PacketsOK(N, J, Send(msgs, new))
  BY DEF PacketsOK, Send

\* A turn of a node.
LEMMA DoOK ==
  ASSUME IInv, NEW n \in Nodes, NEW t, VoteTurnOK(Nodes, Slots, node[n], t), NEW in,
         NEW p, \A q \in in : q = p, Do(n, t, in), UNCHANGED used
  PROVE  IInv'
  <1> DEFINE new == [voter |-> n, epoch |-> t.x.lastVoteEpoch, leader |-> p.hdr.from]
  <1>1. /\ StateOK(Nodes, Slots, t.x) /\ PacketsOK(Nodes, Slots, t.msgs)
        /\ t.x.lastVoteEpoch >= node[n].lastVoteEpoch
    BY DEF VoteTurnOK
  <1>2. node' = [node EXCEPT ![n] = t.x] /\ net' = [net EXCEPT !.msgs = Send(net.msgs \ in, t.msgs)]
    BY DEF Do
  <1>3. DOMAIN net' = {"msgs", "cut"} /\ net'.msgs = Send(net.msgs \ in, t.msgs)
    BY <1>2 DEF IInv
  <1>4. PacketsOK(Nodes, Slots, net.msgs \ in)
    BY DEF IInv, PacketsOK
  <1>5. PacketsOK(Nodes, Slots, net'.msgs)
    BY <1>1, <1>3, <1>4, SendOK
  <1>6. /\ DOMAIN node' = Nodes /\ node'[n] = t.x
        /\ \A k \in Nodes : StateOK(Nodes, Slots, node'[k]) /\ node'[k].lastVoteEpoch >= node[k].lastVoteEpoch
    <2>1. \A k \in Nodes : StateOK(Nodes, Slots, node[k]) /\ node[k].lastVoteEpoch \in Nat
      BY DEF IInv, StateOK, EpochsOK
    <2>2. DOMAIN node' = Nodes /\ node'[n] = t.x /\ \A k \in Nodes \ {n} : node'[k] = node[k]
      BY <1>2 DEF IInv
    <2>3. ASSUME NEW k \in Nodes
          PROVE  StateOK(Nodes, Slots, node'[k]) /\ node'[k].lastVoteEpoch >= node[k].lastVoteEpoch
      <3>1. CASE k = n
        BY Zenon, <1>1, <2>2, <3>1
      <3>2. CASE k # n
        BY Zenon, <2>1, <2>2, <3>2, NotBehind
      <3>3. QED
        BY Zenon, <3>1, <3>2
    <2>4. QED
      BY Zenon, <2>2, <2>3
  <1>7. /\ DOMAIN hist' = {"votes", "elected", "alone", "lost"}
        /\ hist'.votes = hist.votes \cup
              IF t.x.lastVoteEpoch = node[n].lastVoteEpoch THEN {}
              ELSE {[voter |-> n, epoch |-> t.x.lastVoteEpoch, leader |-> q.hdr.from] : q \in in}
    BY DEF Do
  <1>8. \A v \in hist'.votes \ hist.votes :
           v = new /\ v.voter = n /\ v.epoch = node'[n].lastVoteEpoch /\ v.epoch # node[n].lastVoteEpoch
    <2>1. new.voter = n /\ new.epoch = t.x.lastVoteEpoch
      OBVIOUS
    <2>2. \A q \in in : [voter |-> n, epoch |-> t.x.lastVoteEpoch, leader |-> q.hdr.from] = new
      BY Zenon
    <2> HIDE DEF new
    <2>3. \A v \in hist'.votes \ hist.votes : v = new /\ t.x.lastVoteEpoch # node[n].lastVoteEpoch
      BY Zenon, <1>7, <2>2
    <2>4. QED
      BY Zenon, <1>6, <2>1, <2>3
  <1> HIDE DEF new
  <1>9. used'.scenario = used.scenario /\ DOMAIN used' = {"scenario", "events"}
    BY DEF IInv
  <1>10. DOMAIN hist' = {"votes", "elected", "alone", "lost"}
    BY Zenon, <1>7
  <1>11. DOMAIN net' = {"msgs", "cut"}
    BY Zenon, <1>3
  <1>12. QED
    <2>1. GoodStep(n, new)
      BY Zenon, <1>5, <1>6, <1>8, <1>9, <1>10, <1>11 DEF GoodStep
    <2>2. QED
      BY <2>1, StepOK

\* A step in which n casts no vote.
LEMMA QuietOK ==
  ASSUME IInv, used'.scenario = used.scenario, DOMAIN used' = {"scenario", "events"},
         DOMAIN net' = {"msgs", "cut"}, PacketsOK(Nodes, Slots, net'.msgs),
         NEW n \in Nodes, NEW y, StateOK(Nodes, Slots, y), y.lastVoteEpoch = node[n].lastVoteEpoch,
         node' = [node EXCEPT ![n] = y],
         DOMAIN hist' = {"votes", "elected", "alone", "lost"}, hist'.votes = hist.votes
  PROVE  IInv'
  <1>1. \A k \in Nodes : StateOK(Nodes, Slots, node[k]) /\ node[k].lastVoteEpoch \in Nat
    BY DEF IInv, StateOK, EpochsOK
  <1>2. /\ DOMAIN node' = Nodes
        /\ \A k \in Nodes : StateOK(Nodes, Slots, node'[k]) /\ node'[k].lastVoteEpoch >= node[k].lastVoteEpoch
    <2>1. DOMAIN node' = Nodes /\ node'[n] = y /\ \A k \in Nodes \ {n} : node'[k] = node[k]
      BY Zenon DEF IInv
    <2>2. ASSUME NEW k \in Nodes
          PROVE  StateOK(Nodes, Slots, node'[k]) /\ node'[k].lastVoteEpoch = node[k].lastVoteEpoch
      BY Zenon, <1>1, <2>1
    <2>3. \A k \in Nodes : node'[k].lastVoteEpoch >= node[k].lastVoteEpoch
      BY Zenon, <1>1, <2>2, NotBehind
    <2>4. QED
      BY Zenon, <2>1, <2>2, <2>3
  <1>3. \A v \in hist'.votes \ hist.votes :
           v = 0 /\ v.voter = n /\ v.epoch = node'[n].lastVoteEpoch /\ v.epoch # node[n].lastVoteEpoch
    OBVIOUS
  <1>4. GoodStep(n, 0)
    BY Zenon, <1>2, <1>3 DEF GoodStep
  <1>5. QED
    BY <1>4, StepOK

\* The nodes start with the same configuration file.
LEMMA FirstConfigOK ==
  ASSUME ConstantsOK, used.scenario \in Scenarios
  PROVE  DiskOK(Nodes, Slots, FirstConfig, FirstConfig.lastVoteEpoch) /\ FirstConfig.lastVoteEpoch = 0
  <1> DEFINE c == used.scenario
             d == FirstConfig
  <1>1. /\ NULL \notin Nodes
        /\ \A n \in DOMAIN Replicas : n \notin DOMAIN Masters /\ Replicas[n] \in DOMAIN Masters
        /\ c.Epoch \in Nat /\ \A n \in DOMAIN Masters : c.Epochs[n] \in Nat /\ c.Epochs[n] <= c.Epoch
    BY DEF ConstantsOK, Nodes, Masters, Replicas
  <1>2. /\ d.currentEpoch = c.Epoch /\ d.lastVoteEpoch = 0
        /\ d.nodes = [n \in Nodes |->
              IF n \in DOMAIN Masters THEN Info(NULL, c.Epochs[n], IF n \in c.Failed THEN "fail" ELSE "ok")
              ELSE Info(Replicas[n], 0, "ok")]
        /\ d.slots = [j \in Slots |-> CHOOSE n \in DOMAIN Masters : j \in Masters[n]]
    BY DEF FirstConfig
  <1> HIDE DEF d
  <1>3. DOMAIN d.nodes = Nodes /\ DOMAIN d.slots = Slots
    BY <1>2
  <1>4. ASSUME NEW n \in Nodes
        PROVE  /\ InfoOK(Nodes, n, d.nodes[n], c.Epoch)
               /\ n \in DOMAIN Masters => d.nodes[n].slaveof = NULL
    <2>1. CASE n \in DOMAIN Masters
      <3> DEFINE f == IF n \in c.Failed THEN "fail" ELSE "ok"
      <3>1. d.nodes[n] = Info(NULL, c.Epochs[n], f)
        BY <1>2, <2>1
      <3> HIDE DEF f
      <3>2. QED
        BY <1>1, <2>1, <3>1 DEF InfoOK, Info
    <2>2. CASE n \notin DOMAIN Masters
      <3>1. d.nodes[n] = Info(Replicas[n], 0, "ok") /\ n \in DOMAIN Replicas
        BY <1>2, <2>2 DEF Nodes
      <3>2. Replicas[n] \in Nodes /\ Replicas[n] # n
        BY <1>1, <2>2, <3>1 DEF Nodes
      <3>3. QED
        BY <1>1, <2>2, <3>1, <3>2 DEF InfoOK, Info
    <2>3. QED
      BY <2>1, <2>2
  <1>5. \A j \in Slots : d.slots[j] \in DOMAIN Masters
    <2>1. \A j \in Slots : \E n \in DOMAIN Masters : j \in Masters[n]
      BY DEF Slots, Range
    <2>2. QED
      BY <1>2, <2>1
  <1>6. NodesOK(Nodes, d.nodes, c.Epoch)
    BY <1>1, <1>3, <1>4 DEF NodesOK
  <1>7. SlotsOK(Nodes, Slots, d.nodes, d.slots)
    BY <1>3, <1>4, <1>5 DEF SlotsOK, Nodes
  <1>8. EpochsOK(d.currentEpoch, d.lastVoteEpoch)
    BY <1>1, <1>2 DEF EpochsOK
  <1>9. d.currentEpoch = c.Epoch /\ d.lastVoteEpoch = 0
    BY Zenon, <1>2
  <1>10. DiskOK(Nodes, Slots, d, d.lastVoteEpoch)
    BY Zenon, <1>6, <1>7, <1>8, <1>9 DEF DiskOK
  <1>11. QED
    BY Zenon, <1>9, <1>10 DEF d

\* So their first states are good.
LEMMA FirstStateOK ==
  ASSUME ConstantsOK, used.scenario \in Scenarios, NEW n \in Nodes
  PROVE  StateOK(Nodes, Slots, FirstState(n))
  <1> DEFINE w == clusterLoadConfig(FirstConfig)
             x == [w EXCEPT !.up = n \notin used.scenario.Failed]
             nodes == [m \in Nodes |-> [x.nodes[m] EXCEPT !.migrate_to = m \in Range(Replicas)]]
             y == [x EXCEPT !.nodes = nodes]
  <1>1. FirstState(n) = clusterUpdateState(y, n, TRUE)
    BY DEF FirstState
  <1>2. StateOK(Nodes, Slots, w)
    BY FirstConfigOK, LoadOK
  <1> HIDE DEF w
  <1>3. /\ DOMAIN x = Fields /\ x.disk = w.disk /\ x.lastVoteEpoch = w.lastVoteEpoch
        /\ x.auth = w.auth /\ x.currentEpoch = w.currentEpoch /\ x.slots = w.slots /\ x.nodes = w.nodes
    BY <1>2 DEF StateOK, Fields
  <1> HIDE DEF x
  <1>4. StateOK(Nodes, Slots, x)
    BY <1>2, <1>3, AsideOK DEF Same, Keeps
  <1>5. NodesOK(Nodes, nodes, x.currentEpoch) /\ \A m \in Nodes : nodes[m].slaveof = x.nodes[m].slaveof
    BY <1>4 DEF StateOK, NodesOK, InfoOK
  <1> HIDE DEF nodes
  <1>6. StateOK(Nodes, Slots, y)
    BY <1>4, <1>5, NodesOnlyOK DEF Same, Keeps
  <1> HIDE DEF y
  <1>7. QED
    BY <1>1, <1>6, UpdateStateOK DEF Same, Keeps

\* The invariant holds in the beginning.
LEMMA InitOK ==
  ASSUME ConstantsOK, Init
  PROVE  IInv
  <1>1. used.scenario \in Scenarios /\ DOMAIN used = {"scenario", "events"}
    BY DEF Init
  <1>2. DOMAIN net = {"msgs", "cut"} /\ net.msgs = {}
    BY DEF Init
  <1>3. DOMAIN node = Nodes /\ \A n \in Nodes : node[n] = FirstState(n)
    BY DEF Init
  <1>4. DOMAIN hist = {"votes", "elected", "alone", "lost"} /\ hist.votes = {}
    BY DEF Init
  <1>5. \A n \in Nodes : StateOK(Nodes, Slots, node[n])
    BY <1>1, <1>3, FirstStateOK
  <1>6. QED
    BY <1>1, <1>2, <1>3, <1>4, <1>5 DEF IInv, PacketsOK, VotesOnce

\* What is the same in every step that uses up a bound.
LEMMA EventOK ==
  ASSUME IInv, NEW e, Event(e)
  PROVE  used'.scenario = used.scenario /\ DOMAIN used' = {"scenario", "events"}
  BY DEF IInv, Event

\* A packet arrives.
LEMMA ReceiveOK ==
  ASSUME IInv, NEW p \in net.msgs, Receive(p)
  PROVE  IInv'
  <1> DEFINE n == p.to
  <1>1. PICK late \in BOOLEAN :
          LET t == clusterProcessPacket(node[n], n, p, late)
          IN  Do(n, [t EXCEPT !.x = clusterUpdateState(@, n, FALSE)], {p})
    BY DEF Receive
  <1> DEFINE t == clusterProcessPacket(node[n], n, p, late)
             y == clusterUpdateState(t.x, n, FALSE)
             u == [t EXCEPT !.x = y]
  <1>2. PacketOK(Nodes, Slots, p) /\ n \in Nodes /\ UNCHANGED used
    BY DEF Receive, IInv, PacketsOK
  <1>3. StateOK(Nodes, Slots, node[n])
    BY <1>2 DEF IInv
  <1> HIDE DEF n
  <1>4. VoteTurnOK(Nodes, Slots, node[n], t)
    BY <1>2, <1>3, ProcessPacketOK
  <1>5. Do(n, u, {p})
    BY <1>1
  <1> HIDE DEF t
  <1>6. StateOK(Nodes, Slots, y) /\ y.lastVoteEpoch = t.x.lastVoteEpoch
    <2>1. StateOK(Nodes, Slots, t.x)
      BY <1>4 DEF VoteTurnOK
    <2>2. Same(Nodes, Slots, t.x, y)
      BY <2>1, UpdateStateOK
    <2> HIDE DEF y
    <2>3. QED
      BY <2>2 DEF Same, Keeps
  <1> HIDE DEF y
  <1>7. VoteTurnOK(Nodes, Slots, node[n], u)
    BY <1>4, <1>6 DEF VoteTurnOK
  <1> HIDE DEF u
  <1>8. \A q \in {p} : q = p
    OBVIOUS
  <1>9. QED
    BY <1>2, <1>5, <1>7, <1>8, DoOK

\* The periodic work of a node.
LEMMA CronStepOK ==
  ASSUME IInv, NEW n \in Nodes, Cron(n)
  PROVE  IInv'
  <1>0. PICK timer : \E t \in clusterCron(node[n], n, timer) : Do(n, t, {})
    BY DEF Cron
  <1>1. PICK t \in clusterCron(node[n], n, timer) : Do(n, t, {})
    BY <1>0
  <1>2. StateOK(Nodes, Slots, node[n]) /\ UNCHANGED used
    BY DEF IInv, Cron
  <1>3. VoteTurnOK(Nodes, Slots, node[n], t)
    BY <1>2, CronOK, TurnIsVoteTurn
  <1>4. \A q \in {} : q = 0
    OBVIOUS
  <1>5. QED
    BY <1>1, <1>2, <1>3, <1>4, DoOK

\* A step that only changes what is in flight, or what no node looks at.
LEMMA NetOnlyOK ==
  ASSUME IInv, used'.scenario = used.scenario, DOMAIN used' = {"scenario", "events"},
         DOMAIN net' = {"msgs", "cut"}, PacketsOK(Nodes, Slots, net'.msgs), NEW n \in Nodes,
         node' = node, hist' = hist
  PROVE  IInv'
  <1>1. \A k \in Nodes : node[k].lastVoteEpoch \in Nat
    BY DEF IInv, StateOK, EpochsOK
  <1>2. /\ DOMAIN node' = Nodes
        /\ \A k \in Nodes : StateOK(Nodes, Slots, node'[k]) /\ node'[k].lastVoteEpoch >= node[k].lastVoteEpoch
    BY Zenon, <1>1, NotBehind DEF IInv
  <1>3. DOMAIN hist' = {"votes", "elected", "alone", "lost"}
    BY DEF IInv
  <1>4. \A v \in hist'.votes \ hist.votes :
           v = 0 /\ v.voter = n /\ v.epoch = node'[n].lastVoteEpoch /\ v.epoch # node[n].lastVoteEpoch
    OBVIOUS
  <1>5. GoodStep(n, 0)
    BY Zenon, <1>2, <1>3, <1>4 DEF GoodStep
  <1>6. QED
    BY <1>5, StepOK

\* A header is sent.
LEMMA SendPingOK ==
  ASSUME IInv, NEW n \in Nodes, NEW m \in Nodes, clusterSendPing(n, m)
  PROVE  IInv'
  <1> DEFINE p == Packet(node[n], n, "ping", NoData, m)
  <1>1. net' = [net EXCEPT !.msgs = Send(net.msgs, {p})] /\ node' = node /\ hist' = hist /\ used' = used
    BY DEF clusterSendPing
  <1>2. StateOK(Nodes, Slots, node[n])
    BY DEF IInv
  <1>3. PacketOK(Nodes, Slots, p)
    BY <1>2, PacketIsOK, NoDataOK
  <1> HIDE DEF p
  <1>4. PacketsOK(Nodes, Slots, net.msgs) /\ PacketsOK(Nodes, Slots, {p})
    BY <1>3 DEF IInv, PacketsOK
  <1>5. PacketsOK(Nodes, Slots, Send(net.msgs, {p}))
    BY <1>4, SendOK
  <1>6. DOMAIN net' = {"msgs", "cut"} /\ net'.msgs = Send(net.msgs, {p})
    BY <1>1 DEF IInv
  <1>7. used'.scenario = used.scenario /\ DOMAIN used' = {"scenario", "events"}
    BY <1>1 DEF IInv
  <1>8. QED
    BY <1>1, <1>5, <1>6, <1>7, NetOnlyOK

\* CLUSTER FAILOVER TAKEOVER casts no vote, and takes an epoch of its own.
LEMMA TakeoverOK ==
  ASSUME NEW x, StateOK(Nodes, Slots, x), NEW n \in Nodes, NEW v
  PROVE  LET y == [x EXCEPT !.mf = v]
             b == clusterSaveConfig(clusterBumpConfigEpochWithoutConsensus(y, n))
         IN  TurnOK(Nodes, Slots, x, clusterFailoverReplaceYourMaster(b, n, FALSE))
  <1> DEFINE y == [x EXCEPT !.mf = v]
             c == clusterBumpConfigEpochWithoutConsensus(y, n)
             b == clusterSaveConfig(c)
             t == clusterFailoverReplaceYourMaster(b, n, FALSE)
  <1>1. Keeps(Nodes, Slots, x, y) /\ StateOK(Nodes, Slots, y)
    BY ManualOK DEF Same, Keeps
  <1> HIDE DEF y
  <1>2. Keeps(Nodes, Slots, y, c) /\ StateOK(Nodes, Slots, c)
    BY <1>1, OwnEpochOK DEF Keeps
  <1> HIDE DEF c
  <1>3. Keeps(Nodes, Slots, c, b) /\ StateOK(Nodes, Slots, b)
    BY <1>2, SaveOK DEF Keeps
  <1> HIDE DEF b
  <1>4. TurnOK(Nodes, Slots, b, t)
    BY <1>3, ReplaceYourMasterOK
  <1> HIDE DEF t
  <1>5. Keeps(Nodes, Slots, x, b)
    BY <1>1, <1>2, <1>3, KeepsTrans
  <1>6. TurnOK(Nodes, Slots, x, t)
    BY <1>4, <1>5, KeepsTrans DEF TurnOK
  <1>7. QED
    BY <1>6 DEF t, b, c, y

\* A step of n that casts no vote and sends new packets.
LEMMA SpeakOK ==
  ASSUME IInv, NEW e, Event(e), NEW n \in Nodes, NEW y, NEW new, Keeps(Nodes, Slots, node[n], y),
         PacketsOK(Nodes, Slots, new), node' = [node EXCEPT ![n] = y],
         net' = [net EXCEPT !.msgs = Send(net.msgs, new)],
         DOMAIN hist' = {"votes", "elected", "alone", "lost"}, hist'.votes = hist.votes
  PROVE  IInv'
  <1>1. PacketsOK(Nodes, Slots, Send(net.msgs, new))
    BY SendOK DEF IInv
  <1>2. DOMAIN net' = {"msgs", "cut"} /\ net'.msgs = Send(net.msgs, new)
    BY DEF IInv
  <1>3. StateOK(Nodes, Slots, y) /\ y.lastVoteEpoch = node[n].lastVoteEpoch
    BY DEF Keeps
  <1>4. used'.scenario = used.scenario /\ DOMAIN used' = {"scenario", "events"}
    BY EventOK
  <1>5. QED
    BY <1>1, <1>2, <1>3, <1>4, QuietOK

\* CLUSTER FAILOVER.
LEMMA FailoverCommandOK ==
  ASSUME IInv, NEW n \in Nodes, NEW how, FailoverCommand(n, how)
  PROVE  IInv'
  <1> DEFINE x == node[n]
             m == x.nodes[n].slaveof
             v == [NoManual EXCEPT !.end = TRUE, !.can_start = how = "force", !.round = used.events[how] + 1]
             y == [x EXCEPT !.mf = v]
             b == clusterSaveConfig(clusterBumpConfigEpochWithoutConsensus(y, n))
             t == clusterFailoverReplaceYourMaster(b, n, FALSE)
             p == Packet(y, n, "mfstart", [NoData EXCEPT !.number = y.mf.round], m)
             new == IF how = "force" THEN {} ELSE {p}
  <1>1. StateOK(Nodes, Slots, x) /\ DOMAIN hist = {"votes", "elected", "alone", "lost"}
    BY DEF IInv
  <1>2. m # NULL /\ Event(how)
    BY DEF FailoverCommand
  <1>3. m \in Nodes
    BY <1>1, <1>2, MasterOfOK
  <1>4. CASE how = "takeover"
    <2>1. /\ node' = [node EXCEPT ![n] = t.x] /\ net' = [net EXCEPT !.msgs = Send(net.msgs, t.msgs)]
          /\ hist' = [hist EXCEPT !.alone = @ \cup {b.nodes[n].configEpoch}]
      BY <1>4 DEF FailoverCommand
    <2> HIDE DEF x, v
    <2>2. TurnOK(Nodes, Slots, x, t)
      BY <1>1, TakeoverOK
    <2> HIDE DEF b, t
    <2>3. DOMAIN hist' = {"votes", "elected", "alone", "lost"} /\ hist'.votes = hist.votes
      BY <1>1, <2>1
    <2>4. Keeps(Nodes, Slots, node[n], t.x) /\ PacketsOK(Nodes, Slots, t.msgs)
      BY <2>2 DEF TurnOK, x
    <2>5. QED
      BY <1>2, <2>1, <2>3, <2>4, SpeakOK
  <1>5. CASE how # "takeover"
    <2>1. node' = [node EXCEPT ![n] = y] /\ net' = [net EXCEPT !.msgs = Send(net.msgs, new)] /\ hist' = hist
      BY <1>5 DEF FailoverCommand
    <2> HIDE DEF v, x
    <2>2. Keeps(Nodes, Slots, x, y) /\ StateOK(Nodes, Slots, y)
      BY <1>1, ManualOK DEF Same, Keeps
    <2> HIDE DEF y, m
    <2>3. PacketOK(Nodes, Slots, p)
      BY <1>3, <2>2, NoDataOK, PacketIsOK
    <2> HIDE DEF p
    <2>4. PacketsOK(Nodes, Slots, new)
      BY <2>3 DEF PacketsOK
    <2> HIDE DEF new
    <2>5. Keeps(Nodes, Slots, node[n], y) /\ hist'.votes = hist.votes
      BY <2>1, <2>2 DEF x
    <2>6. DOMAIN hist' = {"votes", "elected", "alone", "lost"}
      BY <1>1, <2>1
    <2>7. QED
      BY <1>2, <2>1, <2>4, <2>5, <2>6, SpeakOK
  <1>6. QED
    BY <1>4, <1>5

\* A crash takes nothing but the packets to the node, which forgets nothing yet.
LEMMA CrashOK ==
  ASSUME IInv, NEW n \in Nodes, Crash(n)
  PROVE  IInv'
  <1> DEFINE x == node[n]
             y == [x EXCEPT !.up = FALSE]
  <1>1. /\ node' = [node EXCEPT ![n] = y] /\ net' = [net EXCEPT !.msgs = {p \in net.msgs : p.to # n}]
        /\ hist' = hist /\ Event("crash")
    BY DEF Crash
  <1>2. StateOK(Nodes, Slots, x) /\ DOMAIN hist' = {"votes", "elected", "alone", "lost"}
    BY <1>1 DEF IInv
  <1> HIDE DEF x
  <1>3. /\ DOMAIN y = Fields /\ y.disk = x.disk /\ y.lastVoteEpoch = x.lastVoteEpoch
        /\ y.auth = x.auth /\ y.currentEpoch = x.currentEpoch /\ y.slots = x.slots /\ y.nodes = x.nodes
    BY <1>2 DEF StateOK, Fields
  <1> HIDE DEF y
  <1>4. StateOK(Nodes, Slots, y)
    BY <1>2, <1>3, AsideOK DEF Same, Keeps
  <1>5. DOMAIN net' = {"msgs", "cut"} /\ PacketsOK(Nodes, Slots, net'.msgs)
    BY <1>1 DEF IInv, PacketsOK
  <1>6. used'.scenario = used.scenario /\ DOMAIN used' = {"scenario", "events"}
    BY <1>1, EventOK
  <1>7. y.lastVoteEpoch = node[n].lastVoteEpoch /\ hist'.votes = hist.votes
    BY <1>1, <1>3 DEF x
  <1>8. QED
    BY <1>1, <1>2, <1>4, <1>5, <1>6, <1>7, QuietOK

\* A restart reads the last vote from the configuration file.
LEMMA RestartOK ==
  ASSUME IInv, NEW n \in Nodes, Restart(n)
  PROVE  IInv'
  <1> DEFINE y == clusterLoadConfig(node[n].disk)
  <1>1. node' = [node EXCEPT ![n] = y] /\ net' = net /\ hist' = hist /\ Event("restart")
    BY DEF Restart
  <1>2. /\ DiskOK(Nodes, Slots, node[n].disk, node[n].lastVoteEpoch)
        /\ node[n].disk.lastVoteEpoch = node[n].lastVoteEpoch
    BY DEF IInv, StateOK, DiskOK
  <1>3. StateOK(Nodes, Slots, y) /\ y.lastVoteEpoch = node[n].lastVoteEpoch
    BY <1>2, LoadOK
  <1> HIDE DEF y
  <1>4. /\ DOMAIN net' = {"msgs", "cut"} /\ PacketsOK(Nodes, Slots, net'.msgs)
        /\ DOMAIN hist' = {"votes", "elected", "alone", "lost"} /\ hist'.votes = hist.votes
    BY <1>1 DEF IInv
  <1>5. used'.scenario = used.scenario /\ DOMAIN used' = {"scenario", "events"}
    BY <1>1, EventOK
  <1>6. QED
    BY <1>1, <1>3, <1>4, <1>5, QuietOK

\* Links break and work again: packets are lost.
LEMMA CutOK ==
  ASSUME IInv, NEW n \in Nodes, NEW m, Cut(n, m)
  PROVE  IInv'
  <1>1. node' = node /\ hist' = hist /\ Event("cut")
    BY DEF Cut
  <1>2. DOMAIN net' = {"msgs", "cut"} /\ net'.msgs \subseteq net.msgs
    BY DEF Cut, IInv
  <1>3. PacketsOK(Nodes, Slots, net'.msgs)
    BY <1>2 DEF IInv, PacketsOK
  <1>4. used'.scenario = used.scenario /\ DOMAIN used' = {"scenario", "events"}
    BY <1>1, EventOK
  <1>5. QED
    BY <1>1, <1>2, <1>3, <1>4, NetOnlyOK

\* Every step of the cluster keeps the invariant.
LEMMA NextOK ==
  ASSUME IInv, [Next]_vars
  PROVE  IInv'
  <1>1. ASSUME NEW n \in Nodes, UNCHANGED <<node, net, hist, used>>
        PROVE  IInv'
    <2>1. /\ used'.scenario = used.scenario /\ DOMAIN used' = {"scenario", "events"}
          /\ DOMAIN net' = {"msgs", "cut"} /\ PacketsOK(Nodes, Slots, net'.msgs)
      BY <1>1 DEF IInv
    <2>2. QED
      BY <1>1, <2>1, NetOnlyOK
  <1>2. ASSUME NEW p \in net.msgs, Receive(p)
        PROVE  IInv'
    BY <1>2, ReceiveOK
  <1>3. ASSUME NEW n \in Nodes, Cron(n) \/ Write(n) \/ Replicate(n) \/ Crash(n) \/ Restart(n)
        PROVE  IInv'
    <2>1. CASE Write(n) \/ Replicate(n)
      BY <1>1, <2>1 DEF Write, Replicate
    <2>2. QED
      BY <1>3, <2>1, CronStepOK, CrashOK, RestartOK
  <1>4. ASSUME NEW n \in Nodes, NEW m \in Nodes, clusterSendPing(n, m) \/ Cut(n, m)
        PROVE  IInv'
    BY <1>4, SendPingOK, CutOK
  <1>5. ASSUME NEW n \in Nodes, NEW how, FailoverCommand(n, how)
        PROVE  IInv'
    BY <1>5, FailoverCommandOK
  <1>6. CASE UNCHANGED vars
    <2>1. node' = node /\ net' = net /\ hist' = hist /\ used' = used
      BY <1>6 DEF vars
    <2>2. Nodes' = Nodes /\ Slots' = Slots
      BY <2>1 DEF Nodes, Slots, Masters, Replicas
    <2>3. QED
      BY <2>1, <2>2 DEF IInv, VotesOnce
  <1>7. QED
    BY <1>2, <1>3, <1>4, <1>5, <1>6 DEF Next

-----------------------------------------------------------------------------
(* The results.                                                            *)

\* In every reachable state of every cluster the tables of a node agree (slots
\* belong to masters, no node is its own replica, no epoch is ahead of the
\* current one, the file has the last vote), and a master has voted once in an
\* epoch, whatever messages were lost, delayed or overtaken and whichever nodes
\* were restarted.
THEOREM VotesAndTables == ConstantsOK /\ Spec => []TablesAndVotes
  <1>1. ConstantsOK /\ Init => IInv
    BY InitOK
  <1>2. IInv /\ [Next]_vars => IInv'
    BY NextOK
  <1>3. IInv => TablesAndVotes
    BY TablesFromIInv DEF IInv, TablesAndVotes
  <1>4. QED
    BY <1>1, <1>2, <1>3, PTL DEF Spec
=============================================================================
