--------------------------- MODULE SentinelProofs ---------------------------
(***************************************************************************)
(* The Sentinels implement Election, for any number of Sentinels, epochs,  *)
(* crashes, lost and delayed messages: each casts one vote in an epoch,    *)
(* keeps it across restarts, and counts only votes that were cast.         *)
(***************************************************************************)
EXTENDS Sentinel, TLAPS

Fields ==
    {"up", "tilt", "disk", "current_epoch", "addr", "config_epoch", "leader", "leader_epoch",
     "sdown", "odown", "role", "failover_state", "failover_epoch", "force", "promoted",
     "slaves", "peers"}

Vote(s, e, l) == [voter |-> s, epoch |-> e, leader |-> l]

\* What the file of a Sentinel holds: the epoch of its last vote.
DiskOK(S, d, e) ==
    /\ d.leader_epoch = e
    /\ d.current_epoch \in Nat /\ d.config_epoch \in Nat /\ d.peers \subseteq S

\* What Sentinel s of S knows of the others' votes is true.
PeersOK(S, peers, V) ==
    /\ DOMAIN peers \subseteq S
    /\ \A t \in DOMAIN peers :
        /\ DOMAIN peers[t] = {"down", "leader", "leader_epoch"}
        /\ peers[t].leader # NULL => Vote(t, peers[t].leader_epoch, peers[t].leader) \in V

\* The state x of Sentinel s of S, when the votes V have been cast.
StateOK(S, s, x, V) ==
    /\ DOMAIN x = Fields
    /\ x.current_epoch \in Nat /\ x.config_epoch \in Nat
    /\ x.leader_epoch \in Nat /\ x.failover_epoch \in Nat
    /\ x.failover_state = "wait_start" => x.failover_epoch <= x.current_epoch
    /\ DiskOK(S, x.disk, x.leader_epoch)
    /\ PeersOK(S, x.peers, V)
    /\ x.leader # NULL => Vote(s, x.leader_epoch, x.leader) \in V

\* A step from x to y that casts no vote.
Silent(S, s, x, y, V) ==
    /\ StateOK(S, s, y, V)
    /\ y.leader_epoch = x.leader_epoch /\ y.leader \in {x.leader, NULL}

\* y is x but for its file and for what the election does not look at.
Alike(x, y) ==
    /\ DOMAIN x = Fields /\ DOMAIN y = Fields
    /\ y.current_epoch = x.current_epoch /\ y.config_epoch = x.config_epoch
    /\ y.leader = x.leader /\ y.leader_epoch = x.leader_epoch
    /\ y.failover_epoch = x.failover_epoch /\ y.peers = x.peers

\* What agrees with x in the fields of the election is as good as x.
LEMMA AlikeOK ==
  ASSUME NEW S, NEW s, NEW V, NEW x, NEW y, StateOK(S, s, x, V), Alike(x, y),
         y.disk = x.disk \/ DiskOK(S, y.disk, x.leader_epoch),
         y.failover_state = "wait_start" => y.failover_epoch <= y.current_epoch
  PROVE  StateOK(S, s, y, V)
  BY DEF StateOK, Alike

\* sentinelFlushConfig writes the disk and nothing else.
LEMMA FlushAlike ==
  ASSUME NEW x, DOMAIN x = Fields
  PROVE  LET y == sentinelFlushConfig(x)
         IN  /\ Alike(x, y) /\ y.failover_state = x.failover_state
             /\ y.disk = Config(x)
  BY DEF sentinelFlushConfig, Fields, Alike

\* What sentinelFlushConfig writes is never ahead of the Sentinel.
LEMMA ConfigOK ==
  ASSUME NEW S, NEW x, x.current_epoch \in Nat, x.config_epoch \in Nat, DOMAIN x.peers \subseteq S
  PROVE  DiskOK(S, Config(x), x.leader_epoch)
  BY DEF DiskOK, Config

\* A Sentinel may flush its configuration at any time.
LEMMA FlushOK ==
  ASSUME NEW S, NEW s, NEW V, NEW x, StateOK(S, s, x, V)
  PROVE  LET y == sentinelFlushConfig(x)
         IN  StateOK(S, s, y, V) /\ Alike(x, y) /\ y.failover_state = x.failover_state
  <1> DEFINE y == sentinelFlushConfig(x)
  <1>1. DOMAIN x = Fields
    BY DEF StateOK
  <1>2. Alike(x, y) /\ y.failover_state = x.failover_state /\ y.disk = Config(x)
    BY <1>1, FlushAlike
  <1>3. DiskOK(S, y.disk, x.leader_epoch)
    <2>1. x.current_epoch \in Nat /\ x.config_epoch \in Nat /\ DOMAIN x.peers \subseteq S
      BY DEF StateOK, PeersOK
    <2>2. QED
      BY <1>2, <2>1, ConfigOK
  <1>4. y.failover_state = "wait_start" => y.failover_epoch <= y.current_epoch
    BY <1>2 DEF StateOK, Alike
  <1>5. QED
    BY <1>2, <1>3, <1>4, AlikeOK

\* A step from x to y casts no vote, or one in a newer epoch.
OneNewVote(S, x, y) ==
    \/ y.leader_epoch = x.leader_epoch
    \/ y.leader_epoch \in Nat /\ y.leader_epoch > x.leader_epoch /\ y.leader \in S

\* What a vote does not change.
VoteKeeps(x, y) ==
    /\ y.peers = x.peers /\ y.failover_epoch = x.failover_epoch
    /\ y.failover_state = x.failover_state /\ y.force = x.force
    /\ y.current_epoch >= x.current_epoch

\* A Sentinel may move to a later epoch.
LEMMA EpochOK ==
  ASSUME NEW S, NEW s, NEW V, NEW x, StateOK(S, s, x, V), NEW e \in Nat, e >= x.current_epoch
  PROVE  LET y == [x EXCEPT !.current_epoch = e]
         IN  /\ StateOK(S, s, y, V)
             /\ y.current_epoch = e /\ y.leader_epoch = x.leader_epoch /\ y.leader = x.leader
             /\ VoteKeeps(x, y)
  <1> DEFINE y == [x EXCEPT !.current_epoch = e]
  <1>1. /\ DOMAIN y = Fields /\ y.disk = x.disk /\ y.config_epoch = x.config_epoch
        /\ y.current_epoch = e /\ y.leader_epoch = x.leader_epoch /\ y.leader = x.leader
        /\ y.peers = x.peers /\ y.failover_epoch = x.failover_epoch
        /\ y.failover_state = x.failover_state /\ y.force = x.force
    BY DEF StateOK, Fields
  <1> HIDE DEF y
  <1>2. StateOK(S, s, y, V)
    BY <1>1 DEF StateOK
  <1>3. QED
    BY <1>1, <1>2 DEF VoteKeeps, y

\* The vote for id in epoch e, as sentinelVoteLeader records it.
Ballot(x, e, id) == sentinelFlushConfig([x EXCEPT !.leader = id, !.leader_epoch = e])

\* A vote that is stored and flushed is on disk before it can be answered.
LEMMA BallotOK ==
  ASSUME NEW S, NEW s, NEW V, NEW x, StateOK(S, s, x, V), NEW e \in Nat, NEW id \in S
  PROVE  LET y == Ballot(x, e, id)
         IN  /\ StateOK(S, s, y, V \cup {Vote(s, e, id)})
             /\ y.leader = id /\ y.leader_epoch = e /\ y.current_epoch = x.current_epoch
             /\ y.peers = x.peers /\ y.failover_epoch = x.failover_epoch
             /\ y.failover_state = x.failover_state /\ y.force = x.force
  <1> DEFINE z == [x EXCEPT !.leader = id, !.leader_epoch = e]
             y == sentinelFlushConfig(z)
             W == V \cup {Vote(s, e, id)}
  <1>1. /\ DOMAIN z = Fields /\ z.config_epoch = x.config_epoch /\ z.current_epoch = x.current_epoch
        /\ z.leader = id /\ z.leader_epoch = e /\ z.force = x.force
        /\ z.peers = x.peers /\ z.failover_epoch = x.failover_epoch
        /\ z.failover_state = x.failover_state
    BY DEF StateOK, Fields
  <1> HIDE DEF z
  <1>2. Alike(z, y) /\ y.failover_state = z.failover_state /\ y.disk = Config(z)
    BY <1>1, FlushAlike
  <1>3. y.force = z.force
    BY <1>1 DEF sentinelFlushConfig, Fields
  <1>4. DiskOK(S, y.disk, e)
    <2>1. z.current_epoch \in Nat /\ z.config_epoch \in Nat /\ DOMAIN z.peers \subseteq S
      BY <1>1 DEF StateOK, PeersOK
    <2>2. QED
      BY <1>1, <1>2, <2>1, ConfigOK
  <1> HIDE DEF y
  <1>5. PeersOK(S, x.peers, W)
    BY DEF StateOK, PeersOK
  <1>6. StateOK(S, s, y, W)
    BY <1>1, <1>2, <1>4, <1>5 DEF StateOK, Alike
  <1>7. QED
    BY <1>1, <1>2, <1>3, <1>6 DEF Alike, Ballot, y, z

\* sentinelVoteLeader votes at most once, in the epoch asked for, and saves
\* the vote.
LEMMA VoteLeaderOK ==
  ASSUME NEW S, NEW s, NEW V, NEW x, StateOK(S, s, x, V), NEW e \in Nat, NEW id \in S
  PROVE  LET y == sentinelVoteLeader(x, e, id)
         IN  /\ StateOK(S, s, y, V \cup Votes(s, x, y))
             /\ OneNewVote(S, x, y) /\ VoteKeeps(x, y)
  <1> DEFINE up == [x EXCEPT !.current_epoch = e]
             z == IF e > x.current_epoch THEN sentinelFlushConfig(up) ELSE x
             ballot == Ballot(z, z.current_epoch, id)
             y == IF z.leader_epoch < e /\ z.current_epoch <= e THEN ballot ELSE z
  <1>0. sentinelVoteLeader(x, e, id) = y
    BY DEF sentinelVoteLeader, Ballot
  <1>1. /\ StateOK(S, s, z, V) /\ z.leader_epoch = x.leader_epoch
        /\ VoteKeeps(x, z) /\ z.current_epoch >= e
    <2>1. CASE e > x.current_epoch
      <3>1. /\ StateOK(S, s, up, V) /\ up.current_epoch = e
            /\ up.leader_epoch = x.leader_epoch /\ VoteKeeps(x, up)
        <4>1. e >= x.current_epoch
          BY <2>1 DEF StateOK
        <4>2. QED
          BY <4>1, EpochOK
      <3> HIDE DEF up
      <3> DEFINE f == sentinelFlushConfig(up)
      <3>2. StateOK(S, s, f, V) /\ Alike(up, f) /\ f.failover_state = up.failover_state
        BY <3>1, FlushOK
      <3>3. f.force = up.force
        <4>1. DOMAIN up = Fields
          BY <3>1 DEF StateOK
        <4>2. QED
          BY <4>1 DEF sentinelFlushConfig, Fields
      <3>4. z = f
        BY <2>1
      <3> HIDE DEF f, z
      <3>5. QED
        BY <3>1, <3>2, <3>3, <3>4 DEF Alike, VoteKeeps
    <2>2. CASE ~(e > x.current_epoch)
      <3>1. z = x /\ x.current_epoch \in Nat
        BY <2>2 DEF StateOK
      <3> HIDE DEF z
      <3>2. QED
        BY <2>2, <3>1 DEF VoteKeeps
    <2>3. QED
      BY <2>1, <2>2
  <1> HIDE DEF z
  <1>2. /\ z.current_epoch \in Nat /\ z.leader_epoch \in Nat
        /\ x.current_epoch \in Nat /\ x.leader_epoch \in Nat
    BY <1>1 DEF StateOK
  <1>3. CASE z.leader_epoch < e /\ z.current_epoch <= e
    <2>1. z.current_epoch = e
      BY <1>1, <1>2, <1>3
    <2>2. /\ StateOK(S, s, ballot, V \cup {Vote(s, e, id)})
          /\ ballot.leader = id /\ ballot.leader_epoch = e /\ ballot.current_epoch = z.current_epoch
          /\ ballot.peers = z.peers /\ ballot.failover_epoch = z.failover_epoch
          /\ ballot.failover_state = z.failover_state /\ ballot.force = z.force
      <3> DEFINE c == z.current_epoch
      <3>1. c \in Nat /\ StateOK(S, s, z, V)
        BY <1>1, <1>2
      <3>2. /\ StateOK(S, s, ballot, V \cup {Vote(s, c, id)})
            /\ ballot.leader = id /\ ballot.leader_epoch = c /\ ballot.current_epoch = c
            /\ ballot.peers = z.peers /\ ballot.failover_epoch = z.failover_epoch
            /\ ballot.failover_state = z.failover_state /\ ballot.force = z.force
        <4> HIDE DEF z
        <4>1. QED
          BY <3>1, BallotOK
      <3> HIDE DEF ballot
      <3>3. QED
        BY <2>1, <3>2
    <2>3. y = ballot
      BY <1>3
    <2> HIDE DEF ballot, y
    <2>4. e > x.leader_epoch /\ e # x.leader_epoch
      BY <1>1, <1>2, <1>3
    <2>5. Votes(s, x, y) = {Vote(s, e, id)}
      BY <2>2, <2>3, <2>4 DEF Votes, Vote
    <2>6. OneNewVote(S, x, y)
      BY <2>2, <2>3, <2>4 DEF OneNewVote
    <2>7. VoteKeeps(x, y)
      BY <1>1, <2>2, <2>3 DEF VoteKeeps
    <2>8. QED
      BY <1>0, <2>2, <2>3, <2>5, <2>6, <2>7
  <1>4. CASE ~(z.leader_epoch < e /\ z.current_epoch <= e)
    <2>1. y = z
      BY <1>4
    <2> HIDE DEF y
    <2>2. Votes(s, x, y) = {} /\ V \cup {} = V
      BY <1>1, <2>1 DEF Votes
    <2>3. QED
      BY <1>0, <1>1, <2>1, <2>2 DEF OneNewVote
  <1>5. QED
    BY <1>3, <1>4

----------------------------------------------------------------------------
(* Counting the votes.                                                     *)

\* What counting needs of the Sentinels S, who are finitely many.
Countable(S) ==
    /\ IsFiniteSet(S)
    /\ \A T \in SUBSET S :
        /\ Cardinality(T) \in Nat
        /\ \A U \in SUBSET T : Cardinality(U) <= Cardinality(T)
        /\ \A t \in S \ T : Cardinality(T \cup {t}) = Cardinality(T) + 1
    /\ \A n \in Nat : \A T \in SUBSET (0..n) : T # {} => \E m \in T : \A k \in T : m >= k

\* A largest number of votes exists.
LEMMA MaxExists ==
  ASSUME NEW S, Countable(S), NEW n \in Nat, NEW T \in SUBSET (0..n), T # {}
  PROVE  Max(T) \in T
  <1>1. \E m \in T : \A k \in T : m >= k
    BY Zenon DEF Countable
  <1>2. QED
    BY Zenon, <1>1 DEF Max

\* The Sentinels that x has heard to vote for l in its current epoch.
Supporters(x, l) ==
    {t \in DOMAIN x.peers : x.peers[t].leader = l /\ x.peers[t].leader_epoch = x.current_epoch}

MaxVotes(x) == Max({Cardinality(Supporters(x, l)) : l \in Sentinels})

\* Those who have voted for l in epoch e.
Voters(S, l, e, V) == {t \in S : Vote(t, e, l) \in V}

\* The replies a Sentinel has collected for l stand for votes cast for l.
LEMMA SupportersVoted ==
  ASSUME NEW S, Countable(S), NULL \notin S, NEW s \in S, NEW V, NEW x, StateOK(S, s, x, V),
         NEW l \in S
  PROVE  /\ Supporters(x, l) \subseteq Voters(S, l, x.current_epoch, V)
         /\ Supporters(x, l) \subseteq DOMAIN x.peers
         /\ Cardinality(Supporters(x, l)) \in Nat /\ Cardinality(DOMAIN x.peers) \in Nat
         /\ Cardinality(Supporters(x, l)) <= Cardinality(DOMAIN x.peers)
  <1>1. DOMAIN x.peers \subseteq S
    BY DEF StateOK, PeersOK
  <1>2. Supporters(x, l) \subseteq DOMAIN x.peers
    BY DEF Supporters
  <1>3. Supporters(x, l) \subseteq Voters(S, l, x.current_epoch, V)
    <2>1. SUFFICES ASSUME NEW t \in Supporters(x, l)
                   PROVE  t \in Voters(S, l, x.current_epoch, V)
      OBVIOUS
    <2>2. /\ t \in DOMAIN x.peers /\ x.peers[t].leader = l
          /\ x.peers[t].leader_epoch = x.current_epoch /\ l # NULL
      BY DEF Supporters
    <2>3. Vote(t, x.peers[t].leader_epoch, x.peers[t].leader) \in V
      BY <2>2 DEF StateOK, PeersOK
    <2>4. QED
      BY <1>1, <2>2, <2>3 DEF Voters
  <1>4. /\ Cardinality(Supporters(x, l)) \in Nat /\ Cardinality(DOMAIN x.peers) \in Nat
        /\ Cardinality(Supporters(x, l)) <= Cardinality(DOMAIN x.peers)
    BY <1>1, <1>2 DEF Countable
  <1>5. QED
    BY <1>2, <1>3, <1>4

\* A majority as sentinelGetLeader counts it is more than half of all.
LEMMA MoreThanHalf ==
  ASSUME NEW n \in Nat, NEW v \in Nat, v >= Majority(n) PROVE 2 * v > n
  BY DEF Majority

\* sentinelGetLeader, with names for what it computes.
MyVote(x, s, e, w) == sentinelVoteLeader(x, e, IF w = NULL THEN s ELSE w)

\* What sentinelGetLeader returns, with the vote it casts on the way.
LEMMA GetLeaderCases ==
  ASSUME NEW x, NEW s, NEW e, NEW r \in sentinelGetLeader(x, s, e)
  PROVE  \E w \in Sentinels \cup {NULL} :
            /\ r.x = MyVote(x, s, e, w)
            /\ w # NULL => Cardinality(Supporters(x, w)) = MaxVotes(x)
            /\ r.leader # NULL =>
                \/ /\ r.leader = w
                   /\ ~(MaxVotes(x) < Majority(Cardinality(DOMAIN x.peers) + 1))
                \/ /\ r.leader = r.x.leader /\ r.x.leader_epoch = e
                   /\ Cardinality(Supporters(x, r.leader)) + 1 > MaxVotes(x)
                   /\ ~(MaxVotes(x) + 1 < Majority(Cardinality(DOMAIN x.peers) + 1))
  <1> DEFINE count(l) == Cardinality(Supporters(x, l))
             max == MaxVotes(x)
             y(w) == MyVote(x, s, e, w)
             mine(w) == IF y(w).leader # NULL /\ y(w).leader_epoch = e THEN {y(w).leader} ELSE {}
             won(w) == {l \in mine(w) : count(l) + 1 > max}
             votes(w) == IF won(w) = {} THEN max ELSE max + 1
             few(w) == votes(w) < Majority(Cardinality(DOMAIN x.peers) + 1) \/ votes(w) < Quorum
             found(w) == [x |-> y(w),
                          leader |-> IF few(w) THEN NULL
                                     ELSE IF won(w) = {} THEN w ELSE CHOOSE l \in won(w) : TRUE]
  <1>1. sentinelGetLeader(x, s, e) =
          {found(w) : w \in IF max = 0 THEN {NULL} ELSE {l \in Sentinels : count(l) = max}}
    BY Zenon DEF sentinelGetLeader, Supporters, MaxVotes, MyVote
  <1>2. PICK w : /\ w \in IF max = 0 THEN {NULL} ELSE {l \in Sentinels : count(l) = max}
                 /\ r = found(w)
    BY <1>1
  <1>3. w \in Sentinels \cup {NULL} /\ (w # NULL => count(w) = max)
    BY <1>2
  <1>4. r.x = y(w)
    BY <1>2
  <1>5. ASSUME r.leader # NULL
        PROVE  \/ r.leader = w /\ ~(max < Majority(Cardinality(DOMAIN x.peers) + 1))
               \/ /\ r.leader = r.x.leader /\ r.x.leader_epoch = e
                  /\ count(r.leader) + 1 > max
                  /\ ~(max + 1 < Majority(Cardinality(DOMAIN x.peers) + 1))
    <2>1. ~few(w) /\ r.leader = IF won(w) = {} THEN w ELSE CHOOSE l \in won(w) : TRUE
      BY <1>2, <1>5
    <2>2. CASE won(w) = {}
      BY <2>1, <2>2
    <2>3. CASE won(w) # {}
      <3>1. r.leader \in won(w)
        BY <2>1, <2>3
      <3>2. /\ r.leader \in mine(w) /\ count(r.leader) + 1 > max
            /\ ~(max + 1 < Majority(Cardinality(DOMAIN x.peers) + 1))
        BY <2>1, <2>3, <3>1
      <3>3. r.leader = y(w).leader /\ y(w).leader_epoch = e
        BY <3>2
      <3>4. QED
        BY <1>4, <3>2, <3>3
    <2>4. QED
      BY <2>2, <2>3
  <1>6. QED
    BY <1>3, <1>4, <1>5

\* The leader that s finds, if it is s itself and s counted the votes of the
\* epoch of its election among all the others, has a majority.
LEMMA GetLeaderOK ==
  ASSUME Countable(Sentinels), NULL \notin Sentinels, NEW s \in Sentinels,
         NEW V, NEW x, StateOK(Sentinels, s, x, V),
         NEW e \in Nat, NEW r \in sentinelGetLeader(x, s, e)
  PROVE  /\ StateOK(Sentinels, s, r.x, V \cup Votes(s, x, r.x))
         /\ OneNewVote(Sentinels, x, r.x) /\ VoteKeeps(x, r.x)
         /\ r.leader = s /\ x.current_epoch = e /\ DOMAIN x.peers = Sentinels \ {s} =>
              2 * Cardinality(Voters(Sentinels, s, e, V \cup Votes(s, x, r.x)))
                > Cardinality(Sentinels)
  <1> DEFINE W == V \cup Votes(s, x, r.x)
             n == Cardinality(DOMAIN x.peers)
             c == Cardinality(Supporters(x, s))
             max == MaxVotes(x)
  <1>1. PICK w \in Sentinels \cup {NULL} :
            /\ r.x = MyVote(x, s, e, w)
            /\ w # NULL => Cardinality(Supporters(x, w)) = max
            /\ r.leader # NULL =>
                \/ r.leader = w /\ ~(max < Majority(n + 1))
                \/ /\ r.leader = r.x.leader /\ r.x.leader_epoch = e
                   /\ Cardinality(Supporters(x, r.leader)) + 1 > max
                   /\ ~(max + 1 < Majority(n + 1))
    BY GetLeaderCases
  <1>2. /\ StateOK(Sentinels, s, r.x, W)
        /\ OneNewVote(Sentinels, x, r.x) /\ VoteKeeps(x, r.x)
    <2> DEFINE id == IF w = NULL THEN s ELSE w
    <2>1. id \in Sentinels /\ r.x = sentinelVoteLeader(x, e, id)
      BY <1>1 DEF MyVote
    <2> HIDE DEF id
    <2>2. QED
      BY <2>1, VoteLeaderOK
  <1>3. ASSUME r.leader = s, x.current_epoch = e, DOMAIN x.peers = Sentinels \ {s}
        PROVE  2 * Cardinality(Voters(Sentinels, s, e, W)) > Cardinality(Sentinels)
    <2>1. /\ Supporters(x, s) \subseteq Voters(Sentinels, s, e, V)
          /\ Supporters(x, s) \subseteq DOMAIN x.peers
          /\ c \in Nat /\ n \in Nat
      BY Zenon, <1>3, SupportersVoted
    <2>2. Cardinality(Sentinels) = n + 1 /\ Cardinality(Sentinels) \in Nat
      <3> DEFINE T == Sentinels \ {s}
      <3>1. T \in SUBSET Sentinels /\ s \in Sentinels \ T /\ T \cup {s} = Sentinels
        OBVIOUS
      <3>2. Cardinality(T \cup {s}) = Cardinality(T) + 1
        BY <3>1 DEF Countable
      <3>3. Cardinality(Sentinels) = Cardinality(T) + 1 /\ Cardinality(T) = n
        BY Zenon, <1>3, <3>1, <3>2
      <3> HIDE DEF T, n
      <3>4. QED
        BY <2>1, <3>3
    <2>3. max \in Nat
      <3> DEFINE T == {Cardinality(Supporters(x, l)) : l \in Sentinels}
      <3>1. \A k \in T : k \in Nat /\ k <= n
        BY SupportersVoted
      <3>2. T # {} /\ T \in SUBSET (0..n)
        BY <2>1, <3>1
      <3>3. Max(T) \in Nat
        <4> HIDE DEF T
        <4>1. Max(T) \in T
          BY Zenon, <2>1, <3>2, MaxExists
        <4>2. QED
          BY <3>1, <4>1
      <3>4. QED
        BY <3>3 DEF MaxVotes
    <2>4. Majority(n + 1) \in Nat
      BY <2>1 DEF Majority
    <2> DEFINE voters == Voters(Sentinels, s, e, W)
    <2>5. /\ Supporters(x, s) \subseteq voters /\ voters \subseteq Sentinels
          /\ Cardinality(voters) \in Nat
          /\ \A U \in SUBSET voters : Cardinality(U) <= Cardinality(voters)
      <3>1. Supporters(x, s) \subseteq voters /\ voters \subseteq Sentinels
        BY <2>1 DEF Voters
      <3> HIDE DEF voters
      <3>2. QED
        BY <3>1 DEF Countable
    <2> HIDE DEF voters, c, n, max, W
    <2>6. s # NULL
      OBVIOUS
    <2>7. CASE r.leader = w /\ ~(max < Majority(n + 1))
      <3>1. c = max
        BY <1>1, <1>3, <2>6, <2>7 DEF c
      <3>2. Cardinality(voters) >= c
        BY <2>5 DEF c
      <3>3. Cardinality(voters) >= Majority(n + 1)
        BY <2>1, <2>3, <2>4, <2>5, <2>7, <3>1, <3>2
      <3>4. QED
        BY <2>1, <2>2, <2>5, <3>3, MoreThanHalf DEF voters
    <2>8. CASE /\ r.leader = r.x.leader /\ r.x.leader_epoch = e
               /\ Cardinality(Supporters(x, r.leader)) + 1 > max
               /\ ~(max + 1 < Majority(n + 1))
      <3>1. s \in voters
        <4>1. r.x.leader = s /\ r.x.leader_epoch = e
          BY <1>3, <2>8
        <4>2. Vote(s, e, s) \in W
          BY <1>2, <2>6, <4>1 DEF StateOK
        <4>3. QED
          BY <4>2 DEF voters, Voters
      <3>2. s \notin Supporters(x, s)
        BY <1>3, <2>1
      <3> DEFINE both == Supporters(x, s) \cup {s}
      <3>3. Cardinality(both) = c + 1
        <4> DEFINE T == Supporters(x, s)
        <4>1. T \in SUBSET Sentinels /\ s \in Sentinels \ T
          BY <1>3, <2>1, <3>2
        <4> HIDE DEF T
        <4>2. Cardinality(T \cup {s}) = Cardinality(T) + 1
          BY <4>1 DEF Countable
        <4>3. QED
          BY <4>2 DEF T, c
      <3>4. both \subseteq voters
        BY <2>5, <3>1
      <3>5. Cardinality(voters) >= c + 1
        <4> HIDE DEF both
        <4>1. Cardinality(both) <= Cardinality(voters)
          BY <2>5, <3>4
        <4>2. QED
          BY <2>1, <2>5, <3>3, <4>1
      <3>6. c + 1 > max
        BY <1>3, <2>8 DEF c
      <3>7. Cardinality(voters) >= Majority(n + 1)
        BY <2>1, <2>3, <2>4, <2>5, <2>8, <3>5, <3>6
      <3>8. QED
        BY <2>1, <2>2, <2>5, <3>7, MoreThanHalf DEF voters
    <2>9. QED
      BY <1>1, <1>3, <2>6, <2>7, <2>8 DEF n, max
  <1>4. QED
    BY <1>2, <1>3

----------------------------------------------------------------------------
(* The steps that cast no vote.                                            *)

\* y is x but for what the election does not look at; no failover starts.
Calm(x, y) ==
    /\ Alike(x, y) /\ y.disk = x.disk
    /\ y.failover_state = "wait_start" => x.failover_state = "wait_start"

\* A calm step votes for nobody.
LEMMA CalmOK ==
  ASSUME NEW S, NEW s, NEW V, NEW x, NEW y, StateOK(S, s, x, V), Calm(x, y)
  PROVE  /\ StateOK(S, s, y, V)
         /\ y.leader_epoch = x.leader_epoch /\ y.leader = x.leader
  BY DEF StateOK, Calm, Alike

\* Calm steps compose.
LEMMA CalmTwice ==
  ASSUME NEW x, NEW y, NEW z, Calm(x, y), Calm(y, z) PROVE Calm(x, z)
  BY DEF Calm, Alike

\* sentinelAbortFailover is calm.
LEMMA AbortCalm ==
  ASSUME NEW x, DOMAIN x = Fields PROVE Calm(x, sentinelAbortFailover(x))
  BY DEF Calm, Alike, Fields, sentinelAbortFailover

\* So is a move to another state of the failover than its start.
LEMMA StateCalm ==
  ASSUME NEW x, DOMAIN x = Fields, NEW st, st # "wait_start"
  PROVE  LET y == [x EXCEPT !.failover_state = st] IN Calm(x, y) /\ y.force = x.force
  BY DEF Calm, Alike, Fields

\* So is the choice of a slave to promote.
LEMMA PromotedCalm ==
  ASSUME NEW x, DOMAIN x = Fields, NEW i, NEW st, st # "wait_start"
  PROVE  Calm(x, [x EXCEPT !.promoted = i, !.failover_state = st])
  BY DEF Calm, Alike, Fields

\* The checks of sentinelHandleRedisInstance before the failover.
Checked(x, s, late) ==
    sentinelCheckObjectivelyDown(sentinelCheckSubjectivelyDown([x EXCEPT !.tilt = FALSE], s, late))

\* So are the checks of sentinelHandleRedisInstance.
LEMMA ChecksCalm ==
  ASSUME NEW x, DOMAIN x = Fields, NEW s, NEW late PROVE Calm(x, Checked(x, s, late))
  <1> DEFINE y == [x EXCEPT !.tilt = FALSE]
             z == sentinelCheckSubjectivelyDown(y, s, late)
  <1>1. DOMAIN y = Fields /\ Calm(x, y)
    BY DEF Calm, Alike, Fields
  <1> HIDE DEF y
  <1>2. DOMAIN z = Fields /\ Calm(y, z)
    BY <1>1 DEF Calm, Alike, Fields, sentinelCheckSubjectivelyDown
  <1> HIDE DEF z
  <1>3. Calm(z, sentinelCheckObjectivelyDown(z))
    BY <1>2 DEF Calm, Alike, Fields, sentinelCheckObjectivelyDown
  <1>4. Calm(x, sentinelCheckObjectivelyDown(z))
    BY <1>1, <1>2, <1>3, CalmTwice
  <1>5. QED
    BY <1>4 DEF Checked, y, z

\* A failover starts with a new epoch.
LEMMA StartOK ==
  ASSUME NEW S, NEW s, NEW V, NEW x, StateOK(S, s, x, V)
  PROVE  LET y == sentinelStartFailover(x)
         IN  StateOK(S, s, y, V) /\ y.leader_epoch = x.leader_epoch /\ y.leader = x.leader
  <1> DEFINE y == sentinelStartFailover(x)
  <1>1. /\ DOMAIN y = Fields /\ y.disk = x.disk /\ y.config_epoch = x.config_epoch
        /\ y.current_epoch = x.current_epoch + 1 /\ y.failover_epoch = x.current_epoch + 1
        /\ y.leader_epoch = x.leader_epoch /\ y.leader = x.leader /\ y.peers = x.peers
    BY DEF StateOK, Fields, sentinelStartFailover
  <1> HIDE DEF y
  <1>2. x.current_epoch + 1 \in Nat
    BY DEF StateOK
  <1>3. StateOK(S, s, y, V)
    BY <1>1, <1>2 DEF StateOK
  <1>4. QED
    BY <1>1, <1>3 DEF y

\* The answers that are forgotten.
LEMMA ForgetOK ==
  ASSUME NEW S, NEW s, NEW V, NEW x, StateOK(S, s, x, V)
  PROVE  LET y == Forget(x)
         IN  /\ StateOK(S, s, y, V) /\ y.leader_epoch = x.leader_epoch /\ y.leader = x.leader
             /\ y.failover_state = x.failover_state /\ y.failover_epoch = x.failover_epoch
             /\ y.force = x.force /\ y.current_epoch = x.current_epoch
             /\ DOMAIN y.peers = DOMAIN x.peers
  <1> DEFINE P == [t \in DOMAIN x.peers |-> [x.peers[t] EXCEPT !.down = FALSE, !.leader = NULL]]
             y == [x EXCEPT !.peers = P]
  <1>0. Forget(x) = y
    BY DEF Forget, StateOK, Fields
  <1>1. PeersOK(S, P, V) /\ DOMAIN P = DOMAIN x.peers
    BY Zenon DEF StateOK, PeersOK
  <1> HIDE DEF P
  <1>2. /\ DOMAIN y = Fields /\ y.disk = x.disk /\ y.config_epoch = x.config_epoch
        /\ y.current_epoch = x.current_epoch /\ y.failover_epoch = x.failover_epoch
        /\ y.failover_state = x.failover_state /\ y.force = x.force
        /\ y.leader_epoch = x.leader_epoch /\ y.leader = x.leader /\ y.peers = P
    BY DEF StateOK, Fields
  <1> HIDE DEF y
  <1>3. StateOK(S, s, y, V)
    BY <1>1, <1>2 DEF StateOK
  <1>4. QED
    BY <1>0, <1>1, <1>2, <1>3

----------------------------------------------------------------------------
(* The timer.                                                              *)

\* A failover that goes ahead after an election of all the Sentinels in the
\* epoch of the failover: hist.elected records it as plain.
PlainWin(s, st) ==
    /\ st.won /\ ~st.x.force
    /\ st.x.current_epoch = st.x.failover_epoch
    /\ DOMAIN st.x.peers = Sentinels \ {s}

IsStep(st) == DOMAIN st = {"x", "out", "won"}

\* What the failover state machine makes of x.
StepOK(s, x, st, V) ==
    LET W == V \cup Votes(s, x, st.x)
    IN  /\ IsStep(st) /\ StateOK(Sentinels, s, st.x, W)
        /\ OneNewVote(Sentinels, x, st.x)
        /\ st.x.failover_state = "update_config" => st.x.leader_epoch = x.leader_epoch
        /\ st.won \in BOOLEAN
        /\ PlainWin(s, st) =>
             2 * Cardinality(Voters(Sentinels, s, st.x.failover_epoch, W)) > Cardinality(Sentinels)

\* A step of the state machine that casts no vote and finds no winner.
LEMMA CalmStepOK ==
  ASSUME NEW s, NEW V, NEW x, StateOK(Sentinels, s, x, V),
         NEW st, IsStep(st), Calm(x, st.x), st.won = FALSE
  PROVE  StepOK(s, x, st, V)
  <1>1. StateOK(Sentinels, s, st.x, V) /\ st.x.leader_epoch = x.leader_epoch
    BY CalmOK
  <1>2. Votes(s, x, st.x) = {} /\ V \cup {} = V
    BY <1>1 DEF Votes
  <1>3. QED
    BY Zenon, <1>1, <1>2 DEF StepOK, OneNewVote, PlainWin

\* sentinelFailoverWaitStart goes on only with a majority, or when told to.
LEMMA WaitStartOK ==
  ASSUME Countable(Sentinels), NULL \notin Sentinels, NEW s \in Sentinels,
         NEW V, NEW x, StateOK(Sentinels, s, x, V), x.failover_state = "wait_start",
         NEW late, NEW st \in sentinelFailoverWaitStart(x, s, late)
  PROVE  StepOK(s, x, st, V)
  <1> DEFINE e == x.failover_epoch
  <1>1. PICK r \in sentinelGetLeader(x, s, e) :
          st = LET won == r.leader = s
                   y == r.x
               IN  IF ~won /\ ~y.force
                   THEN Step(IF late = "timeout" THEN sentinelAbortFailover(y) ELSE y)
                   ELSE [Step([y EXCEPT !.failover_state = "select_slave"]) EXCEPT !.won = TRUE]
    BY Zenon DEF sentinelFailoverWaitStart
  <1> DEFINE y == r.x
             W == V \cup Votes(s, x, y)
  <1>2. e \in Nat /\ x.current_epoch \in Nat /\ e <= x.current_epoch
    BY DEF StateOK
  <1>3. /\ StateOK(Sentinels, s, y, W)
        /\ OneNewVote(Sentinels, x, y) /\ VoteKeeps(x, y)
        /\ r.leader = s /\ x.current_epoch = e /\ DOMAIN x.peers = Sentinels \ {s} =>
             2 * Cardinality(Voters(Sentinels, s, e, W)) > Cardinality(Sentinels)
    BY Zenon, <1>2, GetLeaderOK
  <1>4. DOMAIN y = Fields /\ y.current_epoch \in Nat
    BY <1>3 DEF StateOK
  <1>5. /\ Calm(y, st.x) /\ st.x.failover_state # "update_config"
        /\ IsStep(st) /\ st.won \in BOOLEAN
        /\ st.won /\ ~st.x.force => r.leader = s
    <2>1. CASE ~(r.leader = s) /\ ~y.force
      <3> DEFINE z == IF late = "timeout" THEN sentinelAbortFailover(y) ELSE y
      <3>1. st = Step(z)
        BY <1>1, <2>1
      <3>2. Calm(y, z) /\ z.failover_state # "update_config"
        <4>1. Calm(y, y) /\ y.failover_state = "wait_start"
          BY <1>3, <1>4 DEF Calm, Alike, VoteKeeps
        <4>2. Calm(y, sentinelAbortFailover(y))
          BY <1>4, AbortCalm
        <4>3. sentinelAbortFailover(y).failover_state = "none"
          BY <1>4 DEF sentinelAbortFailover, Fields
        <4>4. QED
          BY <4>1, <4>2, <4>3
      <3> HIDE DEF z
      <3>3. IsStep(st) /\ st.x = z /\ st.won = FALSE
        BY <3>1 DEF Step, IsStep
      <3>4. QED
        BY Zenon, <3>2, <3>3
    <2>2. CASE ~(~(r.leader = s) /\ ~y.force)
      <3> DEFINE z == [y EXCEPT !.failover_state = "select_slave"]
      <3>1. st = [Step(z) EXCEPT !.won = TRUE]
        BY <1>1, <2>2
      <3>2. Calm(y, z) /\ z.force = y.force
        BY <1>4, StateCalm
      <3>3. z.failover_state = "select_slave"
        BY <1>4 DEF Fields
      <3> HIDE DEF z
      <3>4. IsStep(st) /\ st.x = z /\ st.won = TRUE
        BY <3>1 DEF Step, IsStep
      <3>5. QED
        BY Zenon, <2>2, <3>2, <3>3, <3>4
    <2>3. QED
      BY <2>1, <2>2
  <1>6. StateOK(Sentinels, s, st.x, W) /\ st.x.leader_epoch = y.leader_epoch /\ st.x.leader = y.leader
    <2> HIDE DEF y, W
    <2>1. PICK z : z = st.x
      OBVIOUS
    <2>2. StateOK(Sentinels, s, y, W)
      BY Zenon, <1>3
    <2>3. Calm(y, z)
      BY Zenon, <1>5, <2>1
    <2>4. StateOK(Sentinels, s, z, W) /\ z.leader_epoch = y.leader_epoch /\ z.leader = y.leader
      BY <2>2, <2>3, CalmOK
    <2>5. QED
      BY Zenon, <2>1, <2>4
  <1>7. Votes(s, x, st.x) = Votes(s, x, y)
    BY <1>6 DEF Votes
  <1>8. OneNewVote(Sentinels, x, st.x)
    BY <1>3, <1>6 DEF OneNewVote
  <1>9. ASSUME PlainWin(s, st)
        PROVE  2 * Cardinality(Voters(Sentinels, s, st.x.failover_epoch, W)) > Cardinality(Sentinels)
    <2>1. /\ st.x.failover_epoch = e /\ st.x.current_epoch = y.current_epoch
          /\ DOMAIN st.x.peers = DOMAIN x.peers
      BY <1>3, <1>5 DEF Calm, Alike, VoteKeeps
    <2>2. r.leader = s /\ y.current_epoch = e /\ DOMAIN x.peers = Sentinels \ {s}
      BY <1>5, <1>9, <2>1 DEF PlainWin
    <2>3. x.current_epoch = e
      BY <1>2, <1>3, <1>4, <2>2 DEF VoteKeeps
    <2>4. QED
      BY <1>3, <2>1, <2>2, <2>3
  <1>10. QED
    BY <1>5, <1>6, <1>7, <1>8, <1>9 DEF StepOK

\* The last states of the failover are calm.
LEMMA ReconfCalm ==
  ASSUME NEW x, DOMAIN x = Fields, NEW done, NEW s, NEW late
  PROVE  LET st == sentinelFailoverDetectEnd(x, done, s, late)
         IN  IsStep(st) /\ Calm(x, st.x) /\ st.won = FALSE
  <1> DEFINE slaves == done.slaves
             left == {i \in DOMAIN slaves \ {x.promoted} :
                        "done" \notin slaves[i].reconf /\ ~slaves[i].sdown}
             over == late = "timeout"
             rest == {i \in DOMAIN slaves : slaves[i].reconf \cap {"done", "sent"} = {} /\ Reach(s, i)}
             end == (left = {} \/ over) /\ ~slaves[x.promoted].sdown
             all == IF end /\ over
                    THEN FoldSet(LAMBDA i, d : sentinelSendSlaveOf(d, i, x.promoted), done, rest)
                    ELSE done
             state == IF end THEN "update_config" ELSE x.failover_state
             y == [x EXCEPT !.slaves = all.slaves, !.failover_state = state]
  <1>1. sentinelFailoverDetectEnd(x, done, s, late) = [x |-> y, out |-> all.out, won |-> FALSE]
    BY DEF sentinelFailoverDetectEnd
  <1>2. state = "wait_start" => x.failover_state = "wait_start"
    OBVIOUS
  <1> HIDE DEF all, state
  <1>3. Calm(x, y)
    BY <1>2 DEF Calm, Alike, Fields
  <1> HIDE DEF y
  <1>4. QED
    BY <1>1, <1>3 DEF IsStep

\* sentinelFailoverStateMachine wins an election or is calm.
LEMMA StateMachineOK ==
  ASSUME Countable(Sentinels), NULL \notin Sentinels, NEW s \in Sentinels,
         NEW V, NEW x, StateOK(Sentinels, s, x, V),
         NEW late, NEW st \in sentinelFailoverStateMachine(x, s, late)
  PROVE  StepOK(s, x, st, V)
  <1>1. DOMAIN x = Fields
    BY DEF StateOK
  <1>2. Calm(x, x)
    BY <1>1 DEF Calm, Alike
  <1>3. CASE x.failover_state = "wait_start"
    <2>1. st \in sentinelFailoverWaitStart(x, s, late)
      BY <1>3 DEF sentinelFailoverStateMachine
    <2>2. QED
      BY <1>3, <2>1, WaitStartOK
  <1>4. CASE x.failover_state # "wait_start"
    <2>1. IsStep(st) /\ Calm(x, st.x) /\ st.won = FALSE
      <3>1. CASE x.failover_state = "select_slave"
        <4>1. \/ st = Step(sentinelAbortFailover(x))
              \/ \E i : st = Step([x EXCEPT !.promoted = i, !.failover_state = "send_slaveof_noone"])
          BY Zenon, <3>1 DEF sentinelFailoverStateMachine, sentinelFailoverSelectSlave
        <4>2. CASE st = Step(sentinelAbortFailover(x))
          BY <1>1, <4>2, AbortCalm DEF Step, IsStep
        <4>3. ASSUME NEW i,
                     st = Step([x EXCEPT !.promoted = i, !.failover_state = "send_slaveof_noone"])
              PROVE  IsStep(st) /\ Calm(x, st.x) /\ st.won = FALSE
          <5> DEFINE z == [x EXCEPT !.promoted = i, !.failover_state = "send_slaveof_noone"]
          <5>1. Calm(x, z)
            BY Zenon, <1>1, PromotedCalm
          <5>2. st = Step(z)
            BY <4>3
          <5> HIDE DEF z
          <5>3. QED
            BY <5>1, <5>2 DEF Step, IsStep
        <4>4. QED
          BY Zenon, <4>1, <4>2, <4>3
      <3>2. CASE x.failover_state = "send_slaveof_noone"
        <4> DEFINE z == [x EXCEPT !.failover_state = "wait_promotion"]
        <4>1. \/ st = Step(sentinelAbortFailover(x))
              \/ st = Step(x)
              \/ st = [Step(z) EXCEPT !.out = {<<x.promoted, NULL>>}]
          BY <3>2 DEF sentinelFailoverStateMachine, sentinelFailoverSendSlaveOfNoOne
        <4>2. Calm(x, z) /\ Calm(x, sentinelAbortFailover(x))
          BY <1>1, StateCalm, AbortCalm
        <4> HIDE DEF z
        <4>3. QED
          BY <1>2, <4>1, <4>2 DEF Step, IsStep
      <3>3. CASE x.failover_state = "wait_promotion"
        <4>1. st = Step(sentinelAbortFailover(x)) \/ st = Step(x)
          BY <3>3 DEF sentinelFailoverStateMachine, sentinelFailoverWaitPromotion
        <4>2. Calm(x, sentinelAbortFailover(x))
          BY <1>1, AbortCalm
        <4>3. QED
          BY <1>2, <4>1, <4>2 DEF Step, IsStep
      <3>4. CASE x.failover_state = "reconf_slaves"
        <4>1. st \in sentinelFailoverReconfNextSlave(x, s, late)
          BY <3>4 DEF sentinelFailoverStateMachine
        <4>2. \E done : st = sentinelFailoverDetectEnd(x, done, s, late)
          BY Zenon, <4>1 DEF sentinelFailoverReconfNextSlave
        <4>3. QED
          BY Zenon, <1>1, <4>2, ReconfCalm
      <3>5. CASE x.failover_state \notin {"wait_start", "select_slave", "send_slaveof_noone",
                                          "wait_promotion", "reconf_slaves"}
        <4>1. st = Step(x)
          BY <3>5 DEF sentinelFailoverStateMachine
        <4>2. QED
          BY <1>2, <4>1 DEF Step, IsStep
      <3>6. QED
        BY Zenon, <1>4, <3>1, <3>2, <3>3, <3>4, <3>5
    <2>2. QED
      BY Zenon, <2>1, CalmStepOK
  <1>5. QED
    BY <1>3, <1>4

\* The timer's work on the master.
LEMMA HandleRedisOK ==
  ASSUME Countable(Sentinels), NULL \notin Sentinels, NEW s \in Sentinels,
         NEW V, NEW x, StateOK(Sentinels, s, x, V),
         NEW late, NEW st \in sentinelHandleRedisInstance(x, s, late)
  PROVE  StepOK(s, x, st, V)
  <1>1. DOMAIN x = Fields
    BY DEF StateOK
  <1>2. CASE x.tilt /\ late # "tilt"
    <2>1. st = Step(x)
      BY <1>2 DEF sentinelHandleRedisInstance
    <2>2. IsStep(st) /\ Calm(x, st.x) /\ st.won = FALSE
      BY <1>1, <2>1 DEF Calm, Alike, Step, IsStep
    <2>3. QED
      BY Zenon, <2>2, CalmStepOK
  <1>3. CASE ~(x.tilt /\ late # "tilt")
    <2> DEFINE c == Checked(x, s, late)
               y == sentinelStartFailoverIfNeeded(c, late)
    <2>1. PICK st0 \in sentinelFailoverStateMachine(y, s, late) :
            st = [st0 EXCEPT !.x = IF late = "expire" THEN Forget(@) ELSE @]
      BY Zenon, <1>3 DEF sentinelHandleRedisInstance, Checked
    <2>2. StateOK(Sentinels, s, c, V) /\ c.leader_epoch = x.leader_epoch
      BY <1>1, ChecksCalm, CalmOK
    <2> HIDE DEF c
    <2>3. StateOK(Sentinels, s, y, V) /\ y.leader_epoch = x.leader_epoch
      <3>1. y = c \/ y = sentinelStartFailover(c)
        BY DEF sentinelStartFailoverIfNeeded
      <3>2. QED
        BY <2>2, <3>1, StartOK
    <2> HIDE DEF y
    <2>4. StepOK(s, y, st0, V)
      BY <2>3, StateMachineOK
    <2> DEFINE W == V \cup Votes(s, y, st0.x)
    <2>5. Votes(s, x, st0.x) = Votes(s, y, st0.x)
      BY <2>3 DEF Votes
    <2>6. StepOK(s, x, st0, V)
      BY <2>3, <2>4, <2>5 DEF StepOK, OneNewVote
    <2>7. CASE late = "expire"
      <3> DEFINE f == Forget(st0.x)
      <3>1. st = [st0 EXCEPT !.x = f]
        BY <2>1, <2>7
      <3>2. IsStep(st) /\ st.x = f /\ st.won = st0.won
        <4> HIDE DEF f
        <4>1. QED
          BY <2>6, <3>1 DEF StepOK, IsStep
      <3>3. StateOK(Sentinels, s, st0.x, V \cup Votes(s, x, st0.x))
        BY <2>6 DEF StepOK
      <3>4. /\ StateOK(Sentinels, s, f, V \cup Votes(s, x, st0.x))
            /\ f.leader_epoch = st0.x.leader_epoch /\ f.leader = st0.x.leader
            /\ f.failover_state = st0.x.failover_state /\ f.failover_epoch = st0.x.failover_epoch
            /\ f.force = st0.x.force /\ f.current_epoch = st0.x.current_epoch
            /\ DOMAIN f.peers = DOMAIN st0.x.peers
        BY <3>3, ForgetOK
      <3> HIDE DEF f
      <3>5. Votes(s, x, st.x) = Votes(s, x, st0.x)
        BY <3>2, <3>4 DEF Votes
      <3>6. PlainWin(s, st) <=> PlainWin(s, st0)
        BY <3>2, <3>4 DEF PlainWin
      <3>7. QED
        BY <2>6, <3>2, <3>4, <3>5, <3>6 DEF StepOK, OneNewVote
    <2>8. CASE late # "expire"
      <3>1. st = [st0 EXCEPT !.x = st0.x]
        BY <2>1, <2>8
      <3>2. IsStep(st) /\ st.x = st0.x /\ st.won = st0.won
        BY <2>6, <3>1 DEF StepOK, IsStep
      <3>3. QED
        BY <2>6, <3>2 DEF StepOK, PlainWin
    <2>9. QED
      BY <2>7, <2>8
  <1>4. QED
    BY <1>2, <1>3

----------------------------------------------------------------------------
(* Resets, replies and messages.                                           *)

\* A calm step is silent: it casts no vote.
LEMMA CalmSilent ==
  ASSUME NEW S, NEW s, NEW V, NEW x, NEW y, StateOK(S, s, x, V), Calm(x, y)
  PROVE  Silent(S, s, x, y, V)
  BY CalmOK DEF Silent

\* A flush after a silent step is silent.
LEMMA FlushSilent ==
  ASSUME NEW S, NEW s, NEW V, NEW x, NEW y, Silent(S, s, x, y, V)
  PROVE  Silent(S, s, x, sentinelFlushConfig(y), V)
  BY FlushOK DEF Silent, Alike

\* Silent steps compose.
LEMMA SilentTwice ==
  ASSUME NEW S, NEW s, NEW V, NEW x, NEW y, NEW z,
         Silent(S, s, x, y, V), Silent(S, s, y, z, V)
  PROVE  Silent(S, s, x, z, V)
  BY DEF Silent

\* sentinelResetMaster forgets the replies of the peers, not its own vote.
LEMMA ResetSilent ==
  ASSUME NEW S, NEW s, NEW V, NEW x, StateOK(S, s, x, V), NEW peers, PeersOK(S, peers, V)
  PROVE  Silent(S, s, x, sentinelResetMaster(x, peers), V)
  <1> DEFINE y == sentinelResetMaster(x, peers)
  <1>1. /\ DOMAIN y = Fields /\ y.disk = x.disk /\ y.config_epoch = x.config_epoch
        /\ y.current_epoch = x.current_epoch /\ y.failover_epoch = x.failover_epoch
        /\ y.failover_state = "none"
        /\ y.leader_epoch = x.leader_epoch /\ y.leader = NULL /\ y.peers = peers
    BY Zenon DEF StateOK, Fields, sentinelResetMaster
  <1> HIDE DEF y
  <1>2. StateOK(S, s, y, V)
    BY <1>1 DEF StateOK
  <1>3. QED
    BY <1>1, <1>2 DEF Silent, y

\* sentinelResetMasterAndChangeAddress casts no vote.
LEMMA ChangeAddressSilent ==
  ASSUME NEW S, NEW s, NEW V, NEW x, StateOK(S, s, x, V), NEW addr
  PROVE  Silent(S, s, x, sentinelResetMasterAndChangeAddress(x, addr), V)
  <1> DEFINE slaves == (DOMAIN x.slaves \ {addr}) \cup (IF addr # x.addr THEN {x.addr} ELSE {})
             y == sentinelResetMaster(x, x.peers)
             z == [y EXCEPT !.addr = addr, !.slaves = [i \in slaves |-> NewSlave]]
  <1>1. sentinelResetMasterAndChangeAddress(x, addr) = sentinelFlushConfig(z)
    BY DEF sentinelResetMasterAndChangeAddress
  <1>2. Silent(S, s, x, y, V)
    BY ResetSilent DEF StateOK
  <1> HIDE DEF y, slaves
  <1>3. Calm(y, z)
    BY <1>2 DEF Silent, StateOK, Calm, Alike, Fields
  <1> HIDE DEF z
  <1>4. Silent(S, s, x, z, V)
    BY <1>2, <1>3, CalmSilent, SilentTwice DEF Silent
  <1>5. QED
    BY <1>1, <1>4, FlushSilent

\* The rest of the timer: the vote that was cast stays the last one.
LEMMA HandleDictSilent ==
  ASSUME NEW S, NEW s, NEW V, NEW x, StateOK(S, s, x, V), NEW late
  PROVE  LET y == sentinelHandleDictOfRedisInstances(x, s, late)
         IN  /\ Silent(S, s, x, y, V)
             /\ x.failover_state # "update_config" => y.leader = x.leader
  <1> DEFINE z == IF x.tilt THEN x ELSE CheckSlaves(x, s, late)
             y == sentinelHandleDictOfRedisInstances(x, s, late)
  <1>1. DOMAIN x = Fields
    BY DEF StateOK
  <1>2. Calm(x, z) /\ z.failover_state = x.failover_state
    <2>1. Calm(x, x)
      BY <1>1 DEF Calm, Alike
    <2>2. LET c == CheckSlaves(x, s, late) IN Calm(x, c) /\ c.failover_state = x.failover_state
      BY <1>1 DEF Calm, Alike, Fields, CheckSlaves
    <2>3. QED
      BY <2>1, <2>2
  <1>3. Silent(S, s, x, z, V) /\ z.leader = x.leader /\ StateOK(S, s, z, V)
    BY <1>2, CalmSilent, CalmOK
  <1>4. y = IF z.failover_state = "update_config"
            THEN sentinelResetMasterAndChangeAddress(z, z.promoted) ELSE z
    BY DEF sentinelHandleDictOfRedisInstances
  <1> HIDE DEF y, z
  <1>5. CASE z.failover_state = "update_config"
    <2>1. Silent(S, s, z, sentinelResetMasterAndChangeAddress(z, z.promoted), V)
      BY <1>3, ChangeAddressSilent
    <2>2. QED
      BY <1>2, <1>3, <1>4, <1>5, <2>1, SilentTwice DEF y
  <1>6. CASE z.failover_state # "update_config"
    BY <1>3, <1>4, <1>6 DEF y
  <1>7. QED
    BY <1>5, <1>6

\* A turn that casts no vote, and forgets the leader only once the failover is over.
SilentTurn(S, s, x, y, V) ==
    Silent(S, s, x, y, V) /\ (x.failover_state # "update_config" => y.leader = x.leader)

\* sentinelHandleDictOfRedisInstances is such a turn.
LEMMA HandleDictTurn ==
  ASSUME NEW S, NEW s, NEW V, NEW x, StateOK(S, s, x, V), NEW late
  PROVE  SilentTurn(S, s, x, sentinelHandleDictOfRedisInstances(x, s, late), V)
  BY HandleDictSilent DEF SilentTurn

\* An INFO reply casts no vote.
LEMMA InfoSilent ==
  ASSUME NEW S, NEW s, NEW V, NEW x, StateOK(S, s, x, V), NEW i, NEW late
  PROVE  Silent(S, s, x, sentinelRefreshInstanceInfo(x, i, late).x, V)
  <1> DEFINE st == sentinelRefreshInstanceInfo(x, i, late)
  <1>0. DOMAIN x = Fields
    BY DEF StateOK
  <1>1. CASE i = x.addr
    <2> DEFINE new == {j \in Instances \ {i} : redis[j].up /\ redis[j].of = i} \ DOMAIN x.slaves
               y == [x EXCEPT !.role = IF redis[i].of = NULL THEN "master" ELSE "slave",
                              !.slaves = [j \in DOMAIN @ \cup new |-> IF j \in new THEN NewSlave ELSE @[j]]]
    <2>1. Calm(x, y)
      <3> HIDE DEF new
      <3>1. QED
        BY <1>0 DEF Calm, Alike, Fields
    <2>2. st = Step(IF new = {} THEN y ELSE sentinelFlushConfig(y))
      BY <1>1 DEF sentinelRefreshInstanceInfo, RefreshMaster
    <2> HIDE DEF y
    <2>3. Silent(S, s, x, y, V) /\ Silent(S, s, x, sentinelFlushConfig(y), V)
      BY <2>1, CalmSilent, FlushSilent
    <2>4. QED
      BY <2>2, <2>3 DEF Step
  <1>2. CASE i # x.addr
    <2> DEFINE of == redis[i].of
               old == x.slaves[i]
               said == IF of = NULL THEN "master" ELSE of
               sent == IF "sent" \in old.reconf /\ of = x.promoted
                       THEN (old.reconf \ {"sent"}) \cup {"inprog"} ELSE old.reconf
               done == IF "inprog" \in sent /\ redis[of].up
                       THEN (sent \ {"inprog"}) \cup {"done"} ELSE sent
               y == [x EXCEPT !.slaves[i].said = said]
               fix == late /\ said = old.said /\ sentinelMasterLooksSane(x)
               recf == [y EXCEPT !.slaves[i].reconf = done]
               prom == [y EXCEPT !.config_epoch = x.failover_epoch,
                                 !.failover_state = "reconf_slaves"]
    <2>1. \/ st = Step(y)
          \/ \E o : st = [Step(recf) EXCEPT !.out = o]
          \/ st = Step(sentinelFlushConfig(prom))
          \/ \E o : st = [Step(y) EXCEPT !.out = o]
      <3>1. st = IF x.tilt THEN Step(y)
                 ELSE IF of # NULL
                 THEN [Step(recf) EXCEPT !.out = IF of # x.addr /\ fix THEN {<<i, x.addr>>} ELSE {}]
                 ELSE IF x.promoted = i /\ x.failover_state = "wait_promotion"
                 THEN Step(sentinelFlushConfig(prom))
                 ELSE [Step(y) EXCEPT !.out = IF x.promoted # i /\ fix THEN {<<i, x.addr>>} ELSE {}]
        BY <1>2 DEF sentinelRefreshInstanceInfo, RefreshSlave
      <3> HIDE DEF st, y, recf, prom, fix, of
      <3>2. QED
        BY Zenon, <3>1
    <2> HIDE DEF said, done
    <2>2. Calm(x, y) /\ DOMAIN y = Fields
      BY <1>0 DEF Calm, Alike, Fields
    <2>3. Silent(S, s, x, y, V)
      BY <2>2, CalmSilent
    <2> HIDE DEF y
    <2>4. Calm(y, recf)
      BY <2>2 DEF Calm, Alike, Fields
    <2>5. Silent(S, s, x, recf, V)
      <3> HIDE DEF recf
      <3>1. QED
        BY <2>3, <2>4, CalmSilent, SilentTwice DEF Silent
    <2>6. Silent(S, s, x, prom, V)
      <3>1. /\ DOMAIN prom = Fields /\ prom.disk = y.disk /\ prom.config_epoch = x.failover_epoch
            /\ prom.current_epoch = y.current_epoch /\ prom.failover_epoch = y.failover_epoch
            /\ prom.failover_state = "reconf_slaves"
            /\ prom.leader_epoch = y.leader_epoch /\ prom.leader = y.leader /\ prom.peers = y.peers
        BY <2>2 DEF Fields
      <3> HIDE DEF prom
      <3>2. StateOK(S, s, prom, V)
        BY <2>3, <3>1 DEF Silent, StateOK
      <3>3. QED
        BY <2>3, <3>1, <3>2 DEF Silent
    <2>7. Silent(S, s, x, sentinelFlushConfig(prom), V)
      <3> HIDE DEF prom
      <3>1. QED
        BY <2>6, FlushSilent
    <2> HIDE DEF recf, prom, st
    <2>8. QED
      BY <2>1, <2>3, <2>5, <2>7 DEF Step, st
  <1>3. QED
    BY <1>1, <1>2

\* A hello message, from a Sentinel that may be new.
HelloOK(S, m) == m.from \in S /\ m.current_epoch \in Nat /\ m.config_epoch \in Nat

\* A hello message casts no vote.
LEMMA HelloSilent ==
  ASSUME NEW S, NEW s, NEW V, NEW x, StateOK(S, s, x, V), NEW m, HelloOK(S, m)
  PROVE  Silent(S, s, x, sentinelProcessHelloMessage(x, m), V)
  <1> DEFINE P == [t \in DOMAIN x.peers \cup {m.from} |->
                     IF t = m.from THEN NewPeer ELSE x.peers[t]]
             p == [x EXCEPT !.peers = P]
             known == IF m.from \in DOMAIN x.peers THEN x ELSE sentinelFlushConfig(p)
             u == [known EXCEPT !.current_epoch = m.current_epoch]
             y == IF m.current_epoch > known.current_epoch THEN sentinelFlushConfig(u) ELSE known
             z == [y EXCEPT !.config_epoch = m.config_epoch]
             a == sentinelResetMasterAndChangeAddress(z, m.addr)
  <1>0. sentinelProcessHelloMessage(x, m) =
          IF y.config_epoch >= m.config_epoch THEN y ELSE IF m.addr = y.addr THEN z ELSE a
    BY DEF sentinelProcessHelloMessage, StateOK, Fields
  <1>1. Silent(S, s, x, x, V)
    BY DEF Silent
  <1>2. Silent(S, s, x, p, V)
    <2>1. PeersOK(S, P, V)
      BY DEF StateOK, PeersOK, HelloOK, NewPeer
    <2> HIDE DEF P
    <2>2. /\ DOMAIN p = Fields /\ p.disk = x.disk /\ p.config_epoch = x.config_epoch
          /\ p.current_epoch = x.current_epoch /\ p.failover_epoch = x.failover_epoch
          /\ p.failover_state = x.failover_state
          /\ p.leader_epoch = x.leader_epoch /\ p.leader = x.leader /\ p.peers = P
      BY DEF StateOK, Fields
    <2> HIDE DEF p
    <2>3. StateOK(S, s, p, V)
      BY <2>1, <2>2 DEF StateOK
    <2>4. QED
      BY <2>2, <2>3 DEF Silent
  <1> HIDE DEF p
  <1>3. Silent(S, s, x, known, V)
    BY <1>1, <1>2, FlushSilent
  <1> HIDE DEF known
  <1>4. Silent(S, s, x, y, V)
    <2>1. CASE m.current_epoch > known.current_epoch
      <3>1. m.current_epoch \in Nat /\ m.current_epoch >= known.current_epoch
        BY <1>3, <2>1 DEF HelloOK, Silent, StateOK
      <3>2. /\ StateOK(S, s, u, V)
            /\ u.leader_epoch = known.leader_epoch /\ u.leader = known.leader
        BY <1>3, <3>1, EpochOK DEF Silent
      <3> HIDE DEF u
      <3>3. Silent(S, s, x, u, V)
        BY <1>3, <3>2 DEF Silent
      <3>4. Silent(S, s, x, sentinelFlushConfig(u), V)
        BY <3>3, FlushSilent
      <3>5. QED
        BY <2>1, <3>4
    <2>2. CASE ~(m.current_epoch > known.current_epoch)
      BY <1>3, <2>2
    <2>3. QED
      BY <2>1, <2>2
  <1> HIDE DEF y
  <1>5. Silent(S, s, x, z, V)
    <2>1. /\ DOMAIN z = Fields /\ z.disk = y.disk /\ z.config_epoch = m.config_epoch
          /\ z.current_epoch = y.current_epoch /\ z.failover_epoch = y.failover_epoch
          /\ z.failover_state = y.failover_state
          /\ z.leader_epoch = y.leader_epoch /\ z.leader = y.leader /\ z.peers = y.peers
      BY <1>4 DEF Silent, StateOK, Fields
    <2> HIDE DEF z
    <2>2. StateOK(S, s, z, V)
      BY <1>4, <2>1 DEF Silent, StateOK, HelloOK
    <2>3. QED
      BY <1>4, <2>1, <2>2 DEF Silent
  <1> HIDE DEF z
  <1>6. Silent(S, s, x, a, V)
    BY <1>5, ChangeAddressSilent, SilentTwice DEF Silent
  <1> HIDE DEF a
  <1>7. QED
    BY <1>0, <1>4, <1>5, <1>6

\* The answer to a question: a vote that was cast, or none.
ReplyOK(t, r, V) == r.leader # NULL => Vote(t, r.epoch, r.leader) \in V

\* is-master-down-by-addr casts at most one vote, and answers with a cast one.
LEMMA MasterDownOK ==
  ASSUME NEW S, NULL \notin S, NEW s, NEW V, NEW x, StateOK(S, s, x, V),
         NEW q, q.epoch \in Nat, q.id \in S \cup {NULL}
  PROVE  LET r == isMasterDownByAddr(x, q)
             W == V \cup Votes(s, x, r.x)
         IN  /\ StateOK(S, s, r.x, W) /\ OneNewVote(S, x, r.x)
             /\ r.reply.type = "reply" /\ ReplyOK(s, r.reply, W)
  <1> DEFINE mine == q.addr = x.addr
             y == IF mine /\ q.id # NULL THEN sentinelVoteLeader(x, q.epoch, q.id) ELSE x
             voted == mine /\ q.id # NULL /\ y.leader # NULL
             r == isMasterDownByAddr(x, q)
             W == V \cup Votes(s, x, y)
  <1>1. /\ r.x = y /\ r.reply.type = "reply"
        /\ r.reply.leader = IF voted THEN y.leader ELSE NULL
        /\ r.reply.epoch = IF mine /\ q.id # NULL THEN y.leader_epoch ELSE 0
    BY Zenon DEF isMasterDownByAddr
  <1>2. StateOK(S, s, y, W) /\ OneNewVote(S, x, y)
    <2>1. CASE mine /\ q.id # NULL
      <3>1. q.id \in S
        BY <2>1
      <3>2. QED
        BY Zenon, <2>1, <3>1, VoteLeaderOK
    <2>2. CASE ~(mine /\ q.id # NULL)
      <3>1. y = x
        BY <2>2
      <3>2. Votes(s, x, y) = {} /\ V \cup {} = V
        BY <3>1 DEF Votes
      <3>3. QED
        BY Zenon, <3>1, <3>2 DEF OneNewVote
    <2>3. QED
      BY Zenon, <2>1, <2>2
  <1> HIDE DEF y, r
  <1>3. ReplyOK(s, r.reply, W)
    BY <1>1, <1>2 DEF StateOK, ReplyOK
  <1>4. QED
    BY <1>1, <1>2, <1>3 DEF r

\* The reply is stored as the vote of the peer that sent it.
LEMMA ReceiveSilent ==
  ASSUME NEW S, NEW s, NEW V, NEW x, StateOK(S, s, x, V),
         NEW t \in DOMAIN x.peers, NEW r, ReplyOK(t, r, V)
  PROVE  Silent(S, s, x, sentinelReceiveIsMasterDownReply(x, t, r), V)
  <1> DEFINE old == x.peers[t]
             new == [down |-> r.down,
                     leader |-> IF r.leader # NULL THEN r.leader ELSE old.leader,
                     leader_epoch |-> IF r.leader # NULL THEN r.epoch ELSE old.leader_epoch]
             P == [x.peers EXCEPT ![t] = new]
             y == [x EXCEPT !.peers = P]
  <1>0. sentinelReceiveIsMasterDownReply(x, t, r) = y
    BY DEF sentinelReceiveIsMasterDownReply
  <1>1. /\ DOMAIN old = {"down", "leader", "leader_epoch"}
        /\ old.leader # NULL => Vote(t, old.leader_epoch, old.leader) \in V
    BY DEF StateOK, PeersOK
  <1>2. /\ DOMAIN new = {"down", "leader", "leader_epoch"}
        /\ new.leader # NULL => Vote(t, new.leader_epoch, new.leader) \in V
    <2> HIDE DEF old
    <2>1. QED
      BY <1>1 DEF ReplyOK
  <1> HIDE DEF new
  <1>3. PeersOK(S, P, V)
    BY <1>2 DEF StateOK, PeersOK
  <1> HIDE DEF P
  <1>4. /\ DOMAIN y = Fields /\ y.disk = x.disk /\ y.config_epoch = x.config_epoch
        /\ y.current_epoch = x.current_epoch /\ y.failover_epoch = x.failover_epoch
        /\ y.failover_state = x.failover_state
        /\ y.leader_epoch = x.leader_epoch /\ y.leader = x.leader /\ y.peers = P
    BY DEF StateOK, Fields
  <1> HIDE DEF y
  <1>5. StateOK(S, s, y, V)
    BY <1>3, <1>4 DEF StateOK
  <1>6. QED
    BY <1>0, <1>4, <1>5 DEF Silent

----------------------------------------------------------------------------
(* The invariant.                                                          *)

SenOK(S, sn, V) ==
    /\ DOMAIN sn = S
    /\ \A s \in S : StateOK(S, s, sn[s], V)

\* A Sentinel remembers the epoch of its last vote.
VotesOK(S, sn, V) ==
    \A v \in V :
        /\ v.voter \in S /\ v.leader \in S /\ v.epoch \in Nat \ {0}
        /\ v.epoch <= sn[v.voter].leader_epoch

\* A question q to t, or its answer.
AskOK(S, t, q, V) ==
    /\ q.type = "ask" => q.epoch \in Nat /\ q.id \in S \cup {NULL}
    /\ q.type = "reply" => ReplyOK(t, q, V)

NetOK(S, n, V) ==
    /\ DOMAIN n = {"ask", "cmd", "hello", "cut"}
    /\ DOMAIN n.ask = S /\ DOMAIN n.hello = S
    /\ \A s \in S : DOMAIN n.ask[s] = S
    /\ \A s, t \in S : AskOK(S, t, n.ask[s][t], V)
    /\ \A t \in S : n.hello[t] # NoHello => HelloOK(S, n.hello[t])

IInv ==
    /\ Countable(Sentinels) /\ NULL \notin Sentinels
    /\ DOMAIN used = {"scenario", "events"} /\ DOMAIN hist = {"votes", "elected"}
    /\ SenOK(Sentinels, sen, hist.votes)
    /\ VotesOK(Sentinels, sen, hist.votes)
    /\ NetOK(Sentinels, net, hist.votes)

\* The votes W come after the votes V.
NewVotesOK(S, V, W) ==
    /\ V \subseteq W
    /\ \A v \in W \ V :
        /\ v.voter \in S /\ v.leader \in S /\ v.epoch \in Nat \ {0}
        /\ \A w \in W \ {v} : w.voter = v.voter => w.epoch < v.epoch

\* Load: nothing is known of the votes of others.
LEMMA NewPeersOK ==
  ASSUME NEW S, NEW P, P \subseteq S, NEW V
  PROVE  PeersOK(S, [t \in P |-> NewPeer], V)
  <1>1. NewPeer.leader = NULL /\ DOMAIN NewPeer = {"down", "leader", "leader_epoch"}
    BY DEF NewPeer
  <1>2. QED
    BY Zenon, <1>1 DEF PeersOK

\* Votes that are cast later spoil nothing.
LEMMA MoreVotes ==
  ASSUME NEW S, NEW V, NEW W, V \subseteq W
  PROVE  /\ \A s, x : StateOK(S, s, x, V) => StateOK(S, s, x, W)
         /\ \A n : NetOK(S, n, V) => NetOK(S, n, W)
  <1>1. ASSUME NEW s, NEW x, StateOK(S, s, x, V) PROVE StateOK(S, s, x, W)
    <2>1. PeersOK(S, x.peers, W)
      BY <1>1 DEF StateOK, PeersOK
    <2>2. QED
      BY <1>1, <2>1 DEF StateOK
  <1>2. ASSUME NEW n, NetOK(S, n, V) PROVE NetOK(S, n, W)
    <2>1. \A t, q : AskOK(S, t, q, V) => AskOK(S, t, q, W)
      BY DEF AskOK, ReplyOK
    <2>2. QED
      BY <1>2, <2>1 DEF NetOK
  <1>3. QED
    BY <1>1, <1>2

\* Sentinel s moves to state y and may cast a vote.
LEMMA Moves ==
  ASSUME NEW S, NEW sn, NEW V, SenOK(S, sn, V), VotesOK(S, sn, V), NEW s \in S, NEW y,
         StateOK(S, s, y, V \cup Votes(s, sn[s], y)), OneNewVote(S, sn[s], y)
  PROVE  LET sn2 == [sn EXCEPT ![s] = y]
             W == V \cup Votes(s, sn[s], y)
         IN  SenOK(S, sn2, W) /\ VotesOK(S, sn2, W) /\ NewVotesOK(S, V, W)
  <1> DEFINE x == sn[s]
             sn2 == [sn EXCEPT ![s] = y]
             W == V \cup Votes(s, x, y)
  <1>1. x.leader_epoch \in Nat /\ y.leader_epoch \in Nat /\ y.leader_epoch >= x.leader_epoch
    <2>1. StateOK(S, s, x, V)
      BY Zenon DEF SenOK
    <2>2. x.leader_epoch \in Nat /\ y.leader_epoch \in Nat
      BY Zenon, <2>1 DEF StateOK
    <2> HIDE DEF x
    <2>3. y.leader_epoch = x.leader_epoch \/ y.leader_epoch > x.leader_epoch
      BY Zenon DEF OneNewVote, x
    <2>4. QED
      BY <2>2, <2>3
  <1>2. DOMAIN sn2 = S /\ sn2[s] = y /\ \A t \in S \ {s} : sn2[t] = sn[t]
    BY DEF SenOK
  <1> HIDE DEF sn2
  <1>3. SenOK(S, sn2, W)
    <2>1. ASSUME NEW t \in S PROVE StateOK(S, t, sn2[t], W)
      <3>1. CASE t = s
        BY <1>2, <3>1
      <3>2. CASE t # s
        <4>1. StateOK(S, t, sn[t], V) /\ V \subseteq W
          BY DEF SenOK
        <4>2. StateOK(S, t, sn[t], W)
          <5> HIDE DEF W
          <5>1. QED
            BY <4>1, MoreVotes
        <4>3. QED
          BY <1>2, <3>2, <4>2
      <3>3. QED
        BY <3>1, <3>2
    <2>2. QED
      BY Zenon, <1>2, <2>1 DEF SenOK
  <1>4. CASE Votes(s, x, y) = {}
    <2>1. W = V
      BY <1>4
    <2> HIDE DEF W
    <2>2. VotesOK(S, sn2, V)
      <3>1. SUFFICES ASSUME NEW v \in V PROVE v.epoch <= sn2[v.voter].leader_epoch
        BY DEF VotesOK
      <3>2. v.voter \in S /\ v.epoch \in Nat /\ v.epoch <= sn[v.voter].leader_epoch
        BY DEF VotesOK
      <3>3. QED
        BY <1>1, <1>2, <3>2
    <2>3. QED
      BY <1>3, <2>1, <2>2 DEF NewVotesOK, W, sn2
  <1>5. CASE Votes(s, x, y) # {}
    <2> DEFINE new == Vote(s, y.leader_epoch, y.leader)
    <2>1. /\ W = V \cup {new} /\ y.leader_epoch > x.leader_epoch /\ y.leader \in S
          /\ new.voter = s /\ new.epoch = y.leader_epoch /\ new.leader = y.leader
      BY <1>5 DEF Votes, OneNewVote, Vote
    <2> HIDE DEF new, W
    <2>2. ASSUME NEW v \in V
          PROVE  /\ v.voter \in S /\ v.leader \in S /\ v.epoch \in Nat \ {0}
                 /\ v.epoch <= sn2[v.voter].leader_epoch
                 /\ v.voter = s => v.epoch < y.leader_epoch
      <3>1. /\ v.voter \in S /\ v.leader \in S /\ v.epoch \in Nat \ {0}
            /\ v.epoch <= sn[v.voter].leader_epoch
        BY DEF VotesOK
      <3>2. CASE v.voter = s
        <4>1. v.epoch <= x.leader_epoch /\ sn2[v.voter] = y
          BY Zenon, <1>2, <3>1, <3>2
        <4> HIDE DEF x
        <4>2. v.epoch <= y.leader_epoch /\ v.epoch < y.leader_epoch
          BY <1>1, <2>1, <3>1, <4>1
        <4>3. QED
          BY Zenon, <3>1, <4>1, <4>2
      <3>3. CASE v.voter # s
        BY Zenon, <1>2, <3>1, <3>3
      <3>4. QED
        BY Zenon, <3>2, <3>3
    <2>3. VotesOK(S, sn2, W)
      <3>1. y.leader_epoch \in Nat \ {0} /\ y.leader_epoch <= y.leader_epoch
        <4> HIDE DEF x
        <4>1. QED
          BY <1>1, <2>1
      <3>2. /\ new.voter \in S /\ new.leader \in S /\ new.epoch \in Nat \ {0}
            /\ new.epoch <= sn2[new.voter].leader_epoch
        BY Zenon, <1>2, <2>1, <3>1
      <3>3. QED
        BY Zenon, <2>1, <2>2, <3>2 DEF VotesOK
    <2>4. NewVotesOK(S, V, W)
      <3>1. new.epoch \in Nat \ {0}
        <4> HIDE DEF x
        <4>1. QED
          BY <1>1, <2>1
      <3>2. QED
        BY Zenon, <2>1, <2>2, <3>1 DEF NewVotesOK
    <2>5. QED
      BY <1>3, <2>3, <2>4 DEF W, sn2
  <1>6. QED
    BY <1>4, <1>5

\* A silent step of one Sentinel keeps what holds of all.
LEMMA SilentMoves ==
  ASSUME NEW S, NEW sn, NEW V, SenOK(S, sn, V), VotesOK(S, sn, V), NEW s \in S, NEW y,
         Silent(S, s, sn[s], y, V)
  PROVE  LET sn2 == [sn EXCEPT ![s] = y] IN SenOK(S, sn2, V) /\ VotesOK(S, sn2, V)
  <1>1. Votes(s, sn[s], y) = {} /\ V \cup {} = V
    BY DEF Silent, Votes
  <1>2. StateOK(S, s, y, V) /\ OneNewVote(S, sn[s], y)
    BY DEF Silent, OneNewVote
  <1>3. QED
    BY <1>1, <1>2, Moves

----------------------------------------------------------------------------
(* The actions keep the invariant, and are steps of an election.           *)

NetFields == {"ask", "cmd", "hello", "cut"}

\* The requests and hellos in flight are all that matters of the network.
LEMMA NetSame ==
  ASSUME NEW S, NEW n, NEW m, NEW V, NetOK(S, n, V),
         DOMAIN m = NetFields, m.ask = n.ask, m.hello = n.hello
  PROVE  NetOK(S, m, V)
  BY DEF NetOK, NetFields

\* A request or a reply in flight may be replaced by a sound one.
LEMMA NetAsk ==
  ASSUME NEW S, NEW n, NEW V, NetOK(S, n, V), NEW s \in S, NEW t \in S,
         NEW q, AskOK(S, t, q, V)
  PROVE  NetOK(S, [n EXCEPT !.ask[s][t] = q], V)
  <1> DEFINE row == [n.ask[s] EXCEPT ![t] = q]
             ask == [n.ask EXCEPT ![s] = row]
             m == [n EXCEPT !.ask = ask]
  <1>1. [n EXCEPT !.ask[s][t] = q] = m
    OBVIOUS
  <1>2. DOMAIN row = S /\ row[t] = q /\ \A u \in S \ {t} : row[u] = n.ask[s][u]
    BY DEF NetOK
  <1> HIDE DEF row
  <1>3. DOMAIN ask = S /\ ask[s] = row /\ \A u \in S \ {s} : ask[u] = n.ask[u]
    BY DEF NetOK
  <1> HIDE DEF ask
  <1>4. DOMAIN m = NetFields /\ m.ask = ask /\ m.hello = n.hello
    BY DEF NetOK, NetFields
  <1> HIDE DEF m
  <1>5. \A u, w \in S : AskOK(S, w, ask[u][w], V)
    BY <1>2, <1>3 DEF NetOK
  <1>6. \A u \in S : DOMAIN ask[u] = S
    BY <1>2, <1>3 DEF NetOK
  <1>7. QED
    BY <1>1, <1>3, <1>4, <1>5, <1>6 DEF NetOK, NetFields

\* No request is in flight.
LEMMA IdleOK == \A S, t, V : AskOK(S, t, Idle, V)
  BY DEF AskOK, Idle

\* What remains to be shown of a step that wins no election.
LEMMA NoWinner ==
  ASSUME IInv, UNCHANGED Sentinels, DOMAIN used' = DOMAIN used, DOMAIN hist' = DOMAIN hist,
         hist'.elected = hist.elected,
         NewVotesOK(Sentinels, hist.votes, hist'.votes),
         SenOK(Sentinels, sen', hist'.votes), VotesOK(Sentinels, sen', hist'.votes),
         NetOK(Sentinels, net', hist'.votes)
  PROVE  IInv' /\ E!ElectionNext
  <1>1. IInv'
    BY DEF IInv
  <1>2. E!CastVotes
    BY DEF NewVotesOK, E!CastVotes
  <1>3. E!Elect
    BY DEF E!Elect
  <1>4. QED
    BY <1>1, <1>2, <1>3 DEF E!ElectionNext

\* What remains to be shown of a step that neither votes nor wins.
LEMMA NoVote ==
  ASSUME IInv, UNCHANGED Sentinels, DOMAIN used' = DOMAIN used, UNCHANGED hist,
         SenOK(Sentinels, sen', hist.votes), VotesOK(Sentinels, sen', hist.votes),
         NetOK(Sentinels, net', hist.votes)
  PROVE  IInv' /\ E!ElectionNext
  <1>1. NewVotesOK(Sentinels, hist.votes, hist.votes)
    BY DEF NewVotesOK
  <1>2. hist'.votes = hist.votes /\ hist'.elected = hist.elected /\ DOMAIN hist' = DOMAIN hist
    OBVIOUS
  <1>3. QED
    BY <1>1, <1>2, NoWinner

\* A step in which only Sentinel s changes, without a vote, and the network.
LEMMA OnlySilent ==
  ASSUME IInv, UNCHANGED Sentinels, DOMAIN used' = DOMAIN used, UNCHANGED hist,
         NEW s \in Sentinels, NEW y, sen' = [sen EXCEPT ![s] = y],
         Silent(Sentinels, s, sen[s], y, hist.votes),
         NetOK(Sentinels, net', hist.votes)
  PROVE  IInv' /\ E!ElectionNext
  <1>1. SenOK(Sentinels, sen', hist.votes) /\ VotesOK(Sentinels, sen', hist.votes)
    BY Zenon, SilentMoves DEF IInv
  <1>2. QED
    BY <1>1, NoVote

\* A step in which only the network changes, or the instances.
LEMMA OnlyNet ==
  ASSUME IInv, UNCHANGED Sentinels, DOMAIN used' = DOMAIN used, UNCHANGED <<sen, hist>>,
         NetOK(Sentinels, net', hist.votes)
  PROVE  IInv' /\ E!ElectionNext
  <1>1. SenOK(Sentinels, sen', hist.votes) /\ VotesOK(Sentinels, sen', hist.votes)
    BY DEF IInv
  <1>2. QED
    BY <1>1, NoVote

\* Bounded events change no bound.
LEMMA EventKeeps ==
  ASSUME IInv, NEW e, Event(e)
  PROVE  UNCHANGED Sentinels /\ DOMAIN used' = DOMAIN used
  BY DEF IInv, Event, Sentinels

\* Neither do the other steps.
LEMMA UsedKeeps ==
  ASSUME UNCHANGED used
  PROVE  UNCHANGED Sentinels /\ DOMAIN used' = DOMAIN used
  BY DEF Sentinels

\* A Sentinel answers is-master-down-by-addr.
LEMMA AskStep ==
  ASSUME IInv, NEW s \in Sentinels, NEW t \in Sentinels, HandleAsk(s, t)
  PROVE  IInv' /\ E!ElectionNext
  <1> DEFINE S == Sentinels
             V == hist.votes
             x == sen[t]
             q == net.ask[s][t]
             r == isMasterDownByAddr(x, q)
             W == V \cup Votes(t, x, r.x)
  <1>1. /\ q.type = "ask" /\ UNCHANGED used
        /\ sen' = [sen EXCEPT ![t] = r.x]
        /\ net' = [net EXCEPT !.ask[s][t] = r.reply]
        /\ hist' = [hist EXCEPT !.votes = hist.votes \cup Votes(t, x, r.x)]
    BY DEF HandleAsk
  <1>2. /\ UNCHANGED S /\ DOMAIN used' = DOMAIN used
        /\ DOMAIN hist' = DOMAIN hist /\ hist'.votes = W /\ hist'.elected = hist.elected
    BY <1>1, UsedKeeps DEF IInv
  <1>3. /\ StateOK(S, t, x, V) /\ NULL \notin S
        /\ q.epoch \in Nat /\ q.id \in S \cup {NULL}
    BY <1>1 DEF IInv, SenOK, NetOK, AskOK
  <1>4. /\ StateOK(S, t, r.x, W) /\ OneNewVote(S, x, r.x)
        /\ r.reply.type = "reply" /\ ReplyOK(t, r.reply, W)
    BY Zenon, <1>3, MasterDownOK
  <1>6. SenOK(S, sen, V) /\ VotesOK(S, sen, V) /\ NetOK(S, net, V)
    BY DEF IInv
  <1> HIDE DEF r, q
  <1>7. SenOK(S, sen', W) /\ VotesOK(S, sen', W) /\ NewVotesOK(S, V, W)
    BY Zenon, <1>1, <1>4, <1>6, Moves
  <1>8. NetOK(S, net', W)
    <2>1. AskOK(S, t, r.reply, W)
      BY <1>4 DEF AskOK
    <2>2. NetOK(S, net, W)
      <3> HIDE DEF W
      <3>1. V \subseteq W
        BY DEF W
      <3>2. QED
        BY <1>6, <3>1, MoreVotes
    <2>3. QED
      BY <1>1, <2>1, <2>2, NetAsk
  <1>9. QED
    BY <1>2, <1>7, <1>8, NoWinner

\* A Sentinel receives the answer.
LEMMA ReplyStep ==
  ASSUME IInv, NEW s \in Sentinels, NEW t \in Sentinels, HandleReply(s, t)
  PROVE  IInv' /\ E!ElectionNext
  <1> DEFINE S == Sentinels
             V == hist.votes
             x == sen[s]
             q == net.ask[s][t]
             y == sentinelReceiveIsMasterDownReply(x, t, q)
  <1>1. /\ q.type = "reply" /\ UNCHANGED <<hist, used>>
        /\ sen' = IF t \in DOMAIN x.peers THEN [sen EXCEPT ![s] = y] ELSE sen
        /\ net' = [net EXCEPT !.ask[s][t] = Idle]
    BY DEF HandleReply
  <1>2. UNCHANGED S /\ DOMAIN used' = DOMAIN used
    BY <1>1, UsedKeeps
  <1>3. NetOK(S, net', V)
    BY Zenon, <1>1, NetAsk, IdleOK DEF IInv
  <1>4. CASE t \in DOMAIN x.peers
    <2>1. StateOK(S, s, x, V) /\ ReplyOK(t, q, V)
      BY <1>1 DEF IInv, SenOK, NetOK, AskOK
    <2>2. Silent(S, s, x, y, V)
      BY <1>4, <2>1, ReceiveSilent
    <2>3. sen' = [sen EXCEPT ![s] = y]
      BY <1>1, <1>4
    <2> HIDE DEF y
    <2>4. QED
      BY Zenon, <1>1, <1>2, <1>3, <2>2, <2>3, OnlySilent
  <1>5. CASE t \notin DOMAIN x.peers
    <2>1. sen' = sen
      BY <1>1, <1>5
    <2>2. QED
      BY <1>1, <1>2, <1>3, <2>1, OnlyNet
  <1>6. QED
    BY <1>4, <1>5

\* A request or its answer is lost.
LEMMA LoseStep ==
  ASSUME IInv, NEW s \in Sentinels, NEW t \in Sentinels, LoseAsk(s, t)
  PROVE  IInv' /\ E!ElectionNext
  <1>1. UNCHANGED <<sen, hist>> /\ net' = [net EXCEPT !.ask[s][t] = Idle] /\ Event("lose")
    BY DEF LoseAsk
  <1>2. NetOK(Sentinels, net', hist.votes)
    BY Zenon, <1>1, NetAsk, IdleOK DEF IInv
  <1>3. QED
    BY <1>1, <1>2, EventKeeps, OnlyNet

\* A Sentinel publishes its hello.
LEMMA SendHelloStep ==
  ASSUME IInv, NEW s \in Sentinels, sentinelSendHello(s)
  PROVE  IInv' /\ E!ElectionNext
  <1> DEFINE m == [from |-> s, current_epoch |-> sen[s].current_epoch,
                   addr |-> sentinelGetCurrentMasterAddress(sen[s]),
                   config_epoch |-> sen[s].config_epoch]
             hello == [net.hello EXCEPT ![s] = m]
  <1>1. UNCHANGED <<sen, hist, used>> /\ net' = [net EXCEPT !.hello = hello]
    BY DEF sentinelSendHello
  <1>2. HelloOK(Sentinels, m)
    BY DEF HelloOK, IInv, SenOK, StateOK
  <1> HIDE DEF m
  <1>3. DOMAIN hello = Sentinels /\ hello[s] = m /\ \A t \in Sentinels \ {s} : hello[t] = net.hello[t]
    BY DEF IInv, NetOK
  <1> HIDE DEF hello
  <1>4. DOMAIN net' = NetFields /\ net'.ask = net.ask /\ net'.hello = hello
    BY <1>1 DEF IInv, NetOK, NetFields
  <1>5. NetOK(Sentinels, net', hist.votes)
    BY Zenon, <1>2, <1>3, <1>4 DEF IInv, NetOK, NetFields
  <1>6. QED
    BY <1>1, <1>5, UsedKeeps, OnlyNet

\* A Sentinel receives a hello.
LEMMA ReceiveHelloStep ==
  ASSUME IInv, NEW s \in Sentinels, NEW t \in Sentinels, ReceiveHello(s, t)
  PROVE  IInv' /\ E!ElectionNext
  <1> DEFINE y == sentinelProcessHelloMessage(sen[s], net.hello[t])
  <1>1. /\ net.hello[t] # NoHello /\ UNCHANGED <<net, hist, used>>
        /\ sen' = [sen EXCEPT ![s] = y]
    BY DEF ReceiveHello
  <1>2. StateOK(Sentinels, s, sen[s], hist.votes) /\ HelloOK(Sentinels, net.hello[t])
    BY <1>1 DEF IInv, SenOK, NetOK
  <1>3. Silent(Sentinels, s, sen[s], y, hist.votes)
    BY <1>2, HelloSilent
  <1> HIDE DEF y
  <1>4. NetOK(Sentinels, net', hist.votes)
    BY <1>1 DEF IInv
  <1>5. QED
    BY Zenon, <1>1, <1>3, <1>4, UsedKeeps, OnlySilent

\* A Sentinel reads INFO of an instance.
LEMMA InfoStep ==
  ASSUME IInv, NEW s \in Sentinels, NEW i, InfoReply(s, i)
  PROVE  IInv' /\ E!ElectionNext
  <1>1. PICK late \in BOOLEAN :
          LET st == sentinelRefreshInstanceInfo(sen[s], i, late)
          IN  /\ sen' = [sen EXCEPT ![s] = st.x]
              /\ net' = [net EXCEPT !.cmd = SendAll(@, s, st.out)]
    BY Zenon DEF InfoReply
  <1> DEFINE y == sentinelRefreshInstanceInfo(sen[s], i, late).x
  <1>2. UNCHANGED <<hist, used>> /\ sen' = [sen EXCEPT ![s] = y]
    BY Zenon, <1>1 DEF InfoReply
  <1>3. Silent(Sentinels, s, sen[s], y, hist.votes)
    BY InfoSilent DEF IInv, SenOK
  <1> HIDE DEF y
  <1>4. \A cmd : NetOK(Sentinels, [net EXCEPT !.cmd = cmd], hist.votes)
    <2>1. ASSUME NEW cmd PROVE NetOK(Sentinels, [net EXCEPT !.cmd = cmd], hist.votes)
      <3> DEFINE m == [net EXCEPT !.cmd = cmd]
      <3>1. DOMAIN m = NetFields /\ m.ask = net.ask /\ m.hello = net.hello
        BY DEF IInv, NetOK, NetFields
      <3> HIDE DEF m
      <3>2. NetOK(Sentinels, m, hist.votes)
        BY <3>1, NetSame DEF IInv
      <3>3. QED
        BY <3>2 DEF m
    <2>2. QED
      BY <2>1
  <1>5. \E cmd : net' = [net EXCEPT !.cmd = cmd]
    BY Zenon, <1>1
  <1>6. NetOK(Sentinels, net', hist.votes)
    BY <1>4, <1>5
  <1>7. QED
    BY Zenon, <1>2, <1>3, <1>6, UsedKeeps, OnlySilent

\* Instances change their role, and are cut off, crash and restart.
LEMMA InstanceSteps ==
  ASSUME IInv, NEW s, NEW i,
         Slaveof(s, i) \/ Cut(s, i) \/ CrashInstance(i) \/ RestartInstance(i)
  PROVE  IInv' /\ E!ElectionNext
  <1>1. UNCHANGED <<sen, hist>>
    BY DEF Slaveof, Cut, CrashInstance, RestartInstance
  <1>2. UNCHANGED Sentinels /\ DOMAIN used' = DOMAIN used
    BY EventKeeps, UsedKeeps DEF Slaveof, Cut, CrashInstance, RestartInstance
  <1>3. DOMAIN net' = NetFields /\ net'.ask = net.ask /\ net'.hello = net.hello
    <2>1. DOMAIN net = NetFields
      BY DEF IInv, NetOK, NetFields
    <2>2. CASE Slaveof(s, i)
      BY <2>1, <2>2 DEF Slaveof, NetFields
    <2>3. CASE Cut(s, i)
      BY <2>1, <2>3 DEF Cut, NetFields
    <2>4. CASE CrashInstance(i)
      BY <2>1, <2>4 DEF CrashInstance, NetFields
    <2>5. CASE RestartInstance(i)
      BY <2>1, <2>5 DEF RestartInstance
    <2>6. QED
      BY <2>2, <2>3, <2>4, <2>5
  <1>4. NetOK(Sentinels, net', hist.votes)
    BY <1>3, NetSame DEF IInv
  <1>5. QED
    BY <1>1, <1>2, <1>4, OnlyNet

\* A Sentinel crashes: what it was asked and had asked is lost.
LEMMA CrashStep ==
  ASSUME IInv, NEW s \in Sentinels, CrashSentinel(s)
  PROVE  IInv' /\ E!ElectionNext
  <1> DEFINE y == [sen[s] EXCEPT !.up = FALSE]
             ask == [t \in Sentinels |-> [u \in Sentinels |->
                        IF t = s \/ u = s THEN Idle ELSE net.ask[t][u]]]
  <1>1. /\ Event("crash_sentinel") /\ UNCHANGED hist
        /\ sen' = [sen EXCEPT ![s] = y] /\ net' = [net EXCEPT !.ask = ask]
    BY DEF CrashSentinel
  <1>2. StateOK(Sentinels, s, sen[s], hist.votes)
    BY DEF IInv, SenOK
  <1>3. Silent(Sentinels, s, sen[s], y, hist.votes)
    <2>1. Calm(sen[s], y)
      BY <1>2 DEF StateOK, Calm, Alike, Fields
    <2>2. QED
      BY <1>2, <2>1, CalmSilent
  <1> HIDE DEF y
  <1>4. /\ DOMAIN ask = Sentinels /\ \A t \in Sentinels : DOMAIN ask[t] = Sentinels
        /\ \A t, u \in Sentinels : AskOK(Sentinels, u, ask[t][u], hist.votes)
    BY IdleOK DEF IInv, NetOK
  <1> HIDE DEF ask
  <1>5. DOMAIN net' = NetFields /\ net'.ask = ask /\ net'.hello = net.hello
    BY <1>1 DEF IInv, NetOK, NetFields
  <1>6. NetOK(Sentinels, net', hist.votes)
    BY <1>4, <1>5 DEF IInv, NetOK, NetFields
  <1>7. QED
    BY Zenon, <1>1, <1>3, <1>6, EventKeeps, OnlySilent

\* A restart forgets everything but the file: the epoch of the last vote.
LEMMA RestartStep ==
  ASSUME IInv, NEW s \in Sentinels, RestartSentinel(s)
  PROVE  IInv' /\ E!ElectionNext
  <1> DEFINE d == sen[s].disk
             y == Load(d)
  <1>1. UNCHANGED <<net, hist, used>> /\ sen' = [sen EXCEPT ![s] = y]
    BY DEF RestartSentinel
  <1>2. DiskOK(Sentinels, d, sen[s].leader_epoch) /\ sen[s].leader_epoch \in Nat
    BY Zenon DEF IInv, SenOK, StateOK
  <1> HIDE DEF d
  <1>3. /\ DOMAIN y = Fields /\ y.disk = d
        /\ y.current_epoch \in Nat /\ y.config_epoch \in Nat
        /\ y.leader = NULL /\ y.leader_epoch = sen[s].leader_epoch
        /\ y.failover_state = "none" /\ y.failover_epoch = 0
        /\ y.peers = [t \in d.peers |-> NewPeer]
    BY Zenon, <1>2 DEF Load, Fields, DiskOK
  <1> HIDE DEF y
  <1>4. PeersOK(Sentinels, y.peers, hist.votes)
    <2>1. PICK P : P = d.peers
      OBVIOUS
    <2>2. P \subseteq Sentinels
      BY Zenon, <1>2, <2>1 DEF DiskOK
    <2>3. PeersOK(Sentinels, [t \in P |-> NewPeer], hist.votes)
      BY <2>2, NewPeersOK
    <2>4. QED
      BY Zenon, <1>3, <2>1, <2>3
  <1>5. Silent(Sentinels, s, sen[s], y, hist.votes)
    <2>1. DiskOK(Sentinels, y.disk, y.leader_epoch)
      BY Zenon, <1>2, <1>3
    <2>2. /\ y.leader_epoch \in Nat /\ y.failover_epoch \in Nat
          /\ y.failover_state # "wait_start"
      BY <1>2, <1>3
    <2>3. StateOK(Sentinels, s, y, hist.votes)
      BY Zenon, <1>3, <1>4, <2>1, <2>2 DEF StateOK
    <2>4. QED
      BY Zenon, <1>3, <2>3 DEF Silent
  <1>6. NetOK(Sentinels, net', hist.votes)
    BY <1>1 DEF IInv
  <1>7. QED
    BY Zenon, <1>1, <1>5, <1>6, UsedKeeps, OnlySilent

\* TILT, SENTINEL FAILOVER and SENTINEL RESET.
LEMMA CommandSteps ==
  ASSUME IInv, NEW s \in Sentinels,
         sentinelCheckTiltCondition(s) \/ ForceFailover(s) \/ ResetCommand(s)
  PROVE  IInv' /\ E!ElectionNext
  <1> DEFINE x == sen[s]
             V == hist.votes
  <1>1. /\ UNCHANGED <<net, hist>> /\ UNCHANGED Sentinels /\ DOMAIN used' = DOMAIN used
    BY EventKeeps DEF sentinelCheckTiltCondition, ForceFailover, ResetCommand
  <1>2. StateOK(Sentinels, s, x, V) /\ DOMAIN x = Fields
    BY Zenon DEF IInv, SenOK, StateOK
  <1>3. NetOK(Sentinels, net', V)
    BY <1>1 DEF IInv
  <1>4. CASE sentinelCheckTiltCondition(s)
    <2> DEFINE y == [x EXCEPT !.tilt = TRUE]
    <2>1. sen' = [sen EXCEPT ![s] = y]
      BY <1>4 DEF sentinelCheckTiltCondition
    <2>2. Calm(x, y)
      BY <1>2 DEF Calm, Alike, Fields
    <2> HIDE DEF y
    <2>3. Silent(Sentinels, s, x, y, V)
      BY <1>2, <2>2, CalmSilent
    <2>4. QED
      BY Zenon, <1>1, <1>3, <2>1, <2>3, OnlySilent
  <1>5. CASE ForceFailover(s)
    <2> DEFINE z == sentinelStartFailover(x)
               y == [z EXCEPT !.force = TRUE]
    <2>1. sen' = [sen EXCEPT ![s] = y]
      BY <1>5 DEF ForceFailover
    <2>2. Silent(Sentinels, s, x, z, V)
      BY <1>2, StartOK DEF Silent
    <2> HIDE DEF z
    <2>3. Calm(z, y)
      BY <2>2 DEF Silent, StateOK, Calm, Alike, Fields
    <2> HIDE DEF y
    <2>4. Silent(Sentinels, s, x, y, V)
      <3>1. StateOK(Sentinels, s, z, V)
        BY Zenon, <2>2 DEF Silent
      <3>2. Silent(Sentinels, s, z, y, V)
        BY Zenon, <2>3, <3>1, CalmSilent
      <3>3. QED
        BY Zenon, <2>2, <3>2, SilentTwice
    <2>5. QED
      BY Zenon, <1>1, <1>3, <2>1, <2>4, OnlySilent
  <1>6. CASE ResetCommand(s)
    <2> DEFINE y == sentinelResetMaster(x, <<>>)
    <2>1. sen' = [sen EXCEPT ![s] = y]
      BY <1>6 DEF ResetCommand
    <2>2. PeersOK(Sentinels, <<>>, V)
      BY DEF PeersOK
    <2>3. Silent(Sentinels, s, x, y, V)
      BY <1>2, <2>2, ResetSilent
    <2> HIDE DEF y
    <2>4. QED
      BY Zenon, <1>1, <1>3, <2>1, <2>3, OnlySilent
  <1>7. QED
    BY <1>4, <1>5, <1>6

\* The questions that the timer sends.
LEMMA QuestionsOK ==
  ASSUME NEW V, NetOK(Sentinels, net, V), NEW s \in Sentinels, NEW x, x.current_epoch \in Nat,
         NEW b \in BOOLEAN, NEW cmd, NEW m,
         m = [net EXCEPT !.ask[s] = IF b THEN @ ELSE sentinelAskMasterStateToOtherSentinels(x, s),
                         !.cmd = cmd]
  PROVE  NetOK(Sentinels, m, V)
  <1> DEFINE row == IF b THEN net.ask[s] ELSE sentinelAskMasterStateToOtherSentinels(x, s)
             ask == [net.ask EXCEPT ![s] = row]
  <1>1. DOMAIN row = Sentinels /\ \A t \in Sentinels : AskOK(Sentinels, t, row[t], V)
    <2>1. CASE b
      BY <2>1 DEF NetOK
    <2>2. CASE ~b
      <3> DEFINE q == [type |-> "ask", addr |-> x.addr, epoch |-> x.current_epoch,
                       id |-> IF x.failover_state = "none" THEN NULL ELSE s]
      <3>1. row = sentinelAskMasterStateToOtherSentinels(x, s)
        BY <2>2
      <3>2. DOMAIN row = Sentinels /\ \A t \in Sentinels : row[t] = q \/ row[t] = net.ask[s][t]
        BY <3>1 DEF sentinelAskMasterStateToOtherSentinels
      <3>3. \A t : AskOK(Sentinels, t, q, V)
        BY DEF AskOK
      <3> HIDE DEF q, row
      <3>4. QED
        BY <3>2, <3>3 DEF NetOK
    <2>3. QED
      BY <2>1, <2>2
  <1> HIDE DEF row
  <1>2. DOMAIN ask = Sentinels /\ ask[s] = row /\ \A t \in Sentinels \ {s} : ask[t] = net.ask[t]
    BY DEF NetOK
  <1>3. DOMAIN m = NetFields /\ m.ask = ask /\ m.hello = net.hello
    BY DEF NetOK, NetFields, row
  <1> HIDE DEF ask
  <1>4. QED
    BY <1>1, <1>2, <1>3 DEF NetOK, NetFields

\* What the timer of s writes, once the state machine has made step st.
TimerDone(s, late, st) ==
    LET x == sentinelHandleDictOfRedisInstances(st.x, s, late)
    IN  /\ sen' = [sen EXCEPT ![s] = x]
        /\ net' = [net EXCEPT !.ask[s] = IF x.tilt THEN @ ELSE sentinelAskMasterStateToOtherSentinels(st.x, s),
                              !.cmd = SendAll(@, s, st.out)]
        /\ hist' = [votes |-> hist.votes \cup Votes(s, sen[s], x),
                    elected |-> hist.elected \cup
                        IF ~st.won THEN {}
                        ELSE {[leader |-> s, epoch |-> st.x.failover_epoch,
                               plain |-> /\ ~st.x.force
                                         /\ st.x.current_epoch = st.x.failover_epoch
                                         /\ DOMAIN st.x.peers = Sentinels \ {s}]}]

\* Election counts as this module does.
LEMMA SameCount == \A T : E!Cardinality(T) = Cardinality(T)
  BY DEF E!Cardinality, Cardinality

\* The instance of Election speaks of the same finite sets.
LEMMA SameFinite == \A T : E!IsFiniteSet(T) = IsFiniteSet(T)
  BY DEF E!IsFiniteSet, IsFiniteSet

\* sentinelTimer: the one step that asks, votes for itself and wins.
LEMMA TimerStep ==
  ASSUME IInv, NEW s \in Sentinels, sentinelTimer(s)
  PROVE  IInv' /\ E!ElectionNext
  <1> DEFINE S == Sentinels
             V == hist.votes
             x == sen[s]
  <1>0. PICK late \in Late(x, s) :
          \E st \in sentinelHandleRedisInstance(x, s, late) : TimerDone(s, late, st)
    BY Zenon DEF sentinelTimer, TimerDone
  <1>1. PICK st \in sentinelHandleRedisInstance(x, s, late) : TimerDone(s, late, st)
    BY <1>0
  <1> DEFINE y == sentinelHandleDictOfRedisInstances(st.x, s, late)
             W == V \cup Votes(s, x, y)
  <1>2. /\ Countable(S) /\ NULL \notin S /\ StateOK(S, s, x, V)
        /\ SenOK(S, sen, V) /\ VotesOK(S, sen, V) /\ NetOK(S, net, V)
        /\ UNCHANGED used
    BY DEF IInv, SenOK, sentinelTimer
  <1>3. StepOK(s, x, st, V)
    BY <1>2, HandleRedisOK
  <1>4. StateOK(S, s, st.x, V \cup Votes(s, x, st.x)) /\ OneNewVote(S, x, st.x)
    BY Zenon, <1>3 DEF StepOK
  <1>5. /\ Silent(S, s, st.x, y, V \cup Votes(s, x, st.x))
        /\ st.x.failover_state # "update_config" => y.leader = st.x.leader
    <2>1. PICK U : U = V \cup Votes(s, x, st.x)
      OBVIOUS
    <2>2. StateOK(S, s, st.x, U)
      BY Zenon, <1>4, <2>1
    <2>3. SilentTurn(S, s, st.x, y, U)
      BY Zenon, <2>2, HandleDictTurn
    <2> HIDE DEF y
    <2>4. QED
      BY Zenon, <2>1, <2>3 DEF SilentTurn
  <1> HIDE DEF y
  <1>6. Votes(s, x, y) = Votes(s, x, st.x) /\ OneNewVote(S, x, y)
    BY Zenon, <1>3, <1>4, <1>5 DEF StepOK, Silent, Votes, OneNewVote
  <1>7. StateOK(S, s, y, W)
    BY <1>5, <1>6 DEF Silent
  <1>8. /\ sen' = [sen EXCEPT ![s] = y]
        /\ hist'.votes = W /\ DOMAIN hist' = {"votes", "elected"}
        /\ hist'.elected = hist.elected \cup
              IF ~st.won THEN {}
              ELSE {[leader |-> s, epoch |-> st.x.failover_epoch, plain |-> PlainWin(s, st)]}
    <2>1. st.won \in BOOLEAN
      BY <1>3 DEF StepOK
    <2>2. QED
      BY <1>1, <2>1 DEF y, PlainWin, TimerDone
  <1>9. UNCHANGED S /\ DOMAIN used' = DOMAIN used
    BY <1>2, UsedKeeps
  <1>10. SenOK(S, sen', W) /\ VotesOK(S, sen', W) /\ NewVotesOK(S, V, W)
    BY Zenon, <1>2, <1>6, <1>7, <1>8, Moves
  <1>11. NetOK(S, net', W)
    <2>1. st.x.current_epoch \in Nat
      BY Zenon, <1>4 DEF StateOK
    <2> DEFINE cmd == SendAll(net.cmd, s, st.out)
    <2>2. \E b \in BOOLEAN :
            net' = [net EXCEPT !.ask[s] = IF b THEN @ ELSE sentinelAskMasterStateToOtherSentinels(st.x, s),
                               !.cmd = cmd]
      <3>1. CASE y.tilt
        <4>1. WITNESS TRUE \in BOOLEAN
        <4>2. QED
          BY <1>1, <3>1 DEF y, TimerDone
      <3>2. CASE ~y.tilt
        <4>1. WITNESS FALSE \in BOOLEAN
        <4>2. QED
          BY <1>1, <3>2 DEF y, TimerDone
      <3>3. QED
        BY Zenon, <3>1, <3>2
    <2>3. NetOK(S, net', V)
      BY Zenon, <1>2, <2>1, <2>2, QuestionsOK
    <2>4. V \subseteq W
      OBVIOUS
    <2> HIDE DEF W
    <2>5. QED
      BY Zenon, <2>3, <2>4, MoreVotes
  <1>12. IInv'
    BY <1>2, <1>8, <1>9, <1>10, <1>11 DEF IInv
  <1>13. E!CastVotes
    BY <1>8, <1>9, <1>10 DEF NewVotesOK, E!CastVotes
  <1>14. E!Elect
    <2> DEFINE Plain(el) == {[leader |-> e.leader, epoch |-> e.epoch] : e \in {f \in el : f.plain}}
    <2>1. Plain(hist.elected) \subseteq Plain(hist'.elected)
      BY Zenon, <1>8
    <2>2. ASSUME NEW w \in Plain(hist'.elected) \ Plain(hist.elected)
          PROVE  2 * Cardinality(E!VotesFor(w.leader, w.epoch)') > Cardinality(S)
      <3>1. PlainWin(s, st) /\ w.leader = s /\ w.epoch = st.x.failover_epoch
        <4>1. PICK e \in hist'.elected : e.plain /\ w = [leader |-> e.leader, epoch |-> e.epoch]
          BY Zenon, <2>2
        <4>2. e \notin hist.elected
          BY Zenon, <2>2, <4>1
        <4>3. e \in IF ~st.won THEN {}
                    ELSE {[leader |-> s, epoch |-> st.x.failover_epoch, plain |-> PlainWin(s, st)]}
          BY Zenon, <1>8, <4>1, <4>2
        <4>4. e = [leader |-> s, epoch |-> st.x.failover_epoch, plain |-> PlainWin(s, st)]
          BY Zenon, <4>3
        <4>5. e.plain = PlainWin(s, st) /\ e.leader = s /\ e.epoch = st.x.failover_epoch
          BY Zenon, <4>4
        <4>6. QED
          BY Zenon, <4>1, <4>5
      <3>2. 2 * Cardinality(Voters(S, s, st.x.failover_epoch, W)) > Cardinality(S)
        BY Zenon, <1>3, <1>6, <3>1 DEF StepOK
      <3>3. E!VotesFor(w.leader, w.epoch)' = Voters(S, s, st.x.failover_epoch, W)
        BY Zenon, <1>8, <1>9, <3>1 DEF E!VotesFor, Voters, Vote
      <3>4. QED
        BY Zenon, <3>2, <3>3
    <2>3. QED
      BY Zenon, <2>1, <2>2, SameCount DEF E!Elect
  <1>15. QED
    BY <1>9, <1>12, <1>13, <1>14 DEF E!ElectionNext

\* The invariant holds at first.
LEMMA InitStep ==
  ASSUME ConstantsOK, Init, Countable(Sentinels)
  PROVE  IInv /\ E!ElectionInit
  <1>1. PICK c \in Scenarios : used = [scenario |-> c, events |-> [e \in DOMAIN c.Events |-> 0]]
    BY Zenon DEF Init
  <1>2. DOMAIN used = {"scenario", "events"} /\ NULL \notin Sentinels
    BY <1>1 DEF ConstantsOK, Sentinels
  <1>3. /\ hist = [votes |-> {}, elected |-> {}]
        /\ net = [ask |-> [s \in Sentinels |-> [t \in Sentinels |-> Idle]],
                  cmd |-> [s \in Sentinels |-> [i \in Instances |-> <<>>]],
                  hello |-> [s \in Sentinels |-> NoHello], cut |-> used.scenario.Cut]
        /\ sen = [s \in Sentinels |-> Load(FirstConfig(s))]
    BY Zenon DEF Init
  <1>4. DOMAIN hist = {"votes", "elected"} /\ hist.votes = {} /\ hist.elected = {}
    BY Zenon, <1>3
  <1>5. NetOK(Sentinels, net, {})
    BY <1>3, IdleOK DEF NetOK
  <1>6. ASSUME NEW s \in Sentinels PROVE StateOK(Sentinels, s, Load(FirstConfig(s)), {})
    <2> DEFINE d == FirstConfig(s)
               y == Load(d)
    <2>1. DiskOK(Sentinels, d, 0) /\ d.leader_epoch = 0
      BY DEF FirstConfig, DiskOK
    <2> HIDE DEF d
    <2>2. /\ DOMAIN y = Fields /\ y.disk = d
          /\ y.current_epoch \in Nat /\ y.config_epoch \in Nat
          /\ y.leader = NULL /\ y.leader_epoch = 0
          /\ y.failover_state = "none" /\ y.failover_epoch = 0
          /\ y.peers = [t \in d.peers |-> NewPeer]
      BY Zenon, <2>1 DEF Load, Fields, DiskOK
    <2> HIDE DEF y
    <2>3. PeersOK(Sentinels, y.peers, {})
      <3>1. PICK P : P = d.peers
        OBVIOUS
      <3>2. P \subseteq Sentinels
        BY Zenon, <2>1, <3>1 DEF DiskOK
      <3>3. PeersOK(Sentinels, [t \in P |-> NewPeer], {})
        BY <3>2, NewPeersOK
      <3>4. QED
        BY Zenon, <2>2, <3>1, <3>3
    <2>4. StateOK(Sentinels, s, y, {})
      <3>1. DiskOK(Sentinels, y.disk, y.leader_epoch)
        BY Zenon, <2>1, <2>2
      <3>2. /\ y.leader_epoch \in Nat /\ y.failover_epoch \in Nat
            /\ y.failover_state # "wait_start"
        BY <2>2
      <3>3. QED
        BY Zenon, <2>2, <2>3, <3>1, <3>2 DEF StateOK
    <2>5. QED
      BY <2>4 DEF y, d
  <1>7. SenOK(Sentinels, sen, {}) /\ VotesOK(Sentinels, sen, {})
    BY <1>3, <1>6 DEF SenOK, VotesOK
  <1>8. IInv
    BY Zenon, <1>2, <1>4, <1>5, <1>7 DEF IInv
  <1>9. E!ElectionInit
    BY <1>4, SameFinite DEF E!ElectionInit, Countable
  <1>10. QED
    BY <1>8, <1>9

\* Every step keeps the invariant, and is a step of the election.
LEMMA NextStep ==
  ASSUME IInv, [Next]_vars PROVE IInv' /\ [E!ElectionNext]_(E!evars)
  <1>1. CASE UNCHANGED vars
    BY <1>1 DEF vars, IInv, Sentinels, E!evars
  <1>2. CASE Next
    <2>1. ASSUME NEW s \in Sentinels,
                 \/ sentinelTimer(s) \/ sentinelSendHello(s)
                 \/ CrashSentinel(s) \/ RestartSentinel(s) \/ sentinelCheckTiltCondition(s)
                 \/ ForceFailover(s) \/ ResetCommand(s)
          PROVE  IInv' /\ E!ElectionNext
      BY <2>1, TimerStep, SendHelloStep, CrashStep, RestartStep, CommandSteps
    <2>2. ASSUME NEW s \in Sentinels, NEW t \in Sentinels,
                 ReceiveHello(s, t) \/ HandleAsk(s, t) \/ HandleReply(s, t) \/ LoseAsk(s, t)
          PROVE  IInv' /\ E!ElectionNext
      BY <2>2, ReceiveHelloStep, AskStep, ReplyStep, LoseStep
    <2>3. ASSUME NEW s \in Sentinels, NEW i, InfoReply(s, i) \/ Slaveof(s, i) \/ Cut(s, i)
          PROVE  IInv' /\ E!ElectionNext
      BY <2>3, InfoStep, InstanceSteps
    <2>4. ASSUME NEW i, CrashInstance(i) \/ RestartInstance(i)
          PROVE  IInv' /\ E!ElectionNext
      BY <2>4, InstanceSteps
    <2>5. QED
      BY <1>2, <2>1, <2>2, <2>3, <2>4 DEF Next
  <1>3. QED
    BY <1>1, <1>2

----------------------------------------------------------------------------
(* The theorems.                                                           *)

\* Finite sets can be counted as the invariant needs.
LEMMA FiniteCountable ==
  ASSUME ConstantsOK, Init PROVE Countable(Sentinels)
  <1>1. IsFiniteSet(Sentinels)
    <2>1. PICK c \in Scenarios : used = [scenario |-> c, events |-> [e \in DOMAIN c.Events |-> 0]]
      BY Zenon DEF Init
    <2>2. used.scenario = c
      BY Zenon, <2>1
    <2>3. QED
      BY Zenon, <2>2 DEF ConstantsOK, Sentinels
  <1>2. \A T : /\ E!Cardinality(T) = Cardinality(T)
              /\ E!IsFiniteSet(T) = IsFiniteSet(T)
    BY DEF E!Cardinality, Cardinality, E!IsFiniteSet, IsFiniteSet
  <1>3. \A T \in SUBSET Sentinels :
          /\ Cardinality(T) \in Nat
          /\ \A U \in SUBSET T : Cardinality(U) <= Cardinality(T)
          /\ \A t \in Sentinels \ T : Cardinality(T \cup {t}) = Cardinality(T) + 1
    BY Zenon, <1>1, <1>2, E!Counts
  <1>4. \A n \in Nat : \A T \in SUBSET (0..n) : T # {} => \E m \in T : \A k \in T : m >= k
    BY Zenon, E!Largest
  <1>5. QED
    BY Zenon, <1>1, <1>3, <1>4 DEF Countable

\* The Sentinels elect leaders as Election says, whatever crashes, restarts,
\* delays and losses: a vote is saved before it is answered, a restart keeps
\* its epoch, and sentinelGetLeader counts only votes that were cast.
THEOREM SentinelsElect == ConstantsOK /\ Spec => ImplementsElection
  <1>1. ConstantsOK /\ Init => IInv /\ E!ElectionInit
    BY InitStep, FiniteCountable
  <1>2. IInv /\ [Next]_vars => IInv' /\ [E!ElectionNext]_(E!evars)
    BY NextStep
  <1>3. QED
    BY <1>1, <1>2, PTL DEF Spec, ImplementsElection, E!ElectionSpec

\* So no two Sentinels lead in one epoch, if they counted the votes of that
\* epoch among all the Sentinels and were not told to fail over.
THEOREM OneLeaderPerEpoch == ConstantsOK /\ Spec => []E!OneLeaderPerEpoch
  BY SentinelsElect, E!OneLeader, PTL DEF ImplementsElection
=============================================================================
