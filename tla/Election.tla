------------------------------ MODULE Election ------------------------------
(***************************************************************************)
(* What the election of a failover leader among Sentinels promises, with   *)
(* none of its mechanism: a Sentinel votes at most once in an epoch and    *)
(* never in an older one than its last, also across restarts, and a leader *)
(* of an epoch has the votes of a majority in that epoch.                  *)
(***************************************************************************)
EXTENDS Integers, FiniteSets, FiniteSetTheorems, WellFoundedInduction, TLAPS

VARIABLES
    members,   \* the Sentinels
    votes,     \* the votes that have been cast: voter, epoch, leader
    elected    \* the elections that have been won: leader, epoch

evars == <<members, votes, elected>>

VotesFor(l, e) == {s \in members : [voter |-> s, epoch |-> e, leader |-> l] \in votes}

ElectionInit ==
    /\ IsFiniteSet(members)
    /\ votes = {}
    /\ elected = {}

\* New votes are for newer epochs than the older votes of the same Sentinel.
CastVotes ==
    /\ votes \subseteq votes'
    /\ \A v \in votes' \ votes :
        /\ v.voter \in members /\ v.leader \in members /\ v.epoch \in Nat \ {0}
        /\ \A w \in votes' \ {v} : w.voter = v.voter => w.epoch < v.epoch

\* The winner may cast its own vote in the step that finds it elected.
Elect ==
    /\ elected \subseteq elected'
    /\ \A e \in elected' \ elected :
        2 * Cardinality(VotesFor(e.leader, e.epoch)') > Cardinality(members)

ElectionNext ==
    /\ UNCHANGED members
    /\ CastVotes
    /\ Elect

ElectionSpec == ElectionInit /\ [][ElectionNext]_evars

\* No two Sentinels are leaders in the same epoch: what the agreement on one
\* configuration per epoch (sentinelFailoverWaitStart, config_epoch) rests on.
OneLeaderPerEpoch ==
    \A a, b \in elected : a.epoch = b.epoch => a.leader = b.leader

-----------------------------------------------------------------------------
(* An epoch has one leader, for any finite set of voters and any number of *)
(* epochs: two majorities share a voter, who voted once.                   *)

\* A voter has one vote in an epoch.
OneVote ==
    \A v, w \in votes : v.voter = w.voter /\ v.epoch = w.epoch => v = w

\* Those elected have a majority, now and for ever.
HasMajority ==
    \A e \in elected : 2 * Cardinality(VotesFor(e.leader, e.epoch)) > Cardinality(members)

EInv ==
    /\ IsFiniteSet(members)
    /\ OneVote
    /\ HasMajority

\* Nobody has voted at first.
LEMMA InitEInv == ElectionInit => EInv
  BY DEF ElectionInit, EInv, OneVote, HasMajority

\* Voters are members, so that there are finitely many for each leader.
LEMMA VotersFinite ==
  ASSUME NEW l, NEW e, IsFiniteSet(members)
  PROVE  /\ VotesFor(l, e) \subseteq members
         /\ IsFiniteSet(VotesFor(l, e))
         /\ Cardinality(VotesFor(l, e)) \in Nat
         /\ Cardinality(members) \in Nat
  <1>1. VotesFor(l, e) \subseteq members
    BY DEF VotesFor
  <1>2. IsFiniteSet(VotesFor(l, e))
    BY <1>1, FS_Subset
  <1> QED
    BY <1>1, <1>2, FS_CardinalityType

\* A step keeps the votes that count, and may add to them.
LEMMA VotesGrow ==
  ASSUME NEW l, NEW e, IsFiniteSet(members), ElectionNext
  PROVE  Cardinality(VotesFor(l, e)) <= Cardinality(VotesFor(l, e)')
  <1> DEFINE old == VotesFor(l, e)
             new == VotesFor(l, e)'
  <1>1. old \subseteq new
    BY DEF VotesFor, ElectionNext, CastVotes
  <1>2. new \subseteq members
    BY DEF VotesFor, ElectionNext
  <1>3. IsFiniteSet(new)
    BY <1>2, FS_Subset
  <1> QED
    BY <1>1, <1>3, FS_Subset

\* The invariant is inductive: a new vote is for a newer epoch than all other
\* votes of its voter, and majorities only grow.
LEMMA NextEInv == EInv /\ [ElectionNext]_evars => EInv'
  <1> SUFFICES ASSUME EInv, [ElectionNext]_evars
               PROVE  EInv'
    OBVIOUS
  <1>1. CASE UNCHANGED evars
    BY <1>1 DEF EInv, OneVote, HasMajority, VotesFor, evars
  <1>2. CASE ElectionNext
    <2>1. IsFiniteSet(members)'
      BY <1>2 DEF EInv, ElectionNext
    <2>2. OneVote'
      <3> SUFFICES ASSUME NEW v \in votes', NEW w \in votes',
                          v.voter = w.voter, v.epoch = w.epoch, v # w
                   PROVE  FALSE
        BY DEF OneVote
      <3>1. CASE v \in votes /\ w \in votes
        BY <3>1 DEF EInv, OneVote
      <3>2. CASE v \notin votes
        <4>1. v.epoch \in Nat /\ w.epoch < v.epoch
          BY <1>2, <3>2 DEF ElectionNext, CastVotes
        <4> QED
          BY <4>1
      <3>3. CASE w \notin votes
        <4>1. w.epoch \in Nat /\ v.epoch < w.epoch
          BY <1>2, <3>3 DEF ElectionNext, CastVotes
        <4> QED
          BY <4>1
      <3> QED
        BY <3>1, <3>2, <3>3
    <2>3. HasMajority'
      <3> SUFFICES ASSUME NEW e \in elected'
                   PROVE  2 * Cardinality(VotesFor(e.leader, e.epoch)') > Cardinality(members)
        BY <1>2 DEF HasMajority, ElectionNext
      <3>1. CASE e \notin elected
        BY <1>2, <3>1 DEF ElectionNext, Elect
      <3>2. CASE e \in elected
        <4>1. 2 * Cardinality(VotesFor(e.leader, e.epoch)) > Cardinality(members)
          BY <3>2 DEF EInv, HasMajority
        <4>2. Cardinality(VotesFor(e.leader, e.epoch)) <= Cardinality(VotesFor(e.leader, e.epoch)')
          BY <1>2, VotesGrow DEF EInv
        <4>3. /\ Cardinality(VotesFor(e.leader, e.epoch)) \in Nat
              /\ Cardinality(members) \in Nat
          BY VotersFinite DEF EInv
        <4>4. VotesFor(e.leader, e.epoch)' \subseteq members
          BY <1>2 DEF VotesFor, ElectionNext
        <4>5. Cardinality(VotesFor(e.leader, e.epoch)') \in Nat
          BY <4>4, FS_Subset, FS_CardinalityType DEF EInv
        <4> QED
          BY <4>1, <4>2, <4>3, <4>5
      <3> QED
        BY <3>1, <3>2
    <2> QED
      BY <2>1, <2>2, <2>3 DEF EInv
  <1> QED
    BY <1>1, <1>2

\* Two leaders of an epoch would share a voter.
LEMMA EInvOneLeader == EInv => OneLeaderPerEpoch
  <1> SUFFICES ASSUME EInv, NEW a \in elected, NEW b \in elected, a.epoch = b.epoch
               PROVE  a.leader = b.leader
    BY DEF OneLeaderPerEpoch
  <1> DEFINE A == VotesFor(a.leader, a.epoch)
             B == VotesFor(b.leader, b.epoch)
  <1>1. /\ A \subseteq members /\ Cardinality(A) \in Nat
        /\ B \subseteq members /\ Cardinality(B) \in Nat
        /\ IsFiniteSet(members) /\ Cardinality(members) \in Nat
    BY VotersFinite DEF EInv
  <1>2. 2 * Cardinality(A) > Cardinality(members) /\ 2 * Cardinality(B) > Cardinality(members)
    BY DEF EInv, HasMajority
  <1>3. Cardinality(A) + Cardinality(B) > Cardinality(members)
    <2> HIDE DEF A, B
    <2> QED BY <1>1, <1>2
  <1>4. A \cap B # {}
    <2> HIDE DEF A, B
    <2> QED BY <1>1, <1>3, FS_MajoritiesIntersect
  <1>5. PICK s \in A : s \in B
    BY <1>4
  <1>6. /\ [voter |-> s, epoch |-> a.epoch, leader |-> a.leader] \in votes
        /\ [voter |-> s, epoch |-> b.epoch, leader |-> b.leader] \in votes
    BY <1>5 DEF VotesFor
  <1> QED
    BY <1>6 DEF EInv, OneVote

\* Sentinels that vote once per epoch and go ahead with a majority of votes
\* only (sentinelVoteLeader, sentinelGetLeader) have one leader per epoch.
THEOREM OneLeader == ElectionSpec => []OneLeaderPerEpoch
  <1>1. ElectionSpec => []EInv
    BY InitEInv, NextEInv, PTL DEF ElectionSpec
  <1> QED
    BY <1>1, EInvOneLeader, PTL

-----------------------------------------------------------------------------
(* What is needed to count votes in an implementation.                     *)

\* A set of numbers with a bound has a largest one.
LEMMA Largest ==
  ASSUME NEW n \in Nat, NEW T \in SUBSET (0..n), T # {}
  PROVE  \E m \in T : \A j \in T : m >= j
  <1> DEFINE U == {n - k : k \in T}
             Less == OpToRel(<, Nat)
  <1>1. U \subseteq Nat /\ U # {}
    OBVIOUS
  <1>2. PICK u \in U : \A v \in U : ~(<<v, u>> \in Less)
    <2> HIDE DEF U, Less
    <2>1. IsWellFoundedOn(Less, Nat)
      BY Zenon, NatLessThanWellFounded DEF Less
    <2>2. QED
      BY Zenon, <1>1, <2>1, WFMin
  <1>3. PICK k \in T : u = n - k
    OBVIOUS
  <1>4. ASSUME NEW j \in T PROVE k >= j
    <2>1. ~(<<n - j, n - k>> \in Less)
      BY Zenon, <1>2, <1>3
    <2>2. n - j \in Nat /\ n - k \in Nat
      OBVIOUS
    <2>3. ~(n - j < n - k)
      BY <2>1, <2>2 DEF OpToRel
    <2>4. QED
      BY <2>3
  <1>5. QED
    BY <1>4

\* Subsets of a finite set are counted, and an element counts as one.
LEMMA Counts ==
  ASSUME NEW S, IsFiniteSet(S), NEW T \in SUBSET S
  PROVE  /\ Cardinality(T) \in Nat
         /\ \A U \in SUBSET T : Cardinality(U) <= Cardinality(T)
         /\ \A t \in S \ T : Cardinality(T \cup {t}) = Cardinality(T) + 1
  <1>1. IsFiniteSet(T)
    BY FS_Subset
  <1>2. Cardinality(T) \in Nat
    BY <1>1, FS_CardinalityType
  <1>3. \A U \in SUBSET T : Cardinality(U) <= Cardinality(T)
    BY <1>1, FS_Subset
  <1>4. ASSUME NEW t \in S \ T PROVE Cardinality(T \cup {t}) = Cardinality(T) + 1
    BY <1>1, <1>4, FS_AddElement
  <1>5. QED
    BY <1>2, <1>3, <1>4
=============================================================================
