------------------------------- MODULE MCProved -------------------------------
(***************************************************************************)
(* The components about which there are theorems, in one model each: the   *)
(* background threads, the circular buffer of replication, the lead of a   *)
(* suma_apollo cluster, Sentinel, and clients blocked by modules.  The     *)
(* properties that the theorems state for all constants are checked here   *)
(* as their modules define them.                                           *)
(* A behaviour of this module is a behaviour of one of the components,     *)
(* while the others stay in an initial state.                              *)
(***************************************************************************)
EXTENDS Bio, Backlog, Apollo, Sentinel, ModuleBlock, TLC

CONSTANTS a1, a2, b1, b2, b3,     \* Sentinels
          r1, r2, r3              \* Redis servers

VARIABLE part

allVars == <<part, bioVars, backlogVars, apolloVars, vars, blockVars>>

-----------------------------------------------------------------------------
(* Two hosts that compete for the lead of their cluster.                    *)

Leases == {[Functions |-> {"f"}, Timeout |-> 2, MaxOps |-> 2]}

-----------------------------------------------------------------------------
(* Clients of blocking module commands.                                     *)

Answered == [Clients |-> {"c"}, Ops |-> {"timeout", "quit", "reply", "multi"}, MaxHandles |-> 3]

Blockings ==
  {Answered,
   [Clients |-> {"c", "d"}, Ops |-> {"quit", "lock", "abort"}, MaxHandles |-> 2],
   [Clients |-> {"c"}, Ops |-> {"timeout", "nocallback", "reply", "abort"}, MaxHandles |-> 2]}

ASSUME BacklogConstantsOK /\ ApolloConstantsOK /\ ConstantsOK /\ BlockConstantsOK

-----------------------------------------------------------------------------
(* Sentinel: five small deployments.                                        *)

\* The master crashes, and two Sentinels see to a failover, although one of
\* their questions is lost.
Failover ==
    [Sentinels |-> {a1, a2}, Instances |-> {r1, r2}, FirstMaster |-> r1, Cut |-> {}, Hello |-> TRUE,
     Quorum |-> 2, ParallelSyncs |-> 1, MaxEpoch |-> 1, Timers |-> {"down", "start"},
     Events |-> [crash_instance |-> 1, lose |-> 1]]

\* Two Sentinels of three lose the master and each other, and try to be elected
\* by the third, in two epochs, while one Sentinel crashes.
RivalLeaders ==
    [Failover EXCEPT
        !.Sentinels = {b1, b2, b3}, !.Instances = {r1}, !.Hello = FALSE, !.Quorum = 1, !.MaxEpoch = 2,
        !.Timers = {"down", "start", "timeout"},
        !.Cut = {<<b1, r1>>, <<b2, r1>>, <<b1, b2>>, <<b2, b1>>}, !.Events = [crash_sentinel |-> 1]]

\* One Sentinel that is told to fail over, with two other replicas to
\* reconfigure, in TILT mode at some time.
Reconfigure ==
    [Failover EXCEPT
        !.Sentinels = {a1}, !.Instances = {r1, r2, r3}, !.Quorum = 1, !.ParallelSyncs = 2,
        !.Timers = {"timeout", "reconf", "tilt"}, !.Events = [failover |-> 1, tilt |-> 1]]

\* A failover and a reset on request.
OnRequest ==
    [Failover EXCEPT !.Timers = {}, !.Events = [failover |-> 1, reset |-> 1]]

\* The master crashes and comes back, links break and answers expire.
Flapping ==
    [Failover EXCEPT !.Timers = {"down", "expire"},
                     !.Events = [cut |-> 1, restart_instance |-> 1, crash_instance |-> 1]]

Deployments == {Failover, RivalLeaders, Reconfigure, OnRequest, Flapping}

-----------------------------------------------------------------------------
AllInit ==
  /\ part \in {"threads", "backlog", "apollo", "sentinel", "block"}
  /\ BioInit /\ BacklogInit /\ ApolloInit /\ Init /\ BlockInit
  /\ part # "backlog" => repl_backlog_size = MinSize
  /\ part # "sentinel" => used.scenario = Failover
  /\ part # "block" => blocking = Answered

AllNext ==
  /\ UNCHANGED part
  /\ \/ part = "threads" /\ BioNext /\ UNCHANGED <<backlogVars, apolloVars, vars, blockVars>>
     \/ part = "backlog" /\ BacklogNext /\ UNCHANGED <<bioVars, apolloVars, vars, blockVars>>
     \/ part = "apollo" /\ ApolloNext /\ UNCHANGED <<bioVars, backlogVars, vars, blockVars>>
     \/ part = "sentinel" /\ Next /\ UNCHANGED <<bioVars, backlogVars, apolloVars, blockVars>>
     \/ part = "block" /\ BlockNext /\ UNCHANGED <<bioVars, backlogVars, apolloVars, vars>>

AllSpec == AllInit /\ [][AllNext]_allVars

Symmetry == Permutations({a1, a2}) \cup Permutations({b1, b2})

\* See Sentinel: SameEpochSameAddress, with the types of its state.
SentinelsAgree == TypeOK /\ SameEpochSameAddress
=============================================================================
