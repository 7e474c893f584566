-------------------------------- MODULE Wait --------------------------------
(***************************************************************************)
(* WAIT (src/src/replication.c): a client asks how many replicas have      *)
(* processed its writes, and blocks until there are enough of them.  The   *)
(* master broadcasts REPLCONF GETACK before it sleeps, replicas answer in  *)
(* the order of their stream and also once per second, connections break   *)
(* and are set up again, and writes are refused without enough good        *)
(* replicas.  Offsets count commands.                                      *)
(***************************************************************************)
EXTENDS Integers, FiniteSets, SequencesExt

CONSTANT Scenarios    \* configurations and bounds: records with the fields below

VARIABLES
    scenario,
    srv,       \* the master: offset, clients, its side of every replica
    replicas,  \* the replicas: link, stream in flight, acknowledgements in flight
    honest     \* no answer to WAIT was larger than it should have been

vars == <<scenario, srv, replicas, honest>>

Clients == DOMAIN scenario.Counts
Replicas == scenario.Replicas
Counts == scenario.Counts              \* client -> the numbers of replicas it waits for
Faults == scenario.Faults
min_slaves_to_write == scenario.MinSlaves
MaxOff == scenario.MaxOff              \* bound on the stream
MaxLinks == scenario.MaxLinks          \* bound on the connections of a replica
MaxWaits == scenario.MaxWaits          \* bound on the WAIT commands of a client
MaxAcks == 1                           \* bound on the periodic acknowledgements in flight

NotLinked == [state |-> "none", ack_off |-> 0, lag |-> 0]

(* server.slaves in ONLINE state.                                          *)
Online(s) == {r \in Replicas : s.slaves[r].state = "ONLINE"}

----------------------------------------------------------------------------
(* The stream.  A replica whose BGSAVE has not started is not fed.         *)

Fed(s) == {r \in Replicas : s.slaves[r].state \notin {"none", "WAIT_BGSAVE_START"}}

replicationFeedSlaves(s, item) ==
    [s EXCEPT !.srv.offset = @ + 1,
              !.pipe = [r \in Replicas |->
                          IF r \in Fed(s.srv) THEN Append(@[r], [is |-> item, off |-> s.srv.offset + 1])
                          ELSE @[r]]]

State == [srv |-> srv, pipe |-> [r \in Replicas |-> replicas[r].pipe]]

Become(s) ==
    /\ srv' = s.srv
    /\ replicas' = [r \in Replicas |-> [replicas[r] EXCEPT !.pipe = s.pipe[r]]]
    /\ UNCHANGED scenario

----------------------------------------------------------------------------
(* WAIT.                                                                   *)

replicationCountAcksByOffset(s, offset) ==
    Cardinality({r \in Online(s) : s.slaves[r].ack_off >= offset})

(* The replicas that have processed the last write of a client.            *)
Truth(c) == Cardinality({r \in Replicas : replicas[r].applied >= srv.client[c].last})

Justified(n, c) == n <= Truth(c)

waitCommand(c, numreplicas) ==
    /\ ~srv.client[c].blocked /\ srv.client[c].linked /\ srv.masterhost = "none"
    /\ srv.client[c].waits < MaxWaits
    /\ LET woff == srv.client[c].woff
           ackreplicas == replicationCountAcksByOffset(srv, woff)
       IN  IF ackreplicas >= numreplicas
           THEN /\ honest' = Justified(ackreplicas, c)
                /\ srv' = [srv EXCEPT !.client[c].woff = srv.offset, !.client[c].waits = @ + 1]
           ELSE /\ srv' = [srv EXCEPT !.client[c].blocked = TRUE, !.client[c].waits = @ + 1, !.client[c].reploffset = woff,
                                      !.client[c].numreplicas = numreplicas,
                                      !.client[c].woff = srv.offset,
                                      !.clients_waiting_acks = Append(@, c),
                                      !.get_ack_from_slaves = TRUE, !.slept = FALSE]
                /\ UNCHANGED honest
    /\ UNCHANGED <<scenario, replicas>>

unblockClientWaitingReplicas(s, c) ==
    [s EXCEPT !.clients_waiting_acks = SelectSeq(@, LAMBDA d : d # c), !.client[c].blocked = FALSE]

(* The last client that was satisfied spares the count for the next one    *)
(* when it asked for more.                                                 *)
SparedByCount(last, w) == last.offset # 0 /\ last.num > w.numreplicas

Spared(last, w) == last.offset # 0 /\ last.offset > w.reploffset /\ last.num > w.numreplicas

processClientsWaitingReplicas(s) ==
    FoldLeft(LAMBDA acc, c :
               LET w == acc.srv.client[c]
                   num == replicationCountAcksByOffset(acc.srv, w.reploffset)
               IN  IF Spared(acc.last, w)
                   THEN [acc EXCEPT !.srv = unblockClientWaitingReplicas(acc.srv, c),
                                    !.honest = @ /\ Justified(acc.last.num, c)]
                   ELSE IF num >= w.numreplicas
                   THEN [srv |-> unblockClientWaitingReplicas(acc.srv, c),
                         last |-> [offset |-> w.reploffset, num |-> num],
                         honest |-> acc.honest /\ Justified(num, c)]
                   ELSE acc,
             [srv |-> s, last |-> [offset |-> 0, num |-> 0], honest |-> TRUE],
             s.clients_waiting_acks)

(* The part of beforeSleep() about WAIT; GETACK is part of the stream.     *)
beforeSleep ==
    /\ ~srv.slept
    /\ srv.get_ack_from_slaves => srv.offset < MaxOff
    /\ LET s == IF srv.get_ack_from_slaves
                THEN [replicationFeedSlaves(State, "getack") EXCEPT !.srv.get_ack_from_slaves = FALSE]
                ELSE State
           p == processClientsWaitingReplicas(s.srv)
       IN  /\ Become([s EXCEPT !.srv = [p.srv EXCEPT !.slept = TRUE]])
           /\ honest' = p.honest

(* The timeout of a blocked client, by clientsCron().                      *)
replyToBlockedClientTimedOut(c) ==
    /\ srv.client[c].blocked /\ "timeout" \in Faults
    /\ honest' = Justified(replicationCountAcksByOffset(srv, srv.client[c].reploffset), c)
    /\ srv' = unblockClientWaitingReplicas(srv, c)
    /\ UNCHANGED <<scenario, replicas>>

----------------------------------------------------------------------------
(* Other commands.  Every command leaves the offset after it in woff.      *)

processCommand(c, write) ==
    /\ ~srv.client[c].blocked /\ srv.client[c].linked
    /\ ~write => "read" \in Faults
    /\ write => /\ srv.offset < MaxOff - 1 /\ srv.masterhost = "none"
                /\ ~(min_slaves_to_write > 0 /\ srv.repl_good_slaves_count < min_slaves_to_write)
    /\ LET s == IF write THEN replicationFeedSlaves(State, "write") ELSE State
       IN  /\ Become([s EXCEPT !.srv.client[c].woff = s.srv.offset,
                               !.srv.client[c].last = IF write THEN s.srv.offset ELSE @, !.srv.slept = FALSE])
           /\ State # s \/ srv.client[c].woff # srv.offset
    /\ UNCHANGED honest

(* freeClient() of a client that may be blocked.                           *)
freeClient(c) ==
    /\ "quit" \in Faults /\ srv.client[c].linked
    /\ srv' = [IF srv.client[c].blocked THEN unblockClientWaitingReplicas(srv, c) ELSE srv
               EXCEPT !.client[c].linked = FALSE]
    /\ UNCHANGED <<scenario, replicas, honest>>

(* REPLICAOF: disconnectAllBlockedClients() and disconnectSlaves().        *)
replicationSetMaster ==
    /\ "replicaof" \in Faults /\ srv.masterhost = "none"
    /\ LET s == FoldLeft(LAMBDA acc, c : [unblockClientWaitingReplicas(acc, c)
                                          EXCEPT !.client[c].linked = FALSE],
                         srv, srv.clients_waiting_acks)
       IN  srv' = [s EXCEPT !.masterhost = "other", !.slaves = [r \in Replicas |-> NotLinked]]
    /\ replicas' = [r \in Replicas |-> [replicas[r] EXCEPT !.pipe = <<>>, !.back = <<>>]]
    /\ UNCHANGED <<scenario, honest>>

----------------------------------------------------------------------------
(* The replicas, and their clients in the master.                          *)

(* A partial resynchronization puts the replica online at once, a full one *)
(* when the dataset has been sent.                                         *)
Resync(r, full) ==
    /\ srv.slaves[r].state = "none" /\ replicas[r].links < MaxLinks /\ srv.masterhost = "none"
    /\ ~full => replicas[r].links > 0
    /\ srv' = [srv EXCEPT !.slaves[r] = [NotLinked EXCEPT !.state = IF full THEN "WAIT_BGSAVE_START" ELSE "ONLINE"],
                           !.slept = FALSE]
    /\ replicas' = [replicas EXCEPT
                      ![r].links = @ + 1, ![r].back = <<>>, ![r].loaded = ~full,
                      ![r].pipe = IF full THEN <<>>
                                  ELSE [i \in 1..(srv.offset - replicas[r].applied) |->
                                          [is |-> "write", off |-> replicas[r].applied + i]]]
    /\ UNCHANGED <<scenario, honest>>

BgsaveStarts(r) ==
    /\ srv.slaves[r].state = "WAIT_BGSAVE_START"
    /\ srv' = [srv EXCEPT !.slaves[r].state = "WAIT_BGSAVE_END"]
    /\ replicas' = [replicas EXCEPT ![r].pipe = <<[is |-> "rdb", off |-> srv.offset]>>]
    /\ UNCHANGED <<scenario, honest>>

putSlaveOnline(r) ==
    /\ srv.slaves[r].state = "WAIT_BGSAVE_END"
    /\ srv' = [srv EXCEPT !.slaves[r].state = "ONLINE", !.slaves[r].lag = 0, !.slept = FALSE]
    /\ UNCHANGED <<scenario, replicas, honest>>

(* The replica processes its stream; GETACK makes it acknowledge what it   *)
(* has processed before.                                                   *)
ReplicaReads(r) ==
    /\ replicas[r].pipe # <<>>
    /\ LET item == Head(replicas[r].pipe)
       IN  replicas' = [replicas EXCEPT ![r].pipe = Tail(@), ![r].applied = item.off, ![r].loaded = TRUE,
                                        ![r].back = IF item.is = "getack" THEN Append(@, item.off - 1) ELSE @]
    /\ UNCHANGED <<scenario, srv, honest>>

replicationSendAck(r) ==
    /\ "cron" \in Faults /\ srv.slaves[r].state # "none" /\ Len(replicas[r].back) < MaxAcks /\ replicas[r].loaded
    /\ replicas' = [replicas EXCEPT ![r].back = Append(@, replicas[r].applied)]
    /\ UNCHANGED <<scenario, srv, honest>>

replconfCommand(r) ==
    /\ replicas[r].back # <<>> /\ srv.slaves[r].state # "none"
    /\ LET offset == Head(replicas[r].back)
       IN  srv' = [srv EXCEPT !.slaves[r].ack_off = IF offset > @ THEN offset ELSE @,
                              !.slaves[r].lag = 0, !.slept = FALSE]
    /\ replicas' = [replicas EXCEPT ![r].back = Tail(@)]
    /\ UNCHANGED <<scenario, honest>>

LinkLost(r) ==
    /\ srv.slaves[r].state # "none" /\ "drop" \in Faults
    /\ srv' = [srv EXCEPT !.slaves[r] = NotLinked]
    /\ replicas' = [replicas EXCEPT ![r].pipe = <<>>, ![r].back = <<>>]
    /\ UNCHANGED <<scenario, honest>>

(* Once per second: the number of replicas whose last acknowledgement is   *)
(* recent.  The lag of a replica grows to 1, which is too much.            *)
refreshGoodSlavesCount ==
    /\ min_slaves_to_write > 0
    /\ \E late \in SUBSET Replicas :
         LET s == [srv EXCEPT !.slaves = [r \in Replicas |-> IF r \in late /\ @[r].state # "none"
                                                             THEN [@[r] EXCEPT !.lag = 1] ELSE @[r]]]
         IN  srv' = [s EXCEPT !.repl_good_slaves_count = Cardinality({r \in Online(s) : s.slaves[r].lag = 0})]
    /\ UNCHANGED <<scenario, replicas, honest>>

----------------------------------------------------------------------------
Init ==
    /\ scenario \in Scenarios
    /\ srv = [offset |-> scenario.Offset, masterhost |-> "none", clients_waiting_acks |-> <<>>,
              get_ack_from_slaves |-> FALSE, slept |-> TRUE, repl_good_slaves_count |-> 0,
              client |-> [c \in Clients |-> [woff |-> 0, last |-> 0, waits |-> 0, blocked |-> FALSE, linked |-> TRUE,
                                             reploffset |-> 0, numreplicas |-> 0]],
              slaves |-> [r \in Replicas |->
                            IF r \in scenario.Linked
                            THEN [state |-> "ONLINE", ack_off |-> scenario.Offset, lag |-> 0] ELSE NotLinked]]
    /\ replicas = [r \in Replicas |->
                     LET linked == r \in scenario.Linked
                     IN  [applied |-> IF linked THEN scenario.Offset ELSE 0, loaded |-> linked,
                          pipe |-> <<>>, back |-> <<>>, links |-> IF linked THEN 1 ELSE 0]]
    /\ honest = TRUE

Next ==
    \/ \E c \in Clients :
         \/ \E n \in Counts[c] : waitCommand(c, n)
         \/ \E write \in BOOLEAN : processCommand(c, write)
         \/ replyToBlockedClientTimedOut(c) \/ freeClient(c)
    \/ \E r \in Replicas :
         \/ \E full \in BOOLEAN : Resync(r, full)
         \/ BgsaveStarts(r) \/ putSlaveOnline(r) \/ ReplicaReads(r) \/ replicationSendAck(r)
         \/ replconfCommand(r) \/ LinkLost(r)
    \/ beforeSleep \/ replicationSetMaster \/ refreshGoodSlavesCount

Spec == Init /\ [][Next]_vars

----------------------------------------------------------------------------
(* WaitSound: WAIT "for N replicas to acknowledge the processing of our    *)
(* latest write command (and all the previous commands)": an answer counts *)
(* only replicas that have processed the last write of the client, however *)
(* acknowledgements, reconnections and other waiting clients interleave;   *)
(* the clients that are blocked are those in the list; and once the server *)
(* sleeps, none of them has enough acknowledgements and the request for    *)
(* them is on its way.                                                     *)
WaitSound ==
    /\ honest
    /\ IsInjective(srv.clients_waiting_acks)
    /\ Range(srv.clients_waiting_acks) = {c \in Clients : srv.client[c].blocked}
    /\ srv.slept =>
         /\ ~srv.get_ack_from_slaves
         /\ \A c \in Range(srv.clients_waiting_acks) :
              replicationCountAcksByOffset(srv, srv.client[c].reploffset) < srv.client[c].numreplicas
=============================================================================
