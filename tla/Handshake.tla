----------------------------- MODULE Handshake ------------------------------
(***************************************************************************)
(* The side of a replica in the replication handshake                      *)
(* (src/src/replication.c): the non blocking connection, the commands that *)
(* syncWithMaster() sends one at a time from file events, the transfer of  *)
(* the dataset, the link that follows, and what cancels each of them:      *)
(* REPLICAOF, timeouts, errors of the socket and of the master.            *)
(*                                                                         *)
(* A master is a stream of commands, numbered from 1, under a replication  *)
(* ID.  Masters are external but for replconfCommand(); how they decide    *)
(* between a full and a partial resynchronization is module Psync.         *)
(***************************************************************************)
EXTENDS Integers, Sequences, FiniteSets

CONSTANT Scenarios    \* configurations and bounds: records with the fields below

VARIABLES
    scenario,
    srv,     \* the replica: the repl_* fields of the server
    net,     \* the sockets, each with what the master knows of the connection
    world    \* the streams of the masters, the dataset of the replica, bounds

vars == <<scenario, srv, net, world>>

Hosts == DOMAIN scenario.Host         \* host -> [auth, old, errors]
Host(h) == scenario.Host[h]
masterauth == scenario.Auth           \* masterauth is configured
announce_ip == scenario.AnnounceIp    \* replica-announce-ip is configured
Faults == scenario.Faults             \* what goes wrong besides the answers
MaxConns == scenario.MaxConns         \* bound on the connections
MaxChanges == scenario.MaxChanges     \* bound on the REPLICAOF commands
MaxOff == scenario.MaxOff             \* bound on the streams
Fds == {3, 4}                         \* a descriptor is used again once closed

None == "none"
NoClient == <<>>
Free == <<>>
Unknown == [hist |-> None, pos |-> 0]

Open == {fd \in Fds : net[fd] # Free}

(* The side of the master of a connection: what replconfCommand() stored,  *)
(* and where the stream of the connection begins.                          *)
NewSide == [authed |-> FALSE, port |-> FALSE, ip |-> FALSE, capa |-> {}, link |-> <<>>]

Socket(h) == [peer |-> h, up |-> "pending", mask |-> {"R", "W"}, proc |-> "syncWithMaster",
              out |-> <<>>, in |-> <<>>, eof |-> FALSE, side |-> NewSide]

State == [srv |-> srv, net |-> net, world |-> world]
Become(s) == srv' = s.srv /\ net' = s.net /\ world' = s.world /\ UNCHANGED scenario

aeDeleteFileEvent(s, fd, mask) == [s EXCEPT !.net[fd].mask = @ \ mask]
close(s, fd) == [s EXCEPT !.net[fd] = Free]

----------------------------------------------------------------------------
(* Connecting, and undoing it.                                             *)

slaveIsInHandshakeState(s) ==
    s.srv.repl_state \in {"RECEIVE_PONG", "RECEIVE_AUTH", "RECEIVE_PORT", "RECEIVE_IP",
                          "RECEIVE_CAPA", "RECEIVE_PSYNC"}

connectWithMaster(s, fd) ==
    [s EXCEPT !.net[fd] = Socket(s.srv.masterhost),
              !.srv.repl_transfer_s = fd, !.srv.repl_state = "CONNECTING", !.world.conns = @ + 1]

undoConnectWithMaster(s) ==
    [close(s, s.srv.repl_transfer_s) EXCEPT !.srv.repl_transfer_s = -1]

replicationAbortSyncTransfer(s) == [undoConnectWithMaster(s) EXCEPT !.srv.tmpfile = FALSE]

cancelReplicationHandshake(s) ==
    IF s.srv.repl_state = "TRANSFER"
    THEN [replicationAbortSyncTransfer(s) EXCEPT !.srv.repl_state = "CONNECT"]
    ELSE IF s.srv.repl_state = "CONNECTING" \/ slaveIsInHandshakeState(s)
    THEN [undoConnectWithMaster(s) EXCEPT !.srv.repl_state = "CONNECT"]
    ELSE s

(* The label error of syncWithMaster().                                    *)
SyncError(s, fd) == [close(s, fd) EXCEPT !.srv.repl_transfer_s = -1, !.srv.repl_state = "CONNECT"]

----------------------------------------------------------------------------
(* The master client, and the one kept for a partial resynchronization.    *)

replicationCreateMasterClient(s, fd) ==
    [s EXCEPT !.srv.master = [fd |-> fd, replid |-> s.srv.master_replid,
                              reploff |-> s.srv.master_initial_offset,
                              pre |-> s.srv.master_initial_offset = -1, closing |-> FALSE],
              !.net[fd].proc = "readQueryFromClient", !.net[fd].mask = {"R"}]

replicationHandleMasterDisconnection(s) ==
    [s EXCEPT !.srv.master = NoClient, !.srv.repl_state = "CONNECT"]

replicationCacheMaster(s) ==
    replicationHandleMasterDisconnection(
        [close(s, s.srv.master.fd) EXCEPT !.srv.cached_master = [s.srv.master EXCEPT !.fd = -1]])

(* freeClient(server.master): a client that is being closed is not kept.   *)
freeMaster(s) ==
    IF s.srv.master.closing THEN replicationHandleMasterDisconnection(close(s, s.srv.master.fd))
    ELSE replicationCacheMaster(s)

replicationCacheMasterUsingMyself(s) ==
    [s EXCEPT !.srv.master_initial_offset = s.srv.offset,
              !.srv.cached_master = [fd |-> -1, replid |-> s.srv.replid, reploff |-> s.srv.offset,
                                     pre |-> s.srv.offset = -1, closing |-> FALSE]]

(* The client loses CLIENT_MASTER first: freeing it must not look like the *)
(* loss of the link.                                                       *)
DiscardKeepsFlag(s) ==
    IF s.srv.cached_master = NoClient THEN s
    ELSE replicationHandleMasterDisconnection([s EXCEPT !.srv.cached_master = NoClient])

replicationDiscardCachedMaster(s) == [s EXCEPT !.srv.cached_master = NoClient]

replicationResurrectCachedMaster(s, fd) ==
    [s EXCEPT !.srv.master = [s.srv.cached_master EXCEPT !.fd = fd], !.srv.cached_master = NoClient,
              !.srv.repl_state = "CONNECTED",
              !.net[fd].proc = "readQueryFromClient", !.net[fd].mask = {"R"}]

replicationSetMaster(s, h) ==
    LET was_master == s.srv.masterhost = None
        a == [s EXCEPT !.srv.masterhost = h]
        b == IF a.srv.master # NoClient THEN freeMaster(a) ELSE a
        d == cancelReplicationHandshake([b EXCEPT !.srv.slaves = FALSE])
        e == IF was_master THEN replicationCacheMasterUsingMyself(d) ELSE d
    IN  [e EXCEPT !.srv.repl_state = "CONNECT"]

(* The new replication ID of shiftReplicationId() is "self".               *)
replicationUnsetMaster(s) ==
    LET a == [s EXCEPT !.srv.masterhost = None, !.srv.replid = "self"]
        b == IF a.srv.master # NoClient THEN freeMaster(a) ELSE a
        d == cancelReplicationHandshake(replicationDiscardCachedMaster(b))
    IN  [d EXCEPT !.srv.slaves = FALSE, !.srv.repl_state = "NONE",
                  !.world.have = [hist |-> "self", pos |-> s.srv.offset]]

replicaofCommand(h) ==
    /\ world.changes < MaxChanges
    /\ h # srv.masterhost
    /\ LET s == [State EXCEPT !.world.changes = @ + 1]
       IN  Become(IF h = None THEN replicationUnsetMaster(s) ELSE replicationSetMaster(s, h))

----------------------------------------------------------------------------
(* syncWithMaster(), one stage per operator: a stage that ends by sending  *)
(* waits for the next event, any other goes on with the stage after it.    *)
(* "ok" is whether syncWrite() works; a read that times out in the middle  *)
(* of a line leaves its rest to the next read.                             *)

Send(s, fd, cmd, next, ok) ==
    IF ok THEN [s EXCEPT !.net[fd].out = Append(@, cmd), !.srv.repl_state = next] ELSE SyncError(s, fd)

sendSynchronousCommand(s, fd, late) ==
    IF late THEN [reply |-> [is |-> "-Reading"],
                  s |-> [s EXCEPT !.net[fd].in[1].is = "rest"]]
    ELSE IF s.net[fd].in = <<>> THEN [reply |-> [is |-> "-Reading"], s |-> s]
    ELSE [reply |-> Head(s.net[fd].in),
          s |-> [s EXCEPT !.net[fd].in = Tail(@)]]

IsError(reply) == reply.is \in {"-Reading", "-NOAUTH", "-ERR", "-BUSY", "-LOADING", "-NOMASTERLINK"}

(* The writing half of slaveTryPartialResynchronization().                 *)
PsyncArgs(cached) ==
    IF cached = NoClient THEN [cmd |-> "PSYNC", id |-> "?", off |-> -1]
    ELSE [cmd |-> "PSYNC", id |-> cached.replid, off |-> cached.reploff + 1]

SendPsync(s, fd, ok) ==
    Send([s EXCEPT !.srv.master_initial_offset = -1], fd, PsyncArgs(s.srv.cached_master),
         "RECEIVE_PSYNC", ok)

ReceiveCapa(s, fd, late, ok) == SendPsync(sendSynchronousCommand(s, fd, late).s, fd, ok)

SendCapa(s, fd, ok) == Send(s, fd, [cmd |-> "REPLCONF capa"], "RECEIVE_CAPA", ok)

ReceiveIp(s, fd, late, ok) == SendCapa(sendSynchronousCommand(s, fd, late).s, fd, ok)

SendIp(s, fd, ok) ==
    IF announce_ip THEN Send(s, fd, [cmd |-> "REPLCONF ip-address"], "RECEIVE_IP", ok)
    ELSE SendCapa(s, fd, ok)

ReceivePort(s, fd, late, ok) == SendIp(sendSynchronousCommand(s, fd, late).s, fd, ok)

SendPort(s, fd, ok) == Send(s, fd, [cmd |-> "REPLCONF listening-port"], "RECEIVE_PORT", ok)

ReceiveAuth(s, fd, late, ok) ==
    LET r == sendSynchronousCommand(s, fd, late)
    IN  IF IsError(r.reply) THEN SyncError(r.s, fd) ELSE SendPort(r.s, fd, ok)

SendAuth(s, fd, ok) ==
    IF masterauth THEN Send(s, fd, [cmd |-> "AUTH"], "RECEIVE_AUTH", ok) ELSE SendPort(s, fd, ok)

ReceivePong(s, fd, late, ok) ==
    LET r == sendSynchronousCommand(s, fd, late)
    IN  IF r.reply.is \in {"+", "-NOAUTH"} THEN SendAuth(r.s, fd, ok) ELSE SyncError(r.s, fd)

SendPing(s, fd, ok) ==
    Send(aeDeleteFileEvent(s, fd, {"W"}), fd, [cmd |-> "PING"], "RECEIVE_PONG", ok)

(* PSYNC failed or is not supported, or the resynchronization is full:     *)
(* the temporary file is opened last, and that may fail as well.           *)
StartTransfer(s, fd, notSupported, ok) ==
    LET a == [s EXCEPT !.srv.slaves = FALSE, !.srv.backlog = FALSE]
        b == IF notSupported THEN [a EXCEPT !.net[fd].out = Append(@, [cmd |-> "SYNC"])] ELSE a
    IN  IF ~ok THEN SyncError(a, fd)
        ELSE [b EXCEPT !.net[fd].proc = "readSyncBulkPayload", !.net[fd].mask = {"R"},
                       !.srv.repl_state = "TRANSFER", !.srv.repl_transfer_size = -1,
                       !.srv.tmpfile = TRUE]

(* The reading half of slaveTryPartialResynchronization(), and what        *)
(* syncWithMaster() makes of its result.                                   *)
ReceivePsync(s, fd, late, ok) ==
    LET r == sendSynchronousCommand(s, fd, late)
        t == aeDeleteFileEvent(r.s, fd, {"R"})
        reply == r.reply
    IN  CASE reply.is = "newline" -> r.s
          [] reply.is = "+FULLRESYNC" ->
               StartTransfer(replicationDiscardCachedMaster(
                                 [t EXCEPT !.srv.master_replid = reply.id,
                                           !.srv.master_initial_offset = reply.off]), fd, FALSE, ok)
          [] reply.is = "+CONTINUE" ->
               [replicationResurrectCachedMaster(t, fd) EXCEPT !.srv.backlog = TRUE]
          [] reply.is \in {"-NOMASTERLINK", "-LOADING"} -> SyncError(t, fd)
          [] OTHER -> StartTransfer(replicationDiscardCachedMaster(t), fd, TRUE, ok)

syncWithMaster(fd, late, ok) ==
    /\ net[fd] # Free /\ net[fd].proc = "syncWithMaster"
    /\ \/ net[fd].up # "pending" /\ "W" \in net[fd].mask
       \/ (net[fd].in # <<>> \/ net[fd].eof) /\ "R" \in net[fd].mask
    /\ late => net[fd].in # <<>> /\ srv.repl_state # "CONNECTING" /\ "late" \in Faults
    /\ ~ok => "write" \in Faults
    /\ LET s == State
       IN  Become(IF s.srv.repl_state = "NONE" THEN close(s, fd)
                  ELSE IF s.net[fd].up = "err" THEN SyncError(s, fd)
                  ELSE CASE s.srv.repl_state = "CONNECTING" -> SendPing(s, fd, ok)
                         [] s.srv.repl_state = "RECEIVE_PONG" -> ReceivePong(s, fd, late, ok)
                         [] s.srv.repl_state = "RECEIVE_AUTH" -> ReceiveAuth(s, fd, late, ok)
                         [] s.srv.repl_state = "RECEIVE_PORT" -> ReceivePort(s, fd, late, ok)
                         [] s.srv.repl_state = "RECEIVE_IP" -> ReceiveIp(s, fd, late, ok)
                         [] s.srv.repl_state = "RECEIVE_CAPA" -> ReceiveCapa(s, fd, late, ok)
                         [] s.srv.repl_state = "RECEIVE_PSYNC" -> ReceivePsync(s, fd, late, ok)
                         [] OTHER -> SyncError(s, fd))

----------------------------------------------------------------------------
(* readSyncBulkPayload(): the length, then the dataset.  The old dataset   *)
(* is gone when the new one fails to load.                                 *)

Loaded(s, fd, item) ==
    LET t == replicationCreateMasterClient(s, fd)
    IN  [t EXCEPT !.srv.tmpfile = FALSE, !.srv.repl_state = "CONNECTED",
                  !.srv.replid = t.srv.master.replid, !.srv.offset = t.srv.master.reploff,
                  !.srv.backlog = TRUE, !.world.have = [hist |-> item.id, pos |-> item.off]]

readSyncBulkPayload(fd, result) ==
    /\ net[fd] # Free /\ net[fd].proc = "readSyncBulkPayload"
    /\ net[fd].in # <<>> \/ net[fd].eof
    /\ result # "ok" => result \in Faults
    /\ LET item == Head(net[fd].in)
           s == [State EXCEPT !.net[fd].in = Tail(@)]
       IN  Become(IF net[fd].in = <<>> THEN cancelReplicationHandshake(State)
                  ELSE IF srv.repl_transfer_size = -1
                  THEN CASE item.is = "newline" -> s
                         [] item.is = "$" -> [s EXCEPT !.srv.repl_transfer_size = 0]
                         [] OTHER -> cancelReplicationHandshake(s)
                  ELSE CASE result = "rename" -> cancelReplicationHandshake(s)
                         [] result = "load" ->
                              cancelReplicationHandshake([s EXCEPT !.world.have = Unknown])
                         [] OTHER -> Loaded(s, fd, item))

(* The stream.  A protocol error stops it until the timeout.               *)
Apply(s, item) ==
    LET have == s.world.have
    IN  [s EXCEPT !.srv.master.reploff = @ + 1, !.srv.offset = @ + 1,
                  !.world.have = IF item.is = "cmd" /\ item.id = have.hist /\ item.off = have.pos + 1
                                 THEN [have EXCEPT !.pos = @ + 1] ELSE [hist |-> "broken", pos |-> 0]]

readQueryFromClient(fd, protocol) ==
    /\ net[fd] # Free /\ net[fd].proc = "readQueryFromClient"
    /\ net[fd].in # <<>> \/ net[fd].eof
    /\ protocol => net[fd].in # <<>> /\ "protocol" \in Faults
    /\ LET s == [State EXCEPT !.net[fd].in = Tail(@)]
       IN  Become(IF net[fd].in = <<>> THEN freeMaster(State)
                  ELSE IF s.srv.master.closing THEN s
                  ELSE IF protocol THEN [s EXCEPT !.srv.master.closing = TRUE]
                  ELSE Apply(s, Head(net[fd].in)))

----------------------------------------------------------------------------
(* The part of replicationCron() about the master.  The clock is not part  *)
(* of the model: a timeout may come at any time.                           *)

replicationCron(timeout, connects) ==
    /\ timeout => "timeout" \in Faults
    /\ LET s == State
           a == IF ~timeout \/ s.srv.masterhost = None THEN s
                ELSE IF s.srv.repl_state = "CONNECTED" THEN freeMaster(s)
                ELSE cancelReplicationHandshake(s)
           fd == CHOOSE f \in Fds : a.net[f] = Free /\ \A g \in Fds : a.net[g] = Free => f <= g
       IN  /\ Become(IF a.srv.repl_state = "CONNECT" /\ connects THEN connectWithMaster(a, fd) ELSE a)
           /\ connects => a.srv.repl_state = "CONNECT" /\ world.conns < MaxConns
           /\ State # [srv |-> srv', net |-> net', world |-> world']

----------------------------------------------------------------------------
(* The masters and the network.                                            *)

Connected(fd) ==
    /\ net[fd] # Free /\ net[fd].up = "pending"
    /\ \E up \in {"up"} \cup (IF "drop" \in Faults THEN {"err"} ELSE {}) :
          net' = [net EXCEPT ![fd].up = up]
    /\ UNCHANGED <<scenario, srv, world>>

PeerCloses(fd) ==
    /\ net[fd] # Free /\ net[fd].up = "up" /\ ~net[fd].eof /\ "drop" \in Faults
    /\ net' = [net EXCEPT ![fd].eof = TRUE, ![fd].out = <<>>]
    /\ UNCHANGED <<scenario, srv, world>>

(* A REPLCONF of the handshake, on the master.                             *)
replconfCommand(side, cmd) ==
    CASE cmd = "REPLCONF listening-port" -> [side EXCEPT !.port = TRUE]
      [] cmd = "REPLCONF ip-address" -> [side EXCEPT !.ip = TRUE]
      [] cmd = "REPLCONF capa" -> [side EXCEPT !.capa = @ \cup {"eof", "psync2"}]

Say(is) == [is |-> is]
Payload(h, off) == <<Say("newline"), Say("$"), [is |-> "data", id |-> h, off |-> off]>>

(* The stream that goes on after the last command the replica has.         *)
Rest(h, from, upto) == [i \in 1..(upto - from + 1) |-> [is |-> "cmd", id |-> h, off |-> from + i - 1]]

Answer(h, side, c, mood) ==
    LET host == Host(h)
        off == world.off[h]
        no(is) == [side |-> side, in |-> <<Say(is)>>]
    IN  CASE host.auth /\ ~side.authed /\ c.cmd # "AUTH" -> no("-NOAUTH")
          [] c.cmd = "AUTH" -> IF host.auth THEN [side |-> [side EXCEPT !.authed = TRUE], in |-> <<Say("+")>>]
                               ELSE no("-ERR")
          [] OTHER ->
               CASE c.cmd \in {"PING", "PSYNC", "SYNC"} /\ mood = "-BUSY" -> no(mood)
                 [] c.cmd \in {"PSYNC", "SYNC"} /\ mood \in {"-LOADING", "-NOMASTERLINK"} -> no(mood)
                 [] c.cmd = "PING" /\ mood # "-BUSY" -> no("+")
                 [] c.cmd \in {"REPLCONF listening-port", "REPLCONF ip-address", "REPLCONF capa"} ->
                      IF host.old THEN no("-ERR")
                      ELSE [side |-> replconfCommand(side, c.cmd), in |-> <<Say("+")>>]
                 [] c.cmd = "PSYNC" /\ mood = "ok" ->
                      IF host.old THEN no("-ERR")
                      ELSE IF c.id = h /\ c.off \in 1..(off + 1)
                      THEN [side |-> [side EXCEPT !.link = <<"psync">>],
                            in |-> <<Say("+CONTINUE")>> \o Rest(h, c.off, off)]
                      ELSE [side |-> [side EXCEPT !.link = <<"psync">>],
                            in |-> <<Say("newline"), [is |-> "+FULLRESYNC", id |-> h, off |-> off]>>
                                   \o Payload(h, off)]
                 [] c.cmd = "SYNC" /\ mood = "ok" ->
                      IF side.link # <<>> THEN [side |-> side, in |-> <<>>]
                      ELSE [side |-> [side EXCEPT !.link = <<"sync">>], in |-> Payload(h, off)]

MasterReads(fd, mood) ==
    /\ net[fd] # Free /\ net[fd].up = "up" /\ ~net[fd].eof /\ net[fd].out # <<>>
    /\ mood \in {"ok"} \cup Host(net[fd].peer).errors
    /\ LET a == Answer(net[fd].peer, net[fd].side, Head(net[fd].out), mood)
       IN  net' = [net EXCEPT ![fd].out = Tail(@), ![fd].side = a.side, ![fd].in = @ \o a.in]
    /\ UNCHANGED <<scenario, srv, world>>

MasterWrites(h) ==
    /\ world.off[h] < MaxOff
    /\ LET off == world.off[h] + 1
       IN  /\ world' = [world EXCEPT !.off[h] = off]
           /\ net' = [fd \in Fds |->
                        IF net[fd] = Free THEN Free
                        ELSE IF net[fd].peer = h /\ net[fd].side.link # <<>> /\ ~net[fd].eof
                        THEN [net[fd] EXCEPT !.in = Append(@, [is |-> "cmd", id |-> h, off |-> off])]
                        ELSE net[fd]]
    /\ UNCHANGED <<scenario, srv>>

----------------------------------------------------------------------------
Init ==
    /\ scenario \in Scenarios
    /\ srv = [masterhost |-> None, repl_state |-> "NONE", repl_transfer_s |-> -1,
              repl_transfer_size |-> -1, tmpfile |-> FALSE, master |-> NoClient,
              cached_master |-> NoClient, master_initial_offset |-> -1, master_replid |-> "",
              replid |-> "self", offset |-> 0, backlog |-> FALSE, slaves |-> TRUE]
    /\ net = [fd \in Fds |-> Free]
    /\ world = [off |-> [h \in Hosts |-> 1], have |-> [hist |-> "self", pos |-> 0],
                conns |-> 0, changes |-> 0]

Next ==
    \/ \E h \in Hosts \cup {None} : replicaofCommand(h)
    \/ \E timeout, connects \in BOOLEAN : replicationCron(timeout, connects)
    \/ \E fd \in Fds :
         \/ \E late, ok \in BOOLEAN : syncWithMaster(fd, late, ok)
         \/ \E result \in {"ok", "rename", "load"} : readSyncBulkPayload(fd, result)
         \/ \E protocol \in BOOLEAN : readQueryFromClient(fd, protocol)
         \/ Connected(fd) \/ PeerCloses(fd)
         \/ \E mood \in {"ok", "-BUSY", "-LOADING", "-NOMASTERLINK"} : MasterReads(fd, mood)
    \/ \E h \in Hosts : MasterWrites(h)

Spec == Init /\ [][Next]_vars

----------------------------------------------------------------------------
(* LinkSound: whatever cancels or fails, at whichever stage, the replica   *)
(* has exactly the socket its state calls for, to the master that is       *)
(* configured and with the handler of the stage; server.master exists only *)
(* on an established link, never together with a cached master; a server   *)
(* without a master keeps neither; and a master that serves PSYNC knows    *)
(* the port, the address and the capabilities of the replica.              *)
LinkSound ==
    LET state == srv.repl_state
    IN  /\ Open = (CASE state \in {"NONE", "CONNECT"} -> {}
                     [] state = "CONNECTED" -> {srv.master.fd}
                     [] OTHER -> {srv.repl_transfer_s})
        /\ \A fd \in Open :
             /\ net[fd].peer = srv.masterhost /\ "R" \in net[fd].mask
             /\ net[fd].proc = (CASE state = "CONNECTED" -> "readQueryFromClient"
                                  [] state = "TRANSFER" -> "readSyncBulkPayload"
                                  [] OTHER -> "syncWithMaster")
             /\ net[fd].side.link = <<"psync">> =>
                  net[fd].side.port /\ net[fd].side.ip = announce_ip
                  /\ net[fd].side.capa = {"eof", "psync2"}
        /\ (srv.master # NoClient) = (state = "CONNECTED")
        /\ NoClient \in {srv.master, srv.cached_master}
        /\ (srv.masterhost = None) = (state = "NONE")
        /\ srv.masterhost = None => srv.cached_master = NoClient
        /\ srv.tmpfile = (state = "TRANSFER")

(* StreamExact: "the stream of data that we'll receive will start from     *)
(* were this master left": the replica applies the commands of its master  *)
(* in order, without a gap and without a repetition, and the ID and the    *)
(* offset it will ask to continue from are those of its dataset.           *)
StreamExact ==
    /\ world.have.hist # "broken"
    /\ \A m \in {srv.master, srv.cached_master} \ {NoClient} :
         ~m.pre => world.have = [hist |-> m.replid, pos |-> m.reploff]
    /\ srv.repl_state = "CONNECTED" =>
         /\ srv.master.pre = (net[srv.master.fd].side.link = <<"sync">>)
         /\ ~srv.master.closing =>
              \A i \in DOMAIN net[srv.master.fd].in :
                 net[srv.master.fd].in[i] =
                    [is |-> "cmd", id |-> world.have.hist, off |-> world.have.pos + i]
=============================================================================
