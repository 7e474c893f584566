---------------------------- MODULE ModuleBlock -----------------------------
(***************************************************************************)
(* Clients blocked by modules (src/src/module.c): a command of a module    *)
(* blocks its client and hands a RedisModuleBlockedClient to a thread,     *)
(* which accumulates a reply, may take the global lock, and unblocks the   *)
(* client through a queue and a pipe that wakes the main thread up; in the *)
(* meantime the client may time out or be gone.                            *)
(*                                                                         *)
(* The thread is that of a module that keeps to the API: it unblocks or    *)
(* aborts every handle once, and does not use it afterwards.               *)
(***************************************************************************)
EXTENDS Integers, Sequences, Functions

CONSTANT BlockScenarios    \* configurations and bounds: records with the fields below

(* A client is somebody, and handles can be counted.                       *)
BlockConstantsOK == \A s \in BlockScenarios : "none" \notin s.Clients /\ s.MaxHandles \in Nat

VARIABLES
    blocking, \* the scenario
    srv,      \* clients, handles, the queue, the pipe, the GIL
    main,     \* where the main thread is in its loop
    thread    \* handle -> where its thread is

blockVars == <<blocking, srv, main, thread>>

Clients == blocking.Clients
Ops == blocking.Ops                       \* what happens: commands, faults, habits of the thread
Handles == 1..blocking.MaxHandles         \* bound on the blocking commands
MaxWakes == 2                             \* bound on the wakeups without cause

NoClient == "none"
Nobody == 0               \* holders of the GIL that are not the thread of a handle
MainThread == -1
NoHandle == [state |-> "unused"]

Live == {h \in Handles : srv.bc[h].state = "live"}

----------------------------------------------------------------------------
(* Blocking.  Inside MULTI or a script the handle is born aborted.         *)

addReply(s, c, cmd) == [s EXCEPT !.client[c].replies = Append(@, cmd)]

RM_BlockClient(c, h, multi, callback) ==
    /\ main = "awake" /\ srv.client[c].linked /\ srv.client[c].handle = 0
    /\ srv.bc[h].state = "unused" /\ \A g \in Handles : srv.bc[g].state = "unused" => h <= g
    /\ multi => "multi" \in Ops
    /\ ~callback => "nocallback" \in Ops
    /\ LET cmd == srv.client[c].cmds + 1
           s == [srv EXCEPT !.client[c].cmds = cmd,
                            !.bc[h] = [state |-> "live", client |-> IF multi THEN NoClient ELSE c,
                                       reply_callback |-> callback, disconnect_callback |-> TRUE,
                                       cmd |-> cmd, reply_client |-> FALSE, called |-> {}]]
       IN  srv' = IF multi THEN addReply(s, c, cmd) ELSE [s EXCEPT !.client[c].handle = h]
    /\ thread' = [thread EXCEPT ![h] = "work"]
    /\ UNCHANGED <<blocking, main>>

(* unblockClient() of a client blocked by a module: the handle forgets it. *)
unblockClientFromModule(s, c) ==
    LET h == s.client[c].handle
    IN  [s EXCEPT !.bc[h].called = IF s.bc[h].disconnect_callback THEN @ \cup {"disconnect"} ELSE @,
                  !.bc[h].client = NoClient, !.client[c].handle = 0]

(* clientsCron(): the callback replies, and the disconnection of the       *)
(* client is no longer of interest.                                        *)
moduleBlockedClientTimedOut(c) ==
    /\ main = "awake" /\ srv.client[c].handle # 0 /\ "timeout" \in Ops
    /\ LET h == srv.client[c].handle
           s == [addReply(srv, c, srv.bc[h].cmd)
                 EXCEPT !.bc[h].called = @ \cup {"timeout"}, !.bc[h].disconnect_callback = FALSE]
       IN  srv' = unblockClientFromModule(s, c)
    /\ UNCHANGED <<blocking, main, thread>>

freeClient(c) ==
    /\ main = "awake" /\ srv.client[c].linked /\ "quit" \in Ops
    /\ LET s == IF srv.client[c].handle # 0 THEN unblockClientFromModule(srv, c) ELSE srv
       IN  srv' = [s EXCEPT !.client[c].linked = FALSE]
    /\ UNCHANGED <<blocking, main, thread>>

----------------------------------------------------------------------------
(* The thread of a handle.                                                 *)

(* RM_Reply*() with a thread safe context of the handle.                   *)
ThreadReplies(h) ==
    /\ thread[h] = "work" /\ ~srv.bc[h].reply_client /\ "reply" \in Ops
    /\ srv' = [srv EXCEPT !.bc[h].reply_client = TRUE]
    /\ UNCHANGED <<blocking, main, thread>>

RM_ThreadSafeContextLock(h) ==
    /\ thread[h] = "work" /\ srv.gil = Nobody /\ "lock" \in Ops
    /\ srv' = [srv EXCEPT !.gil = h]
    /\ thread' = [thread EXCEPT ![h] = "locked"]
    /\ UNCHANGED <<blocking, main>>

RM_ThreadSafeContextUnlock(h) ==
    /\ thread[h] = "locked"
    /\ srv' = [srv EXCEPT !.gil = Nobody]
    /\ thread' = [thread EXCEPT ![h] = "work"]
    /\ UNCHANGED <<blocking, main>>

Queue(s, h) == [s EXCEPT !.moduleUnblockedClients = Append(@, h), !.pipe = IF @ < 2 THEN @ + 1 ELSE @]

RM_UnblockClient(h) ==
    /\ thread[h] = "work"
    /\ srv' = Queue(srv, h)
    /\ thread' = [thread EXCEPT ![h] = "done"]
    /\ UNCHANGED <<blocking, main>>

(* The thread takes both callbacks away before it queues the handle; the   *)
(* main thread may run in between.                                         *)
RM_AbortBlock(h) ==
    /\ "abort" \in Ops
    /\ \/ /\ thread[h] = "work"
          /\ srv' = [srv EXCEPT !.bc[h].reply_callback = FALSE]
          /\ thread' = [thread EXCEPT ![h] = "abort"]
       \/ /\ thread[h] = "abort"
          /\ srv' = Queue([srv EXCEPT !.bc[h].disconnect_callback = FALSE], h)
          /\ thread' = [thread EXCEPT ![h] = "done"]
    /\ UNCHANGED <<blocking, main>>

----------------------------------------------------------------------------
(* The loop of the main thread: awake, serving the queue, about to sleep,  *)
(* asleep in poll().                                                       *)

(* moduleHandleBlockedClients() reads the pipe first, with the mutex of    *)
(* the queue taken: whatever is queued later writes another byte.          *)
HandleBegin ==
    /\ main = "awake"
    /\ main' = "serving"
    /\ srv' = [srv EXCEPT !.pipe = 0]
    /\ UNCHANGED <<blocking, thread>>

ServeKeepsCallback(s, h) ==
    LET bc == s.bc[h]
        c == bc.client
        a == IF c # NoClient /\ (bc.reply_callback \/ bc.reply_client) THEN addReply(s, c, bc.cmd) ELSE s
        b == IF c = NoClient THEN a ELSE unblockClientFromModule([a EXCEPT !.bc[h].called = @ \cup {"served"}], c)
    IN  [b EXCEPT !.bc[h].state = "freed"]

(* One handle of the queue: callback, reply, unblocking, and the end of    *)
(* the handle.                                                             *)
Serve(s, h) ==
    LET bc == s.bc[h]
        c == bc.client
        a == IF c # NoClient /\ (bc.reply_callback \/ bc.reply_client) THEN addReply(s, c, bc.cmd) ELSE s
        b == IF c = NoClient THEN a
             ELSE unblockClientFromModule([a EXCEPT !.bc[h].disconnect_callback = FALSE,
                                                    !.bc[h].called = @ \cup {"served"}], c)
    IN  [b EXCEPT !.bc[h].state = "freed"]

moduleHandleBlockedClients ==
    /\ main = "serving"
    /\ IF srv.moduleUnblockedClients # <<>>
       THEN /\ srv' = Serve([srv EXCEPT !.moduleUnblockedClients = Tail(@)], Head(srv.moduleUnblockedClients))
            /\ UNCHANGED main
       ELSE UNCHANGED srv /\ main' = "leaving"
    /\ UNCHANGED <<blocking, thread>>

(* The end of beforeSleep(): moduleReleaseGIL().                           *)
moduleReleaseGIL ==
    /\ main = "leaving"
    /\ srv' = [srv EXCEPT !.gil = Nobody]
    /\ main' = "asleep"
    /\ UNCHANGED <<blocking, thread>>

(* afterSleep(): poll() returns for a byte in the pipe, or for an event    *)
(* that has nothing to do with modules.                                    *)
moduleAcquireGIL ==
    /\ main = "asleep" /\ srv.gil = Nobody
    /\ srv.pipe > 0 \/ srv.wakes < MaxWakes
    /\ srv' = [srv EXCEPT !.gil = MainThread, !.wakes = IF srv.pipe > 0 THEN @ ELSE @ + 1]
    /\ main' = "awake"
    /\ UNCHANGED <<blocking, thread>>

----------------------------------------------------------------------------
BlockInit ==
    /\ blocking \in BlockScenarios
    /\ srv = [client |-> [c \in Clients |-> [linked |-> TRUE, handle |-> 0, cmds |-> 0, replies |-> <<>>]],
              bc |-> [h \in Handles |-> NoHandle], moduleUnblockedClients |-> <<>>, pipe |-> 0,
              gil |-> MainThread, wakes |-> 0]
    /\ main = "awake"
    /\ thread = [h \in Handles |-> "none"]

BlockNext ==
    \/ \E c \in Clients :
         \/ \E h \in Handles, multi, callback \in BOOLEAN : RM_BlockClient(c, h, multi, callback)
         \/ moduleBlockedClientTimedOut(c) \/ freeClient(c)
    \/ \E h \in Handles :
         \/ ThreadReplies(h) \/ RM_UnblockClient(h) \/ RM_AbortBlock(h)
         \/ RM_ThreadSafeContextLock(h) \/ RM_ThreadSafeContextUnlock(h)
    \/ HandleBegin \/ moduleHandleBlockedClients \/ moduleReleaseGIL \/ moduleAcquireGIL

BlockSpec == BlockInit /\ [][BlockNext]_blockVars

----------------------------------------------------------------------------
(* BlockedOnce: every blocking command is answered at most once and in     *)
(* order, whichever of the reply, the timeout and the disconnection comes  *)
(* first (one that was aborted or had nothing to say stays without a       *)
(* reply); a handle and its client refer to each other or not at all; a    *)
(* handle in use by its thread or in the queue is not freed; and the       *)
(* disconnect callback is not called for a client that timed out or was    *)
(* served.                                                                 *)
BlockedOnce ==
    /\ \A c \in Clients :
         LET k == srv.client[c]
         IN  /\ \A i, j \in DOMAIN k.replies : i < j => k.replies[i] < k.replies[j]
             /\ k.handle # 0 => /\ srv.bc[k.handle].state = "live" /\ srv.bc[k.handle].client = c
                                /\ \A i \in DOMAIN k.replies : k.replies[i] < k.cmds
    /\ \A h \in Live : LET c == srv.bc[h].client
                       IN  c # NoClient => srv.client[c].linked /\ srv.client[c].handle = h
    /\ IsInjective(srv.moduleUnblockedClients)
    /\ \A h \in Handles :
         /\ (thread[h] \in {"work", "locked", "abort"} \/ h \in Range(srv.moduleUnblockedClients)) => h \in Live
         /\ (srv.bc[h].state # "unused" /\ "disconnect" \in srv.bc[h].called) => srv.bc[h].called = {"disconnect"}
         /\ (srv.bc[h].state = "freed" /\ srv.bc[h].called = {"served"} /\ srv.bc[h].reply_callback) =>
              \E c \in Clients : srv.bc[h].cmd \in Range(srv.client[c].replies)

(* NoLostUnblock: a handle that is queued does not wait for an unrelated   *)
(* event: either the main thread is still to serve the queue, or a byte in *)
(* the pipe wakes it up; and the main thread never works without the GIL.  *)
NoLostUnblock ==
    /\ srv.moduleUnblockedClients # <<>> => main \in {"awake", "serving"} \/ srv.pipe > 0
    /\ (main = "asleep") = (srv.gil # MainThread)

(* ModuleClientsSound: both.                                               *)
ModuleClientsSound == BlockedOnce /\ NoLostUnblock
=============================================================================
