------------------------------- MODULE Replies ------------------------------
(***************************************************************************)
(* The output side of connections (src/src/networking.c): the static buffer*)
(* and the list of reply blocks with lengths that are filled in later, the *)
(* queue of pending writes and the write handler, output limits, CLIENT    *)
(* REPLY and KILL, and the ways in which a client is freed: at once, later *)
(* from the cron, after its last reply, or not while it is protected.      *)
(*                                                                         *)
(* A reply is a sequence of tokens that name the command and the place in  *)
(* its reply; buffers and limits count tokens.                             *)
(***************************************************************************)
EXTENDS Integers, FiniteSetsExt, SequencesExt

CONSTANT Scenarios    \* clients, operations, limits and bounds: fields below

VARIABLES
    scenario,
    srv,      \* the server: cl, pending, to_close, clients, busy, now, n
    sent,     \* what each socket was given
    due       \* what each client is to be given, and its reply mode

vars == <<scenario, srv, sent, due>>

Kind == scenario.Kind              \* function of clients: normal, pubsub, replica, fake
Clients == DOMAIN Kind
Ops == scenario.Ops
Sizes == scenario.Sizes            \* lengths of replies
BufSize == scenario.BufSize        \* PROTO_REPLY_CHUNK_BYTES, in tokens
MaxWrites == scenario.MaxWrites    \* NET_MAX_WRITES_PER_EVENT
Limits == scenario.Limits          \* hard, soft, seconds for every class
MaxClients == scenario.MaxClients
MaxCmds == scenario.MaxCmds
MaxTime == scenario.MaxTime

Null == [size |-> 0, used |-> <<"null">>]      \* the placeholder of a length
None == "none"

NewClient ==
    [open |-> TRUE, buf |-> <<>>, reply |-> <<>>, sentlen |-> 0, reply_bytes |-> 0,
     flags |-> {}, handler |-> FALSE, soft |-> 0, online |-> TRUE]

Has(s, c, flag) == flag \in s.cl[c].flags
Set(s, c, flag) == [s EXCEPT !.cl[c].flags = @ \cup {flag}]
Clear(s, c, flags) == [s EXCEPT !.cl[c].flags = @ \ flags]

----------------------------------------------------------------------------
(* Freeing.                                                                *)

freeClientAsync(s, c) ==
    IF Has(s, c, "CLOSE_ASAP") THEN s
    ELSE [Set(s, c, "CLOSE_ASAP") EXCEPT !.to_close = Append(@, c)]

unlinkClient(s, c) ==
    [s EXCEPT !.clients = SelectSeq(@, LAMBDA x : x # c),
              !.cl[c].open = FALSE, !.cl[c].handler = FALSE,
              !.pending = IF Has(s, c, "PENDING_WRITE") THEN SelectSeq(@, LAMBDA x : x # c) ELSE @,
              !.cl[c].flags = @ \ {"PENDING_WRITE"}]

freeClient(s, c) ==
    IF Has(s, c, "PROTECTED") THEN freeClientAsync(s, c)
    ELSE LET t == unlinkClient([s EXCEPT !.cl[c].buf = <<>>, !.cl[c].reply = <<>>], c)
         IN  [t EXCEPT !.to_close = IF Has(s, c, "CLOSE_ASAP")
                                    THEN SelectSeq(@, LAMBDA x : x # c) ELSE @,
                       !.cl[c].flags = {}]

----------------------------------------------------------------------------
(* Output buffers.                                                         *)

clientHasPendingReplies(s, c) == s.cl[c].buf # <<>> \/ s.cl[c].reply # <<>>

clientInstallWriteHandler(s, c) ==
    IF ~Has(s, c, "PENDING_WRITE") /\ s.cl[c].online
    THEN [Set(s, c, "PENDING_WRITE") EXCEPT !.pending = <<c>> \o @] ELSE s

CanWrite(s, c) ==
    Kind[c] = "fake" \/ (~Has(s, c, "REPLY_OFF") /\ ~Has(s, c, "REPLY_SKIP") /\ s.cl[c].open)

prepareClientToWrite(s, c) ==
    IF Kind[c] # "fake" /\ CanWrite(s, c) /\ ~clientHasPendingReplies(s, c)
    THEN clientInstallWriteHandler(s, c) ELSE s

getClientType(c) == IF Kind[c] \in {"replica", "pubsub"} THEN Kind[c] ELSE "normal"

getClientOutputBufferMemoryUsage(s, c) == s.cl[c].reply_bytes + Len(s.cl[c].reply)

Over(s, c, limit) == limit # 0 /\ getClientOutputBufferMemoryUsage(s, c) >= limit

(* The result and the time at which the soft limit was first seen; times   *)
(* start at 1, since 0 stands for never.                                   *)
checkClientOutputBufferLimits(s, c) ==
    LET limits == Limits[getClientType(c)]
        soft == Over(s, c, limits.soft)
        since == s.cl[c].soft
    IN  [close |-> \/ Over(s, c, limits.hard)
                   \/ soft /\ since # 0 /\ s.now - since > limits.seconds,
         soft |-> IF ~soft THEN 0 ELSE IF since = 0 THEN s.now ELSE since]

asyncCloseClientOnOutputBufferLimitReached(s, c) ==
    LET check == checkClientOutputBufferLimits(s, c)
        t == [s EXCEPT !.cl[c].soft = check.soft]
    IN  IF Kind[c] = "fake" \/ s.cl[c].reply_bytes = 0 \/ Has(s, c, "CLOSE_ASAP") THEN s
        ELSE IF check.close THEN freeClientAsync(t, c) ELSE t

(* The room in the last block is used first, unless it is a placeholder.   *)
addReplyStringToList(s, c, str) ==
    LET reply == s.cl[c].reply
        tail == IF reply = <<>> THEN Null ELSE Last(reply)
        avail == IF tail = Null THEN 0 ELSE tail.size - Len(tail.used)
        copy == IF avail >= Len(str) THEN Len(str) ELSE avail
        rest == SubSeq(str, copy + 1, Len(str))
        size == IF Len(rest) < BufSize THEN BufSize ELSE Len(rest)
        filled == IF copy = 0 THEN reply
                  ELSE [reply EXCEPT ![Len(reply)].used = @ \o SubSeq(str, 1, copy)]
        t == [s EXCEPT !.cl[c].reply = IF rest = <<>> THEN filled
                                       ELSE Append(filled, [size |-> size, used |-> rest]),
                       !.cl[c].reply_bytes = IF rest = <<>> THEN @ ELSE @ + size]
    IN  asyncCloseClientOnOutputBufferLimitReached(t, c)

FitsBuffer(s, c, str) ==
    s.cl[c].reply = <<>> /\ Len(str) <= BufSize - Len(s.cl[c].buf)

addReply(s, c, str) ==
    LET t == prepareClientToWrite(s, c)
    IN  IF ~CanWrite(s, c) \/ Has(s, c, "CLOSE_AFTER_REPLY") THEN t
        ELSE IF FitsBuffer(t, c, str) THEN [t EXCEPT !.cl[c].buf = @ \o str]
        ELSE addReplyStringToList(t, c, str)

(* A placeholder at the end of the list; the index of it, or 0.            *)
addDeferredMultiBulkLength(s, c) ==
    IF ~CanWrite(s, c) THEN [s |-> s, node |-> 0]
    ELSE LET t == [prepareClientToWrite(s, c) EXCEPT !.cl[c].reply = Append(@, Null)]
         IN  [s |-> t, node |-> Len(t.cl[c].reply)]

(* The length goes in front of the next block if there is room in it.      *)
setDeferredMultiBulkLength(s, c, node, str) ==
    LET reply == s.cl[c].reply
        next == IF node < Len(reply) THEN reply[node + 1] ELSE Null
        glue == next # Null /\ next.size - Len(next.used) >= Len(str) /\ Len(next.used) < 4 * BufSize
        block == [size |-> Len(str), used |-> str]
        t == IF glue
             THEN [s EXCEPT !.cl[c].reply = SubSeq(reply, 1, node - 1)
                                \o <<[next EXCEPT !.used = str \o @]>>
                                \o SubSeq(reply, node + 2, Len(reply))]
             ELSE [s EXCEPT !.cl[c].reply[node] = block, !.cl[c].reply_bytes = @ + Len(str)]
    IN  IF node = 0 THEN s ELSE asyncCloseClientOnOutputBufferLimitReached(t, c)

(* The replies of a client without a connection move to one that has one.  *)
AddReplyFromClient(s, dst, src) ==
    LET t == addReply(s, dst, s.cl[src].buf)
        u == [t EXCEPT !.cl[dst].reply = @ \o s.cl[src].reply,
                       !.cl[dst].reply_bytes = @ + s.cl[src].reply_bytes,
                       !.cl[src].reply = <<>>, !.cl[src].reply_bytes = 0, !.cl[src].buf = <<>>]
    IN  IF CanWrite(s, dst) THEN u ELSE s

----------------------------------------------------------------------------
(* Writing to the socket, which takes `room' tokens or fails.              *)

RECURSIVE WriteLoop(_, _, _, _)
WriteLoop(s, c, room, out) ==
    LET cl == s.cl[c]
        data == IF cl.buf # <<>> THEN cl.buf ELSE cl.reply[1].used
        rest == Len(data) - cl.sentlen
        n == IF room < rest THEN room ELSE rest
        some == out \o SubSeq(data, cl.sentlen + 1, cl.sentlen + n)
        t == IF n < rest THEN [s EXCEPT !.cl[c].sentlen = @ + n]
             ELSE IF cl.buf # <<>> THEN [s EXCEPT !.cl[c].sentlen = 0, !.cl[c].buf = <<>>]
             ELSE [s EXCEPT !.cl[c].sentlen = 0, !.cl[c].reply = Tail(@),
                            !.cl[c].reply_bytes = @ - cl.reply[1].size]
    IN  IF ~clientHasPendingReplies(s, c) \/ room = 0 THEN [s |-> s, out |-> out]
        ELSE IF Len(some) > MaxWrites /\ Kind[c] # "replica" THEN [s |-> t, out |-> some]
        ELSE WriteLoop(t, c, room - n, some)

Broken == -1

Written(w, c, last) ==
    LET t == [w EXCEPT !.s.cl[c].handler = FALSE]
    IN  IF clientHasPendingReplies(w.s, c) THEN w
        ELSE IF last THEN [t EXCEPT !.s = freeClient(@, c)] ELSE t

writeToClient(s, c, room) ==
    IF room = Broken /\ clientHasPendingReplies(s, c) THEN [s |-> freeClient(s, c), out |-> <<>>]
    ELSE Written(WriteLoop(s, c, room, <<>>), c, Has(s, c, "CLOSE_AFTER_REPLY"))

(* One client of the queue after the other, each with its own room.        *)
handleClientsWithPendingWrites(s, room) ==
    LET One(acc, c) ==
            LET t == [Clear(acc.s, c, {"PENDING_WRITE"}) EXCEPT !.pending = SelectSeq(@, LAMBDA x : x # c)]
                after(w) == [s |-> [w.s EXCEPT !.cl[c].handler = @ \/ (w.s.cl[c].open /\ clientHasPendingReplies(w.s, c))],
                             out |-> [acc.out EXCEPT ![c] = @ \o w.out]]
            IN  IF Has(t, c, "PROTECTED") THEN [acc EXCEPT !.s = t] ELSE after(writeToClient(t, c, room[c]))
    IN  FoldLeft(One, [s |-> s, out |-> sent], s.pending)

flushSlavesOutputBuffers(s, room) ==
    LET One(acc, c) ==
            LET after(w) == [s |-> w.s, out |-> [acc.out EXCEPT ![c] = @ \o w.out]]
            IN  IF /\ Kind[c] = "replica" /\ acc.s.cl[c].online /\ clientHasPendingReplies(acc.s, c)
                   /\ acc.s.cl[c].handler \/ Has(acc.s, c, "PENDING_WRITE")
                THEN after(writeToClient(acc.s, c, room[c]))
                ELSE acc
    IN  FoldLeft(One, [s |-> s, out |-> sent], s.clients)

----------------------------------------------------------------------------
(* Commands. The ghost `due' is what the client should see: the replies of *)
(* its own commands as CLIENT REPLY asks, and what others push to it.      *)

resetClient(s, c) ==
    LET t == Clear(s, c, {"REPLY_SKIP", "SKIP_NEXT"})
    IN  IF Has(s, c, "SKIP_NEXT") THEN Set(t, c, "REPLY_SKIP") ELSE t

Tokens(n, k) == [i \in 1..k |-> <<n, i>>]

Wants(d, c) == d[c].mode = "on" /\ ~d[c].last

Owe(d, c, str) == IF Wants(d, c) THEN [d EXCEPT ![c].stream = @ \o str] ELSE d

(* What is owed, and the mode after the command: a skip lasts for one.     *)
After(d, c) == [d EXCEPT ![c].mode = IF @ = "skip" THEN "on" ELSE @]

(* The client may have a command processed: processInputBuffer().          *)
MayRun(c) ==
    /\ srv.n < MaxCmds
    /\ Kind[c] # "fake" /\ srv.cl[c].open /\ srv.busy # c
    /\ ~Has(srv, c, "CLOSE_AFTER_REPLY") /\ ~Has(srv, c, "CLOSE_ASAP")

Ran(c, s, d) ==
    /\ srv' = [(IF s.cl[c].open THEN resetClient(s, c) ELSE s) EXCEPT !.n = @ + 1]
    /\ due' = After(d, c)
    /\ UNCHANGED <<scenario, sent>>

(* A plain reply; during a script of another client, an error.             *)
Get(c) ==
    /\ "get" \in Ops /\ MayRun(c)
    /\ \E k \in Sizes : LET str == Tokens(srv.n, IF srv.busy = None THEN k ELSE 1)
                        IN  Ran(c, addReply(srv, c, str), Owe(due, c, str))

(* An array whose length, and that of an array inside it, come last.       *)
Deferred(c) ==
    /\ "deferred" \in Ops /\ MayRun(c) /\ srv.busy = None
    /\ \E k \in Sizes, nested \in BOOLEAN :
         LET n == srv.n
             outer == addDeferredMultiBulkLength(srv, c)
             inner == IF nested THEN addDeferredMultiBulkLength(outer.s, c) ELSE [s |-> outer.s, node |-> 0]
             items == addReply(inner.s, c, Tokens(n, k))
             s1 == setDeferredMultiBulkLength(items, c, inner.node, <<<<n, -1>>>>)
             s2 == setDeferredMultiBulkLength(s1, c, outer.node, <<<<n, 0>>>>)
         IN  Ran(c, s2, Owe(due, c, <<<<n, 0>>>> \o
                                    (IF nested THEN <<<<n, -1>>>> ELSE <<>>) \o Tokens(n, k)))

ClientReply(c) ==
    /\ "reply" \in Ops /\ MayRun(c) /\ srv.busy = None
    /\ \/ Ran(c, addReply(Clear(srv, c, {"REPLY_SKIP", "REPLY_OFF"}), c, Tokens(srv.n, 1)),
              Owe([due EXCEPT ![c].mode = "on"], c, Tokens(srv.n, 1)))
       \/ Ran(c, Set(srv, c, "REPLY_OFF"), [due EXCEPT ![c].mode = "off"])
       \/ /\ srv' = [resetClient(IF Has(srv, c, "REPLY_OFF") THEN srv ELSE Set(srv, c, "SKIP_NEXT"), c)
                     EXCEPT !.n = @ + 1]
          /\ due' = [due EXCEPT ![c].mode = IF @ = "off" THEN "off" ELSE "skip"]
          /\ UNCHANGED <<scenario, sent>>

Quit(c) ==
    /\ "quit" \in Ops /\ MayRun(c) /\ srv.busy = None
    /\ Ran(c, Set(addReply(srv, c, Tokens(srv.n, 1)), c, "CLOSE_AFTER_REPLY"),
           [Owe(due, c, Tokens(srv.n, 1)) EXCEPT ![c].last = TRUE])

(* CLIENT KILL; a client that kills itself still gets the reply.           *)
ClientKill(c) ==
    /\ "kill" \in Ops /\ MayRun(c) /\ srv.busy = None
    /\ \E d \in Clients :
         /\ Kind[d] # "fake" /\ srv.cl[d].open
         /\ LET s == IF c = d THEN srv ELSE freeClient(srv, d)
                t == addReply(s, c, Tokens(srv.n, 1))
            IN  Ran(c, IF c = d THEN Set(t, c, "CLOSE_AFTER_REPLY") ELSE t,
                    [Owe(due, c, Tokens(srv.n, 1)) EXCEPT ![c].last = (c = d)])

(* PUBLISH, or a write that feeds a replica: output for another client.    *)
Publish(c) ==
    /\ "publish" \in Ops /\ MayRun(c) /\ srv.busy = None
    /\ \E d \in Clients, k \in Sizes :
         /\ Kind[d] \in {"pubsub", "replica"} /\ srv.cl[d].open /\ d # c
         /\ LET msg == [i \in 1..k |-> <<srv.n, i, d>>]
            IN  Ran(c, addReply(addReply(srv, d, msg), c, Tokens(srv.n, 1)),
                    Owe(Owe(due, d, msg), c, Tokens(srv.n, 1)))

securityWarningCommand(c) ==
    /\ "post" \in Ops /\ MayRun(c) /\ srv.busy = None
    /\ Ran(c, freeClientAsync(srv, c), due)

(* A module replies to its client without a connection from a thread, and  *)
(* the replies go to the client when it is unblocked.                      *)
ThreadReply(f) ==
    /\ Kind[f] = "fake" /\ srv.n < MaxCmds /\ srv.busy = None
    /\ \E k \in Sizes :
         /\ srv' = [addReply(srv, f, Tokens(srv.n, k)) EXCEPT !.n = @ + 1]
         /\ due' = Owe(due, f, Tokens(srv.n, k))
    /\ UNCHANGED <<scenario, sent>>

Unblock(f, c) ==
    /\ Kind[f] = "fake" /\ Kind[c] = "normal" /\ srv.cl[c].open /\ due[f].stream # <<>>
    /\ srv.busy = None /\ ~Has(srv, c, "CLOSE_AFTER_REPLY")
    /\ srv' = AddReplyFromClient(srv, c, f)
    /\ due' = IF CanWrite(srv, c) THEN [Owe(due, c, due[f].stream) EXCEPT ![f].stream = <<>>] ELSE due
    /\ UNCHANGED <<scenario, sent>>

----------------------------------------------------------------------------
(* A script that runs too long: its client is protected while the events of*)
(* others are served, and gets its reply at the end.                       *)

protectClient(c) ==
    /\ "script" \in Ops /\ MayRun(c) /\ srv.busy = None
    /\ srv' = [Set(srv, c, "PROTECTED") EXCEPT !.busy = c, !.cl[c].handler = FALSE]
    /\ UNCHANGED <<scenario, sent, due>>

unprotectClient(s, c) ==
    LET t == Clear(s, c, {"PROTECTED"})
    IN  IF clientHasPendingReplies(t, c) THEN clientInstallWriteHandler(t, c) ELSE t

ScriptDone ==
    /\ srv.busy # None
    /\ LET c == srv.busy
           s == addReply([unprotectClient(srv, c) EXCEPT !.busy = None], c, Tokens(srv.n, 1))
       IN  Ran(c, s, Owe(due, c, Tokens(srv.n, 1)))

----------------------------------------------------------------------------
(* Events.                                                                 *)

Rooms == [Clients -> {Broken, 0, 1, MaxWrites + 1}]

Wrote(r) ==
    /\ srv' = r.s
    /\ sent' = r.out
    /\ UNCHANGED <<scenario, due>>

BeforeSleep ==
    /\ srv.pending # <<>>
    /\ \E room \in Rooms :
         /\ \A c \in Clients : ~Contains(srv.pending, c) => room[c] = 0
         /\ Wrote(handleClientsWithPendingWrites(srv, room))

sendReplyToClient(c) ==
    /\ srv.cl[c].handler
    /\ \E room \in {Broken, 1, MaxWrites + 1} :
         LET w == writeToClient(srv, c, room)
         IN  Wrote([s |-> w.s, out |-> [sent EXCEPT ![c] = @ \o w.out]])

(* The memory limit was reached, or SHUTDOWN was called.                   *)
FlushReplicas ==
    /\ "flush" \in Ops /\ srv.busy = None
    /\ \E c \in Clients : Kind[c] = "replica" /\ clientHasPendingReplies(srv, c)
    /\ \E room \in Rooms :
         /\ \A c \in Clients : Kind[c] # "replica" => room[c] = 0
         /\ Wrote(flushSlavesOutputBuffers(srv, room))

putSlaveOnline(c) ==
    /\ Kind[c] = "replica" /\ srv.cl[c].open /\ ~srv.cl[c].online
    /\ srv' = [srv EXCEPT !.cl[c].online = TRUE, !.cl[c].handler = TRUE]
    /\ UNCHANGED <<scenario, sent, due>>

(* Time events are not processed during a script.                          *)
freeClientsInAsyncFreeQueue ==
    /\ srv.to_close # <<>> /\ srv.busy = None
    /\ srv' = FoldLeft(LAMBDA s, c : [freeClient(Clear(s, c, {"CLOSE_ASAP"}), c)
                                      EXCEPT !.to_close = Tail(s.to_close)], srv, srv.to_close)
    /\ UNCHANGED <<scenario, sent, due>>

(* The other end closes the connection.                                    *)
ReadEof(c) ==
    /\ "eof" \in Ops /\ Kind[c] # "fake" /\ srv.cl[c].open /\ srv.busy # c
    /\ srv' = freeClient(srv, c)
    /\ UNCHANGED <<scenario, sent, due>>

(* A connection is accepted if it is not one too many.                     *)
acceptCommonHandler(c) ==
    /\ Kind[c] # "fake" /\ ~srv.cl[c].open /\ srv.n < MaxCmds
    /\ LET s == [srv EXCEPT !.cl[c] = [NewClient EXCEPT !.online = Kind[c] # "replica"],
                            !.clients = Append(@, c), !.n = @ + 1]
       IN  srv' = IF Len(s.clients) > MaxClients THEN freeClient(s, c) ELSE s
    /\ sent' = [sent EXCEPT ![c] = <<>>]
    /\ due' = [due EXCEPT ![c] = [stream |-> <<>>, mode |-> "on", last |-> FALSE]]
    /\ UNCHANGED scenario

Tick ==
    /\ srv.now < MaxTime
    /\ srv' = [srv EXCEPT !.now = @ + 1]
    /\ UNCHANGED <<scenario, sent, due>>

Init ==
    /\ scenario \in Scenarios
    /\ srv = [cl |-> [c \in Clients |-> [NewClient EXCEPT !.open = scenario.Kind[c] = "fake"]],
              pending |-> <<>>, to_close |-> <<>>, clients |-> <<>>, busy |-> None, now |-> 1, n |-> 0]
    /\ sent = [c \in Clients |-> <<>>]
    /\ due = [c \in Clients |-> [stream |-> <<>>, mode |-> "on", last |-> FALSE]]

Next ==
    \/ \E c \in Clients :
         \/ Get(c) \/ Deferred(c) \/ ClientReply(c) \/ Quit(c) \/ ClientKill(c) \/ Publish(c)
         \/ securityWarningCommand(c) \/ ThreadReply(c) \/ protectClient(c)
         \/ sendReplyToClient(c) \/ putSlaveOnline(c) \/ ReadEof(c) \/ acceptCommonHandler(c)
         \/ \E d \in Clients : Unblock(c, d)
    \/ ScriptDone \/ BeforeSleep \/ FlushReplicas \/ freeClientsInAsyncFreeQueue \/ Tick

Spec == Init /\ [][Next]_vars

----------------------------------------------------------------------------
Queued(c) ==
    LET all == srv.cl[c].buf \o FlattenSeq([i \in 1..Len(srv.cl[c].reply) |-> srv.cl[c].reply[i].used])
    IN  SubSeq(all, srv.cl[c].sentlen + 1, Len(all))

BlockSizes(c) == FoldLeft(LAMBDA n, b : n + b.size, 0, srv.cl[c].reply)

(* What a connection was given and what its buffers hold are together      *)
(* exactly the replies the client is due, each in its place though lengths *)
(* are filled in later: nothing lost, repeated or out of order, and nothing*)
(* after the reply that was to be the last. The count of bytes is exact.   *)
RepliesInOrder ==
    \A c \in Clients : srv.cl[c].open =>
        /\ sent[c] \o Queued(c) = due[c].stream
        /\ srv.cl[c].reply_bytes = BlockSizes(c)

(* A client with output is on the way to be written: queued, with a write  *)
(* handler, or protected, if it can receive writes at all. The queues hold *)
(* open clients only, each once, and agree with the flags. Above its hard  *)
(* limit a client is to be closed; the join of replies does not check.     *)
RepliesScheduled ==
    /\ \A c \in Clients : srv.cl[c].open /\ Kind[c] # "fake" =>
         /\ clientHasPendingReplies(srv, c) /\ srv.cl[c].online =>
              Contains(srv.pending, c) \/ srv.cl[c].handler \/ Has(srv, c, "PROTECTED")
         /\ Has(srv, c, "PROTECTED") <=> srv.busy = c
         /\ (\A f \in Clients : Kind[f] # "fake") /\ Over(srv, c, Limits[getClientType(c)].hard) =>
              Has(srv, c, "CLOSE_ASAP")
    /\ \A c \in Clients :
         /\ Contains(srv.pending, c) <=> Has(srv, c, "PENDING_WRITE")
         /\ Contains(srv.to_close, c) <=> Has(srv, c, "CLOSE_ASAP")
         /\ Contains(srv.clients, c) <=> srv.cl[c].open /\ Kind[c] # "fake"
         /\ (Contains(srv.pending, c) \/ Contains(srv.to_close, c)) => srv.cl[c].open
    /\ \A q \in {srv.pending, srv.to_close, srv.clients} : IsInjective(q)
    /\ Len(srv.clients) <= MaxClients
=============================================================================
