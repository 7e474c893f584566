------------------------------- MODULE Streams -------------------------------
(***************************************************************************)
(* The stream data type (t_stream.c): the entries of one key, kept as a    *)
(* radix tree of listpacks, its consumer groups with their two pending     *)
(* entries lists (PELs), and what every write command propagates.  A       *)
(* replica, whose node size may be configured differently, applies what    *)
(* is propagated.                                                          *)
(*                                                                         *)
(* An entry ID <ms>-<seq> is the number ms * SeqLimit + seq.  The fields   *)
(* of an entry, delivery times and delivery counts are left out: whether a *)
(* pending entry has been idle for long enough is an input of XCLAIM.      *)
(* Blocking on a stream is part of module Blocked.                         *)
(***************************************************************************)
EXTENDS Integers, Sequences, FiniteSets, SequencesExt, FiniteSetsExt, Functions

CONSTANTS
  Scenarios    \* records [Commands, MaxMs, SeqLimit, NodeMax, ReplicaNodeMax,
               \*          Groups, Consumers, MaxLens, Length]

VARIABLES
  scenario,    \* the scenario of this behaviour
  master,      \* the stream of the master: [exists, nodes, length, last_id, cgroups]
  replica,     \* the stream of the replica
  steps        \* number of commands executed

vars == <<scenario, master, replica, steps>>

AllIds == 0..((scenario.MaxMs + 1) * scenario.SeqLimit - 1)

\* The IDs clients use: not those with the greatest sequence part.
Ids == {id \in AllIds : id % scenario.SeqLimit < scenario.SeqLimit - 1}

\* The ID with its sequence part incremented, which wraps.
IncrSeq(id) ==
  LET W == scenario.SeqLimit IN (id \div W) * W + (((id % W) + 1) % W)

-----------------------------------------------------------------------------
(* Entries: a node of the radix tree has the ID of its master entry, its   *)
(* two counters and its entries, the deleted ones flagged.                 *)

NoStream == [exists |-> FALSE, nodes |-> <<>>, length |-> 0, last_id |-> 0, cgroups |-> << >>]

\* The stream of a key that XADD or XGROUP CREATE MKSTREAM has just created.
streamNew == [NoStream EXCEPT !.exists = TRUE]

streamTypeLookupWriteOrCreate(s) == IF s.exists THEN s ELSE streamNew

\* The next ID when the clock says ms.
streamNextID(last_id, ms) ==
  IF ms > last_id \div scenario.SeqLimit THEN ms * scenario.SeqLimit ELSE IncrSeq(last_id)

\* The entry goes to the tail node unless that one holds more than the
\* configured number of valid entries (0: no limit).
streamAppendItem(s, id, nodeMax) ==
  LET n == Len(s.nodes)
      entry == [id |-> id, deleted |-> FALSE]
      full == n = 0 \/ (nodeMax # 0 /\ s.nodes[n].count > nodeMax)
      node == [master |-> id, count |-> 1, deleted |-> 0, entries |-> <<entry>>]
  IN [s EXCEPT !.nodes = IF full THEN Append(@, node)
                         ELSE [@ EXCEPT ![n].count = @ + 1,
                                        ![n].entries = Append(@, entry)],
               !.length = @ + 1,
               !.last_id = id]

\* The node with its first k valid entries flagged.
FlagFirst(node, k) ==
  LET valid(i) == Cardinality({j \in 1..i : ~ node.entries[j].deleted})
  IN [node EXCEPT !.count = @ - k,
                  !.deleted = @ + k,
                  !.entries = [i \in DOMAIN @ |->
                     IF valid(i) <= k THEN [@[i] EXCEPT !.deleted = TRUE] ELSE @[i]]]

\* The nodes whose removal leaves at least maxlen entries go as a whole; then,
\* unless approx, the excess is flagged in the node that follows.
streamTrimByLength(s, maxlen, approx) ==
  LET before(k) == FoldFunctionOnSet(+, 0, [i \in DOMAIN s.nodes |-> s.nodes[i].count], 1..k)
      whole == CHOOSE k \in 0..Len(s.nodes) :
                 /\ k = 0 \/ s.length - before(k) >= maxlen
                 /\ k = Len(s.nodes) \/ s.length - before(k + 1) < maxlen
                    \/ s.length - before(k) <= maxlen
      rest(k) == [s EXCEPT !.nodes = SubSeq(@, k + 1, Len(@)), !.length = @ - before(k)]
      flag(t) == IF approx \/ t.length <= maxlen THEN t
                 ELSE [t EXCEPT !.nodes[1] = FlagFirst(@, t.length - maxlen), !.length = maxlen]
  IN IF s.length <= maxlen THEN s ELSE flag(rest(whole))

\* The node an iteration from id starts at.
streamIteratorStart(s, id, rev) ==
  LET below == {i \in DOMAIN s.nodes : s.nodes[i].master <= id}
  IN IF id # 0 /\ below # {} THEN Max(below) ELSE IF rev THEN Len(s.nodes) ELSE 1

\* The IDs an iteration emits: from the start node it walks the nodes in its
\* direction and skips flagged entries and those it has not reached yet; the
\* first one out of range ends it.
streamIteratorGetID(s, start, end, rev) ==
  LET nodes(from) == IF rev THEN Reverse(SubSeq(s.nodes, 1, from)) ELSE SubSeq(s.nodes, from, Len(s.nodes))
      entries(node) == IF rev THEN Reverse(node.entries) ELSE node.entries
      walk(ns) == SelectSeq(FlattenSeq([i \in DOMAIN ns |-> entries(ns[i])]),
                    LAMBDA e : ~ e.deleted /\ IF rev THEN e.id <= end ELSE e.id >= start)
      within(e) == IF rev THEN e.id >= start ELSE e.id <= end
      upto(es) == SelectInSeq(es, LAMBDA e : ~ within(e)) - 1
      ids(es, n) == [i \in 1..(IF n = -1 THEN Len(es) ELSE n) |-> es[i].id]
      emitted(es) == ids(es, upto(es))
  IN emitted(walk(nodes(streamIteratorStart(s, IF rev THEN end ELSE start, rev))))

Found(s, id) == streamIteratorGetID(s, id, id, FALSE) # <<>>

\* Flag the entry; a node goes with its last valid entry.
streamIteratorRemoveEntry(s, id) ==
  LET n == streamIteratorStart(s, id, FALSE)
      node == s.nodes[n]
      flagged == [node EXCEPT !.count = @ - 1,
                              !.deleted = @ + 1,
                              !.entries = [i \in DOMAIN @ |->
                                 IF @[i].id = id THEN [@[i] EXCEPT !.deleted = TRUE] ELSE @[i]]]
  IN [s EXCEPT !.nodes = IF node.count = 1 THEN RemoveAt(@, n) ELSE ReplaceAt(@, n, flagged),
               !.length = @ - 1]

streamDeleteItem(s, id) == IF Found(s, id) THEN streamIteratorRemoveEntry(s, id) ELSE s

-----------------------------------------------------------------------------
(* Consumer groups: pel maps a pending ID to the consumer of its NACK, and *)
(* consumers maps a consumer to the IDs of its own list.                   *)

streamLookupCG(s, g) == s.exists /\ g \in DOMAIN s.cgroups

streamCreateCG(s, g, id) ==
  [s EXCEPT !.cgroups = [x \in DOMAIN @ \cup {g} |->
     IF x = g THEN [last_id |-> id, pel |-> << >>, consumers |-> << >>] ELSE @[x]]]

streamLookupConsumer(cg, c) ==
  [cg EXCEPT !.consumers = [x \in DOMAIN @ \cup {c} |-> IF x \in DOMAIN @ THEN @[x] ELSE {}]]

\* The entries pending for the consumer leave the list of the group with it.
streamDelConsumer(cg, c) ==
  IF c \notin DOMAIN cg.consumers THEN cg
  ELSE [cg EXCEPT !.pel = Restrict(@, DOMAIN @ \ cg.consumers[c]),
                  !.consumers = Restrict(@, DOMAIN @ \ {c})]

\* Mutant: the entry is not taken from the consumer that had it.
AssignTwice(cg, id, c) ==
  [cg EXCEPT !.pel = [x \in DOMAIN @ \cup {id} |-> IF x = id THEN c ELSE @[x]],
             !.consumers[c] = @ \cup {id}]

\* The entry becomes, or stays, pending for consumer c of the group.
Assign(cg, id, c) ==
  LET old == IF id \in DOMAIN cg.pel THEN {cg.pel[id]} ELSE {}
  IN [cg EXCEPT !.pel = [x \in DOMAIN @ \cup {id} |-> IF x = id THEN c ELSE @[x]],
                !.consumers = [x \in DOMAIN @ |->
                   IF x = c THEN @[x] \cup {id} ELSE IF x \in old THEN @[x] \ {id} ELSE @[x]]]

Forget(cg, id) ==
  IF id \notin DOMAIN cg.pel THEN cg
  ELSE [cg EXCEPT !.pel = Restrict(@, DOMAIN @ \ {id}), !.consumers[cg.pel[id]] = @ \ {id}]

SetID(s, g, id) == [s EXCEPT !.cgroups[g].last_id = id]

-----------------------------------------------------------------------------
(* Commands.  Each maps a stream to [s, prop]: the stream after it and the *)
(* commands that are propagated to the replica, in order.                  *)

Silent(s) == [s |-> s, prop |-> <<>>]

\* The propagated form of an assignment: it creates the NACK if need be, takes
\* no account of the idle time, and brings the last ID of the group.
streamPropagateXCLAIM(cg, g, id) ==
  [name |-> "xclaim", group |-> g, consumer |-> cg.pel[id], ids |-> <<id>>, force |-> TRUE,
   idle |-> {id}, lastid |-> cg.last_id]

streamPropagateGroupID(cg, g) == [name |-> "setid", group |-> g, id |-> cg.last_id]

\* MAXLEN ~ is propagated as an exact trim to the length that was reached.
streamRewriteApproxMaxlen(c, s) ==
  IF c.approx THEN [c EXCEPT !.approx = FALSE, !.maxlen = s.length] ELSE c

\* XADD [MAXLEN [~] maxlen] id: id -1 is *, maxlen -1 no trimming.
xaddCommand(c, s0, nodeMax) ==
  LET s == streamTypeLookupWriteOrCreate(s0)
      id == IF c.id = -1 THEN streamNextID(s.last_id, c.ms) ELSE c.id
      trimmed(added) == IF c.maxlen >= 0 THEN streamTrimByLength(added, c.maxlen, c.approx) ELSE added
      done(t) == [s |-> t, prop |-> <<[streamRewriteApproxMaxlen(c, t) EXCEPT !.id = id]>>]
  IN IF c.id # -1 /\ c.id <= s.last_id THEN Silent(s)
     ELSE done(trimmed(streamAppendItem(s, id, nodeMax)))

\* A command that changed nothing is not propagated.
IfChanged(s, t, c) == IF t = s THEN Silent(s) ELSE [s |-> t, prop |-> <<c>>]

xdelCommand(c, s) == IfChanged(s, FoldLeft(streamDeleteItem, s, c.ids), c)

xtrimCommand(c, s) ==
  LET done(t) == IfChanged(s, t, streamRewriteApproxMaxlen(c, t))
  IN done(streamTrimByLength(s, c.maxlen, c.approx))

xsetidCommand(c, s) ==
  LET top == streamIteratorGetID(s, 0, Max(AllIds), TRUE)
  IN IF ~ s.exists \/ (s.length > 0 /\ c.id < top[1]) THEN Silent(s)
     ELSE [s |-> [s EXCEPT !.last_id = c.id], prop |-> <<c>>]

\* XGROUP CREATE group id [MKSTREAM]: id -1 is $.
xgroupCreate(c, s0) ==
  LET s == IF c.mkstream THEN streamTypeLookupWriteOrCreate(s0) ELSE s0
      t == streamCreateCG(s, c.group, IF c.id = -1 THEN s.last_id ELSE c.id)
  IN IF ~ s.exists \/ streamLookupCG(s, c.group) THEN Silent(s0) ELSE [s |-> t, prop |-> <<c>>]

xgroupSetid(c, s) ==
  IF ~ streamLookupCG(s, c.group) THEN Silent(s)
  ELSE [s |-> SetID(s, c.group, IF c.id = -1 THEN s.last_id ELSE c.id), prop |-> <<c>>]

xgroupDestroy(c, s) ==
  IF ~ streamLookupCG(s, c.group) THEN Silent(s)
  ELSE [s |-> [s EXCEPT !.cgroups = Restrict(@, DOMAIN @ \ {c.group})], prop |-> <<c>>]

xgroupDelconsumer(c, s) ==
  IF ~ streamLookupCG(s, c.group) THEN Silent(s)
  ELSE [s |-> [s EXCEPT !.cgroups[c.group] = streamDelConsumer(@, c.consumer)], prop |-> <<c>>]

xackCommand(c, s) ==
  IF ~ streamLookupCG(s, c.group) THEN Silent(s)
  ELSE IfChanged(s, [s EXCEPT !.cgroups[c.group] = FoldLeft(Forget, @, c.ids)], c)

\* One entry of XREADGROUP with ">": it moves the last ID of the group and,
\* unless NOACK, becomes pending for the consumer.
streamReplyWithRange(c, r, id) ==
  LET cg == r.s.cgroups[c.group]
      moved == [cg EXCEPT !.last_id = IF id > @ THEN id ELSE @]
      msg(done) == IF c.noack THEN streamPropagateGroupID(done, c.group)
                   ELSE streamPropagateXCLAIM(done, c.group, id)
      with(done) == [s |-> [r.s EXCEPT !.cgroups[c.group] = done], prop |-> Append(r.prop, msg(done))]
  IN with(IF c.noack THEN moved ELSE Assign(moved, id, c.consumer))

\* XREADGROUP: hist says that an ID, not ">", was given: reading the history of a
\* consumer changes delivery times and counts only.  A consumer that is served
\* is created, which nothing propagates.
xreadCommand(c, s) ==
  LET cg == s.cgroups[c.group]
      new == streamIteratorGetID(s, IncrSeq(cg.last_id), Max(AllIds), FALSE)
      first(ids) == SubSeq(ids, 1, IF c.count = 0 THEN Len(ids) ELSE Min({c.count, Len(ids)}))
      t == [s EXCEPT !.cgroups[c.group] = streamLookupConsumer(@, c.consumer)]
  IN IF ~ streamLookupCG(s, c.group) THEN Silent(s)
     ELSE IF c.hist THEN Silent(t)
     ELSE IF s.length = 0 \/ s.last_id <= cg.last_id THEN Silent(s)
     ELSE FoldLeft(LAMBDA r, id : streamReplyWithRange(c, r, id), Silent(t), first(new))

\* One ID of XCLAIM.
ClaimOne(c, r, id) ==
  LET cg == r.s.cgroups[c.group]
      pending == id \in DOMAIN cg.pel
      with(done) == [s |-> [r.s EXCEPT !.cgroups[c.group] = done],
                     prop |-> Append(r.prop, streamPropagateXCLAIM(done, c.group, id))]
  IN IF (pending /\ id \in c.idle) \/ (~ pending /\ c.force /\ Found(r.s, id))
     THEN with(Assign(cg, id, c.consumer)) ELSE r

xclaimCommand(c, s) ==
  LET cg == s.cgroups[c.group]
      ahead == c.lastid > cg.last_id
      moved == IF ahead THEN [cg EXCEPT !.last_id = c.lastid] ELSE cg
      t == [s EXCEPT !.cgroups[c.group] = streamLookupConsumer(moved, c.consumer)]
      told(r) == IF ahead /\ r.prop = <<>>
                 THEN [r EXCEPT !.prop = <<streamPropagateGroupID(moved, c.group)>>] ELSE r
  IN IF ~ streamLookupCG(s, c.group) THEN Silent(s)
     ELSE told(FoldLeft(LAMBDA acc, id : ClaimOne(c, acc, id), Silent(t), c.ids))

\* XPENDING group: how many entries are pending, and for each consumer that
\* has some how many.
xpendingCommand(cg) ==
  [total |-> Cardinality(DOMAIN cg.pel),
   consumers |-> LET some == {c \in DOMAIN cg.consumers : cg.consumers[c] # {}}
                 IN [c \in some |-> Cardinality(cg.consumers[c])]]

\* XRANGE and XREVRANGE.
xrangeGenericCommand(s, start, end, rev) == streamIteratorGetID(s, start, end, rev)

\* XINFO STREAM: the first and the last entry come from two iterations.
xinfoCommand(s) ==
  [length |-> s.length, nodes |-> Len(s.nodes), last_id |-> s.last_id,
   groups |-> Cardinality(DOMAIN s.cgroups),
   first |-> SubSeq(xrangeGenericCommand(s, 0, Max(AllIds), FALSE), 1, 1),
   last |-> SubSeq(xrangeGenericCommand(s, 0, Max(AllIds), TRUE), 1, 1)]

Execute(c, s, nodeMax) ==
  CASE c.name = "xadd" -> xaddCommand(c, s, nodeMax)
    [] c.name = "xdel" -> xdelCommand(c, s)
    [] c.name = "xtrim" -> xtrimCommand(c, s)
    [] c.name = "xsetid" -> xsetidCommand(c, s)
    [] c.name = "create" -> xgroupCreate(c, s)
    [] c.name = "setid" -> xgroupSetid(c, s)
    [] c.name = "destroy" -> xgroupDestroy(c, s)
    [] c.name = "delconsumer" -> xgroupDelconsumer(c, s)
    [] c.name = "xack" -> xackCommand(c, s)
    [] c.name = "xreadgroup" -> xreadCommand(c, s)
    [] c.name = "xclaim" -> xclaimCommand(c, s)

-----------------------------------------------------------------------------
Init ==
  /\ scenario \in Scenarios
  /\ master = NoStream
  /\ replica = NoStream
  /\ steps = 0

\* A client command runs on the master, and the replica applies what it propagates.
Call(c) ==
  /\ c.name \in scenario.Commands
  /\ steps < scenario.Length
  /\ steps' = steps + 1
  /\ \E r \in {Execute(c, master, scenario.NodeMax)} :
        /\ master' = r.s
        /\ replica' = FoldLeft(LAMBDA t, p : Execute(p, t, scenario.ReplicaNodeMax).s,
                               replica, r.prop)
  /\ UNCHANGED scenario

IdSeqs == {<<i>> : i \in Ids} \cup {<<i, j>> : i, j \in Ids}

\* Bound: clients and the clock leave the greatest sequence part unused.
SeqNotExhausted(ms) == streamNextID(master.last_id, ms) \in Ids

\* XADD of the ID 0-0, which is always refused, is left to the Zero scenarios.
Xadd == \E id \in (Ids \cup {-1}) \ (IF "zero" \in scenario.Commands THEN {} ELSE {0}),
           ms \in 0..scenario.MaxMs, len \in scenario.MaxLens \cup {-1}, approx \in BOOLEAN :
  /\ id # -1 => ms = 0
  /\ id = -1 => SeqNotExhausted(ms)
  /\ len = -1 => ~ approx
  /\ Call([name |-> "xadd", id |-> id, ms |-> ms, maxlen |-> len, approx |-> approx])

Xdel == master.exists /\ \E ids \in IdSeqs : Call([name |-> "xdel", ids |-> ids])

Xtrim == master.exists /\ \E len \in scenario.MaxLens, approx \in BOOLEAN :
  Call([name |-> "xtrim", maxlen |-> len, approx |-> approx])

Xsetid == \E id \in Ids : Call([name |-> "xsetid", id |-> id])

XgroupCreate == \E g \in scenario.Groups, id \in {-1, 0}, mk \in BOOLEAN :
  Call([name |-> "create", group |-> g, id |-> id, mkstream |-> mk])

XgroupSetid == \E g \in scenario.Groups, id \in Ids \cup {-1} :
  Call([name |-> "setid", group |-> g, id |-> id])

XgroupDestroy == \E g \in scenario.Groups : Call([name |-> "destroy", group |-> g])

XgroupDelconsumer == \E g \in scenario.Groups, c \in scenario.Consumers :
  Call([name |-> "delconsumer", group |-> g, consumer |-> c])

Xack == \E g \in scenario.Groups, ids \in IdSeqs :
  Call([name |-> "xack", group |-> g, ids |-> ids])

Xreadgroup == \E g \in scenario.Groups, c \in scenario.Consumers, count \in 0..1,
                 noack, hist \in BOOLEAN :
  Call([name |-> "xreadgroup", group |-> g, consumer |-> c, count |-> count,
        noack |-> noack, hist |-> hist])

Xclaim == \E g \in scenario.Groups, c \in scenario.Consumers, ids \in IdSeqs, force \in BOOLEAN,
             lastid \in Ids : \E idle \in SUBSET ToSet(ids) :
  Call([name |-> "xclaim", group |-> g, consumer |-> c, ids |-> ids, force |-> force,
        idle |-> idle, lastid |-> lastid])

Next == Xadd \/ Xdel \/ Xtrim \/ Xsetid \/ XgroupCreate \/ XgroupSetid \/ XgroupDestroy
          \/ XgroupDelconsumer \/ Xack \/ Xreadgroup \/ Xclaim

Spec == Init /\ [][Next]_vars

-----------------------------------------------------------------------------
Streams == {master, replica}

\* The entries of a stream that are not deleted, whatever node they are in.
Live(s) == UNION {{e.id : e \in {x \in ToSet(s.nodes[n].entries) : ~ x.deleted}}
                    : n \in DOMAIN s.nodes}

\* The pending list of a group and those of its consumers agree: an entry is in
\* the list of exactly the consumer its NACK names, so that XACK, XCLAIM and
\* DELCONSUMER find it in both, the "NACK half-created" panic of
\* streamReplyWithRange is unreachable, and XPENDING adds up.
PelsAgree ==
  \A s \in Streams : \A g \in DOMAIN s.cgroups :
    LET cg == s.cgroups[g]
        x == xpendingCommand(cg)
    IN /\ \A c \in DOMAIN cg.consumers : cg.consumers[c] = {id \in DOMAIN cg.pel : cg.pel[id] = c}
       /\ x.total = FoldFunction(+, 0, x.consumers)

\* Whatever commands run, the replica ends up with the entries, the last IDs,
\* the groups and the owners of pending entries of the master, although its
\* nodes are cut differently, IDs are generated by the clock of the master and
\* XREADGROUP and XCLAIM are only propagated through what they changed.
\* Consumers with no pending entry are not part of it: they are not propagated.
ReplicaInSync ==
  /\ master.exists = replica.exists
  /\ Live(master) = Live(replica)
  /\ master.last_id = replica.last_id
  /\ DOMAIN master.cgroups = DOMAIN replica.cgroups
  /\ \A g \in DOMAIN master.cgroups :
       /\ master.cgroups[g].last_id = replica.cgroups[g].last_id
       /\ master.cgroups[g].pel = replica.cgroups[g].pel

\* The counters of the nodes and of the stream tell the truth after every mix of
\* appends, deletions and trims, and no node is left without a valid entry.
CountersAgree(s) ==
  /\ \A n \in DOMAIN s.nodes :
       LET live == {e \in ToSet(s.nodes[n].entries) : ~ e.deleted}
       IN /\ s.nodes[n].count = Cardinality(live)
          /\ s.nodes[n].count > 0
          /\ s.nodes[n].deleted + s.nodes[n].count = Len(s.nodes[n].entries)
  /\ s.length = Cardinality(Live(s))

\* XRANGE and XREVRANGE return exactly the live entries of the range, in order,
\* although the iteration starts at a node it looked up and stops at the first
\* entry out of range.
RangeExact(s) ==
  \A start, end \in Ids :
    LET up == xrangeGenericCommand(s, start, end, FALSE)
    IN /\ ToSet(up) = {id \in Live(s) : start <= id /\ id <= end}
       /\ \A i, j \in DOMAIN up : i < j => up[i] < up[j]
       /\ xrangeGenericCommand(s, start, end, TRUE) = Reverse(up)

\* On master and replica the counters that appending, deleting and trimming keep
\* are right, ranges are exact, and XINFO reports the first and the last entry.
EntriesExact ==
  \A s \in Streams :
    /\ CountersAgree(s)
    /\ RangeExact(s)
    /\ LET x == xinfoCommand(s)
       IN s.length > 0 => x.first = <<Min(Live(s))>> /\ x.last = <<Max(Live(s))>>
=============================================================================
