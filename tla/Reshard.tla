------------------------------ MODULE Reshard -------------------------------
(***************************************************************************)
(* Moving one hash slot between the masters of a cluster while clients use *)
(* its keys: CLUSTER SETSLOT, MIGRATE, RESTORE-ASKING and the redirection  *)
(* of queries in src/src/cluster.c, driven by the reshard and fix commands *)
(* of src/src/redis-cli.c.                                                 *)
(*                                                                         *)
(* The masters own other slots too, so none of them is demoted when it     *)
(* loses this one. A header reaches its receiver in the step that sends it *)
(* (Cluster has delays). redis-cli is a program: the list of the commands  *)
(* it has still to send, one step each; it may be killed at any time.      *)
(***************************************************************************)
EXTENDS Integers, Sequences, SequencesExt, FiniteSetsExt, TLC

CONSTANTS
    Nodes,      \* the masters, in the order of redis-cli's list: a sequence
    Keys,       \* the keys of the slot
    Scenarios   \* what may happen, and how often: records with the fields below

VARIABLES
    conf,    \* per node: owner, migrating, importing, epochs, currentEpoch
    db,      \* per node and key: the value, or None
    mig,     \* the MIGRATE in progress
    chan,    \* RESTORE commands on their way, in order
    cli,     \* redis-cli: phase, todo, keys being moved, how, connections lost
    client,  \* a client: where its query goes next, or Idle
    hist,    \* history: the last value written to each key, and what went wrong
    used     \* the scenario, and how often each event has happened

vars == <<conf, db, mig, chan, cli, client, hist, used>>

NULL == "null"
None == [key |-> NULL, ver |-> 0]                 \* the key does not exist
Idle == [at |-> NULL, keys |-> {}, write |-> FALSE, asking |-> FALSE]
NoMigrate == [src |-> NULL, dst |-> NULL, kv |-> <<>>, ov |-> <<>>, replace |-> FALSE,
              replies |-> <<>>, id |-> 0, may_retry |-> FALSE]

Node == Range(Nodes)
MaxEpoch == used.scenario.MaxEpoch
Volatile == used.scenario.Volatile     \* keys that may expire during MIGRATE
CheckOwners == used.scenario.CheckOwners    \* the option of the fix command
MaxQueryKeys == used.scenario.MaxQueryKeys
MayHappen(e) == e \in DOMAIN used.events /\ used.events[e] < used.scenario.Events[e]
Event(e) == MayHappen(e) /\ used' = [used EXCEPT !.events[e] = @ + 1]

CountKeysInSlot(n) == Cardinality({k \in Keys : db[n][k] # None})

-----------------------------------------------------------------------------
\* The configuration of a node.

clusterBumpConfigEpochWithoutConsensus(x, me) ==
    LET mine == x.epochs[me]
    IN  IF mine # 0 /\ mine = Max({x.currentEpoch} \cup {x.epochs[n] : n \in Node}) THEN x
        ELSE [x EXCEPT !.currentEpoch = @ + 1, !.epochs[me] = x.currentEpoch + 1]

\* What SETSLOT, ADDSLOTS, DELSLOTS and BUMPEPOCH make of configuration x of
\* node c.node; CommandFails says when they reply with an error instead.
SetslotNode(x, me, n) ==
    LET y == IF CountKeysInSlot(me) = 0 THEN [x EXCEPT !.migrating = NULL] ELSE x
        z == IF n = me /\ y.importing # NULL
             THEN [clusterBumpConfigEpochWithoutConsensus(y, me) EXCEPT !.importing = NULL] ELSE y
    IN  [z EXCEPT !.owner = n]

SetOwner(x, me, clear) ==
    clusterBumpConfigEpochWithoutConsensus(
        [x EXCEPT !.owner = me, !.importing = NULL, !.migrating = IF clear THEN NULL ELSE @], me)

clusterCommand(x, c) ==
    CASE c.op = "migrating" -> [x EXCEPT !.migrating = c.arg]
      [] c.op = "importing" -> [x EXCEPT !.importing = c.arg]
      [] c.op = "stable"    -> [x EXCEPT !.migrating = NULL, !.importing = NULL]
      [] c.op = "node"      -> SetslotNode(x, c.node, c.arg)
      [] c.op = "setowner"  -> SetOwner(x, c.node, c.arg = "clear")
      [] c.op = "delslots"  -> [x EXCEPT !.owner = NULL, !.importing = NULL]
      [] c.op = "bump"      -> clusterBumpConfigEpochWithoutConsensus(x, c.node)

CommandFails(x, c) ==
    CASE c.op = "migrating" -> x.owner # c.node
      [] c.op = "importing" -> x.owner = c.node
      [] c.op = "node"      -> x.owner = c.node /\ c.arg # c.node /\ CountKeysInSlot(c.node) # 0
      [] OTHER -> c.op = "unhandled"

\* n tells m what it owns.
Announce(n, m) ==
    LET x == [conf[m] EXCEPT !.epochs[n] = Max({@, conf[n].epochs[n]}),
                             !.currentEpoch = Max({@, conf[n].currentEpoch})]
        taken == /\ conf[n].owner = n /\ x.owner # n /\ x.importing = NULL
                 /\ x.owner = NULL \/ x.epochs[x.owner] < conf[n].epochs[n]
    IN  /\ n # m /\ mig.src \notin {n, m}
        /\ conf' = [conf EXCEPT ![m] = IF taken THEN [x EXCEPT !.owner = n] ELSE x]
        /\ db' = [db EXCEPT ![m] = IF taken /\ conf[m].owner = m THEN [k \in Keys |-> None] ELSE @]
        /\ UNCHANGED <<mig, chan, cli, client, hist, used>>

\* A restarted node finds keys of a slot it does not own. redis-cli has lost
\* its connection.
verifyClusterConfigWithData(n) ==
    LET x == conf[n]
        astray == CountKeysInSlot(n) # 0 /\ x.owner # n /\ x.importing = NULL
    IN  /\ Event("restart")
        /\ mig.src # n
        /\ conf' = [conf EXCEPT ![n] = IF ~astray THEN x
                                       ELSE IF x.owner = NULL THEN [x EXCEPT !.owner = n]
                                       ELSE [x EXCEPT !.importing = x.owner]]
        /\ cli' = IF cli.todo = <<>> THEN cli ELSE [cli EXCEPT !.lost = @ \cup {n}]
        /\ UNCHANGED <<db, mig, chan, client, hist>>

-----------------------------------------------------------------------------
\* Queries.

\* Where node me sends a query for some keys of the slot.
Answer(kind, n) == [kind |-> kind, node |-> n]

\* A plausible slip: an importing node serves queries that do not ask.
ServeImporting(me, keys, asking) ==
    LET x == conf[me]
        migrating == x.owner = me /\ x.migrating # NULL
        missing == \E k \in keys : db[me][k] = None
    IN  IF x.owner = NULL THEN Answer("down", NULL)
        ELSE IF migrating /\ missing THEN Answer("ask", x.migrating)
        ELSE IF x.importing # NULL THEN Answer("none", me)
        ELSE IF x.owner # me THEN Answer("moved", x.owner) ELSE Answer("none", me)

getNodeByQuery(me, keys, asking) ==
    LET x == conf[me]
        migrating == x.owner = me /\ x.migrating # NULL
        importing == ~migrating /\ x.importing # NULL
        missing == \E k \in keys : db[me][k] = None
    IN  IF x.owner = NULL THEN Answer("down", NULL)
        ELSE IF migrating /\ missing THEN Answer("ask", x.migrating)
        ELSE IF importing /\ asking
        THEN IF Cardinality(keys) > 1 /\ missing THEN Answer("tryagain", NULL) ELSE Answer("none", me)
        ELSE IF x.owner # me THEN Answer("moved", x.owner) ELSE Answer("none", me)

\* A client starts with any node and follows the redirections.
SendQuery ==
    /\ client = Idle
    /\ \E n \in Node, keys \in SUBSET Keys \ {{}}, w \in BOOLEAN :
        /\ Cardinality(keys) <= MaxQueryKeys
        /\ w => MayHappen("write")
        /\ client' = [at |-> n, keys |-> keys, write |-> w, asking |-> FALSE]
    /\ UNCHANGED <<conf, db, mig, chan, cli, hist, used>>

ProcessQuery ==
    LET n == client.at
        a == getNodeByQuery(n, client.keys, client.asking)
    IN  /\ client # Idle /\ n # mig.src
        /\ client' = CASE a.kind = "ask"   -> [client EXCEPT !.at = a.node, !.asking = TRUE]
                       [] a.kind = "moved" -> [client EXCEPT !.at = a.node, !.asking = FALSE]
                       [] OTHER -> Idle
        /\ IF a.kind = "none" /\ client.write
           THEN LET new(k) == [key |-> k, ver |-> hist.last[k].ver + 1]
                IN  /\ Event("write")
                    /\ db' = [db EXCEPT ![n] = [k \in Keys |-> IF k \in client.keys THEN new(k) ELSE @[k]]]
                    /\ hist' = [hist EXCEPT !.last = [k \in Keys |-> IF k \in client.keys THEN new(k) ELSE @[k]]]
           ELSE /\ hist' = [hist EXCEPT !.stale = @ \/ (a.kind = "none" /\
                                \E k \in client.keys : db[n][k] # hist.last[k])]
                /\ UNCHANGED <<db, used>>
        /\ UNCHANGED <<conf, mig, chan, cli>>

-----------------------------------------------------------------------------
\* MIGRATE. The source does nothing else until it is done.

Running == {"reshard", "open", "coverage", "owners"}
CliIdle == [phase |-> "none", todo |-> <<>>, keys |-> <<>>, fix |-> FALSE, replace |-> FALSE, again |-> FALSE,
            lost |-> {}, result |-> TRUE]

\* A phase ends with an error.
Failed(c) == [c EXCEPT !.todo = <<>>, !.keys = <<>>, !.replace = FALSE, !.again = FALSE, !.result = FALSE]

Cmd(op, n, arg) == [op |-> op, node |-> n, arg |-> arg]
Restores(m, kv, ov) ==
    [j \in 1..Len(kv) |-> [dst |-> m.dst, key |-> kv[j], val |-> ov[j], replace |-> m.replace, id |-> m.id]]

\* Keys that have expired since they were looked up are left out; kv is
\* compacted for a second attempt, ov is not.
Attempt(m, pipe, gone) ==
    LET at == SetToSortSeq({j \in 1..Len(m.kv) : m.kv[j] \notin gone}, <)
        kv == [j \in 1..Len(at) |-> m.kv[at[j]]]
    IN  /\ mig' = [m EXCEPT !.kv = kv]
        /\ chan' = pipe \o Restores(m, kv, [j \in 1..Len(at) |-> m.ov[at[j]]])

migrateCommand ==
    LET c == Head(cli.todo)
        here == SelectSeq(cli.keys, LAMBDA k : db[c.node][k] # None)
    IN  /\ cli.todo # <<>> /\ c.op = "keys" /\ cli.keys # <<>> /\ mig = NoMigrate
        /\ conf[c.node].migrating # NULL \/ conf[c.node].importing # NULL \/ conf[c.node].owner = c.node
        /\ here # <<>> /\ c.node \notin cli.lost
        /\ \E gone \in SUBSET Volatile :
            Attempt([src |-> c.node, dst |-> c.arg, kv |-> here, ov |-> [j \in 1..Len(here) |-> db[c.node][here[j]]],
                     replace |-> cli.replace, replies |-> <<>>, id |-> used.migrates + 1, may_retry |-> TRUE], chan, gone)
        /\ used' = [used EXCEPT !.migrates = @ + 1]
        /\ UNCHANGED <<conf, db, cli, client, hist>>

\* The target executes RESTORE-ASKING.
restoreCommand ==
    LET r == Head(chan)
        a == getNodeByQuery(r.dst, {r.key}, TRUE)
        reply == IF a.kind = "down" THEN "notserved" ELSE IF a.kind # "none" THEN "error"
                 ELSE IF ~r.replace /\ db[r.dst][r.key] # None THEN "busy" ELSE "ok"
    IN  /\ chan # <<>> /\ r.dst # mig.src
        /\ db' = IF reply = "ok" THEN [db EXCEPT ![r.dst][r.key] = r.val] ELSE db
        /\ chan' = Tail(chan)
        /\ mig' = IF r.id = mig.id THEN [mig EXCEPT !.replies = Append(@, reply)] ELSE mig
        /\ hist' = [hist EXCEPT !.mixed = @ \/ (reply = "ok" /\ r.val.key # r.key)]
        /\ UNCHANGED <<conf, cli, client, used>>

\* The source has read the replies, or some of them before an error: it deletes
\* what was acknowledged, and redis-cli goes on, or gives up.
Finish(replies, error) ==
    LET acked == {mig.kv[j] : j \in {i \in 1..Len(replies) : replies[i] = "ok"}}
        bad == SelectSeq(replies, LAMBDA r : r # "ok")
        why == IF bad # <<>> THEN bad[1] ELSE IF error THEN "ioerr" ELSE "ok"
        src == mig.src
        again == cli.fix /\ why \in {"busy", "notserved"} /\ ~cli.again
    IN  /\ db' = [db EXCEPT ![src] = [k \in Keys |-> IF k \in acked THEN None ELSE @[k]]]
        /\ mig' = NoMigrate
        /\ cli' = IF why = "ok" THEN [cli EXCEPT !.keys = <<>>, !.replace = FALSE, !.again = FALSE]
                  ELSE IF again
                  THEN [cli EXCEPT !.again = TRUE, !.replace = why = "busy",
                                   !.todo = IF why = "busy" THEN @
                                            ELSE <<Cmd("try_node", src, Head(@).arg)>> \o @]
                  ELSE Failed(cli)
        /\ UNCHANGED <<conf, client, hist>>

MigrateDone == mig # NoMigrate /\ Len(mig.replies) = Len(mig.kv) /\ Finish(mig.replies, FALSE) /\ UNCHANGED <<chan, used>>

\* A timeout: what was sent may still arrive.
MigrateTimeout ==
    /\ Event("timeout")
    /\ mig # NoMigrate
    /\ \E n \in 0..(Len(mig.kv) - 1) : n <= Len(mig.replies) /\ Finish(SubSeq(mig.replies, 1, n), TRUE)
    /\ UNCHANGED chan

\* The connection fails: nothing more arrives. Before the first reply, the
\* source connects again.
MigrateError ==
    LET rest == SelectSeq(chan, LAMBDA r : r.id # mig.id)
    IN  /\ Event("error")
        /\ mig # NoMigrate
        /\ \E n \in 0..(Len(mig.kv) - 1) :
            /\ n <= Len(mig.replies)
            /\ IF n = 0 /\ mig.may_retry
               THEN /\ \E gone \in SUBSET Volatile :
                        Attempt([mig EXCEPT !.may_retry = FALSE, !.replies = <<>>], rest, gone)
                    /\ UNCHANGED <<conf, db, cli, client, hist>>
               ELSE Finish(SubSeq(mig.replies, 1, n), TRUE) /\ chan' = rest

-----------------------------------------------------------------------------
\* redis-cli.

ForNodes(set, f(_)) == FlattenSeq([i \in 1..Len(Nodes) |-> IF Nodes[i] \in set THEN f(Nodes[i]) ELSE <<>>])

clusterManagerMoveSlot(src, dst, cold) ==
    IF cold THEN <<Cmd("keys", src, dst)>>
    ELSE <<Cmd("importing", dst, src), Cmd("migrating", src, dst), Cmd("keys", src, dst)>>
         \o ForNodes(Node, LAMBDA n : <<Cmd("node", n, dst)>>)

clusterManagerGetNodeWithMostKeysInSlot(set) ==
    LET most == Max({CountKeysInSlot(n) : n \in set})
        i == CHOOSE i \in 1..Len(Nodes) : /\ Nodes[i] \in set /\ CountKeysInSlot(Nodes[i]) = most
                                          /\ \A j \in 1..(i - 1) : Nodes[j] \in set => CountKeysInSlot(Nodes[j]) < most
    IN  Nodes[i]

Claims(n) == conf[n].owner = n
HasKeys(n) == CountKeysInSlot(n) > 0
Open == \E n \in Node : conf[n].migrating # NULL \/ conf[n].importing # NULL

\* The owner, or NULL when a new one has to be chosen.
OpenSlotOwner ==
    LET owners == {n \in Node : Claims(n) \/ HasKeys(n)}
    IN  IF Cardinality(owners) = 1 THEN CHOOSE n \in owners : TRUE ELSE NULL

\* Which nodes hold the slot open decides how it is closed.
CloseSlot(owner, migrating, importing) ==
    LET src == CHOOSE n \in migrating : TRUE
        dst == CHOOSE n \in importing : TRUE
        to == conf[src].migrating
        stable(n) == <<Cmd("stable", n, NULL)>>
    IN  CASE Cardinality(migrating) = 1 /\ Cardinality(importing) = 1 ->
                clusterManagerMoveSlot(src, dst, FALSE)
          [] migrating = {} /\ importing # {} ->
                ForNodes(importing \ {owner}, LAMBDA n : clusterManagerMoveSlot(n, owner, TRUE) \o stable(n))
                \o ForNodes(Node \ {owner}, LAMBDA n : <<Cmd("node", n, owner)>>)
          [] Cardinality(migrating) = 1 /\ Cardinality(importing) > 1 /\ ~\E n \in importing : HasKeys(n) ->
                IF to \in importing
                THEN clusterManagerMoveSlot(src, to, FALSE) \o ForNodes(importing \ {to}, stable)
                ELSE stable(src) \o ForNodes(importing, stable)
          [] Cardinality(migrating) = 1 /\ importing = {} /\ (owner = src \/ ~HasKeys(src)) -> stable(src)
          [] OTHER -> <<Cmd("unhandled", owner, NULL)>>

clusterManagerFixOpenSlot ==
    LET owners == {n \in Node : Claims(n) \/ HasKeys(n)}
        known == OpenSlotOwner
        owner == IF known # NULL THEN known ELSE clusterManagerGetNodeWithMostKeysInSlot(Node)
        others == IF Cardinality(owners) > 1 THEN owners \ {owner} ELSE {}
        migrating == {n \in Node : conf[n].migrating # NULL}
        importing == {n \in Node \ migrating : conf[n].importing # NULL \/ (n # known /\ HasKeys(n))}
        chosen == IF known = NULL THEN {owner} ELSE {}
        choose == IF known # NULL THEN <<>>
                  ELSE <<Cmd("stable", owner, NULL), Cmd("setowner", owner, NULL), Cmd("bump", owner, NULL)>>
        single == ForNodes(others, LAMBDA n : <<Cmd("delslots", n, NULL), Cmd("node", n, owner), Cmd("importing", n, owner)>>)
    IN  choose \o single \o CloseSlot(owner, migrating \ (chosen \cup others), (importing \ chosen) \cup others)

\* No node claims the slot: a node with keys, or any node, becomes its owner.
clusterManagerFixSlotsCoverage(random) ==
    LET holders == {n \in Node : HasKeys(n)}
        target == clusterManagerGetNodeWithMostKeysInSlot(IF holders = {} THEN {random} ELSE holders)
    IN  <<Cmd("setowner", target, IF Cardinality(holders) > 1 THEN "clear" ELSE NULL)>> \o
        ForNodes(holders \ {target}, LAMBDA n : <<Cmd("node", n, target), Cmd("importing", n, target)>>
            \o clusterManagerMoveSlot(n, target, TRUE) \o <<Cmd("stable", n, NULL)>>)

\* Several nodes claim it, or have keys.
clusterManagerFixMultipleSlotOwners ==
    LET owner == clusterManagerGetNodeWithMostKeysInSlot({n \in Node : Claims(n) \/ HasKeys(n)})
    IN  <<Cmd("setowner", owner, NULL)>> \o
        ForNodes(Node \ {owner}, LAMBDA n : <<Cmd("delslots", n, NULL), Cmd("node", n, owner)>>
            \o IF HasKeys(n) THEN clusterManagerMoveSlot(n, owner, TRUE) ELSE <<>>)

\* What the fix command does in each phase; the last one is an option.
Program(phase, random) ==
    LET claims == {n \in Node : Claims(n)}
        owners == claims \cup {n \in Node : HasKeys(n)}
    IN  CASE phase = "open" /\ Open -> clusterManagerFixOpenSlot
          [] phase = "coverage" /\ claims = {} -> clusterManagerFixSlotsCoverage(random)
          [] phase = "owners" /\ CheckOwners /\ Cardinality(owners) > 1 -> clusterManagerFixMultipleSlotOwners
          [] OTHER -> <<>>

Consistent == \A n, m \in Node : conf[n].owner = conf[m].owner
\* A phase begins.
clusterManagerCheckCluster(c, phase, random) ==
    LET p == Program(phase, random)
    IN  [c EXCEPT !.phase = phase, !.todo = p, !.result = @ \/ p # <<>>]

clusterManagerCommandReshard ==
    /\ Event("reshard")
    /\ cli.phase \notin Running
    /\ ~Open /\ Consistent
    /\ \E src, dst \in Node :
        /\ src # dst /\ Claims(src)
        /\ cli' = [CliIdle EXCEPT !.phase = "reshard", !.todo = clusterManagerMoveSlot(src, dst, FALSE)]
    /\ UNCHANGED <<conf, db, mig, chan, client, hist>>

clusterManagerCommandFix ==
    /\ Event("fix")
    /\ cli.phase \notin Running
    /\ cli' = clusterManagerCheckCluster([CliIdle EXCEPT !.fix = TRUE, !.result = Consistent], "open", NULL)
    /\ hist' = [hist EXCEPT !.robbed = @ \/ (Open /\ OpenSlotOwner = NULL /\ \E n \in Node : Claims(n))]
    /\ UNCHANGED <<conf, db, mig, chan, client>>

\* The end of a phase.
NextPhase ==
    /\ cli.todo = <<>> /\ cli.phase \in Running
    /\ \E random \in Node :
        cli' = CASE cli.phase = "open"     -> clusterManagerCheckCluster(cli, "coverage", random)
                 [] cli.phase = "coverage" -> clusterManagerCheckCluster(cli, "owners", random)
                 [] OTHER                  -> [cli EXCEPT !.phase = "over"]
    /\ UNCHANGED <<conf, db, mig, chan, client, hist, used>>

\* The next command of redis-cli. Most errors end the program.
CliCommand ==
    LET c == Head(cli.todo)
        x == conf[c.node]
    IN  /\ cli.todo # <<>> /\ c.op # "keys" /\ c.node # mig.src
        /\ x.currentEpoch < MaxEpoch
        /\ IF c.op = "try_node"
           THEN LET d == [c EXCEPT !.op = "node"]
                IN  /\ conf' = IF c.node \in cli.lost \/ CommandFails(x, d) THEN conf ELSE [conf EXCEPT ![c.node] = clusterCommand(x, d)]
                    /\ cli' = [cli EXCEPT !.todo = Tail(@)]
           ELSE IF c.node \in cli.lost \/ CommandFails(x, c)
           THEN cli' = Failed(cli) /\ UNCHANGED conf
           ELSE /\ conf' = [conf EXCEPT ![c.node] = clusterCommand(x, c)]
                /\ cli' = [cli EXCEPT !.todo = Tail(@)]
        /\ UNCHANGED <<db, mig, chan, client, hist, used>>

\* An operator sends such a command by hand.
ByHand ==
    /\ Event("byhand")
    /\ cli.phase = "none"
    /\ \E n, arg \in Node, op \in {"migrating", "importing", "delslots"} :
        LET c == Cmd(op, n, arg)
        IN  /\ arg # n /\ ~CommandFails(conf[n], c)
            /\ conf' = [conf EXCEPT ![n] = clusterCommand(@, c)]
    /\ UNCHANGED <<db, mig, chan, cli, client, hist>>

\* CLUSTER GETKEYSINSLOT, with a pipeline of any length: no keys, no MIGRATE.
clusterManagerMigrateKeysInSlot ==
    LET c == Head(cli.todo)
        have == {k \in Keys : db[c.node][k] # None}
    IN  /\ cli.todo # <<>> /\ c.op = "keys" /\ cli.keys = <<>> /\ mig = NoMigrate
        /\ IF c.node \in cli.lost THEN cli' = Failed(cli)
           ELSE IF have = {} THEN cli' = [cli EXCEPT !.todo = Tail(@)]
           ELSE \E s \in SUBSET have \ {{}} : cli' = [cli EXCEPT !.keys = SetToSeq(s)]
        /\ UNCHANGED <<conf, db, mig, chan, client, hist, used>>

\* MIGRATE answers at once: there is no such key, or the slot is not here.
MigrateNothing ==
    LET c == Head(cli.todo)
        x == conf[c.node]
        redirected == x.migrating = NULL /\ x.importing = NULL /\ x.owner # c.node
    IN  /\ cli.todo # <<>> /\ c.op = "keys" /\ cli.keys # <<>> /\ mig = NoMigrate
        /\ IF redirected \/ c.node \in cli.lost THEN cli' = Failed(cli)
           ELSE /\ \A j \in DOMAIN cli.keys : db[c.node][cli.keys[j]] = None
                /\ cli' = [cli EXCEPT !.keys = <<>>]
        /\ UNCHANGED <<conf, db, mig, chan, client, hist, used>>

\* A reshard is interrupted.
Kill ==
    /\ Event("kill")
    /\ ~cli.fix
    /\ cli.todo # <<>> /\ mig = NoMigrate
    /\ cli' = [CliIdle EXCEPT !.phase = "over", !.result = FALSE]
    /\ UNCHANGED <<conf, db, mig, chan, client, hist>>

-----------------------------------------------------------------------------
Init ==
    /\ used \in {[scenario |-> s, migrates |-> 0, events |-> [e \in DOMAIN s.Events |-> 0]] : s \in Scenarios}
    /\ conf = [n \in Node |-> [owner |-> Nodes[1], migrating |-> NULL, importing |-> NULL, currentEpoch |-> Len(Nodes),
                               epochs |-> [m \in Node |-> CHOOSE i \in 1..Len(Nodes) : Nodes[i] = m]]]
    /\ db = [n \in Node |-> [k \in Keys |-> IF n = Nodes[1] THEN [key |-> k, ver |-> 1] ELSE None]]
    /\ mig = NoMigrate /\ chan = <<>> /\ cli = CliIdle /\ client = Idle
    /\ hist = [last |-> [k \in Keys |-> [key |-> k, ver |-> 1]], stale |-> FALSE, mixed |-> FALSE, robbed |-> FALSE]

Next ==
    \/ \E n, m \in Node : Announce(n, m)
    \/ \E n \in Node : verifyClusterConfigWithData(n)
    \/ MayHappen("query") /\ SendQuery
    \/ ProcessQuery
    \/ migrateCommand \/ restoreCommand \/ MigrateDone \/ MigrateTimeout \/ MigrateError \/ MigrateNothing
    \/ clusterManagerCommandReshard \/ clusterManagerCommandFix \/ NextPhase \/ CliCommand
    \/ ByHand \/ clusterManagerMigrateKeysInSlot \/ Kill

Spec == Init /\ [][Next]_vars

-----------------------------------------------------------------------------
\* Properties.

\* A query that is not redirected sees the last value written to each of its
\* keys, wherever a migration has got to: no key is lost, duplicated with an
\* old value, or looked for in the wrong node.
ServedIsLatest == ~hist.stale

\* MIGRATE stores each value under its own key.
ValueWithKey == ~hist.mixed

\* When the fix command has succeeded, no more than one node claims the slot,
\* and that node has all the keys.
FixRestores ==
    cli.phase = "over" /\ cli.fix /\ cli.result => \E o \in Node :
        /\ \A n \in Node : Claims(n) => n = o
        /\ \A k \in Keys : db[o][k] = hist.last[k]

\* The fix command chooses an owner for an open slot only "if there is no slot
\* owner".
FixKeepsOwner == ~hist.robbed
=============================================================================
