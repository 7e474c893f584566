------------------------------- MODULE MCServer -------------------------------
(***************************************************************************)
(* The data types, the data structures below them, and the parts of the    *)
(* server around the keyspace, its clients and its modules, each a part of *)
(* its own: a behaviour of this module is a behaviour of one of the parts. *)
(* The parts share the variables.                                          *)
(***************************************************************************)
EXTENDS Integers, Sequences, FiniteSets, TLC

CONSTANT Texts    \* the scenarios of the strings

VARIABLES part, scenario, one, two, three, four

vars == <<part, scenario, one, two, three, four>>

-----------------------------------------------------------------------------
(* Hash tables of 1 to 8 buckets, with a scan across calls and with a       *)
(* safe iterator inside one.                                               *)

Scanned == [Hash |-> [a |-> 0, b |-> 5, c |-> 7], Bits |-> 3, InitialSize |-> 1,
            EmptyVisits |-> 1, ForceRatio |-> 1, MinFill |-> 60, Count |-> 1, Iterate |-> FALSE]

Iterated == [Hash |-> [a |-> 0, b |-> 2, c |-> 3], Bits |-> 3, InitialSize |-> 1,
             EmptyVisits |-> 2, ForceRatio |-> 1, MinFill |-> 60, Count |-> 2, Iterate |-> TRUE]

HashTable == INSTANCE Dict WITH Scenarios <- {Scanned, Iterated}, dict <- one, user <- two

-----------------------------------------------------------------------------
(* Radix trees over two characters: six keys, and fewer that are            *)
(* overwritten.                                                             *)

Tree == [Keys |-> {<<>>, <<1, 1>>, <<1, 1, 1>>, <<1, 1, 2>>, <<1, 2, 1>>, <<2, 1, 1>>},
         Alphabet |-> 1..2, MaxLen |-> 3, Values |-> {1}]

Overwritten == [Tree EXCEPT !.Keys = {<<>>, <<1, 1>>, <<1, 1, 1>>, <<1, 2, 1>>}, !.Values = {0, 1}]

RadixTree == INSTANCE Rax WITH Scenarios <- {Tree, Overwritten}, rax <- one, abstract <- two

-----------------------------------------------------------------------------
(* Sets: one of integers of three widths, and two or three that are         *)
(* combined.                                                                *)

Widths == [Keys |-> {"a"}, Elements |-> {-5, -2, 0, 1, 2, 4, 100}, Strings |-> {100},
           Max16 |-> 1, Max32 |-> 3, MaxIntset |-> 5, Counts |-> {1, 4, 6}]

Algebra == [Keys |-> {"a", "b"}, Elements |-> {1, 3, 100}, Strings |-> {100},
            Max16 |-> 1, Max32 |-> 2, MaxIntset |-> 1, Counts |-> {}]

ThreeSets == [Algebra EXCEPT !.Keys = {"a", "b", "c"}, !.Elements = {3, 100}]

Set == INSTANCE Sets WITH Scenarios <- {Widths, Algebra, ThreeSets}, db <- one, abstract <- two,
                          replica <- three, missed <- four

-----------------------------------------------------------------------------
(* Ziplists: an item of 2 bytes needs the long field behind it only when   *)
(* its own is long, one of 5 always, and one of 0 never.                   *)

Entries == {[Size |-> <<0, 2, 5>>, Header |-> <<1, 1, 2>>, Big |-> 8, MaxEntries |-> 4, LenLimit |-> 3],
            [Size |-> <<2, 5>>, Header |-> <<1, 2>>, Big |-> 8, MaxEntries |-> 5, LenLimit |-> 4]}

Packed == INSTANCE Ziplist WITH Scenarios <- Entries, zl <- one, abstract <- two

-----------------------------------------------------------------------------
(* Streams: two consumers that share a group, and many small nodes.        *)

GroupCommands == {"create", "setid", "destroy", "delconsumer", "xack", "xreadgroup", "xclaim"}

SharedGroup == [Commands |-> {"xadd", "xdel"} \cup GroupCommands,
                MaxMs |-> 0, SeqLimit |-> 4, NodeMax |-> 1, ReplicaNodeMax |-> 0,
                Groups |-> {"g"}, Consumers |-> {"a", "b"}, MaxLens |-> {}, Length |-> 6]

SmallNodes == [Commands |-> {"xadd", "xdel", "xtrim", "xsetid"},
               MaxMs |-> 2, SeqLimit |-> 3, NodeMax |-> 1, ReplicaNodeMax |-> 2,
               Groups |-> {}, Consumers |-> {}, MaxLens |-> {0, 1, 3}, Length |-> 5]

Stream == INSTANCE Streams WITH Scenarios <- {SharedGroup, SmallNodes}, master <- one, replica <- two,
                                steps <- three

-----------------------------------------------------------------------------
(* Sorted sets: skiplists of two levels with equal scores, and the limits  *)
(* at which a ziplist is converted.                                        *)

ZsetCommands == {"zadd", "zrem", "zremrange", "zpop"}

Skiplists == [Elements |-> 1..4, Scores |-> {0, 1}, MaxLevel |-> 2, MaxEntries |-> 0,
              LongElements |-> {}, Other |-> {}, Commands |-> ZsetCommands, TwoPairs |-> FALSE]

Conversions == [Elements |-> 1..3, Scores |-> {99, -99}, MaxLevel |-> 2, MaxEntries |-> 2,
                LongElements |-> {2}, Other |-> {1, 3}, Commands |-> ZsetCommands \cup {"zstore"},
                TwoPairs |-> TRUE]

SortedSet == INSTANCE Zset WITH Scenarios <- {Skiplists, Conversions}, zset <- one, abstract <- two

-----------------------------------------------------------------------------
(* Lists: every command on a list without compression, and those that do   *)
(* not leave a node open on one with a compressed middle.                  *)

Lists == [Commands |-> {"push", "pushx", "pop", "rpoplpush", "lset", "linsert", "lrem", "ltrim",
                       "read"},
          Values |-> {1, 2}, Fill |-> 2, Depth |-> 0, MinCompress |-> 1, MaxCount |-> 6,
          Ranges |-> {-7, -5, -3, -1, 0, 2, 3, 6}]

Compressed == [Commands |-> {"push", "pop", "rpoplpush", "lset", "ltrim"},
               Values |-> {1, 2}, Fill |-> 2, Depth |-> 1, MinCompress |-> 1, MaxCount |-> 7,
               Ranges |-> {-4, -2, -1, 0, 1, 3}]

List == INSTANCE Quicklist WITH Scenarios <- {Lists, Compressed}, list <- one, abstract <- two

-----------------------------------------------------------------------------
(* Strings: two keys with what creates, shares and changes objects; one key *)
(* with increments in a transaction; all the ranges of three strings.       *)

StringCommand(name, keys, vals, n, opt) == [name |-> name, keys |-> keys, vals |-> vals, n |-> n, opt |-> opt]

Sharing ==
  {StringCommand("set", <<"a">>, <<v>>, <<>>, {}) : v \in {<<2>>, <<8>>, <<11, 11, 11>>}}
  \cup {StringCommand("set", <<"b">>, <<<<2>>>>, <<>>, opt) : opt \in {{"ex"}, {"nx"}, {"xx"}}}
  \cup {StringCommand("incrby", <<"a">>, <<>>, <<n>>, {}) : n \in {1, 0 - 9}}
  \cup {StringCommand("append", <<k>>, <<<<2>>>>, <<>>, {}) : k \in {"a", "b"}}
  \cup {StringCommand("setrange", <<"a">>, <<v>>, <<n>>, {}) : v \in {<<>>, <<11, 11>>}, n \in {1, 3}}
  \cup {StringCommand("mset", <<"a", "b">>, <<<<8>>, <<2>>>>, <<>>, {}),
        StringCommand("mset", <<"a", "a">>, <<<<8>>, <<2>>>>, <<>>, {"nx"}),
        StringCommand("getset", <<"a">>, <<<<10, 3>>>>, <<>>, {}),
        StringCommand("del", <<"a">>, <<>>, <<>>, {}), StringCommand("push", <<"a">>, <<>>, <<>>, {})}

Increments ==
  {StringCommand("incrbyfloat", <<"a">>, <<<<2>>>>, <<2>>, {}), StringCommand("append", <<"a">>, <<<<2>>>>, <<>>, {}),
   StringCommand("incrby", <<"a">>, <<>>, <<1>>, {})}
  \cup {StringCommand("set", <<"a">>, <<v>>, <<>>, {}) : v \in {<<8>>, <<11>>}}

Ranges ==
  {StringCommand("set", <<"a">>, <<v>>, <<>>, {}) : v \in {<<>>, <<1, 2, 11>>, <<10, 3>>}}
  \cup {StringCommand("getrange", <<"a">>, <<>>, <<i, j>>, {}) : i \in (0 - 4)..3, j \in (0 - 4)..3}
  \cup {StringCommand("get", <<"a">>, <<>>, <<>>, {}), StringCommand("set", <<"a">>, <<<<2>>>>, <<>>, {"zero"})}

\* A key that is set with a time to live and incremented.
Expiring ==
  {StringCommand("set", <<"a">>, <<<<8>>>>, <<>>, {"ex"}), StringCommand("incrbyfloat", <<"a">>, <<<<2>>>>, <<2>>, {})}

StringScenarios ==
  {[Keys |-> {"a", "b"}, Commands |-> "sharing", NoShared |-> FALSE, MaxOps |-> 3],
   [Keys |-> {"a", "b"}, Commands |-> "sharing", NoShared |-> TRUE, MaxOps |-> 2],
   [Keys |-> {"a"}, Commands |-> "increments", NoShared |-> FALSE, MaxOps |-> 4],
   [Keys |-> {"a"}, Commands |-> "ranges", NoShared |-> FALSE, MaxOps |-> 2]}

ExpiringScenarios == {[Keys |-> {"a"}, Commands |-> "ttl", NoShared |-> FALSE, MaxOps |-> 3]}

Text == INSTANCE Strings WITH
          Scenarios <- Texts,
          CommandSets <- [sharing |-> Sharing, increments |-> Increments, ranges |-> Ranges, ttl |-> Expiring],
          srv <- one, queue <- two, seen <- three, reply <- four

-----------------------------------------------------------------------------
(* Hashes of up to three fields, of which one looks like an integer and one *)
(* only nearly, with each reason to convert them.                           *)

HashCommand(name, args, n) == [name |-> name, key |-> "h", args |-> args, n |-> n]

HashCommands ==
  {HashCommand(x, <<f, v>>, 0) : x \in {"hset", "hsetnx"}, f \in {<<2>>, <<11>>, <<0, 2>>}, v \in {<<2>>, <<11, 11>>}}
  \cup {HashCommand("hmset", <<<<11>>, <<2>>, <<2>>, <<11>>>>, 0), HashCommand("hset", <<<<11>>, <<2>>, <<11>>, <<8>>>>, 0)}
  \cup {HashCommand("hincrby", <<f>>, n) : f \in {<<11>>, <<2>>}, n \in {1, 0 - 9}}
  \cup {HashCommand("hincrbyfloat", <<f>>, 1) : f \in {<<11>>, <<2>>}}
  \cup {HashCommand(x, <<<<2>>>>, 0) : x \in {"hdel", "hlen", "hexists", "hstrlen", "hgetall", "del", "push"}}
  \cup {HashCommand("hmget", <<<<2>>, <<11>>>>, 0), HashCommand("hdel", <<<<2>>, <<11>>, <<2>>, <<0, 2>>>>, 0)}

Maps == {[Keys |-> {"h"}, Commands |-> "all", MaxEntries |-> l[1], MaxValue |-> l[2], MaxOps |-> 4] :
           l \in {<<1, 1>>, <<2, 2>>}}

HashMap == INSTANCE Hashes WITH Scenarios <- Maps, CommandSets <- [all |-> HashCommands], db <- one, seen <- two, reply <- three

-----------------------------------------------------------------------------
(* Keys of two DBs under every kind of policy, of which some values are    *)
(* large enough for the bio thread.                                        *)

Limit(size, ttl, policy, lazy, max, dbs, clock, ops, jobs, buffers) ==
  [Keys |-> DOMAIN size, Size |-> size, Ttl |-> ttl, Policy |-> policy, Lazy |-> lazy,
   MaxMemory |-> max, DbNum |-> dbs, Samples |-> 2, PoolSize |-> 2, ClockMax |-> clock,
   MaxCounter |-> 2, MaxBuffers |-> buffers, MaxTtl |-> 3, MaxJobs |-> jobs, Ops |-> ops]

Ka == <<0, "a">>
Kb == <<0, "b">>
Kc == <<0, "c">>
Kd == <<1, "d">>

Limits ==
  {Limit(Ka :> 3 @@ Kb :> 1 @@ Kc :> 1, Ka :> 0 @@ Kb :> 0 @@ Kc :> 0,
         "allkeys-lru", TRUE, 4, 1, 2, {"set", "get"}, 0, 0),
   Limit(Ka :> 3 @@ Kb :> 1 @@ Kd :> 1, Ka :> 1 @@ Kb :> 0 @@ Kd :> 1,
         "volatile-lfu", FALSE, 4, 2, 1, {"set", "get"}, 1, 0),
   Limit(Ka :> 3 @@ Kb :> 1 @@ Kc :> 1 @@ Kd :> 3, Ka :> 1 @@ Kb :> 2 @@ Kc :> 3 @@ Kd :> 1,
         "volatile-ttl", TRUE, 5, 2, 0, {"set", "unlink"}, 1, 0),
   Limit(Ka :> 3 @@ Kb :> 1 @@ Kd :> 3, Ka :> 1 @@ Kb :> 0 @@ Kd :> 0,
         "allkeys-random", TRUE, 4, 2, 0, {"set", "flushall"}, 1, 1),
   Limit(Ka :> 3 @@ Kb :> 1, Ka :> 1 @@ Kb :> 0, "noeviction", TRUE, 3, 1, 0, {"set", "unlink"}, 1, 0)}

Memory == INSTANCE Evict WITH Scenarios <- Limits, srv <- one, call <- two, mirror <- three

-----------------------------------------------------------------------------
(* Keys with a time to live, on a master with three DBs, on a node of a    *)
(* cluster, and on a writable replica.                                     *)

Life(role, local, master, dbs, cluster, slot, time, ops) ==
  [Role |-> role, LocalKeys |-> local, MasterKeys |-> master, DbNum |-> dbs, Cluster |-> cluster,
   Slot |-> slot, MaxTime |-> time, Ops |-> ops]

Lives ==
  {Life("master", {"k", "l"}, {}, 2, FALSE, "k" :> 0 @@ "l" :> 0, 1,
        {"set", "expire", "persist", "del", "rename", "move", "flush", "swapdb", "randomkey"}),
   Life("master", {"k"}, {}, 3, FALSE, "k" :> 0, 1, {"set", "cycle"}),
   Life("master", {"k", "l", "m"}, {}, 1, TRUE, "k" :> 0 @@ "l" :> 0 @@ "m" :> 1, 1,
        {"set", "expire", "del", "rename", "flush", "delslot"}),
   Life("replica", {"k", "l"}, {}, 2, FALSE, "k" :> 0 @@ "l" :> 0, 0,
        {"set", "expire", "persist", "rename", "move"}),
   Life("replica", {"k"}, {"m"}, 2, FALSE, "k" :> 0 @@ "m" :> 0, 1,
        {"set", "expire", "del", "flush", "randomkey"})}

Keyspace == INSTANCE Expires WITH Scenarios <- Lives, srv <- one, feed <- two, seen <- three

-----------------------------------------------------------------------------
(* Datasets at the limits of the encodings, saved and loaded under          *)
(* different configurations.                                                *)

Cells == INSTANCE Rdb WITH Scenarios <- {}, file <- one, loaded <- two

T(n) == Cells!Text("x", n)
N(n) == Cells!ll2string(n)
IntObj(n) == [type |-> "string", enc |-> "int", v |-> n]
Raw(s) == [type |-> "string", enc |-> "raw", v |-> s]
Coll(type, enc, v) == [type |-> type, enc |-> enc, v |-> v, size |-> Len(v)]
Entry(key, val, expire, idle) == [key |-> key, val |-> val, expire |-> expire, idle |-> idle]

StringObjects ==
  [dbs |-> <<<<Entry(N(7), IntObj(8), 1, 3), Entry(N(-8), IntObj(-9), -1, 64), Entry(T(4), IntObj(127), 2, 0)>>, <<>>,
             <<Entry(T(3), IntObj(-129), 2, 4), Entry(T(5), Raw(T(64)), -1, 2), Entry(<<>>, IntObj(2047), 1, 1),
               Entry(N(63), IntObj(-2049), 2, 5), Entry(T(1), Raw(T(63)), -1, 1),
               Entry(T(2), Raw(Tail(N(123))), -1, 1), Entry(T(6), Raw(T(256)), 2, 1)>>>>,
   scripts |-> <<T(2), T(7)>>, aux |-> <<>>]

StreamObject ==
  [type |-> "stream", length |-> 4, last_id |-> <<5, 0>>,
   nodes |-> <<[key |-> T(2), lp |-> Cells!Blob(<<1, 2>>, 5)], [key |-> T(3), lp |-> Cells!Blob(<<3>>, 3)]>>,
   groups |-> <<[name |-> T(1), last_id |-> <<3, 1>>,
                 pel |-> <<[id |-> 1, time |-> 7, count |-> 1], [id |-> 2, time |-> 8, count |-> 5]>>,
                 consumers |-> <<[name |-> T(1), seen |-> 9, pel |-> <<[id |-> 2, time |-> 8, count |-> 5]>>],
                                 [name |-> T(4), seen |-> 9, pel |-> <<[id |-> 1, time |-> 7, count |-> 1]>>]>>],
                [name |-> T(2), last_id |-> <<0, 0>>, pel |-> <<>>, consumers |-> <<>>]>>]

Objects ==
  [dbs |-> <<<<Entry(T(1), Coll("set", "intset", <<N(1), N(2), N(9)>>), -1, 0),
               Entry(T(2), Coll("set", "ht", <<N(1), N(2)>>), -1, 0),
               Entry(T(3), Coll("set", "ht", <<N(1), T(5)>>), -1, 0),
               Entry(T(4), Coll("zset", "ziplist", <<<<T(5), 1>>, <<T(2), 2>>, <<T(3), 2>>>>), -1, 0),
               Entry(T(5), Coll("zset", "skiplist", <<<<T(2), 1>>, <<T(1), 3>>>>), -1, 0),
               Entry(T(6), Coll("hash", "ziplist", <<<<T(1), T(2)>>, <<T(3), T(5)>>, <<N(1), T(2)>>>>), -1, 0),
               Entry(T(7), Coll("hash", "ht", <<<<T(1), T(5)>>, <<T(2), N(3)>>>>), -1, 0)>>,
             <<Entry(T(1), [type |-> "list", nodes |-> <<[lzf |-> TRUE, zl |-> Cells!Blob(<<1, 2>>, 8)],
                                                         [lzf |-> FALSE, zl |-> Cells!Blob(<<3>>, 5)]>>], -1, 0),
               Entry(T(2), StreamObject, -1, 0),
               Entry(T(3), [type |-> "module", id |-> 70,
                            items |-> <<[kind |-> "uint", v |-> 300], [kind |-> "string", v |-> T(5)]>>], -1, 0)>>>>,
   scripts |-> <<>>, aux |-> <<[id |-> 3, when |-> 1, items |-> <<[kind |-> "uint", v |-> 2]>>],
                               [id |-> 3, when |-> 2, items |-> <<[kind |-> "uint", v |-> 64]>>]>>]

SaveWith(policy, compression, checksum) ==
  [policy |-> policy, compression |-> compression, compressible |-> TRUE, checksum |-> checksum]

LoadWith(policy, master, aof, checksum, limit) ==
  [policy |-> policy, master |-> master, aof |-> aof, checksum |-> checksum, now |-> 2,
   intset |-> limit, ziplist |-> limit, value |-> limit + 1,
   modules |-> 3 :> <<"uint">> @@ 70 :> <<"uint", "string">>]

File(dataset, saver, loader, rsi) == [Dataset |-> dataset, Saver |-> saver, Loader |-> loader, Rsi |-> rsi]

Files ==
  {File(StringObjects, SaveWith("lru", FALSE, TRUE), LoadWith("lru", TRUE, FALSE, TRUE, 2),
        [db |-> 0, id |-> T(5), offset |-> 300]),
   File(StringObjects, SaveWith("lfu", TRUE, FALSE), LoadWith("lfu", FALSE, FALSE, TRUE, 2), <<>>),
   File(StringObjects, SaveWith("lru", FALSE, TRUE), LoadWith("lfu", TRUE, TRUE, FALSE, 2), <<>>),
   File(Objects, SaveWith("none", TRUE, TRUE), LoadWith("none", TRUE, FALSE, TRUE, 1), <<>>),
   File(Objects, SaveWith("none", FALSE, FALSE), LoadWith("lru", TRUE, FALSE, TRUE, 2), <<>>),
   File(Objects, SaveWith("none", TRUE, TRUE), LoadWith("none", FALSE, FALSE, FALSE, 4),
        [db |-> 2, id |-> T(4), offset |-> 7])}

Image == INSTANCE Rdb WITH Scenarios <- Files, file <- one, loaded <- two

-----------------------------------------------------------------------------
(* Connections of every kind, with and without limits.                      *)

NoLimit == [hard |-> 0, soft |-> 0, seconds |-> 0]

Conns(kind, ops, sizes, hard, soft, clients, cmds, time) ==
  [Kind |-> kind, Ops |-> ops, Sizes |-> sizes, BufSize |-> 2, MaxWrites |-> 3,
   Limits |-> [class \in {"normal", "pubsub", "replica"} |->
                 IF class = "normal" THEN NoLimit ELSE [hard |-> hard, soft |-> soft, seconds |-> 1]],
   MaxClients |-> clients, MaxCmds |-> cmds, MaxTime |-> time]

Connections ==
  {Conns("a" :> "normal", {"get", "deferred", "quit", "reply"}, {1, 3}, 0, 0, 1, 4, 1),
   Conns("a" :> "normal" @@ "p" :> "pubsub", {"publish", "kill", "get", "eof"}, {3}, 7, 0, 2, 4, 1),
   Conns("a" :> "normal" @@ "b" :> "normal", {"get", "kill", "quit", "post"}, {3}, 0, 0, 1, 4, 1),
   Conns("a" :> "normal" @@ "r" :> "replica", {"publish", "flush"}, {3}, 0, 4, 2, 4, 4),
   Conns("a" :> "normal" @@ "b" :> "normal", {"get", "script", "deferred"}, {1, 3}, 0, 0, 2, 4, 1),
   Conns("a" :> "normal" @@ "f" :> "fake", {"get", "reply"}, {1, 3}, 0, 0, 1, 4, 1)}

Output == INSTANCE Replies WITH Scenarios <- Connections, srv <- one, sent <- two, due <- three

-----------------------------------------------------------------------------
(* Requests in both protocols, with large, empty and quoted arguments, with *)
(* a violation of the protocol, and the stream of a master.                  *)

Req(as, args) == [as |-> as, args |-> args]
Other(as, bytes) == [as |-> as, bytes |-> bytes]

Sent(sends, master, query, pauses) ==
  [Sends |-> sends, Master |-> master, BigArg |-> 3, IoBuf |-> 7, InlineMax |-> 12, MaxBulk |-> 8,
   MaxQuery |-> query, Pauses |-> pauses]

Set4 == Req("multibulk", <<<<"S">>, <<"a", "b", "c", "d">>>>)
Empty == Other("empty", <<"*", "0", "CR", "LF">>)
Wrong(bytes) == Other("bad", bytes)

Requested ==
  {Sent(<<Set4, Req("multibulk", <<<<"B">>, <<>>>>), Req("inline", <<<<"P">>, <<"a", "\"", "\\">>, <<>>>>),
          Empty, Req("multibulk", <<<<"G">>, <<"x", "CR", "LF">>, <<"y">>>>)>>, FALSE, 40, TRUE),
   Sent(<<Set4, Req("multibulk", <<<<"M">>>>), Set4, Empty, Req("multibulk", <<<<"E">>>>),
          Req("multibulk", <<<<"P">>>>)>>, TRUE, 60, TRUE),
   Sent(<<Req("inline", <<<<"P">>, <<"^", " ", "LF">>, <<"x", "0", "\\", "x">>>>), Other("empty", <<"LF">>), Set4,
          Wrong(<<"*", "1", "CR", "LF", "a", "CR", "LF">>), Set4>>, FALSE, 40, FALSE),
   Sent(<<Set4, Wrong(<<"*", "a", "CR", "LF">>), Set4>>, FALSE, 40, FALSE),
   Sent(<<Set4, Wrong(<<"a", " ", "\"", "b", "\"", "c", "LF">>), Set4>>, FALSE, 40, FALSE),
   Sent(<<Set4, Wrong(<<"*", "1", "CR", "LF", "$", "9", "CR", "LF">>), Set4>>, FALSE, 14, TRUE)}

Input == INSTANCE Requests WITH Scenarios <- Requested, net <- one, cli <- two, log <- three

-----------------------------------------------------------------------------
(* Two descriptors without timers, and timers under a clock that is set.    *)

Turns ==
  {[Fds |-> 2, MS |-> 3, Jumps |-> {}, Ops |-> {"accept", "connect", "write", "written", "close"},
    MaxOps |-> 4, MaxTime |-> 0],
   [Fds |-> 1, MS |-> 3, Jumps |-> {0 - 4, 0 - 1, 0 - 2, 4}, Ops |-> {"timer", "cancel", "slow"},
    MaxOps |-> 3, MaxTime |-> 6]}

Events == INSTANCE EventLoop WITH Scenarios <- Turns, loop <- one, env <- two, hist <- three

-----------------------------------------------------------------------------
(* Scripts: every program of two or three steps, and three that share a     *)
(* script cache of two.                                                     *)

Lua(programs, effects, ops, commands) ==
  [Programs |-> programs, Effects |-> effects, Ops |-> ops, CacheSize |-> 2, MaxCommands |-> commands]

Every(steps, n) == {[s \in {"s"} |-> p] : p \in [1..n -> steps]}

Scriptings ==
  {Lua(p, TRUE, {"incr", "multi", "slow", "oom"}, 2) :
     p \in Every({"incr", "add", "rand", "spop", "publish", "aof", "none"}, 3)}
  \cup {Lua(p, FALSE, {"incr", "multi", "evalsha"}, 2) : p \in Every({"incr", "add", "rand", "rcmds", "aof", "error"}, 3)}
  \cup {Lua(p, FALSE, {"multi"}, 2) : p \in Every({"incr", "rand", "add", "publish", "error"}, 3)}
  \cup {Lua(p, FALSE, {"multi", "slow", "oom", "evalsha", "load"}, 3) : p \in Every({"incr", "rand", "rcmds"}, 2)}
  \cup {Lua([a |-> <<"incr">>, b |-> <<"incr", "rand">>, c |-> <<"rand">>], FALSE,
            {"evalsha", "load", "flush", "sync", "rewrite"}, 5)}

Eval == INSTANCE Script WITH Scenarios <- Scriptings, srv <- one, sinks <- two

-----------------------------------------------------------------------------
(* Two modules that call each other: x.w and y.w replicate what they do,    *)
(* x.r and y.r leave it to whoever calls them.                              *)

C(name, bang) == <<"call", name, bang>>

Nest(commands, subs, entries) ==
  [Modules |-> {"x", "y"}, Commands |-> commands, Subscribers |-> subs,
   Filters |-> <<[module |-> "x", noself |-> TRUE], [module |-> "y", noself |-> FALSE]>>,
   Entries |-> entries, MaxEntries |-> 2]

Cmd(module, prog) == [module |-> module, prog |-> prog]

Replicating == {<<C("incr", TRUE), C("incr", FALSE)>>, <<<<"replicate">>, C("incr", TRUE)>>,
                <<C("y.r", FALSE), <<"replicate">>, C("incr", TRUE)>>, <<<<"verbatim">>>>,
                <<C("y.r", TRUE), C("y.r", FALSE)>>}

Listening == {<<>>, <<Cmd("x", <<C("y.r", FALSE), C("incr", FALSE)>>)>>,
              <<Cmd("y", <<C("incr", FALSE)>>), Cmd("x", <<C("incr", FALSE)>>)>>,
              <<Cmd("y", <<C("x.r", FALSE)>>), Cmd("x", <<C("y.r", FALSE)>>)>>}

Nestings ==
  {Nest([n \in {"x.w", "x.r", "y.r"} |->
           CASE n = "x.w" -> Cmd("x", w) [] n = "x.r" -> Cmd("x", <<C("incr", FALSE)>>)
             [] n = "y.r" -> Cmd("y", <<C("x.r", FALSE), C("incr", FALSE)>>)],
        subs, {<<"command", "x.w", FALSE>>, <<"command", "x.w", TRUE>>, <<"command", "incr", FALSE>>,
               <<"timer", "x", <<C("y.r", FALSE)>>>>, <<"thread", "y", <<C("incr", TRUE), C("incr", TRUE)>>>>}) :
     w \in Replicating, subs \in Listening}

Calls == INSTANCE ModuleCalls WITH Scenarios <- Nestings, srv <- one, slave <- two

-----------------------------------------------------------------------------
(* Modules that are loaded and unloaded.                                    *)

Libraries ==
  {[Modules |-> {"x", "y"}, MaxSteps |-> 4,
    Wishes |-> [x |-> {<<"command", "c">>, <<"api", "a">>, <<"filter", "f">>, <<"filter", "g">>},
                y |-> {<<"command", "c">>, <<"api", "b">>, <<"events", "e">>, <<"filter", "f">>}]],
   [Modules |-> {"x", "y", "z"}, MaxSteps |-> 5,
    Wishes |-> [x |-> {<<"api", "a">>, <<"type", "t">>}, y |-> {<<"api", "b">>, <<"type", "t">>},
                z |-> {<<"command", "c">>, <<"events", "e">>}]]}

Registry == INSTANCE ModuleRegistry WITH Scenarios <- Libraries, modules <- one, tables <- two

-----------------------------------------------------------------------------
(* Patterns with every special character, and strings to match.             *)

Star == 42
Dash == 45
Question == 63
Open == 91
Backslash == 92
Close == 93
Caret == 94

Special == {Star, Dash, Question, Open, Backslash, Close, Caret, 97, 98}

UpTo(set, n) == UNION {[1..k -> set] : k \in 0..n}

Globs == UpTo(Special, 3) \cup UpTo({Star, Question, Open, Close, 97}, 4) \cup UpTo({Star, Backslash, 97}, 5)

Subjects == UpTo({Backslash, 97, 98}, 2) \cup UpTo({97, 98}, 3)

-----------------------------------------------------------------------------
(* Channels a, ab and b, patterns a*, ? and *: a replica, two nodes, and    *)
(* the notifications of one server.                                         *)

Sub(home, channels, patterns, cluster, notify, publish, subs) ==
  [Home |-> home, Channels |-> channels, Patterns |-> patterns, Cluster |-> cluster, Notify |-> notify,
   Classes |-> IF notify = {} THEN {} ELSE {"l", "h"}, MaxPublish |-> publish, MaxSub |-> subs]

Subscriptions ==
  {Sub("c" :> "m" @@ "d" :> "n", {<<97>>, <<97, 98>>}, {<<97, Star>>, <<Question>>}, cluster, {}, 2, 3) :
     cluster \in BOOLEAN}
  \cup {Sub("c" :> "m" @@ "d" :> "m", {<<97>>, <<98>>}, {<<Star>>}, FALSE, notify, 1, 3) :
     notify \in {{"K", "l"}, {"E", "K", "l"}, {"l"}, {"E", "l"}}}

Messages == INSTANCE PubSub WITH Scenarios <- Subscriptions, srv <- one, cl <- two, net <- three

-----------------------------------------------------------------------------
(* The parts that use four variables, and those that use two.               *)

Four == {"set", "string"}
Two == {"dict", "rax", "ziplist", "zset", "list", "rdb", "script", "calls", "registry", "glob"}

Unused == (part \notin Four => four = 0) /\ (part \in Two => three = 0)

KeepUnused == UNCHANGED part /\ (part \notin Four => UNCHANGED four) /\ (part \in Two => UNCHANGED three)

(* The data types, and the structures below them. *)
TypesInit ==
  /\ \/ part = "rax" /\ RadixTree!Init
     \/ part = "set" /\ Set!Init
     \/ part = "ziplist" /\ Packed!Init
     \/ part = "stream" /\ Stream!Init
     \/ part = "zset" /\ SortedSet!Init
     \/ part = "list" /\ List!Init
     \/ part = "string" /\ Text!Init
     \/ part = "hash" /\ HashMap!Init
  /\ Unused

TypesNext ==
  /\ \/ part = "rax" /\ RadixTree!Next
     \/ part = "set" /\ Set!Next
     \/ part = "ziplist" /\ Packed!Next
     \/ part = "stream" /\ Stream!Next
     \/ part = "zset" /\ SortedSet!Next
     \/ part = "list" /\ List!Next
     \/ part = "string" /\ Text!Next
     \/ part = "hash" /\ HashMap!Next
  /\ KeepUnused

TypesSpec == TypesInit /\ [][TypesNext]_vars

(* The keyspace, and the server around it with its clients and its modules. *)
ServerInit ==
  /\ \/ part = "dict" /\ HashTable!Init
     \/ part = "evict" /\ Memory!Init
     \/ part = "expire" /\ Keyspace!Init
     \/ part = "rdb" /\ Image!Init
     \/ part = "replies" /\ Output!Init
     \/ part = "requests" /\ Input!Init
     \/ part = "loop" /\ Events!Init
     \/ part = "script" /\ Eval!Init
     \/ part = "calls" /\ Calls!Init
     \/ part = "registry" /\ Registry!Init
     \/ part = "glob" /\ scenario = 0 /\ one \in Globs /\ two = <<>>
     \/ part = "pubsub" /\ Messages!Init
  /\ Unused

ServerNext ==
  /\ \/ part = "dict" /\ HashTable!Next
     \/ part = "evict" /\ Memory!Next
     \/ part = "expire" /\ Keyspace!Next
     \/ part = "rdb" /\ Image!Next
     \/ part = "replies" /\ Output!Next
     \/ part = "requests" /\ Input!Next
     \/ part = "loop" /\ Events!Next
     \/ part = "script" /\ Eval!Next
     \/ part = "calls" /\ Calls!Next
     \/ part = "registry" /\ Registry!Next
     \/ part = "glob" /\ two = <<>> /\ two' \in Subjects /\ UNCHANGED <<scenario, one>>
     \/ part = "pubsub" /\ Messages!Next
  /\ KeepUnused

ServerSpec == ServerInit /\ [][ServerNext]_vars

(* Strings alone. *)
TextInit == part = "string" /\ Text!Init /\ Unused

TextNext == Text!Next /\ KeepUnused

TextSpec == TextInit /\ [][TextNext]_vars

\* See Dict: rehashing loses and misplaces nothing, a scan returns every key that
\* stays, and a safe iterator returns each of them exactly once.
DictSound == part = "dict" => HashTable!DictExact /\ HashTable!ScanComplete /\ HashTable!IteratorExact

\* See Rax: the tree is the function that insertions and removals made, and the
\* seeks and steps of iterators follow the order of the keys.
RaxSound == part = "rax" => RadixTree!RaxExact /\ RadixTree!SeekExact

\* See Sets: both encodings hold and combine to the sets the commands mean, and
\* what is propagated for SPOP and the others is enough.
SetsSound == part = "set" => Set!SetsExact /\ Set!SetReplicaInSync

\* See Strings: what is propagated gives the replica the same values.
StringReplicaInSync == part = "string" => Text!StringReplicaInSync

\* See Strings and Hashes: shared, embedded and numeric objects and the encodings
\* of a hash never show, references are counted, and the replica follows.
ValuesExact ==
  /\ part = "string" => Text!StringsExact /\ Text!StringReplicaInSync
  /\ part = "hash" => HashMap!HashesExact

\* See Streams: the lists of pending entries agree, counters, ranges and bounds of
\* a stream are exact, and what is propagated is enough for the replica.
StreamSound == part = "stream" => Stream!PelsAgree /\ Stream!EntriesExact /\ Stream!ReplicaInSync

\* See Zset: pointers and spans of the skiplist, and the dictionary beside it;
\* both encodings behave as the function they stand for.
ZsetSound == part = "zset" => SortedSet!SkiplistSound /\ SortedSet!ZsetExact

\* See Ziplist and Quicklist: the memory of a ziplist is the sequence, through
\* every growth of its length fields; a chain of them is the list the commands
\* made, and its nodes at the ends stay uncompressed.
ListSound ==
  /\ part = "ziplist" => Packed!ZiplistExact
  /\ part = "list" => List!ListExact /\ List!EndsAreRaw

\* See Evict: the pool is sorted, replicas follow, lazy frees are counted, and
\* success means that the limit holds, failure that no key is left.
EvictSound == part = "evict" => Memory!EvictSound /\ Memory!EvictOutcome

\* See Expires: dict, expires, the slot map and the readers of the stream agree;
\* expired keys are hidden, tracked and looked for in every DB.
KeyspaceSound == part = "expire" => Keyspace!KeyspaceAgrees /\ Keyspace!ExpiredAreCollected

\* See Rdb: a whole file gives back what was saved, and a part of one nothing.
RdbRoundTrip == part = "rdb" => Image!RdbRoundTrip

\* See Replies and Requests: what is executed and forwarded is what was sent, and
\* every connection gets its replies, in order and once; output is scheduled, the
\* queues agree with the clients, limits hold.  See PubSub: patterns match what
\* they denote, and every client is sent what its subscriptions call for.
ConnectionsSound ==
  /\ part = "requests" => Input!RequestsExact
  /\ part = "replies" => Output!RepliesInOrder /\ Output!RepliesScheduled
  /\ part = "glob" => Messages!MatchSound(one, two, Special)
  /\ part = "pubsub" => Messages!SubscriptionsAgree

\* See EventLoop: handlers are called for the descriptor they were registered
\* for and in the order asked for, timers neither early nor late.
LoopSound == part = "loop" => Events!HandlersCurrent /\ Events!TurnOrdered /\ Events!TimersPunctual

\* See ModuleCalls and ModuleRegistry: replicas execute what modules replicate
\* once and as a whole, callbacks do not call themselves, and the server only
\* calls into modules that are loaded.
ModulesSound ==
  /\ part = "calls" => Calls!ModuleReplicated /\ Calls!NestingSound
  /\ part = "registry" => Registry!CodeMapped

\* See Script: the AOF and the replica execute what scripts did exactly once, no
\* part of a script is seen, and a killed one left no trace.
ScriptReplicated == part = "script" => Eval!ScriptReplicated /\ Eval!ScriptAtomic
=============================================================================
