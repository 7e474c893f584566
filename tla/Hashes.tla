-------------------------------- MODULE Hashes --------------------------------
(***************************************************************************)
(* Hash commands (t_hash.c) on both encodings: a ziplist of fields and     *)
(* values in turn, in which what looks like an integer is kept as one, and *)
(* a hash table, to which the ziplist is converted and never back.  A      *)
(* replica runs what is propagated.                                        *)
(***************************************************************************)
EXTENDS Numbers, FiniteSets, FiniteSetsExt

CONSTANTS
    Scenarios,   \* bounds: records with the fields below
    CommandSets  \* the commands, by the name a scenario gives them

VARIABLES
    scenario,
    db,        \* type, encoding, ziplist and table per key
    seen,      \* how the hashes should be, on the master and on the replica
    reply      \* the last reply, and the one it should have been

vars == <<scenario, db, seen, reply>>

Keys == scenario.Keys
Commands == CommandSets[scenario.Commands]
hash_max_ziplist_entries == scenario.MaxEntries
hash_max_ziplist_value == scenario.MaxValue
MaxOps == scenario.MaxOps                   \* bound on the commands
Table == <<>>                               \* the empty table: a function with no fields
NoKey == [type |-> "none", enc |-> "ziplist", zl |-> <<>>, ht |-> Table]

Ok == <<"ok">>
Error == <<"error">>
Nil == <<"nil">>
Bulk(s) == <<"bulk", s>>
Integer(n) == <<"integer", n>>

-----------------------------------------------------------------------------
(* The ziplist, by how hashes use it: see Ziplist for the memory.           *)

\* zipTryEncoding(): an integer in canonical form is kept as a number.
Entry(s) == IF IsInteger(s) THEN [int |-> TRUE, n |-> string2ll(s), s |-> <<>>] ELSE [int |-> FALSE, n |-> 0, s |-> s]
Content(e) == IF e.int THEN ll2string(e.n) ELSE e.s

\* The places to look at, skipping the value after each field.
Found(zl, s) == LET e == Entry(s) IN {i \in DOMAIN zl : i % 2 = 1 /\ zl[i] = e}
ziplistFind(zl, s) == IF Found(zl, s) = {} THEN 0 ELSE Min(Found(zl, s))

-----------------------------------------------------------------------------
(* The hash type.  A hash o is the record of its key.                       *)

hashTypeLength(o) == IF o.enc = "ziplist" THEN Len(o.zl) \div 2 ELSE Cardinality(DOMAIN o.ht)

hashTypeExists(o, f) == IF o.enc = "ziplist" THEN ziplistFind(o.zl, f) # 0 ELSE f \in DOMAIN o.ht

hashTypeGetFromZiplist(o, f) == Content(o.zl[ziplistFind(o.zl, f) + 1])
hashTypeGetValue(o, f) == IF o.enc = "ziplist" THEN hashTypeGetFromZiplist(o, f) ELSE o.ht[f]

\* The iterator: what it returns, one pair after the other.
hashTypeNext(o) ==
    IF o.enc = "ziplist" THEN [i \in 1..(Len(o.zl) \div 2) |-> <<Content(o.zl[2 * i - 1]), Content(o.zl[2 * i])>>]
    ELSE SetToSeq({<<f, o.ht[f]>> : f \in DOMAIN o.ht})

Add(ht, f, v) == [x \in DOMAIN ht \cup {f} |-> IF x = f THEN v ELSE ht[x]]

hashTypeConvert(o) ==
    [o EXCEPT !.enc = "table", !.zl = <<>>,
              !.ht = FoldLeft(LAMBDA ht, pair : Add(ht, pair[1], pair[2]), Table, hashTypeNext(o))]

\* Only the arguments of the command are looked at.
hashTypeTryConversion(o, args) ==
    IF o.enc = "ziplist" /\ \E i \in DOMAIN args : Len(args[i]) > hash_max_ziplist_value THEN hashTypeConvert(o) ELSE o

\* The hash after, and whether the field was there.
hashTypeSet(o, f, v) ==
    LET at == ziplistFind(o.zl, f)
        zl == IF at # 0 THEN [o.zl EXCEPT ![at + 1] = Entry(v)] ELSE o.zl \o <<Entry(f), Entry(v)>>
        after == [o EXCEPT !.zl = zl]
    IN  [update |-> hashTypeExists(o, f),
         o |-> IF o.enc = "table" THEN [o EXCEPT !.ht = Add(@, f, v)]
               ELSE IF hashTypeLength(after) > hash_max_ziplist_entries THEN hashTypeConvert(after) ELSE after]

\* Twice ziplistDelete() at the place of the field.
hashTypeDelete(o, f) ==
    LET at == ziplistFind(o.zl, f)
    IN  IF o.enc = "table" THEN [o EXCEPT !.ht = [x \in DOMAIN o.ht \ {f} |-> o.ht[x]]]
        ELSE IF at = 0 THEN o ELSE [o EXCEPT !.zl = RemoveAt(RemoveAt(@, at), at)]

hashTypeLookupWriteOrCreate(d, k) == IF d[k].type = "none" THEN [NoKey EXCEPT !.type = "hash"] ELSE d[k]

-----------------------------------------------------------------------------
(* Commands: the key after, the reply and the commands that are propagated. *)

Done(o, answer, as) == [o |-> o, reply |-> answer, as |-> as]
Quiet(o, answer) == Done(o, answer, <<>>)
Wrong(d, c) == d[c.key].type = "other"

hsetnxCommand(d, c) ==
    LET o == hashTypeTryConversion(hashTypeLookupWriteOrCreate(d, c.key), c.args)
    IN  IF hashTypeExists(o, c.args[1]) THEN Quiet(o, Integer(0))
        ELSE Done(hashTypeSet(o, c.args[1], c.args[2]).o, Integer(1), <<c>>)

\* HSET and HMSET.
hsetCommand(d, c) ==
    LET o == hashTypeTryConversion(hashTypeLookupWriteOrCreate(d, c.key), c.args)
        step(acc, i) == LET r == hashTypeSet(acc.o, c.args[2 * i - 1], c.args[2 * i])
                        IN  [o |-> r.o, created |-> acc.created + (IF r.update THEN 0 ELSE 1)]
        after == FoldLeft(step, [o |-> o, created |-> 0], [i \in 1..(Len(c.args) \div 2) |-> i])
    IN  Done(after.o, IF c.name = "hset" THEN Integer(after.created) ELSE Ok, <<c>>)

hincrbyCommand(d, c) ==
    LET o == hashTypeLookupWriteOrCreate(d, c.key)
        f == c.args[1]
        old == IF hashTypeExists(o, f) THEN string2ll(hashTypeGetValue(o, f)) ELSE 0
    IN  IF hashTypeExists(o, f) /\ ~IsInteger(hashTypeGetValue(o, f)) THEN Quiet(o, Error)
        ELSE IF WouldOverflow(old, c.n) THEN Quiet(o, Error)
        ELSE Done(hashTypeSet(o, f, ll2string(old + c.n)).o, Integer(old + c.n), <<c>>)

\* Finite increments.  Propagated as HSET with the value it gave.
hincrbyfloatCommand(d, c) ==
    LET o == hashTypeLookupWriteOrCreate(d, c.key)
        f == c.args[1]
        value == (IF hashTypeExists(o, f) THEN strtold(hashTypeGetValue(o, f)) ELSE 0) + c.n
    IN  IF hashTypeExists(o, f) /\ ~IsFloat(hashTypeGetValue(o, f)) THEN Quiet(o, Error)
        ELSE Done(hashTypeSet(o, f, ll2string(value)).o, Bulk(ll2string(value)),
                  <<[c EXCEPT !.name = "hset", !.args = <<f, ll2string(value)>>]>>)

addHashFieldToReply(o, f) == IF o.type = "hash" /\ hashTypeExists(o, f) THEN Bulk(hashTypeGetValue(o, f)) ELSE Nil

\* HGET and HMGET.
hmgetCommand(d, c) ==
    Quiet(d[c.key], FoldLeft(LAMBDA acc, f : acc \o addHashFieldToReply(d[c.key], f), <<>>, c.args))

\* The key goes with its last field, and the rest of the arguments is left.
hdelCommand(d, c) ==
    LET step(acc, f) == IF acc.o.type = "none" \/ ~hashTypeExists(acc.o, f) THEN acc
                        ELSE LET o == hashTypeDelete(acc.o, f)
                             IN  [o |-> IF hashTypeLength(o) = 0 THEN NoKey ELSE o, deleted |-> acc.deleted + 1]
        after == FoldLeft(step, [o |-> d[c.key], deleted |-> 0], c.args)
    IN  Done(after.o, Integer(after.deleted), IF after.deleted = 0 THEN <<>> ELSE <<c>>)

\* HLEN, HSTRLEN and HEXISTS.
hstrlenCommand(d, c) ==
    LET o == d[c.key]
    IN  Quiet(o, IF o.type = "none" THEN Integer(0)
                 ELSE IF c.name = "hlen" THEN Integer(hashTypeLength(o))
                 ELSE IF ~hashTypeExists(o, c.args[1]) THEN Integer(0)
                 ELSE Integer(IF c.name = "hexists" THEN 1 ELSE Len(hashTypeGetValue(o, c.args[1]))))

\* HGETALL, HKEYS and HVALS: the length announced, and the pairs in any order.
genericHgetallCommand(d, c) ==
    LET o == d[c.key]
    IN  Quiet(o, IF o.type = "none" THEN <<"pairs", 0, {}>>
                 ELSE <<"pairs", hashTypeLength(o), {hashTypeNext(o)[i] : i \in DOMAIN hashTypeNext(o)}>>)

\* Commands of other types: another value in the place of the key, and its deletion.
Other(d, c) ==
    IF c.name = "del" THEN Done(NoKey, Ok, <<c>>)
    ELSE IF d[c.key].type = "none" THEN Done([NoKey EXCEPT !.type = "other"], Ok, <<c>>) ELSE Quiet(d[c.key], Error)

Call(d, c) ==
    CASE c.name \in {"del", "push"} -> Other(d, c)
      [] c.name \notin {"del", "push"} /\ Wrong(d, c) -> Quiet(d[c.key], Error)
      [] c.name = "hsetnx" /\ ~Wrong(d, c) -> hsetnxCommand(d, c)
      [] c.name \in {"hset", "hmset"} /\ ~Wrong(d, c) -> hsetCommand(d, c)
      [] c.name = "hincrby" /\ ~Wrong(d, c) -> hincrbyCommand(d, c)
      [] c.name = "hincrbyfloat" /\ ~Wrong(d, c) -> hincrbyfloatCommand(d, c)
      [] c.name = "hmget" /\ ~Wrong(d, c) -> hmgetCommand(d, c)
      [] c.name = "hdel" /\ ~Wrong(d, c) -> hdelCommand(d, c)
      [] c.name \in {"hlen", "hexists", "hstrlen"} /\ ~Wrong(d, c) -> hstrlenCommand(d, c)
      [] c.name = "hgetall" /\ ~Wrong(d, c) -> genericHgetallCommand(d, c)

-----------------------------------------------------------------------------
(* What the commands should do to a function from fields to strings.        *)

Hash(h) == [type |-> IF DOMAIN h = {} THEN "none" ELSE "hash", h |-> h]
Empty == Hash(Table)

Meant(m, c) ==
    LET h == m[c.key].h
        f == c.args[1]
        number == IF f \in DOMAIN h THEN strtold(h[f]) ELSE 0
        set(g, answer) == <<[m EXCEPT ![c.key] = Hash(g)], answer>>
        same(answer) == <<m, answer>>
        last(x) == c.args[2 * Max({i \in 1..(Len(c.args) \div 2) : c.args[2 * i - 1] = x})]
        given == {c.args[2 * i - 1] : i \in 1..(Len(c.args) \div 2)}
        gone == {c.args[i] : i \in DOMAIN c.args} \cap DOMAIN h
    IN  IF c.name = "del" THEN <<[m EXCEPT ![c.key] = Empty], Ok>>
        ELSE IF c.name = "push"
        THEN IF m[c.key].type = "none" THEN <<[m EXCEPT ![c.key].type = "other"], Ok>> ELSE same(Error)
        ELSE IF m[c.key].type = "other" THEN same(Error)
        ELSE CASE c.name = "hsetnx" -> IF f \in DOMAIN h THEN same(Integer(0)) ELSE set(Add(h, f, c.args[2]), Integer(1))
               [] c.name \in {"hset", "hmset"} ->
                    set([x \in DOMAIN h \cup given |-> IF x \in given THEN last(x) ELSE h[x]],
                        IF c.name = "hset" THEN Integer(Cardinality(given \ DOMAIN h)) ELSE Ok)
               [] c.name = "hincrby" ->
                    IF f \in DOMAIN h /\ ~IsInteger(h[f]) THEN same(Error)
                    ELSE IF number + c.n \notin LLONG_MIN..LLONG_MAX THEN same(Error)
                    ELSE set(Add(h, f, ll2string(number + c.n)), Integer(number + c.n))
               [] c.name = "hincrbyfloat" ->
                    IF f \in DOMAIN h /\ ~IsFloat(h[f]) THEN same(Error)
                    ELSE set(Add(h, f, ll2string(number + c.n)), Bulk(ll2string(number + c.n)))
               [] c.name = "hmget" ->
                    same(FoldLeft(LAMBDA acc, x : acc \o (IF x \in DOMAIN h THEN Bulk(h[x]) ELSE Nil), <<>>, c.args))
               [] c.name = "hdel" -> set([x \in DOMAIN h \ gone |-> h[x]], Integer(Cardinality(gone)))
               [] c.name = "hlen" -> same(Integer(Cardinality(DOMAIN h)))
               [] c.name = "hexists" -> same(Integer(IF f \in DOMAIN h THEN 1 ELSE 0))
               [] c.name = "hstrlen" -> same(Integer(IF f \in DOMAIN h THEN Len(h[f]) ELSE 0))
               [] c.name = "hgetall" -> same(<<"pairs", Cardinality(DOMAIN h), {<<x, h[x]>> : x \in DOMAIN h}>>)

-----------------------------------------------------------------------------
\* call(): the command, and its propagation.
Command(c) ==
    /\ seen.ops < MaxOps
    /\ \E r \in {Call(db, c)}, meant \in {Meant(seen.master, c)} :
        /\ db' = [db EXCEPT ![c.key] = r.o]
        /\ reply' = [got |-> r.reply, meant |-> meant[2]]
        /\ seen' = [master |-> meant[1], ops |-> seen.ops + 1,
                    replica |-> FoldLeft(LAMBDA m, x : Meant(m, x)[1], seen.replica, r.as)]
    /\ UNCHANGED scenario

Init ==
    /\ scenario \in Scenarios
    /\ db = [k \in Keys |-> NoKey]
    /\ seen = [master |-> [k \in Keys |-> Empty], replica |-> [k \in Keys |-> Empty], ops |-> 0]
    /\ reply = [got |-> Nil, meant |-> Nil]

Next == \E c \in Commands : Command(c)

Spec == Init /\ [][Next]_vars

-----------------------------------------------------------------------------
\* In either encoding, and through conversions in the middle of a command, a
\* hash is the function that the commands mean, each field once; the replies
\* are theirs, no ziplist outgrows hash-max-ziplist-entries, no hash is empty,
\* and what is propagated keeps the replica equal.
HashesExact ==
    /\ reply.got = reply.meant
    /\ seen.replica = seen.master
    /\ \A k \in Keys :
         LET pairs == hashTypeNext(db[k])
         IN  /\ db[k].type = seen.master[k].type
             /\ Len(pairs) = Cardinality(DOMAIN seen.master[k].h)
             /\ {pairs[i] : i \in DOMAIN pairs} = {<<f, seen.master[k].h[f]>> : f \in DOMAIN seen.master[k].h}
             /\ db[k].enc = "ziplist" => Len(pairs) <= hash_max_ziplist_entries
=============================================================================
