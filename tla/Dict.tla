--------------------------------- MODULE Dict ---------------------------------
(***************************************************************************)
(* Hash tables (dict.c) with incremental rehashing, the stateless scan     *)
(* behind SCAN, SSCAN, HSCAN and ZSCAN (db.c), safe iterators and random   *)
(* keys.                                                                   *)
(*                                                                         *)
(* A key is told by its name and has a hash of Bits bits; a table is a     *)
(* function from bucket to the chain of its keys.  A scan lives across     *)
(* calls to the server; an iteration with a safe iterator lives inside     *)
(* one, so that only what its loop does happens meanwhile.                 *)
(***************************************************************************)
EXTENDS Integers, Sequences, FiniteSets, SequencesExt, FiniteSetsExt

CONSTANTS
  Scenarios    \* records [Hash, Bits, InitialSize, EmptyVisits, ForceRatio, MinFill, Count,
               \*          Iterate]: a function from keys to hashes, DICT_HT_INITIAL_SIZE, the
               \*          empty buckets one step of rehashing may skip,
               \*          dict_force_resize_ratio, HASHTABLE_MIN_FILL in percent, the COUNT
               \*          of SCAN, and whether safe iterators are used

VARIABLES
  scenario,
  dict,        \* [ht, rehashidx, iterators, can_resize]
  user         \* [keys, scan, iter]: the keys that were added and not deleted, the scan and
               \* the iteration under way

vars == <<scenario, dict, user>>

Keys == DOMAIN scenario.Hash
NULL == "null"

Reset == [size |-> 0, used |-> 0, table |-> <<>>]

dictIsRehashing(d) == d.rehashidx # -1

Bucket(ht, k) == scenario.Hash[k] % ht.size

\* The keys of a table and of the dictionary.
TableKeys(ht) == UNION {ToSet(ht.table[b]) : b \in DOMAIN ht.table}
DictKeys(d) == TableKeys(d.ht[0]) \cup TableKeys(d.ht[1])

Link(ht, k) == [ht EXCEPT !.table[Bucket(ht, k)] = <<k>> \o @, !.used = @ + 1]

-----------------------------------------------------------------------------
(* Resizing and rehashing.                                                 *)

_dictNextPower(size) == Min({i \in {scenario.InitialSize * 2^j : j \in 0..scenario.Bits} : i >= size})

dictExpand(d, size) ==
  LET realsize == _dictNextPower(size)
      n == [size |-> realsize, used |-> 0, table |-> [b \in 0..(realsize - 1) |-> <<>>]]
  IN IF dictIsRehashing(d) \/ d.ht[0].used > size \/ realsize = d.ht[0].size THEN d
     ELSE IF d.ht[0].size = 0 THEN [d EXCEPT !.ht[0] = n]
     ELSE [d EXCEPT !.ht[1] = n, !.rehashidx = 0]

_dictExpandIfNeeded(d) ==
  LET ht == d.ht[0]
  IN IF dictIsRehashing(d) THEN d
     ELSE IF ht.size = 0 THEN dictExpand(d, scenario.InitialSize)
     ELSE IF ht.used >= ht.size /\ (d.can_resize \/ ht.used \div ht.size > scenario.ForceRatio)
          THEN dictExpand(d, ht.used * 2)
     ELSE d

dictResize(d) ==
  IF ~d.can_resize \/ dictIsRehashing(d) THEN d
  ELSE dictExpand(d, IF d.ht[0].used < scenario.InitialSize THEN scenario.InitialSize ELSE d.ht[0].used)

\* The keys of one bucket, moved from the front of the chain.
MoveBucket(d) ==
  LET moved == FoldLeft(LAMBDA acc, k : Link(acc, k), d.ht[1], d.ht[0].table[d.rehashidx])
  IN [d EXCEPT !.ht = [t \in 0..1 |-> IF t = 1 THEN moved
                        ELSE [d.ht[0] EXCEPT !.table[d.rehashidx] = <<>>,
                                             !.used = @ - Len(d.ht[0].table[d.rehashidx])]],
               !.rehashidx = @ + 1]

Finish(d) ==
  IF d.ht[0].used # 0 THEN d
  ELSE [d EXCEPT !.ht = [t \in 0..1 |-> IF t = 0 THEN d.ht[1] ELSE Reset], !.rehashidx = -1]

\* Up to n buckets are moved; empty ones are skipped until there were too many.
RECURSIVE RehashLoop(_, _, _)
RehashLoop(d, n, empty_visits) ==
  IF n = 0 \/ d.ht[0].used = 0 THEN Finish(d)
  ELSE IF d.ht[0].table[d.rehashidx] = <<>>
       THEN LET skipped == [d EXCEPT !.rehashidx = @ + 1]
            IN IF empty_visits = 1 THEN skipped ELSE RehashLoop(skipped, n, empty_visits - 1)
       ELSE RehashLoop(MoveBucket(d), n - 1, empty_visits)

dictRehash(d, n) == IF dictIsRehashing(d) THEN RehashLoop(d, n, n * scenario.EmptyVisits) ELSE d

_dictRehashStep(d) == IF d.iterators = 0 THEN dictRehash(d, 1) ELSE d

-----------------------------------------------------------------------------
(* Adding, finding and deleting.                                           *)

InTable(ht, k) == ht.size > 0 /\ k \in ToSet(ht.table[Bucket(ht, k)])

\* The tables are searched in order, the second only while rehashing.
Lookup(d, k) == InTable(d.ht[0], k) \/ (dictIsRehashing(d) /\ InTable(d.ht[1], k))

\* The key goes to the second table while rehashing; a key that exists stays.
dictAddRaw(d, k) ==
  LET e == _dictExpandIfNeeded(_dictRehashStep(d))
      t == IF dictIsRehashing(e) THEN 1 ELSE 0
  IN IF Lookup(e, k) THEN e ELSE [e EXCEPT !.ht[t] = Link(@, k)]

Empty(d) == d.ht[0].used + d.ht[1].used = 0

dictFind(d, k) == IF Empty(d) THEN [d |-> d, found |-> FALSE]
                  ELSE LET e == _dictRehashStep(d) IN [d |-> e, found |-> Lookup(e, k)]

Unlink(ht, k) ==
  [ht EXCEPT !.table[Bucket(ht, k)] = SelectSeq(@, LAMBDA x : x # k), !.used = @ - 1]

dictGenericDelete(d, k) ==
  LET e == _dictRehashStep(d)
  IN IF Empty(d) THEN d
     ELSE IF InTable(e.ht[0], k) THEN [e EXCEPT !.ht[0] = Unlink(@, k)]
     ELSE IF dictIsRehashing(e) /\ InTable(e.ht[1], k) THEN [e EXCEPT !.ht[1] = Unlink(@, k)]
     ELSE e

dictEmpty(d) == [d EXCEPT !.ht = [t \in 0..1 |-> Reset], !.rehashidx = -1, !.iterators = 0]

\* What dictGetRandomKey may return: a bucket at or after rehashidx of the first table or one of
\* the second.
RandomKeys(d) ==
  UNION {ToSet(d.ht[0].table[b]) : b \in {x \in DOMAIN d.ht[0].table : x >= d.rehashidx}}
  \cup TableKeys(d.ht[1])

\* dictGetSomeKeys from bucket i: what it stores before its steps are used up.
RECURSIVE SomeKeys(_, _, _, _, _)
SomeKeys(d, i, count, maxsteps, stored) ==
  LET tables == IF dictIsRehashing(d) THEN 2 ELSE 1
      size == IF tables = 2 /\ d.ht[1].size > d.ht[0].size THEN d.ht[1].size ELSE d.ht[0].size
      skip == tables = 2 /\ i < d.rehashidx
      at == IF skip /\ i >= d.ht[1].size THEN d.rehashidx ELSE i
      first == IF at < d.ht[0].size /\ ~(skip /\ at = i) THEN d.ht[0].table[at] ELSE <<>>
      second == IF tables = 2 /\ at < d.ht[1].size THEN d.ht[1].table[at] ELSE <<>>
      all == stored \o first \o second
  IN IF Len(stored) >= count \/ maxsteps = 0 THEN SubSeq(stored, 1, Min({count, Len(stored)}))
     ELSE SomeKeys(d, (at + 1) % size, count, maxsteps - 1, all)

-----------------------------------------------------------------------------
(* The scan.  A cursor has Bits bits.                                      *)

Word == 2^scenario.Bits

\* The bits of v in reverse order.
rev(v) == LET bits == scenario.Bits
          IN FoldLeft(LAMBDA acc, j : 2 * acc + ((v \div 2^j) % 2), 0, [j \in 1..bits |-> j - 1])

\* The mutant counts upwards.
AdvanceUp(v, size) == ((v % size) + 1) % size

\* "v |= ~mask; v = rev(v); v++; v = rev(v)", for a table of the given size.
Advance(v, size) == rev((rev((Word - size) + (v % size)) + 1) % Word)

\* The buckets of the larger table that expand the bucket of the smaller one.
RECURSIVE ScanLarger(_, _, _, _)
ScanLarger(v, small, large, seen) ==
  LET next == Advance(v, large.size)
      now == seen \cup ToSet(large.table[v % large.size])
  IN IF next % large.size >= small.size THEN ScanLarger(next, small, large, now)
     ELSE [cursor |-> next, seen |-> now]

dictScan(d, v) ==
  LET swap == d.ht[0].size > d.ht[1].size
      small == IF swap THEN d.ht[1] ELSE d.ht[0]
      large == IF swap THEN d.ht[0] ELSE d.ht[1]
  IN IF Empty(d) THEN [cursor |-> 0, seen |-> {}]
     ELSE IF ~dictIsRehashing(d)
          THEN [cursor |-> Advance(v, d.ht[0].size), seen |-> ToSet(d.ht[0].table[v % d.ht[0].size])]
          ELSE ScanLarger(v, small, large, ToSet(small.table[v % small.size]))

\* Buckets are scanned until there are COUNT elements, or ten times as many buckets.
RECURSIVE ScanLoop(_, _, _, _)
ScanLoop(d, cursor, maxiterations, seen) ==
  LET r == dictScan(d, cursor)
      keys == seen \cup r.seen
  IN IF r.cursor # 0 /\ maxiterations > 0 /\ Cardinality(keys) < scenario.Count
     THEN ScanLoop(d, r.cursor, maxiterations - 1, keys) ELSE [cursor |-> r.cursor, seen |-> keys]

scanGenericCommand(d, cursor) == ScanLoop(d, cursor, scenario.Count * 10, {})

-----------------------------------------------------------------------------
(* Safe iterators: [on, table, index, entry, nextEntry], the last two being*)
(* keys.                                                                   *)

\* The first of the rest of a chain, and what follows it.
RECURSIVE dictNext(_, _)
dictNext(d, it) ==
  LET index == it.index + 1
      move == index >= d.ht[it.table].size
      table == IF move THEN 1 ELSE it.table
      chain == d.ht[table].table[IF move THEN 0 ELSE index]
      rest == IF it.entry = NULL
              THEN IF move /\ ~(dictIsRehashing(d) /\ it.table = 0) THEN <<>> ELSE chain
              ELSE it.rest
      started == IF it.entry = NULL /\ it.index = -1 /\ it.table = 0
                 THEN [d EXCEPT !.iterators = @ + 1] ELSE d
      at == IF it.entry # NULL THEN it
            ELSE [it EXCEPT !.table = table, !.index = IF move THEN 0 ELSE index]
  IN IF it.entry = NULL /\ move /\ ~(dictIsRehashing(d) /\ it.table = 0)
       THEN [d |-> started, it |-> [it EXCEPT !.index = index, !.entry = NULL, !.done = TRUE]]
     ELSE IF rest = <<>> THEN dictNext(started, [at EXCEPT !.entry = NULL, !.rest = <<>>])
     ELSE [d |-> started, it |-> [at EXCEPT !.entry = Head(rest), !.rest = Tail(rest)]]

dictReleaseIterator(d) == [d EXCEPT !.iterators = @ - 1]

dictGetSafeIterator == [done |-> FALSE, table |-> 0, index |-> -1, entry |-> NULL, rest |-> <<>>]

-----------------------------------------------------------------------------
(* Actions.                                                                *)

\* "due" are the keys that were there all the time since the scan or iteration began and were
\* not returned yet; "once" are those that were.
NoScan == [on |-> FALSE, cursor |-> 0, due |-> {}]
NoIter == [on |-> FALSE, it |-> dictGetSafeIterator, due |-> {}, once |-> {}, again |-> FALSE]

Drop(k) == [user EXCEPT !.keys = @ \ {k}, !.scan.due = @ \ {k}, !.iter.due = @ \ {k}, !.iter.once = @ \ {k}]

Add ==
  \E k \in Keys : /\ dict' = dictAddRaw(dict, k)
                  /\ user' = [user EXCEPT !.keys = @ \cup {k}]
                  /\ UNCHANGED scenario

Find == \E k \in Keys : dict' = dictFind(dict, k).d /\ UNCHANGED <<scenario, user>>

\* The loop over a safe iterator deletes the entry it was given only.
Delete ==
  \E k \in Keys : /\ user.iter.on => k = user.iter.it.entry
                  /\ dict' = dictGenericDelete(dict, k)
                  /\ user' = Drop(k)
                  /\ UNCHANGED scenario

Flush ==
  /\ ~user.iter.on
  /\ dict' = dictEmpty(dict)
  /\ user' = [user EXCEPT !.keys = {}, !.scan.due = {}]
  /\ UNCHANGED scenario

\* tryResizeHashTables of the cron: a table that is nearly empty is made smaller.
TryResize ==
  /\ ~user.iter.on
  /\ dict.ht[0].size + dict.ht[1].size > scenario.InitialSize
  /\ ((dict.ht[0].used + dict.ht[1].used) * 100) \div (dict.ht[0].size + dict.ht[1].size) < scenario.MinFill
  /\ dict' = dictResize(dict)
  /\ UNCHANGED <<scenario, user>>

\* incrementallyRehash of the cron.
CronRehash ==
  /\ ~user.iter.on /\ dictIsRehashing(dict)
  /\ \E n \in 1..2 : dict' = dictRehash(dict, n)
  /\ UNCHANGED <<scenario, user>>

\* updateDictResizePolicy: no resizing while a child saves.
updateDictResizePolicy ==
  /\ dict' = [dict EXCEPT !.can_resize = ~@]
  /\ UNCHANGED <<scenario, user>>

Scan ==
  LET from == IF user.scan.on THEN user.scan ELSE [NoScan EXCEPT !.due = user.keys]
      r == scanGenericCommand(dict, from.cursor)
  IN /\ ~scenario.Iterate /\ (user.scan.on => user.scan.cursor # 0)
     /\ user' = [user EXCEPT !.scan = [on |-> TRUE, cursor |-> r.cursor, due |-> from.due \ r.seen]]
     /\ UNCHANGED <<scenario, dict>>

ScanEnds == user.scan.on /\ user.scan.cursor = 0 /\ user' = [user EXCEPT !.scan = NoScan]
            /\ UNCHANGED <<scenario, dict>>

Iterate ==
  LET from == IF user.iter.on THEN user.iter
              ELSE [NoIter EXCEPT !.on = TRUE, !.due = user.keys]
      r == dictNext(dict, from.it)
  IN /\ scenario.Iterate /\ ~from.it.done
     /\ dict' = r.d
     /\ user' = [user EXCEPT !.iter = [from EXCEPT !.it = r.it, !.due = @ \ {r.it.entry},
                                       !.once = @ \cup (from.due \cap {r.it.entry}),
                                       !.again = @ \/ r.it.entry \in from.once]]
     /\ UNCHANGED scenario

IterateEnds ==
  /\ user.iter.on
  /\ dict' = dictReleaseIterator(dict)
  /\ user' = [user EXCEPT !.iter = NoIter]
  /\ UNCHANGED scenario

Init ==
  /\ scenario \in Scenarios
  /\ dict = [ht |-> [t \in 0..1 |-> Reset], rehashidx |-> -1, iterators |-> 0, can_resize |-> TRUE]
  /\ user = [keys |-> {}, scan |-> NoScan, iter |-> NoIter]

Next == Add \/ Find \/ Delete \/ Flush \/ TryResize \/ CronRehash \/ updateDictResizePolicy
        \/ Scan \/ ScanEnds \/ Iterate \/ IterateEnds

Spec == Init /\ [][Next]_vars

-----------------------------------------------------------------------------
\* Whatever the order of additions, deletions, resizes and steps of rehashing: the dictionary holds
\* the keys that were added and not deleted, each once, in the bucket of its hash, and finds them;
\* the counters are right; the buckets before rehashidx are empty and rehashidx stays inside the
\* table (the assert of dictRehash); dictGetRandomKey can return every key and nothing else, and
\* dictGetSomeKeys returns no more than it was asked for, all of them keys.
DictExact ==
  LET chains == {<<t, b>> : t \in 0..1, b \in 0..(Word - 1)}
      here(c) == c[2] \in DOMAIN dict.ht[c[1]].table
  IN /\ DictKeys(dict) = user.keys
     /\ \A k \in Keys : dictFind(dict, k).found = (k \in user.keys)
     /\ dict.ht[0].used + dict.ht[1].used = Cardinality(user.keys)
     /\ \A t \in 0..1 : dict.ht[t].used = Cardinality(TableKeys(dict.ht[t]))
     /\ \A c \in chains : here(c) => \A k \in ToSet(dict.ht[c[1]].table[c[2]]) : Bucket(dict.ht[c[1]], k) = c[2]
     /\ dictIsRehashing(dict)
          => /\ dict.rehashidx <= dict.ht[0].size /\ (dict.ht[0].used # 0 => dict.rehashidx < dict.ht[0].size)
             /\ \A b \in 0..(dict.rehashidx - 1) : dict.ht[0].table[b] = <<>>
     /\ RandomKeys(dict) = user.keys
     /\ dict.ht[0].size > 0 =>
          \A i \in DOMAIN dict.ht[0].table, n \in 1..2 :
            LET r == SomeKeys(dict, i, n, n * 10, <<>>)
            IN Len(r) <= n /\ ToSet(r) \subseteq user.keys

\* The guarantee of dictScan: a full iteration, from cursor 0 back to cursor 0, returns every key
\* that was there from its first to its last call, although the table grew, shrank and was being
\* rehashed between the calls.
ScanComplete == user.scan.on /\ user.scan.cursor = 0 => user.scan.due = {}

\* A safe iterator returns every key that is there from its first step to its last exactly once,
\* although its loop adds, looks up and deletes keys: there is no step of rehashing meanwhile.
IteratorExact == ~user.iter.again /\ (user.iter.it.done => user.iter.due = {})
=============================================================================
