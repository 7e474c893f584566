------------------------------ MODULE Quicklist ------------------------------
(***************************************************************************)
(* Lists (t_list.c) over quicklists (quicklist.c): a chain of small        *)
(* ziplists whose interior nodes may be compressed, the commands that use  *)
(* it, and beside it the plain sequence the key stands for.                *)
(*                                                                         *)
(* A node is named by its position in the chain.  The bound on the size of *)
(* a node is a number of entries, which also decides whether a node is     *)
(* large enough to be compressed.  A key that does not exist is an empty   *)
(* quicklist.                                                              *)
(***************************************************************************)
EXTENDS Integers, Sequences, FiniteSets, SequencesExt

CONSTANTS
  Scenarios    \* records [Commands, Values, Fill, Depth, MinCompress, MaxCount, Ranges]:
               \* list-max-ziplist-size, list-compress-depth, the smallest number of entries
               \* LZF compresses, the bound on the length, and the indexes commands are given

VARIABLES
  scenario,
  list,        \* the quicklist: [nodes, count], a node being [zl, count, lzf, recompress]
  abstract     \* [seq, counted]: the sequence, and whether every change was counted as dirty

vars == <<scenario, list, abstract>>

Fill == scenario.Fill
Depth == scenario.Depth

Flatten(ql) == FlattenSeq([i \in 1..Len(ql.nodes) |-> ql.nodes[i].zl])

-----------------------------------------------------------------------------
(* Nodes.                                                                  *)

quicklistCreateNode == [zl |-> <<>>, count |-> 0, lzf |-> FALSE, recompress |-> FALSE]

CompressNode(n) == IF n.lzf \/ Len(n.zl) < scenario.MinCompress THEN n
                   ELSE [n EXCEPT !.lzf = TRUE, !.recompress = FALSE]

DecompressNode(n) == [n EXCEPT !.lzf = FALSE]

\* quicklistDecompressNodeForUse
ForUse(n) == IF n.lzf THEN [n EXCEPT !.lzf = FALSE, !.recompress = TRUE] ELSE n

\* quicklistRecompressOnly
RecompressOnly(n) == IF n.recompress THEN CompressNode(n) ELSE n

\* The quicklist with f applied to the nodes of a set.
OnNodes(ql, set, f(_)) ==
  [ql EXCEPT !.nodes = [i \in DOMAIN @ |-> IF i \in set THEN f(@[i]) ELSE @[i]]]

\* Depth nodes at each end are made raw, the given node (0: none) is compressed unless it is
\* one of them.  "len" is quicklist->len at the time of the call.
MakeDepth(ql, i, len) ==
  LET n == Len(ql.nodes)
      meet == \E k \in 1..Depth : 2 * k = n + 1
      ends == UNION {{k, n + 1 - k} : k \in IF meet THEN 1..((n + 1) \div 2) ELSE 1..Depth}
      raw == OnNodes(ql, ends, DecompressNode)
      beyond == IF Depth > 1 THEN {Depth + 1, n - Depth} ELSE {}
  IN IF Depth = 0 \/ len < 2 * Depth THEN ql
     ELSE IF meet THEN raw
     ELSE OnNodes(raw, ({i} \ ends) \cup beyond, CompressNode)

quicklistCompress(ql, i, len) ==
  IF ql.nodes[i].recompress THEN OnNodes(ql, {i}, CompressNode) ELSE MakeDepth(ql, i, len)

\* The new node goes beside node i (0: the list is empty).
InsertNode(ql, i, node, after) ==
  LET at == IF after THEN i + 1 ELSE IF i = 0 THEN 1 ELSE i
      linked == [ql EXCEPT !.nodes = InsertAt(@, at, node)]
      old == IF after THEN i ELSE i + 1
  IN IF i = 0 THEN linked ELSE quicklistCompress(linked, old, Len(ql.nodes))

DelNode(ql, i) ==
  LET unlinked == [ql EXCEPT !.nodes = RemoveAt(@, i), !.count = @ - ql.nodes[i].count]
  IN MakeDepth(unlinked, 0, Len(ql.nodes))

AllowInsert(ql, i) == i \in DOMAIN ql.nodes /\ ql.nodes[i].count < Fill

AllowMerge(ql, a, b) == {a, b} \subseteq DOMAIN ql.nodes /\ ql.nodes[a].count + ql.nodes[b].count <= Fill

\* ziplistInsert before position p, ziplistDelete of position p.
ZlInsert(n, p, v) == [n EXCEPT !.zl = InsertAt(@, p, v), !.count = @ + 1]
ZlDelete(n, p) == [n EXCEPT !.zl = RemoveAt(@, p), !.count = @ - 1]

-----------------------------------------------------------------------------
(* The ends of the list.                                                   *)

PushHead(ql, v) ==
  LET push(n) == ZlInsert(n, 1, v)
      grown == [ql EXCEPT !.count = @ + 1]
  IN IF AllowInsert(ql, 1) THEN OnNodes(grown, {1}, push)
     ELSE InsertNode(grown, IF ql.nodes = <<>> THEN 0 ELSE 1, push(quicklistCreateNode), FALSE)

PushTail(ql, v) ==
  LET push(n) == ZlInsert(n, Len(n.zl) + 1, v)
      grown == [ql EXCEPT !.count = @ + 1]
  IN IF AllowInsert(ql, Len(ql.nodes)) THEN OnNodes(grown, {Len(ql.nodes)}, push)
     ELSE InsertNode(grown, Len(ql.nodes), push(quicklistCreateNode), TRUE)

quicklistDelIndex(ql, i, p) ==
  LET deleted(n) == ZlDelete(n, p)
      shrunk == OnNodes([ql EXCEPT !.count = @ - 1], {i}, deleted)
  IN IF shrunk.nodes[i].count = 0 THEN DelNode(shrunk, i) ELSE shrunk

\* The entry at an end, which is read as the node is: the ends are never compressed.
quicklistPop(ql, where) ==
  IF where = "head" THEN quicklistDelIndex(ql, 1, 1)
  ELSE quicklistDelIndex(ql, Len(ql.nodes), Len(Last(ql.nodes).zl))

EndValue(ql, where) == IF where = "head" THEN Head(ql.nodes).zl[1] ELSE Last(Last(ql.nodes).zl)

-----------------------------------------------------------------------------
(* Entries by index.  An entry is [node, offset]; the offset counts from 0,*)
(* or from -1 backwards.                                                   *)

Position(ql, i, offset) == IF offset >= 0 THEN offset + 1 ELSE Len(ql.nodes[i].zl) + offset + 1

NoEntry == [node |-> 0, offset |-> 0]

\* The node that holds the entry and the entries skipped before it.
RECURSIVE FindNode(_, _, _, _, _)
FindNode(ql, i, step, index, accum) ==
  IF i \notin DOMAIN ql.nodes THEN NoEntry
  ELSE IF accum + ql.nodes[i].count > index
       THEN [node |-> i, offset |-> IF step = 1 THEN index - accum ELSE accum - index - 1]
       ELSE FindNode(ql, i + step, step, index, accum + ql.nodes[i].count)

quicklistIndex(ql, idx) ==
  LET index == IF idx < 0 THEN -idx - 1 ELSE idx
  IN IF index >= ql.count THEN NoEntry
     ELSE IF idx < 0 THEN FindNode(ql, Len(ql.nodes), -1, index, 0) ELSE FindNode(ql, 1, 1, index, 0)

EntryValue(ql, e) == ql.nodes[e.node].zl[Position(ql, e.node, e.offset)]

quicklistReplaceAtIndex(ql, idx, v) ==
  LET e == quicklistIndex(ql, idx)
      p == Position(ql, e.node, e.offset)
      replace(n) == ZlInsert(ZlDelete(ForUse(n), p), p, v)
  IN quicklistCompress(OnNodes(ql, {e.node}, replace), e.node, Len(ql.nodes))

\* How many entries one round of quicklistDelRange deletes.
DelCount(node, offset, extent) ==
  IF offset >= 0 /\ extent >= node.count THEN node.count - offset
  ELSE IF offset < 0 THEN (IF -offset > extent THEN extent ELSE -offset)
  ELSE extent

RECURSIVE DelFrom(_, _, _, _)
DelFrom(ql, i, offset, extent) ==
  IF extent = 0 THEN ql
  ELSE LET del == DelCount(ql.nodes[i], offset, extent)
           p == Position(ql, i, offset)
           cut(n) == [ForUse(n) EXCEPT !.zl = SubSeq(@, 1, p - 1) \o SubSeq(@, p + del, Len(@)),
                                       !.count = @ - del]
           part == OnNodes([ql EXCEPT !.count = @ - del], {i}, cut)
       IN IF offset = 0 /\ extent >= ql.nodes[i].count
            THEN DelFrom(DelNode(ql, i), i, 0, extent - del)
          ELSE IF part.nodes[i].count = 0 THEN DelFrom(DelNode(part, i), i, 0, extent - del)
          ELSE DelFrom(OnNodes(part, {i}, RecompressOnly), i + 1, 0, extent - del)

quicklistDelRange(ql, start, count) ==
  LET extent == IF start >= 0 /\ count > ql.count - start THEN ql.count - start
                ELSE IF start < 0 /\ count > -start THEN -start ELSE count
      e == quicklistIndex(ql, start)
  IN IF count <= 0 \/ e = NoEntry THEN ql
     ELSE DelFrom(OnNodes(ql, {e.node}, ForUse), e.node, e.offset, extent)

-----------------------------------------------------------------------------
(* Insertion beside an entry, with the splits and merges it causes.        *)

\* Of two neighbours the longer ziplist is kept and takes the entries of the other.
ZiplistMerge(ql, a) ==
  LET l == DecompressNode(ql.nodes[a])
      r == DecompressNode(ql.nodes[a + 1])
      keep == IF Len(l.zl) >= Len(r.zl) THEN l ELSE r
      gone == IF Len(l.zl) >= Len(r.zl) THEN a + 1 ELSE a
      merged(n) == [keep EXCEPT !.zl = l.zl \o r.zl, !.count = Len(l.zl) + Len(r.zl)]
      emptied(n) == [n EXCEPT !.zl = <<>>, !.count = 0]
      joined == OnNodes(OnNodes(ql, {a, a + 1} \ {gone}, merged), {gone}, emptied)
  IN quicklistCompress(DelNode(joined, gone), a, Len(ql.nodes) - 1)

\* Merges, if the sum of the two fits, of: the two before, the two after, the node with the
\* one before it, and what results with the one after it.
TryMerge(ql, i) == IF AllowMerge(ql, i, i + 1) THEN ZiplistMerge(ql, i) ELSE ql

MergeNodes(ql, center) ==
  LET around(q, c) == IF AllowMerge(q, c - 1, c) THEN TryMerge(ZiplistMerge(q, c - 1), c - 1) ELSE TryMerge(q, c)
      behind(q, c) == around(TryMerge(q, c + 1), c)
      before == AllowMerge(ql, center - 2, center - 1)
  IN behind(IF before THEN ZiplistMerge(ql, center - 2) ELSE ql, IF before THEN center - 1 ELSE center)

\* What the node keeps, and what the new one is given.
SplitNode(n, offset, after) ==
  LET left == SubSeq(n.zl, 1, IF after THEN offset + 1 ELSE offset)
      right == SubSeq(n.zl, Len(left) + 1, Len(n.zl))
      kept == IF after THEN left ELSE right
      given == IF after THEN right ELSE left
  IN [kept |-> [n EXCEPT !.zl = kept, !.count = Len(kept)],
      new |-> [quicklistCreateNode EXCEPT !.zl = given, !.count = Len(given)]]

quicklistInsert(ql, e, v, after) ==
  LET i == e.node
      node == ql.nodes[i]
      grown == [ql EXCEPT !.count = @ + 1]
      full == ~AllowInsert(ql, i)
      at_tail == after /\ e.offset = node.count
      at_head == ~after /\ e.offset = 0
      side == IF at_tail THEN i + 1 ELSE i - 1
      at_end == (at_tail \/ at_head) /\ side \in DOMAIN ql.nodes
      inside(n) == RecompressOnly(ZlInsert(ForUse(n), e.offset + (IF after THEN 2 ELSE 1), v))
      beside(n) == RecompressOnly(ZlInsert(ForUse(n), IF after THEN 1 ELSE Len(n.zl) + 1, v))
      split == SplitNode(ForUse(node), e.offset, after)
      new == ZlInsert(split.new, IF after THEN 1 ELSE Len(split.new.zl) + 1, v)
      keepPart(n) == split.kept
  IN IF ~full THEN OnNodes(grown, {i}, inside)
     ELSE IF at_end /\ AllowInsert(ql, side) THEN OnNodes(grown, {side}, beside)
     ELSE IF at_end THEN InsertNode(grown, i, ZlInsert(quicklistCreateNode, 1, v), after)
     ELSE MergeNodes(InsertNode(OnNodes(grown, {i}, keepPart), i, new, after),
                     IF after THEN i ELSE i + 1)

-----------------------------------------------------------------------------
(* Iterators.  An iterator is [current, offset, zi, step]: zi is the       *)
(* position read last, 0 when there is none.                               *)

\* The iterator at an index, with the node it starts in made raw.
IteratorAtIdx(ql, idx, step) ==
  LET e == quicklistIndex(ql, idx)
  IN [ql |-> OnNodes(ql, {e.node}, ForUse),
      it |-> [current |-> e.node, offset |-> e.offset, zi |-> 0, step |-> step]]

\* A step of the iterator.  At the end of a node that node is compressed again.
RECURSIVE quicklistNext(_)
quicklistNext(s) ==
  LET i == s.it.current
      ql == IF s.it.zi = 0 THEN OnNodes(s.ql, {i}, ForUse) ELSE s.ql
      p == IF s.it.zi = 0 THEN Position(ql, i, s.it.offset) ELSE s.it.zi + s.it.step
      offset == IF s.it.zi = 0 THEN s.it.offset ELSE s.it.offset + s.it.step
  IN IF i \notin DOMAIN s.ql.nodes THEN [s EXCEPT !.it.current = 0]
     ELSE IF p \in DOMAIN ql.nodes[i].zl
          THEN [ql |-> ql, it |-> [s.it EXCEPT !.zi = p, !.offset = offset]]
          ELSE quicklistNext([ql |-> quicklistCompress(ql, i, Len(ql.nodes)),
                              it |-> [s.it EXCEPT !.current = @ + s.it.step, !.zi = 0,
                                                  !.offset = IF s.it.step = 1 THEN 0 ELSE -1]])

ItValue(s) == s.ql.nodes[s.it.current].zl[s.it.zi]

\* The mutant leaves the iterator where it was when the node went away.
DelEntryStay(s) ==
  [ql |-> quicklistDelIndex(s.ql, s.it.current, s.it.zi), it |-> [s.it EXCEPT !.zi = 0]]

\* The next node takes the place of one that is deleted.
quicklistDelEntry(s) ==
  LET gone == s.ql.nodes[s.it.current].count = 1
  IN [ql |-> quicklistDelIndex(s.ql, s.it.current, s.it.zi),
      it |-> IF ~gone THEN [s.it EXCEPT !.zi = 0]
             ELSE IF s.it.step = 1 THEN [s.it EXCEPT !.zi = 0, !.offset = 0]
             ELSE [s.it EXCEPT !.zi = 0, !.offset = -1, !.current = @ - 1]]

-----------------------------------------------------------------------------
(* Commands.  Each gives [ql, dirty].                                      *)

Done(ql, dirty) == [ql |-> ql, dirty |-> dirty]

listTypePush(ql, v, where) == IF where = "head" THEN PushHead(ql, v) ELSE PushTail(ql, v)

pushGenericCommand(ql, vs, where) ==
  Done(FoldLeft(LAMBDA acc, v : listTypePush(acc, v, where), ql, vs), Len(vs))

pushxGenericCommand(ql, vs, where) ==
  IF ql.count = 0 THEN Done(ql, 0) ELSE pushGenericCommand(ql, vs, where)

popGenericCommand(ql, where) == IF ql.count = 0 THEN Done(ql, 0) ELSE Done(quicklistPop(ql, where), 1)

\* Source and destination are the same key.
rpoplpushCommand(ql) ==
  IF ql.count = 0 THEN Done(ql, 0)
  ELSE Done(listTypePush(quicklistPop(ql, "tail"), EndValue(ql, "tail"), "head"), 1)

lsetCommand(ql, idx, v) ==
  IF quicklistIndex(ql, idx) = NoEntry THEN Done(ql, 0) ELSE Done(quicklistReplaceAtIndex(ql, idx, v), 1)

lindexCommand(ql, idx) == Done(OnNodes(ql, {quicklistIndex(ql, idx).node}, ForUse), 0)

RECURSIVE InsertBeside(_, _, _, _)
InsertBeside(s, pivot, v, after) ==
  IF s.it.current = 0 THEN Done(s.ql, 0)
  ELSE IF ItValue(s) = pivot
       THEN Done(quicklistInsert(s.ql, [node |-> s.it.current, offset |-> s.it.offset], v, after), 1)
       ELSE InsertBeside(quicklistNext(s), pivot, v, after)

linsertCommand(ql, pivot, v, after) ==
  IF ql.count = 0 THEN Done(ql, 0)
  ELSE InsertBeside(quicklistNext(IteratorAtIdx(ql, 0, 1)), pivot, v, after)

RECURSIVE RemoveEqual(_, _, _, _)
RemoveEqual(s, v, toremove, removed) ==
  LET next == quicklistNext(s)
  IN IF next.it.current = 0 THEN Done(next.ql, removed)
     ELSE IF ItValue(next) # v THEN RemoveEqual(next, v, toremove, removed)
     ELSE IF toremove = removed + 1 THEN Done(quicklistDelEntry(next).ql, removed + 1)
     ELSE RemoveEqual(quicklistDelEntry(next), v, toremove, removed + 1)

lremCommand(ql, toremove, v) ==
  IF ql.count = 0 THEN Done(ql, 0)
  ELSE IF toremove < 0 THEN RemoveEqual(IteratorAtIdx(ql, -1, -1), v, -toremove, 0)
  ELSE RemoveEqual(IteratorAtIdx(ql, 0, 1), v, toremove, 0)

\* The range of a pair of indexes: [from, to], empty when from > to.
Bounds(llen, start, end) ==
  LET s == IF start < 0 THEN (IF llen + start < 0 THEN 0 ELSE llen + start) ELSE start
      e == IF end < 0 THEN llen + end ELSE end
  IN IF s > e \/ s >= llen THEN [from |-> llen, to |-> llen - 1]
     ELSE [from |-> s, to |-> IF e >= llen THEN llen - 1 ELSE e]

ltrimCommand(ql, start, end) ==
  LET b == Bounds(ql.count, start, end)
      rtrim == ql.count - b.to - 1
  IN IF ql.count = 0 THEN Done(ql, 0)
     ELSE Done(quicklistDelRange(quicklistDelRange(ql, 0, b.from), -rtrim, rtrim), 1)

\* The entries LRANGE reads, and the quicklist it leaves.
RECURSIVE ReadRange(_, _, _)
ReadRange(s, rangelen, read) ==
  IF rangelen = 0 THEN [ql |-> s.ql, read |-> read]
  ELSE LET next == quicklistNext(s) IN ReadRange(next, rangelen - 1, Append(read, ItValue(next)))

lrangeCommand(ql, start, end) ==
  LET b == Bounds(ql.count, start, end)
  IN IF b.from > b.to THEN [ql |-> ql, read |-> <<>>]
     ELSE ReadRange(IteratorAtIdx(ql, b.from, 1), b.to - b.from + 1, <<>>)

-----------------------------------------------------------------------------
(* What the commands mean for a sequence.                                  *)

Rev(s, where) == IF where = "head" THEN s ELSE Reverse(s)

\* Of the positions that hold v, the first n (all of them for 0).
FirstEqual(s, v, n) ==
  {i \in DOMAIN s : s[i] = v /\ (n = 0 \/ Cardinality({j \in 1..i : s[j] = v}) <= n)}

Without(s, drop) == LET keep == SelectSeq([i \in DOMAIN s |-> i], LAMBDA i : i \notin drop)
                    IN [k \in DOMAIN keep |-> s[keep[k]]]

MeansRem(s, n, v) == IF n >= 0 THEN Without(s, FirstEqual(s, v, n))
                     ELSE Reverse(Without(Reverse(s), FirstEqual(Reverse(s), v, -n)))

MeansInsert(s, pivot, v, after) ==
  IF pivot \notin ToSet(s) THEN s
  ELSE LET i == CHOOSE k \in DOMAIN s : s[k] = pivot /\ \A j \in 1..(k - 1) : s[j] # pivot
       IN InsertAt(s, IF after THEN i + 1 ELSE i, v)

\* The index a client gives, as a position (0: out of range).
Pos(s, i) == LET p == IF i < 0 THEN Len(s) + i + 1 ELSE i + 1 IN IF p \in DOMAIN s THEN p ELSE 0

MeansRange(s, start, end) ==
  SelectSeq([i \in DOMAIN s |-> i],
            LAMBDA i : (start >= 0 => i > start) /\ (start < 0 => i > Len(s) + start)
                       /\ (end >= 0 => i <= end + 1) /\ (end < 0 => i <= Len(s) + end + 1))

Select(s, positions) == [k \in DOMAIN positions |-> s[positions[k]]]

-----------------------------------------------------------------------------
Perform(result, seq) ==
  /\ list' = result.ql
  /\ abstract' = [seq |-> seq, counted |-> seq = abstract.seq \/ result.dirty > 0]
  /\ UNCHANGED scenario

On(command) == command \in scenario.Commands

Push ==
  /\ On("push") /\ list.count < scenario.MaxCount
  /\ \E v \in scenario.Values, where \in {"head", "tail"} :
       Perform(pushGenericCommand(list, <<v>>, where), Rev(<<v>> \o Rev(abstract.seq, where), where))

PushX ==
  /\ On("pushx") /\ list.count + 1 < scenario.MaxCount
  /\ \E v, w \in scenario.Values, where \in {"head", "tail"} :
       Perform(pushxGenericCommand(list, <<v, w>>, where),
               IF abstract.seq = <<>> THEN <<>> ELSE Rev(<<w, v>> \o Rev(abstract.seq, where), where))

Pop ==
  /\ On("pop")
  /\ \E where \in {"head", "tail"} :
       Perform(popGenericCommand(list, where),
               IF abstract.seq = <<>> THEN <<>> ELSE Rev(Tail(Rev(abstract.seq, where)), where))

RpopLpush ==
  /\ On("rpoplpush")
  /\ LET s == abstract.seq
     IN Perform(rpoplpushCommand(list), IF s = <<>> THEN s ELSE <<Last(s)>> \o Front(s))

Lset ==
  /\ On("lset")
  /\ \E i \in scenario.Ranges, v \in scenario.Values :
       LET p == Pos(abstract.seq, i)
       IN Perform(lsetCommand(list, i, v), [k \in DOMAIN abstract.seq |-> IF k = p THEN v ELSE abstract.seq[k]])

Linsert ==
  /\ On("linsert") /\ list.count < scenario.MaxCount
  /\ \E pivot, v \in scenario.Values, after \in BOOLEAN :
       Perform(linsertCommand(list, pivot, v, after), MeansInsert(abstract.seq, pivot, v, after))

Lrem ==
  /\ On("lrem")
  /\ \E n \in {-2, 0, 1}, v \in scenario.Values :
       Perform(lremCommand(list, n, v), MeansRem(abstract.seq, n, v))

Ltrim ==
  /\ On("ltrim")
  /\ \E start, end \in scenario.Ranges :
       Perform(ltrimCommand(list, start, end), Select(abstract.seq, MeansRange(abstract.seq, start, end)))

\* Reading may leave a node uncompressed.
Read ==
  /\ On("read")
  /\ \/ \E i \in scenario.Ranges : Perform(lindexCommand(list, i), abstract.seq)
     \/ \E start, end \in scenario.Ranges :
          Perform(Done(lrangeCommand(list, start, end).ql, 0), abstract.seq)

Init ==
  /\ scenario \in Scenarios
  /\ list = [nodes |-> <<>>, count |-> 0]
  /\ abstract = [seq |-> <<>>, counted |-> TRUE]

Next == Push \/ PushX \/ Pop \/ RpopLpush \/ Lset \/ Linsert \/ Lrem \/ Ltrim \/ Read

Spec == Init /\ [][Next]_vars

-----------------------------------------------------------------------------
\* The list holds exactly the entries that the commands put there, in their order; the counters
\* of the nodes and of the list agree with it; no node is empty or larger than
\* list-max-ziplist-size allows; LRANGE and LINDEX, from either end, return what the sequence
\* has there; and a command that changed the list counted as a change.
ListExact ==
  /\ Flatten(list) = abstract.seq /\ list.count = Len(abstract.seq) /\ abstract.counted
  /\ \A i \in DOMAIN list.nodes : list.nodes[i].count = Len(list.nodes[i].zl)
                                  /\ list.nodes[i].count \in 1..Fill
  /\ \A start, end \in scenario.Ranges :
       lrangeCommand(list, start, end).read = Select(abstract.seq, MeansRange(abstract.seq, start, end))
  /\ \A i \in scenario.Ranges :
       LET e == quicklistIndex(list, i)
           p == Pos(abstract.seq, i)
       IN (e = NoEntry) = (p = 0) /\ (p # 0 => EntryValue(list, e) = abstract.seq[p])

\* The first and the last node are never compressed: pushes and pops read and write their
\* ziplists without decompressing them.
EndsAreRaw == list.nodes # <<>> => ~Head(list.nodes).lzf /\ ~Last(list.nodes).lzf
=============================================================================
