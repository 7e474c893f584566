-------------------------------- MODULE Zset ---------------------------------
(***************************************************************************)
(* Sorted sets (t_zset.c): one key, kept as a ziplist or as a dictionary   *)
(* with a skiplist, the conversions between the two, every command that    *)
(* changes it, and the queries, beside the plain function from elements to *)
(* scores that the key stands for.                                         *)
(*                                                                         *)
(* Elements are numbers, in their lexicographic order; scores are numbers  *)
(* with Inf and -Inf.  The entry of an element in the dictionary points at *)
(* the score inside the node of the skiplist, so the dictionary is a set.  *)
(***************************************************************************)
EXTENDS Integers, Sequences, FiniteSets, SequencesExt, FiniteSetsExt, Functions

CONSTANTS
  Scenarios    \* records [Elements, Scores, MaxLevel, MaxEntries, LongElements, Other,
               \*          Commands, TwoPairs]: LongElements are longer than a ziplist takes,
               \*          Other is the content of another key, a set

VARIABLES
  scenario,    \* the scenario of this behaviour
  zset,        \* the key: [encoding, zl, dict, zsl]
  abstract     \* [val, dirty]: the function the key stands for, and whether the
               \* last command added to server.dirty

vars == <<scenario, zset, abstract>>

Header == 0
NIL == -1
Inf == 99
NaN == 100

\* The sum of two scores, as doubles have it.
Plus(a, b) == IF {a, b} = {Inf, -Inf} THEN NaN
              ELSE IF a \in {Inf, -Inf} THEN a ELSE IF b \in {Inf, -Inf} THEN b ELSE a + b

\* The order of a sorted set: by score, then by element.
Before(s1, e1, s2, e2) == s1 < s2 \/ (s1 = s2 /\ e1 < e2)

Levels == 1..scenario.MaxLevel

-----------------------------------------------------------------------------
(* The skiplist.  A node has a score, a backward pointer and, for each of  *)
(* its levels, a forward pointer with the number of nodes it skips.        *)

zslCreateNode(level, score) ==
  [score |-> score, backward |-> NIL,
   level |-> [i \in 1..level |-> [forward |-> NIL, span |-> 0]]]

zslCreate ==
  [nodes |-> [x \in {Header} |-> zslCreateNode(scenario.MaxLevel, 0)],
   level |-> 1, length |-> 0, tail |-> NIL]

\* The node passed last, and the nodes skipped up to it, at each level of the
\* walk down to level 1 that goes forward while the next node is ahead.
RECURSIVE Seek(_, _, _, _, _)
Seek(zsl, ahead, x, i, rank) ==
  LET next == zsl.nodes[x].level[i]
  IN IF next.forward # NIL /\ next.forward \in ahead
     THEN Seek(zsl, ahead, next.forward, i, rank + next.span)
     ELSE Append(IF i = 1 THEN <<>> ELSE Seek(zsl, ahead, x, i - 1, rank), [x |-> x, rank |-> rank])

\* The same walk by rank.
RECURSIVE SeekRank(_, _, _, _, _)
SeekRank(zsl, limit, x, i, rank) ==
  LET next == zsl.nodes[x].level[i]
  IN IF next.forward # NIL /\ rank + next.span <= limit
     THEN SeekRank(zsl, limit, next.forward, i, rank + next.span)
     ELSE Append(IF i = 1 THEN <<>> ELSE SeekRank(zsl, limit, x, i - 1, rank),
                 [x |-> x, rank |-> rank])

Elements(zsl) == DOMAIN zsl.nodes \ {Header}

\* The nodes before (score, ele).
Lower(zsl, score, ele) == {n \in Elements(zsl) : Before(zsl.nodes[n].score, n, score, ele)}

zslInsert(zsl, score, ele, level) ==
  LET found == Seek(zsl, Lower(zsl, score, ele), Header, zsl.level, 0)
      raised == [i \in 1..Max({level, zsl.level}) |->
                   IF i <= zsl.level THEN found[i] ELSE [x |-> Header, rank |-> 0]]
      spanOf(i) == IF i <= zsl.level THEN zsl.nodes[raised[i].x].level[i].span ELSE zsl.length
      skipped(i) == raised[1].rank - raised[i].rank
      forward(i) == zsl.nodes[raised[i].x].level[i].forward
      new == [score |-> score,
              backward |-> IF raised[1].x = Header THEN NIL ELSE raised[1].x,
              level |-> [i \in 1..level |-> [forward |-> forward(i),
                                             span |-> spanOf(i) - skipped(i)]]]
      relinked(n) ==
        [zsl.nodes[n] EXCEPT
           !.level = [i \in DOMAIN @ |->
              IF i \notin DOMAIN raised \/ raised[i].x # n THEN @[i]
              ELSE IF i <= level THEN [forward |-> ele, span |-> skipped(i) + 1]
              ELSE [@[i] EXCEPT !.span = @ + 1]],
           !.backward = IF n = forward(1) THEN ele ELSE @]
  IN [nodes |-> [n \in DOMAIN zsl.nodes \cup {ele} |-> IF n = ele THEN new ELSE relinked(n)],
      level |-> Max({level, zsl.level}),
      length |-> zsl.length + 1,
      tail |-> IF forward(1) = NIL THEN ele ELSE zsl.tail]

\* Mutant: the spans that pass over the deleted node are left alone.
DeleteNodeKeepSpans(zsl, x, update) ==
  LET node == zsl.nodes[x]
      next == node.level[1].forward
      relinked(n) ==
        [zsl.nodes[n] EXCEPT
           !.level = [i \in DOMAIN @ |->
              IF i \in DOMAIN update /\ update[i].x = n /\ @[i].forward = x
              THEN [forward |-> node.level[i].forward, span |-> @[i].span + node.level[i].span - 1]
              ELSE @[i]],
           !.backward = IF n = next THEN node.backward ELSE @]
      nodes == [n \in DOMAIN zsl.nodes \ {x} |-> relinked(n)]
      used == {i \in 1..zsl.level : nodes[Header].level[i].forward # NIL}
  IN [nodes |-> nodes, level |-> Max(used \cup {1}), length |-> zsl.length - 1,
      tail |-> IF next = NIL THEN node.backward ELSE zsl.tail]

\* Unlink x, given the last node before it at each level.
zslDeleteNode(zsl, x, update) ==
  LET node == zsl.nodes[x]
      next == node.level[1].forward
      relinked(n) ==
        [zsl.nodes[n] EXCEPT
           !.level = [i \in DOMAIN @ |->
              IF i \notin DOMAIN update \/ i > zsl.level \/ update[i].x # n THEN @[i]
              ELSE IF @[i].forward = x
              THEN [forward |-> node.level[i].forward, span |-> @[i].span + node.level[i].span - 1]
              ELSE [@[i] EXCEPT !.span = @ - 1]],
           !.backward = IF n = next THEN node.backward ELSE @]
      nodes == [n \in DOMAIN zsl.nodes \ {x} |-> relinked(n)]
      used == {i \in 1..zsl.level : nodes[Header].level[i].forward # NIL}
  IN [nodes |-> nodes, level |-> Max(used \cup {1}), length |-> zsl.length - 1,
      tail |-> IF next = NIL THEN node.backward ELSE zsl.tail]

\* The node behind (score, ele), if it is that element.
zslDelete(zsl, score, ele) ==
  LET update == Seek(zsl, Lower(zsl, score, ele), Header, zsl.level, 0)
      x == zsl.nodes[update[1].x].level[1].forward
  IN IF x = ele /\ zsl.nodes[x].score = score THEN zslDeleteNode(zsl, x, update) ELSE zsl

\* The score is changed in place when the node stays where it is.
zslUpdateScore(zsl, curscore, ele, newscore, level) ==
  LET update == Seek(zsl, Lower(zsl, curscore, ele), Header, zsl.level, 0)
      node == zsl.nodes[ele]
      next == node.level[1].forward
  IN IF /\ node.backward = NIL \/ zsl.nodes[node.backward].score < newscore
        /\ next = NIL \/ zsl.nodes[next].score > newscore
     THEN [zsl EXCEPT !.nodes[ele].score = newscore]
     ELSE zslInsert(zslDeleteNode(zsl, ele, update), newscore, ele, level)

\* Delete nodes from the one behind update on, while they are in range.
RECURSIVE DeleteWhile(_, _, _)
DeleteWhile(zsl, update, range) ==
  LET x == zsl.nodes[update[1].x].level[1].forward
  IN IF x = NIL \/ x \notin range THEN zsl
     ELSE DeleteWhile(zslDeleteNode(zsl, x, update), update, range)

zslValueGteMin(v, r) == IF r.minex THEN v > r.min ELSE v >= r.min
zslValueLteMax(v, r) == IF r.maxex THEN v < r.max ELSE v <= r.max

EmptyRange(r) == r.min > r.max \/ (r.min = r.max /\ (r.minex \/ r.maxex))

zslDeleteRangeByScore(zsl, r) ==
  DeleteWhile(zsl, Seek(zsl, {n \in Elements(zsl) : ~ zslValueGteMin(zsl.nodes[n].score, r)},
                        Header, zsl.level, 0),
              {n \in Elements(zsl) : zslValueLteMax(zsl.nodes[n].score, r)})

zslDeleteRangeByLex(zsl, r) ==
  DeleteWhile(zsl, Seek(zsl, {n \in Elements(zsl) : ~ zslValueGteMin(n, r)}, Header, zsl.level, 0),
              {n \in Elements(zsl) : zslValueLteMax(n, r)})

\* Ranks start..end, counted from 1.
RECURSIVE DeleteCount(_, _, _)
DeleteCount(zsl, update, n) ==
  LET x == zsl.nodes[update[1].x].level[1].forward
  IN IF n = 0 \/ x = NIL THEN zsl
     ELSE DeleteCount(zslDeleteNode(zsl, x, update), update, n - 1)

zslDeleteRangeByRank(zsl, start, end) ==
  DeleteCount(zsl, SeekRank(zsl, start - 1, Header, zsl.level, 0), end - start + 1)

\* 0 when the element is not found: the walk stops at the first level on which
\* it has reached the element.
zslGetRank(zsl, score, ele) ==
  LET path == Seek(zsl, Lower(zsl, score, ele + 1), Header, zsl.level, 0)
      hit == {i \in DOMAIN path : path[i].x = ele}
  IN IF hit = {} THEN 0 ELSE path[Max(hit)].rank

zslGetElementByRank(zsl, rank) ==
  LET path == SeekRank(zsl, rank, Header, zsl.level, 0)
      hit == {i \in DOMAIN path : path[i].rank = rank}
  IN IF hit = {} THEN NIL ELSE path[Max(hit)].x

zslIsInRange(zsl, r) ==
  /\ ~ EmptyRange(r)
  /\ zsl.tail # NIL /\ zslValueGteMin(zsl.nodes[zsl.tail].score, r)
  /\ zslValueLteMax(zsl.nodes[zsl.nodes[Header].level[1].forward].score, r)

zslFirstInRange(zsl, r) ==
  LET out == {n \in Elements(zsl) : ~ zslValueGteMin(zsl.nodes[n].score, r)}
      x == zsl.nodes[Seek(zsl, out, Header, zsl.level, 0)[1].x].level[1].forward
  IN IF ~ zslIsInRange(zsl, r) THEN NIL
     ELSE IF zslValueLteMax(zsl.nodes[x].score, r) THEN x ELSE NIL

zslLastInRange(zsl, r) ==
  LET in == {n \in Elements(zsl) : zslValueLteMax(zsl.nodes[n].score, r)}
      x == Seek(zsl, in, Header, zsl.level, 0)[1].x
  IN IF ~ zslIsInRange(zsl, r) THEN NIL
     ELSE IF zslValueGteMin(zsl.nodes[x].score, r) THEN x ELSE NIL

-----------------------------------------------------------------------------
(* The ziplist: a sequence of elements with their scores.                  *)

Pair(e, s) == [ele |-> e, score |-> s]

zzlFind(zl, ele) == {i \in DOMAIN zl : zl[i].ele = ele}

\* Before the first pair that is greater.
zzlInsert(zl, ele, score) ==
  LET greater == {i \in DOMAIN zl : Before(score, ele, zl[i].score, zl[i].ele)}
  IN InsertAt(zl, IF greater = {} THEN Len(zl) + 1 ELSE Min(greater), Pair(ele, score))

zzlDelete(zl, ele) == SelectSeq(zl, LAMBDA p : p.ele # ele)

zzlIsInRange(zl, r) ==
  /\ ~ EmptyRange(r)
  /\ zl # <<>>
  /\ zslValueGteMin(zl[Len(zl)].score, r)
  /\ zslValueLteMax(zl[1].score, r)

\* The first pair that is not too low, unless it is too high; 0 if none.
zzlFirstInRange(zl, r) ==
  LET i == SelectInSeq(zl, LAMBDA p : zslValueGteMin(p.score, r))
  IN IF zzlIsInRange(zl, r) /\ i # 0 /\ zslValueLteMax(zl[i].score, r) THEN i ELSE 0

zzlLastInRange(zl, r) ==
  LET low == {i \in DOMAIN zl : zslValueLteMax(zl[i].score, r)}
      i == Max(low)
  IN IF zzlIsInRange(zl, r) /\ low # {} /\ zslValueGteMin(zl[i].score, r) THEN i ELSE 0

\* Pairs from i on go as long as they are not too high.
DeleteFrom(zl, i, high) ==
  LET stop == {j \in i..Len(zl) : high[j]}
      last == IF stop = {} THEN Len(zl) ELSE Min(stop) - 1
  IN SubSeq(zl, 1, i - 1) \o SubSeq(zl, last + 1, Len(zl))

zzlDeleteRangeByScore(zl, r) ==
  LET i == zzlFirstInRange(zl, r)
  IN IF i = 0 THEN zl
     ELSE DeleteFrom(zl, i, [j \in DOMAIN zl |-> ~ zslValueLteMax(zl[j].score, r)])

zzlDeleteRangeByLex(zl, r) ==
  LET i == SelectInSeq(zl, LAMBDA p : zslValueGteMin(p.ele, r))
  IN IF \/ EmptyRange(r) \/ zl = <<>> \/ i = 0
        \/ ~ zslValueGteMin(zl[Len(zl)].ele, r) \/ ~ zslValueLteMax(zl[1].ele, r)
        \/ ~ zslValueLteMax(zl[i].ele, r)
     THEN zl
     ELSE DeleteFrom(zl, i, [j \in DOMAIN zl |-> ~ zslValueLteMax(zl[j].ele, r)])

zzlDeleteRangeByRank(zl, start, end) == SubSeq(zl, 1, start - 1) \o SubSeq(zl, end + 1, Len(zl))

-----------------------------------------------------------------------------
(* The key in either encoding.                                             *)

NoKey == [encoding |-> "none", zl |-> <<>>, dict |-> {}, zsl |-> << >>]

createZsetObject == [NoKey EXCEPT !.encoding = "skiplist", !.zsl = zslCreate]
createZsetZiplistObject == [NoKey EXCEPT !.encoding = "ziplist"]

Ziplist(z) == z.encoding = "ziplist"

zsetLength(z) == IF Ziplist(z) THEN Len(z.zl) ELSE z.zsl.length

\* The elements of a skiplist from x on.
RECURSIVE Chain(_, _, _)
Chain(zsl, x, reverse) ==
  IF x = NIL THEN <<>>
  ELSE <<Pair(x, zsl.nodes[x].score)>>
         \o Chain(zsl, IF reverse THEN zsl.nodes[x].backward ELSE zsl.nodes[x].level[1].forward,
                  reverse)

\* The nodes get the levels lv.
zsetConvert(z, encoding, lv) ==
  IF z.encoding = encoding THEN z
  ELSE IF Ziplist(z)
  THEN [createZsetObject EXCEPT
          !.zsl = FoldLeft(LAMBDA l, p : zslInsert(l, p.score, p.ele, lv[p.ele]), @, z.zl),
          !.dict = {p.ele : p \in ToSet(z.zl)}]
  ELSE [createZsetZiplistObject EXCEPT
          !.zl = Chain(z.zsl, z.zsl.nodes[Header].level[1].forward, FALSE)]

zsetConvertToZiplistIfNeeded(z, long, lv) ==
  IF zsetLength(z) <= scenario.MaxEntries /\ ~ long THEN zsetConvert(z, "ziplist", lv) ELSE z

zsetScore(z, ele) ==
  IF Ziplist(z) THEN {z.zl[i].score : i \in zzlFind(z.zl, ele)}
  ELSE IF ele \in z.dict THEN {z.zsl.nodes[ele].score} ELSE {}

\* One element of ZADD: the result is [z, flag].
zsetAdd(z, score0, ele, c, lv) ==
  LET cur == zsetScore(z, ele)
      score == IF c.incr THEN Plus(score0, Min(cur)) ELSE score0
      added == IF Ziplist(z) THEN [z EXCEPT !.zl = zzlInsert(@, ele, score0)]
               ELSE [z EXCEPT !.zsl = zslInsert(@, score0, ele, lv[ele]), !.dict = @ \cup {ele}]
      big == Ziplist(z) /\ (Len(added.zl) > scenario.MaxEntries \/ ele \in scenario.LongElements)
      updated == IF Ziplist(z) THEN [z EXCEPT !.zl = zzlInsert(zzlDelete(@, ele), ele, score)]
                 ELSE [z EXCEPT !.zsl = zslUpdateScore(@, Min(cur), ele, score, lv[ele])]
  IN IF cur # {}
     THEN IF c.nx THEN [z |-> z, flag |-> "nop"]
          ELSE IF score = NaN THEN [z |-> z, flag |-> "nan"]
          ELSE IF score = Min(cur) THEN [z |-> z, flag |-> "same"]
          ELSE [z |-> updated, flag |-> "updated"]
     ELSE IF c.xx THEN [z |-> z, flag |-> "nop"]
     ELSE [z |-> IF big THEN zsetConvert(added, "skiplist", lv) ELSE added, flag |-> "added"]

zsetDel(z, ele) ==
  IF zsetScore(z, ele) = {} THEN z
  ELSE IF Ziplist(z) THEN [z EXCEPT !.zl = zzlDelete(@, ele)]
  ELSE [z EXCEPT !.dict = @ \ {ele}, !.zsl = zslDelete(@, z.zsl.nodes[ele].score, ele)]

\* A command whose last element goes removes the key.
DropIfEmpty(z) == IF zsetLength(z) = 0 THEN NoKey ELSE z

-----------------------------------------------------------------------------
(* Commands: each maps the key to [z, dirty].                              *)

Unchanged(z) == [z |-> z, dirty |-> FALSE]

zaddGenericCommand(c, z0, lv) ==
  LET long == c.pairs[1].ele \in scenario.LongElements
      z == IF z0 # NoKey THEN z0
           ELSE IF scenario.MaxEntries = 0 \/ long THEN createZsetObject
           ELSE createZsetZiplistObject
      after(acc, r) == [z |-> r.z, dirty |-> acc.dirty \/ r.flag \in {"added", "updated"}]
      step(acc, p) == after(acc, zsetAdd(acc.z, p.score, p.ele, c, lv))
  IN IF z0 = NoKey /\ c.xx THEN Unchanged(z0) ELSE FoldLeft(step, Unchanged(z), c.pairs)

\* Elements after the one that empties the key are not looked at.
zremCommand(c, z0) ==
  LET step(z, e) == IF z = NoKey THEN z ELSE DropIfEmpty(zsetDel(z, e))
      z == FoldLeft(step, z0, c.eles)
  IN [z |-> z, dirty |-> z # z0]

\* Ranks of the command line, counted from 0 or, negative, from the end.
Sanitize(start, end, llen) ==
  LET s == Max({IF start < 0 THEN llen + start ELSE start, 0})
      e == IF end < 0 THEN llen + end ELSE end
  IN [start |-> s, end |-> Min({e, llen - 1}), empty |-> s > e \/ s >= llen]

zremrangeGenericCommand(c, z0) ==
  LET k == Sanitize(c.start, c.end, zsetLength(z0))
      zl == CASE c.type = "rank" -> zzlDeleteRangeByRank(z0.zl, k.start + 1, k.end + 1)
              [] c.type = "score" -> zzlDeleteRangeByScore(z0.zl, c.range)
              [] c.type = "lex" -> zzlDeleteRangeByLex(z0.zl, c.range)
      zsl == CASE c.type = "rank" -> zslDeleteRangeByRank(z0.zsl, k.start + 1, k.end + 1)
               [] c.type = "score" -> zslDeleteRangeByScore(z0.zsl, c.range)
               [] c.type = "lex" -> zslDeleteRangeByLex(z0.zsl, c.range)
      left(s) == [z0 EXCEPT !.zsl = s, !.dict = @ \cap Elements(s)]
      done(z) == [z |-> DropIfEmpty(z), dirty |-> zsetLength(z) < zsetLength(z0)]
  IN IF z0 = NoKey \/ (c.type = "rank" /\ k.empty) THEN Unchanged(z0)
     ELSE done(IF Ziplist(z0) THEN [z0 EXCEPT !.zl = zl] ELSE left(zsl))

genericZpopCommand(c, z0) ==
  LET one(z) == IF Ziplist(z) THEN zsetDel(z, IF c.max THEN Last(z.zl).ele ELSE Head(z.zl).ele)
                ELSE zsetDel(z, IF c.max THEN z.zsl.tail ELSE z.zsl.nodes[Header].level[1].forward)
      step(z, i) == IF z = NoKey THEN z ELSE DropIfEmpty(one(z))
  IN IF z0 = NoKey \/ c.count <= 0 THEN Unchanged(z0)
     ELSE [z |-> FoldLeft(step, z0, [i \in 1..c.count |-> i]), dirty |-> TRUE]

zunionInterAggregate(target, val, aggregate) ==
  CASE aggregate = "sum" -> IF Plus(target, val) = NaN THEN 0 ELSE Plus(target, val)
    [] aggregate = "min" -> Min({target, val})
    [] aggregate = "max" -> Max({target, val})

Scaled(weight, score) ==
  IF score \in {Inf, -Inf} THEN (IF weight = 0 THEN 0 ELSE score) ELSE weight * score

\* The elements of a source, a sorted set or a set, with their scores.
zuiNext(z) == IF z = NoKey THEN << >>
              ELSE [e \in IF Ziplist(z) THEN {p.ele : p \in ToSet(z.zl)} ELSE z.dict
                      |-> Min(zsetScore(z, e))]

\* ZUNIONSTORE and ZINTERSTORE of the key and the other one, into the key.
zunionInterGenericCommand(c, z0, lv) ==
  LET src == zuiNext(z0)
      scores == [e \in IF c.op = "union" THEN DOMAIN src \cup scenario.Other
                       ELSE DOMAIN src \cap scenario.Other |->
                   IF e \notin DOMAIN src THEN c.weight2
                   ELSE IF e \notin scenario.Other THEN Scaled(c.weight1, src[e])
                   ELSE zunionInterAggregate(Scaled(c.weight1, src[e]), c.weight2, c.aggregate)]
      fill(z, e) == [z EXCEPT !.zsl = zslInsert(@, scores[e], e, lv[e]), !.dict = @ \cup {e}]
      dst == FoldLeft(fill, createZsetObject, SetToSeq(DOMAIN scores))
      long == DOMAIN scores \cap scenario.LongElements # {}
  IN IF DOMAIN scores = {} THEN [z |-> NoKey, dirty |-> z0 # NoKey]
     ELSE [z |-> zsetConvertToZiplistIfNeeded(dst, long, lv), dirty |-> TRUE]

-----------------------------------------------------------------------------
(* Queries.                                                                *)

zsetRank(z, ele, reverse) ==
  LET rank == IF Ziplist(z) THEN IF zzlFind(z.zl, ele) = {} THEN 0 ELSE Min(zzlFind(z.zl, ele))
              ELSE IF ele \in z.dict THEN zslGetRank(z.zsl, z.zsl.nodes[ele].score, ele) ELSE 0
  IN IF rank = 0 THEN -1 ELSE IF reverse THEN zsetLength(z) - rank ELSE rank - 1

\* The pairs from a position on, in either direction.
From(z, pos, reverse) ==
  IF Ziplist(z) THEN IF pos = 0 THEN <<>>
                     ELSE IF reverse THEN Reverse(SubSeq(z.zl, 1, pos))
                     ELSE SubSeq(z.zl, pos, Len(z.zl))
  ELSE Chain(z.zsl, pos, reverse)

zrangeGenericCommand(z, start, end, reverse) ==
  LET llen == zsetLength(z)
      k == Sanitize(start, end, llen)
      pos == IF Ziplist(z) THEN IF reverse THEN llen - k.start ELSE k.start + 1
             ELSE IF reverse
             THEN IF k.start > 0 THEN zslGetElementByRank(z.zsl, llen - k.start) ELSE z.zsl.tail
             ELSE IF k.start > 0 THEN zslGetElementByRank(z.zsl, k.start + 1)
             ELSE z.zsl.nodes[Header].level[1].forward
  IN IF k.empty THEN <<>> ELSE SubSeq(From(z, pos, reverse), 1, k.end - k.start + 1)

InRangeFrom(rest, r, reverse, limit) ==
  LET out == {i \in DOMAIN rest : IF reverse THEN ~ zslValueGteMin(rest[i].score, r)
                                  ELSE ~ zslValueLteMax(rest[i].score, r)}
      upto == IF out = {} THEN Len(rest) ELSE Min(out) - 1
  IN SubSeq(rest, 1, IF limit < 0 THEN upto ELSE Min({limit, upto}))

genericZrangebyscoreCommand(z, r, reverse, offset, limit) ==
  LET pos == IF Ziplist(z) THEN IF reverse THEN zzlLastInRange(z.zl, r) ELSE zzlFirstInRange(z.zl, r)
             ELSE IF reverse THEN zslLastInRange(z.zsl, r) ELSE zslFirstInRange(z.zsl, r)
      skip(all) == SubSeq(all, offset + 1, Len(all))
      from(at) == skip(From(z, at, reverse))
  IN InRangeFrom(from(pos), r, reverse, limit)

zcountCommand(z, r) ==
  LET first == zslFirstInRange(z.zsl, r)
      last == zslLastInRange(z.zsl, r)
      rank(x) == zslGetRank(z.zsl, z.zsl.nodes[x].score, x)
      upto(x) == IF x = NIL THEN 0 ELSE z.zsl.length - rank(x)
      since(x) == IF x = NIL THEN 0 ELSE (z.zsl.length - (rank(x) - 1)) - upto(last)
  IN IF Ziplist(z) THEN Len(genericZrangebyscoreCommand(z, r, FALSE, 0, -1)) ELSE since(first)

-----------------------------------------------------------------------------
(* What each command means for the function the key stands for.            *)

InRange(v, r) == zslValueGteMin(v, r) /\ zslValueLteMax(v, r)

\* The pairs of a function in the order of a sorted set.
Sorted(f) ==
  SortSeq(SetToSeq({Pair(e, f[e]) : e \in DOMAIN f}),
          LAMBDA p, q : Before(p.score, p.ele, q.score, q.ele))

MeansAdd(c, f) ==
  LET step(g, p) ==
        LET has == p.ele \in DOMAIN g
            s == IF has /\ c.incr THEN Plus(g[p.ele], p.score) ELSE p.score
        IN IF (has /\ c.nx) \/ (~ has /\ c.xx) \/ s = NaN THEN g
           ELSE [e \in DOMAIN g \cup {p.ele} |-> IF e = p.ele THEN s ELSE g[e]]
  IN FoldLeft(step, f, c.pairs)

MeansRemrange(c, f) ==
  LET all == Sorted(f)
      n == Len(all)
      at(i) == IF i < 0 THEN n + i ELSE i
      gone == CASE c.type = "rank" -> {all[i].ele : i \in {j \in DOMAIN all :
                                         at(c.start) < j /\ j <= at(c.end) + 1}}
                [] c.type = "score" -> {e \in DOMAIN f : InRange(f[e], c.range)}
                [] c.type = "lex" -> {e \in DOMAIN f : InRange(e, c.range)}
  IN Restrict(f, DOMAIN f \ gone)

MeansPop(c, f) ==
  LET all == Sorted(f)
      n == Min({c.count, Len(all)})
      kept == IF c.max THEN SubSeq(all, 1, Len(all) - n) ELSE SubSeq(all, n + 1, Len(all))
  IN Restrict(f, {p.ele : p \in ToSet(kept)})

MeansStore(c, f) ==
  LET other == scenario.Other
  IN [e \in IF c.op = "union" THEN DOMAIN f \cup other ELSE DOMAIN f \cap other |->
        LET vals == (IF e \in DOMAIN f THEN <<Scaled(c.weight1, f[e])>> ELSE <<>>)
                      \o (IF e \in other THEN <<c.weight2>> ELSE <<>>)
        IN IF Len(vals) = 1 THEN vals[1] ELSE zunionInterAggregate(vals[1], vals[2], c.aggregate)]

-----------------------------------------------------------------------------
Init ==
  /\ scenario \in Scenarios
  /\ zset = NoKey
  /\ abstract = [val |-> << >>, dirty |-> TRUE]

\* A command that turned the key from z into r.z, and the function into val.
\* Bound: scores stay in the scenario's set.
Done(c, r, val) ==
  /\ c \in scenario.Commands
  /\ \A e \in DOMAIN val : val[e] \in scenario.Scores
  /\ zset' = r.z
  /\ abstract' = [val |-> val, dirty |-> r.dirty \/ val = abstract.val]
  /\ UNCHANGED scenario

\* Random levels for the elements that may get a new node.
LevelChoices(eles) ==
  {lv \in [scenario.Elements -> Levels] : \A e \in scenario.Elements \ eles : lv[e] = 1}

\* ZADD and ZINCRBY of one or two pairs.  Bound: the two have one element or one
\* score.
Zadd == \E nx, xx, incr \in BOOLEAN, e, e2 \in scenario.Elements, s, s2 \in scenario.Scores :
  \E lv \in LevelChoices({e, e2} \cup IF Ziplist(zset) THEN DOMAIN abstract.val ELSE {}) :
  /\ ~ (nx /\ xx)
  /\ incr \/ ~ scenario.TwoPairs => e2 = e /\ s2 = s
  /\ e2 = e \/ s2 = s
  /\ LET pairs == IF e2 = e /\ s2 = s THEN <<Pair(e, s)>> ELSE <<Pair(e, s), Pair(e2, s2)>>
         c == [nx |-> nx, xx |-> xx, incr |-> incr, pairs |-> pairs]
     IN Done("zadd", zaddGenericCommand(c, zset, lv), MeansAdd(c, abstract.val))

Zrem == \E e, e2 \in scenario.Elements :
  Done("zrem", zremCommand([eles |-> <<e, e2>>], zset),
       Restrict(abstract.val, DOMAIN abstract.val \ {e, e2}))

Ranges(set) == [min : set, max : set, minex : BOOLEAN, maxex : BOOLEAN]

\* Lexicographic ranges are meant for elements of one score.
OneScore(f) == \A e, g \in DOMAIN f : f[e] = f[g]

Zremrange ==
  \E type \in {"rank", "score", "lex"} :
    \E r \in IF type = "rank" THEN Ranges({0}) ELSE IF type = "score" THEN Ranges(scenario.Scores)
             ELSE Ranges(scenario.Elements),
       start, end \in IF type = "rank" THEN -2..2 ELSE {0} :
      LET c == [type |-> type, range |-> r, start |-> start, end |-> end]
      IN /\ type = "lex" => OneScore(abstract.val)
         /\ zset # NoKey
         /\ Done("zremrange", zremrangeGenericCommand(c, zset), MeansRemrange(c, abstract.val))

Zpop == \E max \in BOOLEAN, count \in 0..2 :
  LET c == [max |-> max, count |-> count]
  IN Done("zpop", genericZpopCommand(c, zset), MeansPop(c, abstract.val))

Zstore == \E op \in {"union", "inter"}, w1, w2 \in 0..1, agg \in {"sum", "min", "max"},
             lv \in LevelChoices(DOMAIN abstract.val \cup scenario.Other) :
  LET c == [op |-> op, weight1 |-> w1, weight2 |-> w2, aggregate |-> agg]
  IN Done("zstore", zunionInterGenericCommand(c, zset, lv), MeansStore(c, abstract.val))

Next == Zadd \/ Zrem \/ Zremrange \/ Zpop \/ Zstore

Spec == Init /\ [][Next]_vars

-----------------------------------------------------------------------------
\* The skiplist is one: at every level the forward pointers visit, in order, the
\* nodes that high, each span is the number of nodes the pointer moves by, the
\* backward pointers and the tail mirror level 1, no level in use is empty, and
\* the dictionary holds exactly the elements of the nodes.
SkiplistSound ==
  zset.encoding = "skiplist" =>
    LET zsl == zset.zsl
        all == Sorted([e \in Elements(zsl) |-> zsl.nodes[e].score])
        at(i) == IF i = 0 THEN Header ELSE all[i].ele
        n == Len(all)
        high(i, k) == Len(zsl.nodes[at(i)].level) >= k
        next(i, k) == LET later == {j \in (i + 1)..n : high(j, k)}
                      IN IF later = {} THEN n + 1 ELSE Min(later)
    IN /\ zset.dict = Elements(zsl) /\ zsl.length = n /\ n > 0
       /\ zsl.tail = at(n)
       /\ zsl.level = Max({k \in Levels : \E i \in 1..n : high(i, k)})
       /\ \A i \in 0..n : \A k \in 1..zsl.level :
            high(i, k) =>
              LET p == zsl.nodes[at(i)].level[k]
              IN IF next(i, k) > n THEN p = [forward |-> NIL, span |-> n - i]
                 ELSE p = [forward |-> at(next(i, k)), span |-> next(i, k) - i]
       /\ \A i \in 1..n : zsl.nodes[at(i)].backward = IF i = 1 THEN NIL ELSE at(i - 1)

\* In either encoding, and after every conversion, the key holds the function its
\* commands mean; the key is gone when that is empty; a command that changed it
\* counted as a change, so that it is propagated; and ranks, ranges by rank and
\* by score, with LIMIT, in both directions, and counts are those of the function.
ZsetExact ==
  /\ abstract.dirty
  /\ zuiNext(zset) = abstract.val
  /\ zset # NoKey =>
       LET all == Sorted(abstract.val)
           n == Len(all)
           pick(r) == SelectSeq(all, LAMBDA p : InRange(p.score, r))
           turn(s, reverse) == IF reverse THEN Reverse(s) ELSE s
           cut(s, offset, limit) ==
             SubSeq(s, offset + 1, IF limit < 0 THEN Len(s) ELSE Min({Len(s), offset + limit}))
       IN /\ n > 0
          /\ \A i \in 1..n : /\ zsetRank(zset, all[i].ele, FALSE) = i - 1
                             /\ zsetRank(zset, all[i].ele, TRUE) = n - i
          /\ \A start, end \in -2..2, reverse \in BOOLEAN :
               LET at(i) == IF i < 0 THEN n + i ELSE i
               IN zrangeGenericCommand(zset, start, end, reverse)
                    = SubSeq(turn(all, reverse), Max({at(start), 0}) + 1, Min({at(end) + 1, n}))
          /\ \A r \in Ranges(scenario.Scores) :
               /\ zcountCommand(zset, r) = Len(pick(r))
               /\ \A reverse \in BOOLEAN, offset \in 0..1, limit \in {-1, 1} :
                    genericZrangebyscoreCommand(zset, r, reverse, offset, limit)
                      = cut(turn(pick(r), reverse), offset, limit)
=============================================================================
