------------------------------- MODULE Ziplist --------------------------------
(***************************************************************************)
(* Ziplists (ziplist.c): one block of memory with the entries one after    *)
(* the other, each led by the length of the entry before it in 1 or 5      *)
(* bytes.  An insertion or deletion may change the length of that field in *)
(* the next entry, and so on through the list.  Beside it, the sequence    *)
(* the ziplist stands for.                                                 *)
(*                                                                         *)
(* A byte is a cell <<tag, value, place>>: "p" or "P" in a short or long   *)
(* length field, "e" in the encoding, "d" in the data.  The length from    *)
(* which the long field is needed (ZIP_BIG_PREVLEN, 254) is a bound of the *)
(* scenario.  An item is a number with a header and a data size: an        *)
(* integer is one with an empty or small datum.  Offsets count from the    *)
(* first entry.                                                            *)
(***************************************************************************)
EXTENDS Integers, Sequences, FiniteSets, SequencesExt, FiniteSetsExt

CONSTANTS
  Scenarios    \* records [Size, Header, Big, MaxEntries, LenLimit]: the sizes of each item, the
               \* long field, the entries, and the limit of the length in the header

VARIABLES
  scenario,
  zl,          \* [mem, bytes, tail, length]
  abstract     \* the sequence of items

vars == <<scenario, zl, abstract>>

Items == DOMAIN scenario.Size

END == <<"end", 0, 0>>
Junk == <<"?", 0, 0>>

At(z, p) == IF p + 1 \in DOMAIN z.mem THEN z.mem[p + 1] ELSE Junk
IsEnd(z, p) == At(z, p)[1] \in {"end", "?"}

Write(z, p, cells) ==
  [z EXCEPT !.mem = [i \in DOMAIN @ |-> IF i \in p + 1..p + Len(cells) THEN cells[i - p] ELSE @[i]]]

memmove(z, dst, src, n) == Write(z, dst, [i \in 1..n |-> At(z, src + i - 1)])

-----------------------------------------------------------------------------
(* Fields and entries.                                                     *)

PrevLarge(len) == [i \in 1..5 |-> <<"P", len, i>>]
zipStorePrevEntryLength(len) == IF len < scenario.Big THEN <<<<"p", len, 1>>>> ELSE PrevLarge(len)

prevlensize(z, p) == IF At(z, p)[1] = "P" THEN 5 ELSE 1
prevlen(z, p) == At(z, p)[2]

zipPrevLenByteDiff(z, p, len) == Len(zipStorePrevEntryLength(len)) - prevlensize(z, p)

EntryCells(x) == [i \in 1..scenario.Header[x] |-> <<"e", x, i>>]
                 \o [i \in 1..scenario.Size[x] |-> <<"d", x, i>>]

\* The item at an offset; a field that is not where it should be reads as the first item.
ItemAt(z, p) == LET e == At(z, p + prevlensize(z, p))
                IN IF e[1] = "e" THEN e[2] ELSE CHOOSE x \in Items : TRUE

zipRawEntryLength(z, p) == prevlensize(z, p) + Len(EntryCells(ItemAt(z, p)))

-----------------------------------------------------------------------------
(* Changes.                                                                *)

ziplistNew == [mem |-> <<END>>, bytes |-> 1, tail |-> 0, length |-> 0]

ziplistResize(z, len) ==
  [z EXCEPT !.mem = [i \in 1..len |-> IF i = len THEN END ELSE IF i \in DOMAIN @ THEN @[i] ELSE Junk],
            !.bytes = len]

\* The field of the next entry takes the length of this one, and if it has to grow for that, then so
\* does the entry.
GrowField(z, np, field, extra) ==
  LET wide == ziplistResize(z, z.bytes + extra)
  IN Write(memmove(IF z.tail # np THEN [wide EXCEPT !.tail = @ + extra] ELSE wide,
                   np + Len(field), np + prevlensize(z, np), z.bytes - np - prevlensize(z, np) - 1),
           np, field)

RECURSIVE __ziplistCascadeUpdate(_, _)
__ziplistCascadeUpdate(z, p) ==
  LET after(rawlen, field) ==
        LET np == p + rawlen
            extra == Len(field) - prevlensize(z, np)
        IN IF IsEnd(z, np) \/ prevlen(z, np) = rawlen THEN z
           ELSE IF extra > 0 THEN __ziplistCascadeUpdate(GrowField(z, np, field, extra), np)
           ELSE Write(z, np, IF extra < 0 THEN PrevLarge(rawlen) ELSE field)
      next(rawlen) == after(rawlen, zipStorePrevEntryLength(rawlen))
  IN IF IsEnd(z, p) THEN z ELSE next(zipRawEntryLength(z, p))

Incr(z, n) == IF z.length < scenario.LenLimit THEN [z EXCEPT !.length = @ + n] ELSE z

RECURSIVE SkipEntries(_, _, _)
SkipEntries(z, p, n) ==
  IF n = 0 \/ IsEnd(z, p) THEN p ELSE SkipEntries(z, p + zipRawEntryLength(z, p), n - 1)

\* The entries between two offsets.
Between(z, p, q) == Cardinality({n \in 0..scenario.MaxEntries : SkipEntries(z, p, n) < q})

LastAt(z, p) == IsEnd(z, p + zipRawEntryLength(z, p))

\* The entries from p to q are gone; the next one begins nextdiff earlier than it did.
CloseGap(z, p, q, nextdiff) ==
  LET before == prevlen(z, p)
      first == q - nextdiff
      moved(s) == memmove([s EXCEPT !.tail = @ - (q - p) + (IF LastAt(s, first) THEN 0 ELSE nextdiff)],
                          p, first, z.bytes - first - 1)
  IN Incr(ziplistResize(IF IsEnd(z, q) THEN [z EXCEPT !.tail = p - before]
                        ELSE moved(Write(z, first, zipStorePrevEntryLength(before))),
                        z.bytes - (q - p) + nextdiff),
          -Between(z, p, q))

__ziplistDelete(z, p, num) ==
  LET cut(q, nextdiff) == IF nextdiff # 0 THEN __ziplistCascadeUpdate(CloseGap(z, p, q, nextdiff), p)
                          ELSE CloseGap(z, p, q, 0)
      upto(q) == cut(q, IF IsEnd(z, q) THEN 0 ELSE zipPrevLenByteDiff(z, q, prevlen(z, p)))
  IN upto(SkipEntries(z, p, num))

\* Room for an entry of reqlen bytes at p; the field of the next one changes its size by nextdiff.
OpenGap(z, p, reqlen, nextdiff, field) ==
  LET wide == ziplistResize(z, z.bytes + reqlen + nextdiff)
      linked(m) == [m EXCEPT !.tail = @ + reqlen + (IF LastAt(m, p + reqlen) THEN 0 ELSE nextdiff)]
  IN IF IsEnd(z, p) THEN [wide EXCEPT !.tail = p]
     ELSE linked(Write(memmove(wide, p + reqlen, p - nextdiff, z.bytes - p - 1 + nextdiff), p + reqlen, field))

InsertEntry(z, p, entry) ==
  LET reqlen == Len(entry)
      want == IF IsEnd(z, p) THEN 0 ELSE zipPrevLenByteDiff(z, p, reqlen)
      forcelarge == want = -4 /\ reqlen < 4
      room(nextdiff, field) ==
        IF nextdiff # 0 THEN __ziplistCascadeUpdate(OpenGap(z, p, reqlen, nextdiff, field), p + reqlen)
        ELSE OpenGap(z, p, reqlen, 0, field)
  IN Incr(Write(room(IF forcelarge THEN 0 ELSE want,
                     IF forcelarge THEN PrevLarge(reqlen) ELSE zipStorePrevEntryLength(reqlen)),
                p, entry), 1)

__ziplistInsert(z, p, x) ==
  LET before == IF ~IsEnd(z, p) THEN prevlen(z, p)
                ELSE IF IsEnd(z, z.tail) THEN 0 ELSE zipRawEntryLength(z, z.tail)
  IN InsertEntry(z, p, zipStorePrevEntryLength(before) \o EntryCells(x))

\* The entries of b behind those of a.
ziplistMerge(a, b) ==
  LET sum == a.length + b.length
      joined == [mem |-> Front(a.mem) \o b.mem, bytes |-> a.bytes + b.bytes - 1,
                 tail |-> a.bytes - 1 + b.tail,
                 length |-> Min({sum, scenario.LenLimit})]
  IN __ziplistCascadeUpdate(joined, a.tail)

ziplistPush(z, x, head) == __ziplistInsert(z, IF head THEN 0 ELSE z.bytes - 1, x)

-----------------------------------------------------------------------------
(* Reading.                                                                *)

RECURSIVE BackFrom(_, _, _)
BackFrom(z, p, n) == IF n = 0 \/ prevlen(z, p) = 0 THEN [p |-> p, left |-> n]
                     ELSE BackFrom(z, p - prevlen(z, p), n - 1)

\* The offset of an entry by its index, as a set.
ziplistIndex(z, index) ==
  LET p == SkipEntries(z, 0, index)
      back == BackFrom(z, z.tail, -index - 1)
  IN IF index >= 0 THEN (IF IsEnd(z, p) THEN {} ELSE {p})
     ELSE IF IsEnd(z, z.tail) \/ back.left > 0 THEN {} ELSE {back.p}

RECURSIVE FindFrom(_, _, _, _, _)
FindFrom(z, p, x, skip, skipcnt) ==
  LET next == p + zipRawEntryLength(z, p)
  IN IF IsEnd(z, p) THEN {}
     ELSE IF skipcnt = 0 /\ ItemAt(z, p) = x THEN {p}
     ELSE FindFrom(z, next, x, skip, IF skipcnt > 0 THEN skipcnt - 1 ELSE skip)

ziplistFind(z, x, skip) == FindFrom(z, 0, x, skip, 0)

RECURSIVE CountFrom(_, _)
CountFrom(z, p) == IF IsEnd(z, p) THEN 0 ELSE 1 + CountFrom(z, p + zipRawEntryLength(z, p))

\* The length field at its limit says nothing; the entries are counted, and it is set again.
ziplistLen(z) == IF z.length < scenario.LenLimit THEN z.length ELSE CountFrom(z, 0)
Recounted(z) == IF ziplistLen(z) < scenario.LenLimit THEN [z EXCEPT !.length = ziplistLen(z)] ELSE z

-----------------------------------------------------------------------------
Init == scenario \in Scenarios /\ zl = ziplistNew /\ abstract = <<>>

Room(n) == Len(abstract) + n <= scenario.MaxEntries

Push ==
  \E x \in Items, head \in BOOLEAN :
    /\ Room(1)
    /\ zl' = ziplistPush(zl, x, head)
    /\ abstract' = IF head THEN <<x>> \o abstract ELSE Append(abstract, x)
    /\ UNCHANGED scenario

Insert ==
  \E x \in Items, i \in DOMAIN abstract :
    /\ Room(1)
    /\ \E p \in ziplistIndex(zl, i - 1) : zl' = __ziplistInsert(zl, p, x)
    /\ abstract' = InsertAt(abstract, i, x)
    /\ UNCHANGED scenario

\* ziplistDelete and ziplistDeleteRange.
DeleteRange ==
  \E i \in DOMAIN abstract, num \in 1..scenario.MaxEntries :
    /\ \E p \in ziplistIndex(zl, i - 1) : zl' = __ziplistDelete(zl, p, num)
    /\ abstract' = SubSeq(abstract, 1, i - 1) \o SubSeq(abstract, i + num, Len(abstract))
    /\ UNCHANGED scenario

\* With a list that was pushed to on one side.
Merge ==
  \E n \in 1..2 : \E s \in [1..n -> Items], head, after \in BOOLEAN :
    LET other == FoldLeft(LAMBDA z, x : ziplistPush(z, x, head), ziplistNew, s)
        order == IF head THEN Reverse(s) ELSE s
    IN /\ Room(n) /\ abstract # <<>>
       /\ zl' = IF after THEN ziplistMerge(zl, other) ELSE ziplistMerge(other, zl)
       /\ abstract' = IF after THEN abstract \o order ELSE order \o abstract
       /\ UNCHANGED scenario

Recount == zl' = Recounted(zl) /\ UNCHANGED <<scenario, abstract>>

Next == Push \/ Insert \/ DeleteRange \/ Merge \/ Recount

Spec == Init /\ [][Next]_vars

-----------------------------------------------------------------------------
\* The memory of the items of s behind an entry of a given length, if every field of length is right
\* and some of them are longer than they need be: whether m can be read like that.
RECURSIVE Reads(_, _, _)
Reads(m, s, before) ==
  IF s = <<>> THEN m = <<END>>
  ELSE \E field \in {zipStorePrevEntryLength(before), PrevLarge(before)} :
         LET entry == field \o EntryCells(s[1])
         IN /\ Len(entry) < Len(m) /\ SubSeq(m, 1, Len(entry)) = entry
            /\ Reads(SubSeq(m, Len(entry) + 1, Len(m)), Tail(s), Len(entry))

\* Whatever was inserted, deleted and merged where, and however the fields of length grew through the
\* list: memory is exactly the sequence, each entry led by the length of the one before it; the size,
\* the offset of the last entry and the count in the header are right; and walking from either end
\* and searching find every item.
ZiplistExact ==
  LET n == Len(abstract)
      where(i) == SkipEntries(zl, 0, i - 1)
      first(x, skip) == {i \in DOMAIN abstract : /\ abstract[i] = x /\ (i - 1) % (skip + 1) = 0
                                                 /\ \A j \in 1..i - 1 : abstract[j] = x => (j - 1) % (skip + 1) # 0}
  IN /\ Reads(zl.mem, abstract, 0) /\ zl.bytes = Len(zl.mem)
     /\ zl.tail = (IF n = 0 THEN 0 ELSE where(n)) /\ ziplistLen(zl) = n
     /\ \A i \in 1..n : ziplistIndex(zl, i - 1) = {where(i)} /\ ziplistIndex(zl, i - 1 - n) = {where(i)}
     /\ ziplistIndex(zl, n) = {} /\ ziplistIndex(zl, -n - 1) = {}
     /\ \A x \in Items, skip \in 0..1 : ziplistFind(zl, x, skip) = {where(i) : i \in first(x, skip)}
=============================================================================
