--------------------------------- MODULE Sets ---------------------------------
(***************************************************************************)
(* The set type: sorted arrays of integers of one width (intset.c), their  *)
(* conversion to hash tables, and the commands of t_set.c, beside the sets *)
(* the commands mean and the sets of a replica that executes what they     *)
(* propagate.                                                              *)
(*                                                                         *)
(* The memory of an intset is a sequence of cells of the least width.  A   *)
(* value of width w fills w cells, each with the value, the width and its  *)
(* place in the value: reading with another width or across two values     *)
(* gives Garbage, as in the middle of an upgrade.  An element is a number; *)
(* those of scenario.Strings stand for strings that are no integers.  An   *)
(* hash table is the set of its keys (see Dict).                           *)
(***************************************************************************)
EXTENDS Integers, Sequences, FiniteSets, SequencesExt, FiniteSetsExt, Functions

CONSTANTS
  Scenarios    \* records [Keys, Elements, Strings, Max16, Max32, MaxIntset, Counts]

VARIABLES
  scenario,
  db,          \* the set objects of the keys that exist
  abstract,    \* the set of each key
  replica,     \* the set of each key on the replica
  missed       \* the last command changed a key without telling its watchers or being dirty

vars == <<scenario, db, abstract, replica, missed>>

Garbage == -999

-----------------------------------------------------------------------------
(* intset.c.                                                               *)

_intsetValueEncoding(v) ==
  IF v \notin -scenario.Max32 - 1 .. scenario.Max32 THEN 4
  ELSE IF v \notin -scenario.Max16 - 1 .. scenario.Max16 THEN 2 ELSE 1

_intsetGetEncoded(is, pos, enc) ==
  LET at == SubSeq(is.cells, pos * enc + 1, (pos + 1) * enc)
      v == at[1][1]
  IN IF at = [i \in 1..enc |-> <<v, enc, i>>] THEN v ELSE Garbage

_intsetGet(is, pos) == _intsetGetEncoded(is, pos, is.encoding)

_intsetSet(is, pos, v) ==
  [is EXCEPT !.cells = [c \in DOMAIN @ |->
     IF c \in pos * is.encoding + 1 .. (pos + 1) * is.encoding
     THEN <<v, is.encoding, c - pos * is.encoding>> ELSE @[c]]]

intsetNew == [encoding |-> 1, cells |-> <<>>, length |-> 0]

intsetResize(is, len) ==
  [is EXCEPT !.cells = [c \in 1..len * is.encoding |->
                          IF c \in DOMAIN @ THEN @[c] ELSE <<Garbage, 0, 0>>]]

RECURSIVE Bisect(_, _, _, _)
Bisect(is, v, low, high) ==
  LET mid == (low + high) \div 2
      cur == _intsetGet(is, mid)
  IN IF high < low THEN [found |-> FALSE, pos |-> low]
     ELSE IF v = cur THEN [found |-> TRUE, pos |-> mid]
     ELSE Bisect(is, v, IF v > cur THEN mid + 1 ELSE low, IF v > cur THEN high ELSE mid - 1)

intsetSearch(is, v) ==
  IF is.length = 0 THEN [found |-> FALSE, pos |-> 0]
  ELSE IF v > _intsetGet(is, is.length - 1) THEN [found |-> FALSE, pos |-> is.length]
  ELSE IF v < _intsetGet(is, 0) THEN [found |-> FALSE, pos |-> 0]
  ELSE Bisect(is, v, 0, is.length - 1)

\* The mutant widens the values from the front.
WidenUp(is, old, n, prepend) ==
  FoldLeft(LAMBDA acc, i : _intsetSet(acc, i - 1 + prepend, _intsetGetEncoded(acc, i - 1, old)),
           is, [i \in 1..n |-> i])

\* The values are widened in place, from the last to the first.
Widen(is, old, n, prepend) ==
  FoldLeft(LAMBDA acc, i : _intsetSet(acc, n - i + prepend, _intsetGetEncoded(acc, n - i, old)),
           is, [i \in 1..n |-> i])

intsetUpgradeAndAdd(is, v) ==
  LET prepend == IF v < 0 THEN 1 ELSE 0
      roomy == intsetResize([is EXCEPT !.encoding = _intsetValueEncoding(v)], is.length + 1)
      wide == Widen(roomy, is.encoding, is.length, prepend)
  IN [_intsetSet(wide, IF v < 0 THEN 0 ELSE is.length, v) EXCEPT !.length = @ + 1]

intsetMoveTail(is, from, to) ==
  LET e == is.encoding
      n == (is.length - from) * e
  IN [is EXCEPT !.cells = [c \in DOMAIN @ |->
        IF c \in to * e + 1 .. to * e + n THEN @[c - to * e + from * e] ELSE @[c]]]

InsertAtPos(is, v, pos) ==
  LET roomy == intsetResize(is, is.length + 1)
      moved == IF pos < is.length THEN intsetMoveTail(roomy, pos, pos + 1) ELSE roomy
  IN [_intsetSet(moved, pos, v) EXCEPT !.length = @ + 1]

intsetAdd(is, v) ==
  LET found(at) == IF at.found THEN is ELSE InsertAtPos(is, v, at.pos)
  IN IF _intsetValueEncoding(v) > is.encoding THEN intsetUpgradeAndAdd(is, v)
     ELSE found(intsetSearch(is, v))

intsetFind(is, v) == _intsetValueEncoding(v) <= is.encoding /\ intsetSearch(is, v).found

RemoveAtPos(is, pos) ==
  LET moved == IF pos < is.length - 1 THEN intsetMoveTail(is, pos + 1, pos) ELSE is
  IN [intsetResize(moved, is.length - 1) EXCEPT !.length = @ - 1]

intsetRemove(is, v) ==
  LET found(at) == IF at.found THEN RemoveAtPos(is, at.pos) ELSE is
  IN IF _intsetValueEncoding(v) > is.encoding THEN is ELSE found(intsetSearch(is, v))

intsetValues(is) == {_intsetGet(is, i) : i \in 0..is.length - 1}

-----------------------------------------------------------------------------
(* Set objects: [ht, is, elements], an intset or a hash table.             *)

isSdsRepresentableAsLongLong(e) == e \notin scenario.Strings

createIntsetObject == [ht |-> FALSE, is |-> intsetNew, elements |-> {}]

setTypeCreate(e) == [createIntsetObject EXCEPT !.ht = ~isSdsRepresentableAsLongLong(e)]

\* What iterating over the set returns, and how many there are.
Members(o) == IF o.ht THEN o.elements ELSE intsetValues(o.is)
setTypeSize(o) == IF o.ht THEN Cardinality(o.elements) ELSE o.is.length

setTypeConvert(o) == [ht |-> TRUE, is |-> intsetNew, elements |-> intsetValues(o.is)]

setTypeIsMember(o, e) ==
  IF o.ht THEN e \in o.elements ELSE isSdsRepresentableAsLongLong(e) /\ intsetFind(o.is, e)

setTypeAdd(o, e) ==
  LET after(is) == IF is.length > scenario.MaxIntset /\ is # o.is THEN setTypeConvert([o EXCEPT !.is = is])
                   ELSE [o EXCEPT !.is = is]
  IN IF o.ht THEN [o EXCEPT !.elements = @ \cup {e}]
     ELSE IF ~isSdsRepresentableAsLongLong(e) THEN [setTypeConvert(o) EXCEPT !.elements = @ \cup {e}]
     ELSE after(intsetAdd(o.is, e))

setTypeRemove(o, e) ==
  IF o.ht THEN [o EXCEPT !.elements = @ \ {e}]
  ELSE IF isSdsRepresentableAsLongLong(e) THEN [o EXCEPT !.is = intsetRemove(@, e)] ELSE o

AddAll(o, S) == FoldSet(LAMBDA e, acc : setTypeAdd(acc, e), o, S)
RemoveAll(o, S) == FoldSet(LAMBDA e, acc : setTypeRemove(acc, e), o, S)

-----------------------------------------------------------------------------
(* Unions, intersections and differences of the sets of a sequence of      *)
(* keys; a key that does not exist has no object.                          *)

Exists(k) == k \in DOMAIN db

\* The smallest set is walked, and every other one asked.
sinterGenericCommand(keys) ==
  LET first == CHOOSE k \in ToSet(keys) :
                 \A l \in ToSet(keys) : setTypeSize(db[k]) <= setTypeSize(db[l])
  IN IF \E k \in ToSet(keys) : ~Exists(k) THEN createIntsetObject
     ELSE AddAll(createIntsetObject,
                 {e \in Members(db[first]) :
                    \A k \in ToSet(keys) \ {first} : setTypeIsMember(db[k], e)})

Union(keys) == FoldLeft(LAMBDA acc, k : IF Exists(k) THEN AddAll(acc, Members(db[k])) ELSE acc,
                        createIntsetObject, keys)

\* Each element of the first set is looked up in the others.
DiffByLookup(keys) ==
  LET others == ToSet(Tail(keys))
  IN AddAll(createIntsetObject,
            {e \in Members(db[keys[1]]) :
               /\ keys[1] \notin others
               /\ \A k \in others : Exists(k) => ~setTypeIsMember(db[k], e)})

\* The elements of the others are removed from a copy of the first, until it is empty.
DiffByRemoval(keys) ==
  FoldLeft(LAMBDA acc, k : IF Exists(k) /\ setTypeSize(acc) # 0 THEN RemoveAll(acc, Members(db[k]))
                           ELSE acc,
           AddAll(createIntsetObject, Members(db[keys[1]])), Tail(keys))

sdiffGenericCommand(keys) ==
  LET there == SelectSeq(keys, Exists)
      one == (Len(there) * setTypeSize(db[keys[1]])) \div 2
      two == FoldLeft(LAMBDA acc, k : acc + setTypeSize(db[k]), 0, there)
  IN IF ~Exists(keys[1]) THEN createIntsetObject
     ELSE IF one <= two THEN DiffByLookup(keys) ELSE DiffByRemoval(keys)

-----------------------------------------------------------------------------
(* Commands.                                                               *)

Init ==
  /\ scenario \in Scenarios
  /\ db = [k \in {} |-> createIntsetObject]
  /\ abstract = [k \in scenario.Keys |-> {}] /\ replica = abstract
  /\ missed = FALSE

With(d, k, o) == [l \in DOMAIN d \cup {k} |-> IF l = k THEN o ELSE d[l]]
dbDelete(d, k) == Restrict(d, DOMAIN d \ {k})

\* The key is gone with its last element.
Store(d, k, o) == IF setTypeSize(o) = 0 THEN dbDelete(d, k) ELSE With(d, k, o)

\* The command made the database d and tells the watchers of the keys in signalled.  Means says what
\* it does to the sets, and if it is dirty, Propagates what the replica does to its own.
Done(d, Means(_), signalled, dirty, Propagates(_)) ==
  LET changed == {k \in scenario.Keys : Means(abstract)[k] # abstract[k]}
  IN /\ db' = d /\ abstract' = Means(abstract)
     /\ replica' = IF dirty THEN Propagates(replica) ELSE replica
     /\ missed' = (changed # {} /\ ~(dirty /\ changed \subseteq signalled))
     /\ UNCHANGED scenario

If(b, k) == IF b THEN {k} ELSE {}

SAdd ==
  \E k \in scenario.Keys, es \in SUBSET scenario.Elements \ {{}} :
    LET set == IF Exists(k) THEN db[k] ELSE setTypeCreate(CHOOSE e \in es : TRUE)
        means(sets) == [sets EXCEPT ![k] = @ \cup es]
    IN /\ Cardinality(es) <= 2
       /\ \E after \in {AddAll(set, es)} :
            LET added == setTypeSize(after) - setTypeSize(set)
            IN Done(With(db, k, after), means, If(added > 0, k), added > 0, means)

SRem ==
  \E k \in scenario.Keys, es \in SUBSET scenario.Elements \ {{}} :
    LET means(sets) == [sets EXCEPT ![k] = @ \ es]
    IN /\ Exists(k) /\ Cardinality(es) <= 2
       /\ \E left \in {RemoveAll(db[k], es)} :
            LET deleted == setTypeSize(db[k]) - setTypeSize(left)
            IN Done(Store(db, k, left), means, If(deleted > 0, k), deleted > 0, means)

SMove ==
  \E src, dst \in scenario.Keys, e \in scenario.Elements :
    LET removed == setTypeRemove(db[src], e)
        dstset == IF Exists(dst) THEN db[dst] ELSE setTypeCreate(e)
        means(sets) == [sets EXCEPT ![src] = @ \ {e}, ![dst] = @ \cup {e}]
    IN /\ Exists(src) /\ src # dst
       /\ setTypeSize(removed) < setTypeSize(db[src])
       /\ Done(With(Store(db, src, removed), dst, setTypeAdd(dstset, e)), means, {src, dst}, TRUE, means)

\* One random element, propagated as SREM.
SPop ==
  \E k \in DOMAIN db : \E e \in Members(db[k]) :
    LET left == IF db[k].ht THEN setTypeRemove(db[k], e) ELSE [db[k] EXCEPT !.is = intsetRemove(@, e)]
        means(sets) == [sets EXCEPT ![k] = @ \ {e}]
    IN Done(Store(db, k, left), means, {k}, TRUE, means)

\* The elements that SPOP with a count sends to the client and propagates, when it copies the ones it
\* keeps to a new set.
Propagated(o, kept) == Members(RemoveAll(o, kept))

\* SPOP with a count: all, propagated as DEL, few, removed one by one, or all but few, which are
\* moved to a new set.
SPopCount ==
  \E k \in DOMAIN db, count \in scenario.Counts :
    LET size == setTypeSize(db[k])
        remaining == size - count
    IN \/ /\ count >= size
          /\ LET none(sets) == [sets EXCEPT ![k] = {}]
             IN Done(dbDelete(db, k), none, {k}, TRUE, none)
       \/ /\ count < size /\ remaining * 5 > count
          /\ \E out \in kSubset(count, Members(db[k])) :
               LET means(sets) == [sets EXCEPT ![k] = @ \ out]
               IN Done(With(db, k, RemoveAll(db[k], out)), means, {k}, TRUE, means)
       \/ /\ count < size /\ remaining * 5 <= count
          /\ \E kept \in kSubset(remaining, Members(db[k])) :
               LET means(sets) == [sets EXCEPT ![k] = @ \cap kept]
                   srem(sets) == [sets EXCEPT ![k] = @ \ Propagated(db[k], kept)]
               IN Done(With(db, k, AddAll(setTypeCreate(CHOOSE e \in kept : TRUE), kept)),
                       means, {k}, TRUE, srem)

MeansInter(sets, keys) == {e \in scenario.Elements : \A k \in ToSet(keys) : e \in sets[k]}
MeansUnion(sets, keys) == {e \in scenario.Elements : \E k \in ToSet(keys) : e \in sets[k]}
MeansDiff(sets, keys) == {e \in sets[keys[1]] : \A i \in 2..Len(keys) : e \notin sets[keys[i]]}

KeyLists == UNION {[1..n -> scenario.Keys] : n \in 1..3}

\* SINTERSTORE with a key that does not exist deletes the destination, and is dirty only if there
\* was one; otherwise a command that stores always is.
StoreResult ==
  \E dst \in scenario.Keys, keys \in KeyLists, op \in {"inter", "union", "diff"} :
    LET result == CASE op = "inter" -> sinterGenericCommand(keys)
                    [] op = "union" -> Union(keys)
                    [] op = "diff" -> sdiffGenericCommand(keys)
        means(sets) == [sets EXCEPT ![dst] = CASE op = "inter" -> MeansInter(sets, keys)
                                               [] op = "union" -> MeansUnion(sets, keys)
                                               [] op = "diff" -> MeansDiff(sets, keys)]
        dirty == (op = "inter" /\ \E k \in ToSet(keys) : ~Exists(k)) => Exists(dst)
    IN Done(Store(db, dst, result), means, If(dirty, dst), dirty, means)

Next == SAdd \/ SRem \/ SMove \/ SPop \/ SPopCount \/ StoreResult

Spec == Init /\ [][Next]_vars

-----------------------------------------------------------------------------
\* Both encodings hold exactly the set the commands made: an intset stays sorted and readable through
\* every upgrade of its width, whatever order the values come in; membership and size are those of
\* the set; empty sets are gone; unions, intersections and both algorithms of the difference give
\* what they mean, also when a key occurs twice, is missing or is the destination; and a command that
\* changed a key told its watchers and was dirty.
SetsExact ==
  /\ ~missed
  /\ \A k \in scenario.Keys :
       IF ~Exists(k) THEN abstract[k] = {}
       ELSE LET o == db[k] IN
            /\ abstract[k] # {} /\ Members(o) = abstract[k]
            /\ setTypeSize(o) = Cardinality(abstract[k])
            /\ \A e \in scenario.Elements : setTypeIsMember(o, e) = (e \in abstract[k])
            /\ ~o.ht => /\ o.is.length <= scenario.MaxIntset
                        /\ \A i \in 1..o.is.length - 1 : _intsetGet(o.is, i - 1) < _intsetGet(o.is, i)

\* SPOP is random: what it propagates in its place, SREM or DEL, and what every other command
\* propagates, gives a replica the same sets.
SetReplicaInSync == replica = abstract
=============================================================================
