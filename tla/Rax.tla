--------------------------------- MODULE Rax ----------------------------------
(***************************************************************************)
(* Radix trees (rax.c): insertion with its node splits, removal with its   *)
(* recompression, and iterators with their seeks in both directions,       *)
(* beside the function from strings to data that the tree stands for.      *)
(*                                                                         *)
(* A tree is a node: [iskey, data, iscompr, chars, kids].  A compressed    *)
(* node has one child behind all its characters, any other one child for   *)
(* each.  The stack of an iterator or of a walk is the path of the node,   *)
(* the indexes of the children on the way to it.                           *)
(***************************************************************************)
EXTENDS Integers, Sequences, FiniteSets, SequencesExt, FiniteSetsExt, Functions

CONSTANTS
  Scenarios    \* records [Keys, Alphabet, MaxLen, Values]: the strings that are inserted, and
               \* the characters and length of those that are looked up

VARIABLES
  scenario,
  rax,         \* [head, numele, numnodes]
  abstract     \* the function

vars == <<scenario, rax, abstract>>

NULL == 0

raxNewNode == [iskey |-> FALSE, data |-> NULL, iscompr |-> FALSE, chars |-> <<>>, kids |-> <<>>]

raxSetData(n, data) == [n EXCEPT !.iskey = TRUE, !.data = data]

Size(n) == Len(n.chars)

RECURSIVE NodeAt(_, _)
NodeAt(n, path) == IF path = <<>> THEN n ELSE NodeAt(n.kids[Head(path)], Tail(path))

\* The tree with another node at a path.
RECURSIVE Replace(_, _, _)
Replace(n, path, new) ==
  IF path = <<>> THEN new ELSE [n EXCEPT !.kids[Head(path)] = Replace(@, Tail(path), new)]

\* The characters of the edge to a child.
Edge(n, i) == IF n.iscompr THEN n.chars ELSE <<n.chars[i]>>

RECURSIVE KeyOf(_, _)
KeyOf(n, path) ==
  IF path = <<>> THEN <<>> ELSE Edge(n, Head(path)) \o KeyOf(n.kids[Head(path)], Tail(path))

RECURSIVE CountNodes(_)
CountNodes(n) == 1 + FoldLeft(LAMBDA acc, k : acc + CountNodes(k), 0, n.kids)

-----------------------------------------------------------------------------
(* Walking down.                                                           *)

\* The length of the longest common prefix.
Common(s, t) == Max({0} \cup {k \in 1..Min({Len(s), Len(t)}) : SubSeq(s, 1, k) = SubSeq(t, 1, k)})

\* [path, i, j]: the node where the walk for s stopped, the characters matched, and the position
\* inside that node if it is compressed.
RECURSIVE LowWalk(_, _, _, _)
LowWalk(n, s, path, i) ==
  LET rest == SubSeq(s, i + 1, Len(s))
      common == Common(n.chars, rest)
      stop(j) == [path |-> path, i |-> i + j, j |-> j]
  IN IF Size(n) = 0 \/ rest = <<>> THEN stop(0)
     ELSE IF n.iscompr
          THEN IF common # Size(n) THEN stop(common)
               ELSE LowWalk(n.kids[1], s, Append(path, 1), i + common)
     ELSE IF rest[1] \notin ToSet(n.chars) THEN stop(0)
     ELSE LET c == CHOOSE k \in DOMAIN n.chars : n.chars[k] = rest[1]
          IN LowWalk(n.kids[c], s, Append(path, c), i + 1)

raxLowWalk(r, s) == LowWalk(r.head, s, <<>>, 0)

\* Whether the walk ended at a key.
AtKey(r, w, s) == w.i = Len(s) /\ w.j = 0 /\ NodeAt(r.head, w.path).iskey

\* The datum of a string, as a set.
raxFind(r, s) == LET w == raxLowWalk(r, s)
                 IN IF AtKey(r, w, s) THEN {NodeAt(r.head, w.path).data} ELSE {}

-----------------------------------------------------------------------------
(* Insertion.                                                              *)

\* The children are kept in the order of their characters.
raxAddChild(n, c, child) ==
  LET pos == Cardinality({k \in DOMAIN n.chars : n.chars[k] < c}) + 1
  IN [n EXCEPT !.chars = InsertAt(@, pos, c), !.kids = InsertAt(@, pos, child)]

raxCompressNode(n, s, child) == [n EXCEPT !.iscompr = TRUE, !.chars = s, !.kids = <<child>>]

\* The nodes still missing below n for the rest of the string: [node, added].
RECURSIVE Extend(_, _, _)
Extend(n, rest, data) ==
  IF rest = <<>> THEN [node |-> raxSetData(n, data), added |-> 0]
  ELSE IF Size(n) = 0 /\ Len(rest) > 1
       THEN [node |-> raxCompressNode(n, rest, raxSetData(raxNewNode, data)), added |-> 1]
       ELSE LET below == Extend(raxNewNode, Tail(rest), data)
            IN [node |-> raxAddChild(n, rest[1], below.node), added |-> below.added + 1]

\* A node of the given characters over one child.
Chain(n, chars, child) == [n EXCEPT !.iscompr = Len(chars) > 1, !.chars = chars, !.kids = <<child>>]

\* The mutant loses the key of a node that is trimmed.
SplitMismatchNoKey(h, j, rest, data) ==
  LET after == SubSeq(h.chars, j + 2, Size(h))
      postfix == IF after = <<>> THEN h.kids[1] ELSE Chain(raxNewNode, after, h.kids[1])
      bare == [raxNewNode EXCEPT !.chars = <<h.chars[j + 1]>>, !.kids = <<postfix>>]
      split == Extend(IF j = 0 /\ h.iskey THEN raxSetData(bare, h.data) ELSE bare, rest, data)
  IN [node |-> IF j = 0 THEN split.node ELSE Chain(raxNewNode, SubSeq(h.chars, 1, j), split.node),
      added |-> split.added + (IF j = 0 THEN 0 ELSE 1) + (IF after = <<>> THEN 0 ELSE 1)]

\* Algorithm 1: the walk stopped at a character of a compressed node that differs.  The node
\* becomes its first j characters, a split node with two children, and a node for the rest.
SplitMismatch(h, j, rest, data) ==
  LET after == SubSeq(h.chars, j + 2, Size(h))
      postfix == IF after = <<>> THEN h.kids[1] ELSE Chain(raxNewNode, after, h.kids[1])
      bare == [raxNewNode EXCEPT !.chars = <<h.chars[j + 1]>>, !.kids = <<postfix>>]
      split == Extend(IF j = 0 /\ h.iskey THEN raxSetData(bare, h.data) ELSE bare, rest, data)
  IN [node |-> IF j = 0 THEN split.node ELSE Chain(h, SubSeq(h.chars, 1, j), split.node),
      added |-> split.added + (IF j = 0 THEN 0 ELSE 1) + (IF after = <<>> THEN 0 ELSE 1)]

\* Algorithm 2: the string ended inside a compressed node, which is cut there.
SplitPrefix(h, j, data) ==
  LET postfix == Chain(raxSetData(raxNewNode, data), SubSeq(h.chars, j + 1, Size(h)), h.kids[1])
  IN [node |-> Chain(h, SubSeq(h.chars, 1, j), postfix), added |-> 1]

raxGenericInsert(r, s, data, overwrite) ==
  LET w == raxLowWalk(r, s)
      h == NodeAt(r.head, w.path)
      rest == SubSeq(s, w.i + 1, Len(s))
      put(x, n) == [r EXCEPT !.head = Replace(@, w.path, x), !.numele = @ + 1, !.numnodes = @ + n]
      grown == IF rest = <<>> THEN SplitPrefix(h, w.j, data)
               ELSE IF h.iscompr THEN SplitMismatch(h, w.j, rest, data) ELSE Extend(h, rest, data)
  IN IF rest = <<>> /\ w.j = 0
     THEN IF ~h.iskey THEN put(raxSetData(h, data), 0)
          ELSE IF overwrite THEN [r EXCEPT !.head = Replace(@, w.path, raxSetData(h, data))] ELSE r
     ELSE put(grown.node, grown.added)

-----------------------------------------------------------------------------
(* Removal.                                                                *)

raxRemoveChild(n, i) ==
  IF n.iscompr THEN [n EXCEPT !.iscompr = FALSE, !.chars = <<>>, !.kids = <<>>]
  ELSE [n EXCEPT !.chars = RemoveAt(@, i), !.kids = RemoveAt(@, i)]

\* A node where a chain of single children ends.
EndsChain(n) == n.iskey \/ (~n.iscompr /\ Size(n) # 1)

\* How far up nodes without a key and a second child go away: the length of the path left.
RECURSIVE ClimbTo(_, _, _)
ClimbTo(head, path, k) ==
  IF k = 0 \/ EndsChain(NodeAt(head, SubSeq(path, 1, k))) THEN k ELSE ClimbTo(head, path, k - 1)

\* The first node of the chain that can be compressed.
RECURSIVE ChainStart(_, _)
ChainStart(head, path) ==
  IF path = <<>> \/ EndsChain(NodeAt(head, Front(path))) THEN path ELSE ChainStart(head, Front(path))

\* [chars, nodes, next]: the chain below a node, and the first node that stays.
RECURSIVE ChainFrom(_)
ChainFrom(n) ==
  LET child == n.kids[1]
  IN IF EndsChain(child) THEN [chars |-> n.chars, nodes |-> 1, next |-> child]
     ELSE LET below == ChainFrom(child)
          IN [chars |-> n.chars \o below.chars, nodes |-> below.nodes + 1, next |-> below.next]

TryCompress(r, path) ==
  LET start == ChainStart(r.head, path)
      chain == ChainFrom(NodeAt(r.head, start))
  IN IF chain.nodes = 1 THEN r
     ELSE [r EXCEPT !.head = Replace(@, start, raxCompressNode(raxNewNode, chain.chars, chain.next)),
                    !.numnodes = @ + 1 - chain.nodes]

raxRemove(r, s) ==
  LET w == raxLowWalk(r, s)
      h == [NodeAt(r.head, w.path) EXCEPT !.iskey = FALSE, !.data = NULL]
      unset == [r EXCEPT !.head = Replace(@, w.path, h), !.numele = @ - 1]
      k == ClimbTo(unset.head, w.path, Len(w.path) - 1)
      up == SubSeq(w.path, 1, k)
      new == raxRemoveChild(NodeAt(unset.head, up), w.path[k + 1])
      cut == [unset EXCEPT !.head = Replace(@, up, new), !.numnodes = @ - (Len(w.path) - k)]
  IN IF ~AtKey(r, w, s) THEN r
     ELSE IF Size(h) = 0 /\ w.path = <<>> THEN unset
     ELSE IF Size(h) = 0 THEN (IF Size(new) = 1 /\ ~new.iskey THEN TryCompress(cut, up) ELSE cut)
     ELSE IF Size(h) = 1 THEN TryCompress(unset, w.path)
     ELSE unset

-----------------------------------------------------------------------------
(* Iterators: [path, key, eof, just].                                      *)

Last1(s) == s[Len(s)]

DelChars(key, n) == SubSeq(key, 1, Len(key) - (IF n.iscompr THEN Size(n) ELSE 1))

\* Down one edge.
Enter(r, it, i) == [it EXCEPT !.key = @ \o Edge(NodeAt(r.head, it.path), i), !.path = Append(@, i)]

\* The step to the next key.  "down" says whether the subtree of the node comes first, "noup"
\* that the node is already the parent of what comes before.
RECURSIVE NextFrom(_, _, _, _, _)
NextFrom(r, it, down, noup, orig) ==
  LET n == NodeAt(r.head, it.path)
      deeper == Enter(r, it, 1)
      prevchild == Last1(it.key)
      up == IF noup THEN it.path ELSE Front(it.path)
      p == NodeAt(r.head, up)
      risen == [it EXCEPT !.path = up, !.key = DelChars(it.key, p)]
      later == {i \in DOMAIN p.chars : p.chars[i] > prevchild}
      over == Enter(r, risen, Min(later))
  IN IF down /\ n.kids # <<>>
       THEN IF NodeAt(r.head, deeper.path).iskey THEN deeper ELSE NextFrom(r, deeper, TRUE, FALSE, orig)
     ELSE IF ~noup /\ it.path = <<>> THEN [orig EXCEPT !.eof = TRUE]
     ELSE IF ~p.iscompr /\ Size(p) > (IF noup THEN 0 ELSE 1) /\ later # {}
       THEN IF NodeAt(r.head, over.path).iskey THEN over ELSE NextFrom(r, over, TRUE, FALSE, orig)
     ELSE NextFrom(r, risen, FALSE, FALSE, orig)

raxIteratorNextStep(r, it, noup) ==
  IF it.eof THEN it ELSE IF it.just THEN [it EXCEPT !.just = FALSE]
  ELSE NextFrom(r, it, ~noup, noup, it)

RECURSIVE raxSeekGreatest(_, _)
raxSeekGreatest(r, it) ==
  LET n == NodeAt(r.head, it.path)
  IN IF Size(n) = 0 THEN it ELSE raxSeekGreatest(r, Enter(r, it, Len(n.kids)))

RECURSIVE PrevFrom(_, _, _, _)
PrevFrom(r, it, noup, orig) ==
  LET prevchild == Last1(it.key)
      up == IF noup THEN it.path ELSE Front(it.path)
      p == NodeAt(r.head, up)
      risen == [it EXCEPT !.path = up, !.key = DelChars(it.key, p)]
      earlier == {i \in DOMAIN p.chars : p.chars[i] < prevchild}
      over == IF ~p.iscompr /\ Size(p) > (IF noup THEN 0 ELSE 1) /\ earlier # {}
              THEN raxSeekGreatest(r, Enter(r, risen, Max(earlier))) ELSE risen
  IN IF ~noup /\ it.path = <<>> THEN [orig EXCEPT !.eof = TRUE]
     ELSE IF NodeAt(r.head, over.path).iskey THEN over
     ELSE PrevFrom(r, over, FALSE, orig)

raxIteratorPrevStep(r, it, noup) ==
  IF it.eof THEN it ELSE IF it.just THEN [it EXCEPT !.just = FALSE] ELSE PrevFrom(r, it, noup, it)

raxStart == [path |-> <<>>, key |-> <<>>, eof |-> FALSE, just |-> TRUE]

\* raxSeek with ">=", ">", "<", "<=" or "=" of a string.
\* The walk ended inside the string or the tree, at the node n: one step on or back from there.
SeekFrom(r, gt, lt, s, w, n, here) ==
  LET step(it, noup) == IF lt THEN raxIteratorPrevStep(r, it, noup) ELSE raxIteratorNextStep(r, it, noup)
      c == s[w.i + 1]
      d == n.chars[w.j + 1]
      split == w.i # Len(s) /\ n.iscompr
      past == split /\ ((gt /\ d <= c) \/ (lt /\ d >= c))
  IN IF split /\ lt /\ d < c THEN raxSeekGreatest(r, here)
     ELSE IF w.i = Len(s) /\ n.iscompr /\ n.iskey /\ w.j # 0 /\ lt THEN here
     ELSE step([here EXCEPT !.key = IF past THEN @ \o n.chars
                                    ELSE IF w.i # Len(s) /\ ~n.iscompr THEN Append(@, c) ELSE @],
               past \/ (w.i # Len(s) /\ ~n.iscompr))

SeekAt(r, gt, lt, eq, s, w) ==
  LET here == [path |-> w.path, key |-> KeyOf(r.head, w.path), eof |-> FALSE, just |-> FALSE]
  IN IF eq /\ AtKey(r, w, s) THEN [here EXCEPT !.key = s, !.just = TRUE]
     ELSE IF ~lt /\ ~gt THEN [raxStart EXCEPT !.eof = TRUE]
     ELSE [SeekFrom(r, gt, lt, s, w, NodeAt(r.head, w.path), here) EXCEPT !.just = TRUE]

SeekTo(r, gt, lt, eq, s) == SeekAt(r, gt, lt, eq, s, raxLowWalk(r, s))

raxSeek(r, op, s) ==
  IF r.numele = 0 THEN [raxStart EXCEPT !.eof = TRUE]
  ELSE IF op = "$" THEN raxSeekGreatest(r, raxStart)
  ELSE SeekTo(r, op \in {"^", ">", ">="}, op \in {"<", "<="}, op \in {"^", "=", ">=", "<="},
              IF op = "^" THEN <<>> ELSE s)

raxNext(r, it) == raxIteratorNextStep(r, it, FALSE)
raxPrev(r, it) == raxIteratorPrevStep(r, it, FALSE)

-----------------------------------------------------------------------------
Init ==
  /\ scenario \in Scenarios
  /\ rax = [head |-> raxNewNode, numele |-> 0, numnodes |-> 1]
  /\ abstract = [s \in {} |-> NULL]

Without(s) == Restrict(abstract, DOMAIN abstract \ {s})

Insert ==
  \E s \in scenario.Keys, data \in scenario.Values, overwrite \in BOOLEAN :
    /\ rax' = raxGenericInsert(rax, s, data, overwrite)
    /\ abstract' = IF s \in DOMAIN abstract /\ ~overwrite THEN abstract
                   ELSE [t \in DOMAIN abstract \cup {s} |-> IF t = s THEN data ELSE abstract[t]]
    /\ UNCHANGED scenario

Delete ==
  \E s \in scenario.Keys : /\ rax' = raxRemove(rax, s)
                           /\ abstract' = Without(s)
                           /\ UNCHANGED scenario

Next == Insert \/ Delete

Spec == Init /\ [][Next]_vars

-----------------------------------------------------------------------------
Strings == UNION {[1..n -> scenario.Alphabet] : n \in 0..scenario.MaxLen}

RECURSIVE Below(_, _)
Below(s, t) == IF t = <<>> THEN FALSE ELSE IF s = <<>> THEN TRUE
               ELSE Head(s) < Head(t) \/ (Head(s) = Head(t) /\ Below(Tail(s), Tail(t)))

\* The shape of the tree: characters in order, compressed nodes of at least two characters over
\* one child, no dead branches.
RECURSIVE WellFormed(_, _)
WellFormed(n, top) ==
  /\ IF n.iscompr THEN Size(n) > 1 /\ Len(n.kids) = 1 ELSE Len(n.kids) = Size(n)
  /\ ~n.iscompr => \A i, j \in DOMAIN n.chars : i < j => n.chars[i] < n.chars[j]
  /\ Size(n) = 0 /\ ~top => n.iskey
  /\ \A i \in DOMAIN n.kids : WellFormed(n.kids[i], FALSE)

\* After any insertions, overwrites and removals, with all the splits and merges of nodes they cause:
\* the tree is well formed, its counters are right (raxFree asserts that of the nodes), and every
\* string is found with its datum exactly if it was inserted and not removed.
RaxExact ==
  /\ WellFormed(rax.head, TRUE)
  /\ rax.numele = Cardinality(DOMAIN abstract) /\ rax.numnodes = CountNodes(rax.head)
  /\ \A s \in Strings : raxFind(rax, s) = (IF s \in DOMAIN abstract THEN {abstract[s]} ELSE {})

\* A seek with any operator to any string, present or not, ends at the key the order of strings
\* says, or at the end of the tree, and so do one step forward and one step back from there.
SeekExact ==
  LET keys == DOMAIN abstract
      least(S) == {s \in S : \A t \in S : ~Below(t, s)}
      greatest(S) == {s \in S : \A t \in S : ~Below(s, t)}
      at(it) == IF it.eof THEN {} ELSE {it.key}
      off(it) == [it EXCEPT !.just = FALSE]
      goalOf(op, s) ==
                   CASE op = "^" -> least(keys)
                     [] op = "$" -> greatest(keys)
                     [] op = "=" -> keys \cap {s}
                     [] op = ">" -> least({t \in keys : Below(s, t)})
                     [] op = ">=" -> least({t \in keys : ~Below(t, s)})
                     [] op = "<" -> greatest({t \in keys : Below(t, s)})
                     [] op = "<=" -> greatest({t \in keys : ~Below(s, t)})
      exact(it, goal) ==
          /\ at(it) = goal
          /\ ~it.eof => /\ at(raxNext(rax, it)) = goal
                        /\ at(raxNext(rax, off(it))) = least({t \in keys : Below(it.key, t)})
                        /\ at(raxPrev(rax, off(it))) = greatest({t \in keys : Below(t, it.key)})
  IN \A s \in Strings, op \in {"^", "$", "=", ">", ">=", "<", "<="} :
       exact(raxSeek(rax, op, s), goalOf(op, s))
=============================================================================
