------------------------------- MODULE Strings --------------------------------
(***************************************************************************)
(* String commands (t_string.c) on objects with reference counts           *)
(* (object.c, db.c): small integers are shared, other integers are kept as *)
(* numbers, short strings are embedded and may not be changed in place.  A *)
(* key, the arguments of the command and those of a transaction's queue    *)
(* may refer to the same object.  A replica runs what is propagated.       *)
(***************************************************************************)
EXTENDS Numbers, FiniteSets, FiniteSetsExt

CONSTANTS
    Scenarios,   \* bounds: records with the fields below
    CommandSets  \* the commands, by the name a scenario gives them

VARIABLES
    scenario,
    srv,       \* heap: the objects; db: type, object and time to live per key; prop: what is propagated
    queue,     \* the transaction of the client: active, and its commands with their arguments
    seen,      \* how the keys should be, on the master and on the replica
    reply      \* the last reply, and the one it should have been

vars == <<scenario, srv, queue, seen, reply>>

Keys == scenario.Keys
Commands == CommandSets[scenario.Commands]
no_shared_integers == scenario.NoShared     \* maxmemory with an LRU or LFU policy
MaxOps == scenario.MaxOps                   \* bound on the commands
Heap == 1..8                                \* bound on the objects that are not shared
OBJ_SHARED_INTEGERS == 3                    \* 10000 in the code
EMBSTR_SIZE_LIMIT == 2                      \* 44 in the code
MaxLength == 4                              \* 512 MB in the code
NoKey == [type |-> "none", id |-> 0, ttl |-> FALSE]
Free == [rc |-> 0, enc |-> "raw", n |-> 0, s |-> <<>>]

Zeroes(n) == [i \in 1..n |-> 12]

-----------------------------------------------------------------------------
(* Objects.  Integer n of the shared ones is object -1 - n.                 *)

SharedId(n) == 0 - 1 - n
Obj(w, id) == w.heap[id]
IsShared(id) == id < 0

incrRefCount(w, id) == IF IsShared(id) THEN w ELSE [w EXCEPT !.heap[id].rc = @ + 1]

decrRefCount(w, id) ==
    IF IsShared(id) THEN w
    ELSE IF Obj(w, id).rc = 1 THEN [w EXCEPT !.heap[id] = Free]
    ELSE [w EXCEPT !.heap[id].rc = @ - 1]

\* A function that makes an object gives <<w, id>>.
Made(w, o) == LET id == Min({i \in Heap : w.heap[i].rc = 0}) IN <<[w EXCEPT !.heap[id] = o], id>>

createRawStringObject(w, s) == Made(w, [rc |-> 1, enc |-> "raw", n |-> 0, s |-> s])

createStringObject(w, s) ==
    IF Len(s) <= EMBSTR_SIZE_LIMIT THEN Made(w, [rc |-> 1, enc |-> "embstr", n |-> 0, s |-> s])
    ELSE createRawStringObject(w, s)

createStringObjectFromLongLongForValue(w, n) ==
    IF ~no_shared_integers /\ n \in 0..(OBJ_SHARED_INTEGERS - 1) THEN <<w, SharedId(n)>>
    ELSE Made(w, [rc |-> 1, enc |-> "int", n |-> n, s |-> <<>>])

Decoded(w, id) == IF Obj(w, id).enc = "int" THEN ll2string(Obj(w, id).n) ELSE Obj(w, id).s

\* The argument of the command is replaced by its best encoding.
tryObjectEncoding(w, id) ==
    LET o == Obj(w, id)
    IN  IF o.enc = "int" \/ o.rc > 1 THEN <<w, id>>
        ELSE IF IsInteger(o.s)
        THEN IF o.enc = "raw" /\ (no_shared_integers \/ string2ll(o.s) \notin 0..(OBJ_SHARED_INTEGERS - 1))
             THEN <<[w EXCEPT !.heap[id] = [@ EXCEPT !.enc = "int", !.n = string2ll(o.s), !.s = <<>>]], id>>
             ELSE createStringObjectFromLongLongForValue(decrRefCount(w, id), string2ll(o.s))
        ELSE IF Len(o.s) <= EMBSTR_SIZE_LIMIT /\ o.enc = "raw"
        THEN Made(decrRefCount(w, id), [o EXCEPT !.enc = "embstr"])
        ELSE <<w, id>>

-----------------------------------------------------------------------------
(* Keys.                                                                    *)

Exists(w, k) == w.db[k].type # "none"
IsString(w, k) == w.db[k].type = "string"

Drop(w, k) == IF IsString(w, k) THEN decrRefCount(w, w.db[k].id) ELSE w

dbAdd(w, k, id) == [w EXCEPT !.db[k] = [type |-> "string", id |-> id, ttl |-> FALSE]]

\* The time to live stays.
dbOverwrite(w, k, id) == [Drop(w, k) EXCEPT !.db[k].type = "string", !.db[k].id = id]

setKey(w, k, id) == dbAdd(Drop(incrRefCount(w, id), k), k, id)

\* The object of the key, in a form that may be changed in place.
dbUnshareStringValue(w, k) ==
    LET id == w.db[k].id
        made == createRawStringObject(w, Decoded(w, id))
    IN  IF Obj(w, id).rc # 1 \/ Obj(w, id).enc # "raw" THEN dbOverwrite(made[1], k, made[2]) ELSE w

-----------------------------------------------------------------------------
(* Commands.  A command is given its arguments as objects, argv, and gives  *)
(* the new state, the arguments as they are now, the reply, and whether it  *)
(* is propagated, and as what.                                              *)

Done(w, argv, answer, as) == [w |-> w, argv |-> argv, reply |-> answer, as |-> as]
Quiet(w, argv, answer) == Done(w, argv, answer, "nothing")
Ok == <<"ok">>
Nil == <<"nil">>
Error == <<"error">>
Bulk(s) == <<"bulk", s>>
Integer(n) == <<"integer", n>>

\* SET, SETNX, SETEX and PSETEX.
setGenericCommand(w, c, argv) ==
    LET k == c.keys[1]
        e == tryObjectEncoding(w, argv[1])
        set == setKey(e[1], k, e[2])
    IN  IF "zero" \in c.opt THEN Quiet(e[1], <<e[2]>>, Error)
        ELSE IF ("nx" \in c.opt /\ Exists(w, k)) \/ ("xx" \in c.opt /\ ~Exists(w, k))
        THEN Quiet(e[1], <<e[2]>>, Nil)
        ELSE Done([set EXCEPT !.db[k].ttl = "ex" \in c.opt], <<e[2]>>, Ok, c.name)

getGenericCommand(w, c, argv) ==
    LET k == c.keys[1]
    IN  Quiet(w, argv, IF ~Exists(w, k) THEN Nil ELSE IF ~IsString(w, k) THEN Error ELSE Bulk(Decoded(w, w.db[k].id)))

getsetCommand(w, c, argv) ==
    LET got == getGenericCommand(w, c, argv)
        e == tryObjectEncoding(w, argv[1])
    IN  IF got.reply = Error THEN got ELSE Done(setKey(e[1], c.keys[1], e[2]), <<e[2]>>, got.reply, c.name)

\* The string with v written at the offset.
Written(s, offset, v) ==
    LET grown == IF offset + Len(v) > Len(s) THEN s \o Zeroes(offset + Len(v) - Len(s)) ELSE s
    IN  [i \in DOMAIN grown |-> IF i \in (offset + 1)..(offset + Len(v)) THEN v[i - offset] ELSE grown[i]]

setrangeCommand(w, c, argv) ==
    LET k == c.keys[1]
        v == Decoded(w, argv[1])
        made == createRawStringObject(w, Zeroes(c.n[1] + Len(v)))
        o == IF Exists(w, k) THEN dbUnshareStringValue(w, k) ELSE dbAdd(made[1], k, made[2])
        after == Written(o.heap[o.db[k].id].s, c.n[1], v)
    IN  IF c.n[1] < 0 \/ (Exists(w, k) /\ ~IsString(w, k)) THEN Quiet(w, argv, Error)
        ELSE IF v = <<>> THEN Quiet(w, argv, Integer(IF Exists(w, k) THEN Len(Decoded(w, w.db[k].id)) ELSE 0))
        ELSE IF c.n[1] + Len(v) > MaxLength THEN Quiet(w, argv, Error)
        ELSE Done([o EXCEPT !.heap[o.db[k].id].s = after], argv, Integer(Len(after)), c.name)

getrangeCommand(w, c, argv) ==
    LET k == c.keys[1]
        s == Decoded(w, w.db[k].id)
        from(i) == IF i < 0 THEN Len(s) + i ELSE i
        clipped(i) == IF from(i) < 0 THEN 0 ELSE from(i)
        start == clipped(c.n[1])
        end == IF clipped(c.n[2]) >= Len(s) THEN Len(s) - 1 ELSE clipped(c.n[2])
    IN  Quiet(w, argv, IF ~Exists(w, k) THEN Bulk(<<>>) ELSE IF ~IsString(w, k) THEN Error
                       ELSE IF (c.n[1] < 0 /\ c.n[2] < 0 /\ c.n[1] > c.n[2]) \/ start > end \/ s = <<>> THEN Bulk(<<>>)
                       ELSE Bulk(SubSeq(s, start + 1, end + 1)))

\* MSET and MSETNX: all the keys or none.
msetGenericCommand(w, c, argv) ==
    LET step(acc, i) == LET e == tryObjectEncoding(acc.w, argv[i])
                        IN  [w |-> setKey(e[1], c.keys[i], e[2]), argv |-> Append(acc.argv, e[2])]
        after == FoldLeft(step, [w |-> w, argv |-> <<>>], [i \in DOMAIN c.keys |-> i])
    IN  IF "nx" \in c.opt /\ \E i \in DOMAIN c.keys : Exists(w, c.keys[i]) THEN Quiet(w, argv, Integer(0))
        ELSE Done(after.w, after.argv, IF "nx" \in c.opt THEN Integer(1) ELSE Ok, c.name)

\* The integer object of the key is changed in place if nobody else has it.
InPlaceAnyway(w, k, value) == Obj(w, w.db[k].id).enc = "int"

InPlace(w, k, value) ==
    /\ Obj(w, w.db[k].id).rc = 1 /\ Obj(w, w.db[k].id).enc = "int"
    /\ value < 0 \/ value >= OBJ_SHARED_INTEGERS

incrDecrCommand(w, c, argv) ==
    LET k == c.keys[1]
        s == Decoded(w, w.db[k].id)
        old == IF Exists(w, k) THEN string2ll(s) ELSE 0
        incr == c.n[1]
        value == old + incr
        made == createStringObjectFromLongLongForValue(w, value)
        after == IF ~Exists(w, k) THEN dbAdd(made[1], k, made[2])
                 ELSE IF InPlace(w, k, value) THEN [w EXCEPT !.heap[w.db[k].id].n = value]
                 ELSE dbOverwrite(made[1], k, made[2])
    IN  IF Exists(w, k) /\ (~IsString(w, k) \/ ~IsInteger(s)) THEN Quiet(w, argv, Error)
        ELSE IF WouldOverflow(old, incr) THEN Quiet(w, argv, Error)
        ELSE Done(after, argv, Integer(value), c.name)

\* Propagated as SET with the new value, which is the argument from then on.
incrbyfloatCommand(w, c, argv) ==
    LET k == c.keys[1]
        s == Decoded(w, w.db[k].id)
        value == (IF Exists(w, k) THEN strtold(s) ELSE 0) + c.n[1]
        made == createStringObject(w, ll2string(value))
        set == IF Exists(w, k) THEN dbOverwrite(made[1], k, made[2]) ELSE dbAdd(made[1], k, made[2])
    IN  IF Exists(w, k) /\ (~IsString(w, k) \/ ~IsFloat(s)) THEN Quiet(w, argv, Error)
        ELSE Done(decrRefCount(incrRefCount(set, made[2]), argv[1]), <<made[2]>>, Bulk(ll2string(value)), "set")

appendCommand(w, c, argv) ==
    LET k == c.keys[1]
        e == tryObjectEncoding(w, argv[1])
        o == dbUnshareStringValue(w, k)
        s == Decoded(w, w.db[k].id) \o Decoded(w, argv[1])
    IN  IF ~Exists(w, k)
        THEN Done(incrRefCount(dbAdd(e[1], k, e[2]), e[2]), <<e[2]>>, Integer(Len(Decoded(w, argv[1]))), c.name)
        ELSE IF ~IsString(w, k) \/ Len(s) > MaxLength THEN Quiet(w, argv, Error)
        ELSE Done([o EXCEPT !.heap[o.db[k].id].s = s], argv, Integer(Len(s)), c.name)

\* Commands of other types: a list in the place of the key, and its deletion.
Other(w, c, argv) ==
    LET k == c.keys[1]
    IN  IF c.name = "del" THEN Done([Drop(w, k) EXCEPT !.db[k] = NoKey], argv, Integer(IF Exists(w, k) THEN 1 ELSE 0), "del")
        ELSE IF Exists(w, k) THEN Quiet(w, argv, Error)
        ELSE Done([w EXCEPT !.db[k] = [NoKey EXCEPT !.type = "list"]], argv, Ok, "push")

Call(w, c, argv) ==
    CASE c.name = "set" -> setGenericCommand(w, c, argv)
      [] c.name = "get" -> getGenericCommand(w, c, argv)
      [] c.name = "getset" -> getsetCommand(w, c, argv)
      [] c.name = "setrange" -> setrangeCommand(w, c, argv)
      [] c.name = "getrange" -> getrangeCommand(w, c, argv)
      [] c.name = "mset" -> msetGenericCommand(w, c, argv)
      [] c.name = "incrby" -> incrDecrCommand(w, c, argv)
      [] c.name = "incrbyfloat" -> incrbyfloatCommand(w, c, argv)
      [] c.name = "append" -> appendCommand(w, c, argv)
      [] c.name \in {"del", "push"} -> Other(w, c, argv)

-----------------------------------------------------------------------------
(* What the commands should do to a value.                                  *)

Nothing == [type |-> "none", s |-> <<>>, ttl |-> FALSE]
Value(s, ttl) == [type |-> "string", s |-> s, ttl |-> ttl]

\* The new keys and the reply.
Meant(m, c) ==
    LET k == c.keys[1]
        old == m[k]
        v == IF c.vals = <<>> THEN <<>> ELSE c.vals[1]
        wrong == old.type = "list"
        set(s, ttl, answer) == <<[m EXCEPT ![k] = Value(s, ttl)], answer>>
        same(answer) == <<m, answer>>
        number == IF old.type = "none" THEN 0 ELSE strtold(old.s)
        index(i) == IF i < 0 THEN Max({0, Len(old.s) + i}) ELSE i
    IN  CASE c.name = "set" ->
               IF "zero" \in c.opt THEN same(Error)
               ELSE IF ("nx" \in c.opt /\ old.type # "none") \/ ("xx" \in c.opt /\ old.type = "none") THEN same(Nil)
               ELSE set(v, "ex" \in c.opt, Ok)
          [] c.name = "get" -> same(IF old.type = "none" THEN Nil ELSE IF wrong THEN Error ELSE Bulk(old.s))
          [] c.name = "getset" ->
               IF wrong THEN same(Error) ELSE set(v, FALSE, IF old.type = "none" THEN Nil ELSE Bulk(old.s))
          [] c.name = "setrange" ->
               IF wrong \/ c.n[1] < 0 THEN same(Error) ELSE IF v = <<>> THEN same(Integer(Len(old.s)))
               ELSE IF c.n[1] + Len(v) > MaxLength THEN same(Error)
               ELSE set(Written(old.s, c.n[1], v), old.ttl, Integer(Max({Len(old.s), c.n[1] + Len(v)})))
          [] c.name = "getrange" ->
               same(IF wrong THEN Error
                    ELSE LET in == {i \in 0..(Len(old.s) - 1) : index(c.n[1]) <= i /\ i <= index(c.n[2])}
                         IN  IF in = {} \/ (c.n[2] < c.n[1] /\ c.n[1] < 0) THEN Bulk(<<>>)
                             ELSE Bulk(SubSeq(old.s, Min(in) + 1, Max(in) + 1)))
          [] c.name = "mset" ->
               IF "nx" \in c.opt /\ \E i \in DOMAIN c.keys : m[c.keys[i]].type # "none" THEN same(Integer(0))
               ELSE <<[x \in Keys |-> IF \E i \in DOMAIN c.keys : c.keys[i] = x
                                      THEN Value(c.vals[Max({i \in DOMAIN c.keys : c.keys[i] = x})], FALSE) ELSE m[x]],
                      IF "nx" \in c.opt THEN Integer(1) ELSE Ok>>
          [] c.name = "incrby" ->
               IF wrong \/ (old.type # "none" /\ ~IsInteger(old.s)) THEN same(Error)
               ELSE IF number + c.n[1] \notin LLONG_MIN..LLONG_MAX THEN same(Error)
               ELSE set(ll2string(number + c.n[1]), old.ttl, Integer(number + c.n[1]))
          [] c.name = "incrbyfloat" ->
               IF wrong \/ (old.type # "none" /\ ~IsFloat(old.s)) THEN same(Error)
               ELSE set(ll2string(number + c.n[1]), old.ttl, Bulk(ll2string(number + c.n[1])))
          [] c.name = "append" ->
               IF wrong \/ (old.type # "none" /\ Len(old.s \o v) > MaxLength) THEN same(Error)
               ELSE set(old.s \o v, old.ttl, Integer(Len(old.s \o v)))
          [] c.name = "del" -> <<[m EXCEPT ![k] = Nothing], Integer(IF old.type = "none" THEN 0 ELSE 1)>>
          [] c.name = "push" -> IF old.type # "none" THEN same(Error) ELSE <<[m EXCEPT ![k] = [Nothing EXCEPT !.type = "list"]], Ok>>

-----------------------------------------------------------------------------
(* The client.  A state u has the fields srv, seen and reply.               *)

Parsed(w, c) ==
    FoldLeft(LAMBDA acc, v : LET made == createStringObject(acc.w, v)
                             IN  [w |-> made[1], argv |-> Append(acc.argv, made[2])],
             [w |-> w, argv |-> <<>>], c.vals)

Released(w, argv) == FoldLeft(LAMBDA acc, id : decrRefCount(acc, id), w, argv)

\* call(): the command, and its propagation with the arguments it has now.
Sent(c, r) == [c EXCEPT !.name = r.as, !.vals = [i \in DOMAIN r.argv |-> Decoded(r.w, r.argv[i])]]

Ran(u, c, r, meant) ==
    [srv |-> r.w, argv |-> r.argv, reply |-> [got |-> r.reply, meant |-> meant[2]],
     seen |-> [u.seen EXCEPT !.master = meant[1],
                             !.replica = IF r.as = "nothing" THEN @ ELSE Meant(@, Sent(c, r))[1]]]

Run(u, c, argv) == Ran(u, c, Call(u.srv, c, argv), Meant(u.seen.master, c))

Here == [srv |-> srv, seen |-> seen, reply |-> reply]
MayRun == seen.ops < MaxOps

Command(c) ==
    /\ MayRun /\ ~queue.active
    /\ \E p \in {Parsed(srv, c)} : \E u \in {Run([Here EXCEPT !.srv = p.w], c, p.argv)} :
         /\ srv' = Released(u.srv, u.argv)
         /\ seen' = [u.seen EXCEPT !.ops = @ + 1]
         /\ reply' = u.reply
    /\ UNCHANGED <<scenario, queue>>

multiCommand ==
    /\ MayRun /\ ~queue.active
    /\ queue' = [active |-> TRUE, cmds |-> <<>>]
    /\ UNCHANGED <<scenario, srv, seen, reply>>

\* The queue takes a reference to each argument, the client drops its own.
queueMultiCommand(c) ==
    LET p == Parsed(srv, c)
        queued == FoldLeft(LAMBDA acc, id : incrRefCount(acc, id), p.w, p.argv)
    IN  /\ MayRun /\ queue.active
        /\ srv' = Released(queued, p.argv)
        /\ queue' = [queue EXCEPT !.cmds = Append(@, [c |-> c, argv |-> p.argv])]
        /\ seen' = [seen EXCEPT !.ops = @ + 1]
        /\ UNCHANGED <<scenario, reply>>

\* The arguments are kept, as the commands left them, until all have run.
execCommand ==
    LET kept(u, r) == [srv |-> r.srv, seen |-> r.seen, kept |-> u.kept \o r.argv,
                       reply |-> [got |-> u.reply.got \o r.reply.got, meant |-> u.reply.meant \o r.reply.meant]]
        step(u, q) == kept(u, Run(u, q.c, q.argv))
        start == [srv |-> srv, seen |-> seen, kept |-> <<>>, reply |-> [got |-> <<>>, meant |-> <<>>]]
    IN  /\ queue.active
        /\ \E u \in {FoldLeft(step, start, queue.cmds)} :
             /\ srv' = Released(u.srv, u.kept)
             /\ seen' = u.seen
             /\ reply' = u.reply
        /\ queue' = [active |-> FALSE, cmds |-> <<>>]
        /\ UNCHANGED scenario

discardTransaction ==
    /\ queue.active
    /\ srv' = FoldLeft(LAMBDA acc, q : Released(acc, q.argv), srv, queue.cmds)
    /\ queue' = [active |-> FALSE, cmds |-> <<>>]
    /\ UNCHANGED <<scenario, seen, reply>>

Init ==
    /\ scenario \in Scenarios
    /\ srv = [heap |-> [id \in Heap \cup {SharedId(n) : n \in 0..(OBJ_SHARED_INTEGERS - 1)} |->
                          IF IsShared(id) THEN [rc |-> 99, enc |-> "int", n |-> 0 - 1 - id, s |-> <<>>] ELSE Free],
              db |-> [k \in Keys |-> NoKey]]
    /\ queue = [active |-> FALSE, cmds |-> <<>>]
    /\ seen = [master |-> [k \in Keys |-> Nothing], replica |-> [k \in Keys |-> Nothing], ops |-> 0]
    /\ reply = [got |-> Nil, meant |-> Nil]

Next ==
    \/ \E c \in Commands : Command(c) \/ queueMultiCommand(c)
    \/ multiCommand \/ execCommand \/ discardTransaction

Spec == Init /\ [][Next]_vars

-----------------------------------------------------------------------------
\* Whatever objects are shared, changed in place or encoded anew, the keys have
\* the values and the clients get the replies that the commands mean, and every
\* object has one reference per key and per queued argument.
StringsExact ==
    /\ reply.got = reply.meant
    /\ \A k \in Keys : seen.master[k] = IF IsString(srv, k) THEN Value(Decoded(srv, srv.db[k].id), srv.db[k].ttl)
                                        ELSE [Nothing EXCEPT !.type = srv.db[k].type]
    /\ \A id \in Heap :
         srv.heap[id].rc = Cardinality({k \in Keys : IsString(srv, k) /\ srv.db[k].id = id})
                           + Cardinality({p \in (DOMAIN queue.cmds) \X (1..2) :
                                            p[2] \in DOMAIN queue.cmds[p[1]].argv /\ queue.cmds[p[1]].argv[p[2]] = id})

\* What is propagated keeps the replica equal, whether a key has a time to live
\* included.
StringReplicaInSync == seen.replica = seen.master
=============================================================================
