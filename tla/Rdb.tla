-------------------------------- MODULE Rdb ---------------------------------
(***************************************************************************)
(* RDB files (src/src/rdb.c): what is written for a dataset, byte by byte  *)
(* where an encoding packs bits, and what is loaded from the file, whole or*)
(* cut short, into an instance whose configuration may have changed.       *)
(*                                                                         *)
(* A file is a sequence of cells. A byte has 4 bits instead of 8, so that  *)
(* lengths of 2, 6, 8 and 16 bits stand for those of 6, 14, 32 and 64, and *)
(* integers of 1, 2 and 3 bytes for those of 8, 16 and 32 bits. A string is*)
(* a sequence of cells too: characters of a text or digits of a number.    *)
(* What is written raw (times, doubles, IDs, type codes) is one cell each. *)
(***************************************************************************)
EXTENDS Integers, FiniteSetsExt, SequencesExt

CONSTANT Scenarios    \* a dataset with the configurations around it: fields below

VARIABLES
    scenario,
    file,     \* the file, or what arrived of it
    loaded    \* what the load of the file gave

vars == <<scenario, file, loaded>>

Dataset == scenario.Dataset        \* dbs, a sequence of sets of keys, and the scripts
Saver == scenario.Saver            \* the configuration while saving
Loader == scenario.Loader          \* the configuration while loading
Rsi == scenario.Rsi                \* replication fields to save, or None

None == <<>>
B == 16                            \* 256 in the code
LENERR == -1

byte(n) == <<"b", n>>
raw(tag, v) == <<tag, v>>
Op(name) == <<"op", name>>

Text(id, n) == [i \in 1..n |-> <<"c", id, i>>]

Digits(n) == IF n \in -9..-1 \/ n \in 10..99 THEN 2 ELSE IF n \in 0..9 THEN 1
             ELSE IF n \in 100..999 \/ n \in -99..-10 THEN 3 ELSE 4
ll2string(n) == [i \in 1..Digits(n) |-> <<"d", n, i>>]

(* The number a text stands for; other spellings of it do not qualify.     *)
IsNumber(s) == s # <<>> /\ s[1][1] = "d" /\ s = ll2string(s[1][2])

(* A blob: the bytes of a ziplist, an intset or a listpack.                *)
Blob(content, n) == [i \in 1..n |-> <<"z", content, i>>]

----------------------------------------------------------------------------
(* Lengths and integers.                                                   *)

RDB_6BITLEN == 0
RDB_14BITLEN == 1
RDB_ENCVAL == 3
RDB_32BITLEN == 8                  \* the two high bits are 10
RDB_64BITLEN == 9
Encs == [INT8 |-> 0, INT16 |-> 1, INT32 |-> 2, LZF |-> 3]

BigEndian(n, k) == [i \in 1..k |-> byte((n \div B^(k - i)) % B)]
FromBigEndian(c) == FoldLeft(LAMBDA v, x : v * B + x[2], 0, c)

rdbSaveLen(len) ==
    IF len < 4 THEN <<byte(len + 4 * RDB_6BITLEN)>>
    ELSE IF len < 64 THEN <<byte(((len \div B) % B) + 4 * RDB_14BITLEN), byte(len % B)>>
    ELSE IF len < B^2 THEN <<byte(RDB_32BITLEN)>> \o BigEndian(len, 2)
    ELSE <<byte(RDB_64BITLEN)>> \o BigEndian(len, 4)

EncByte(enc) == byte(4 * RDB_ENCVAL + Encs[enc])

LittleEndian(n, k) == [i \in 1..k |-> byte((n \div B^(i - 1)) % B)]

rdbEncodeInteger(v) ==
    IF v \in -(B \div 2)..(B \div 2 - 1) THEN <<EncByte("INT8")>> \o LittleEndian(v, 1)
    ELSE IF v \in -(B^2 \div 2)..(B^2 \div 2 - 1) THEN <<EncByte("INT16")>> \o LittleEndian(v, 2)
    ELSE IF v \in -(B^3 \div 2)..(B^3 \div 2 - 1) THEN <<EncByte("INT32")>> \o LittleEndian(v, 3)
    ELSE <<>>

rdbTryIntegerEncoding(s) == IF IsNumber(s) THEN rdbEncodeInteger(s[1][2]) ELSE <<>>

----------------------------------------------------------------------------
(* Strings. LZF (lzf_c.c, lzf_d.c) makes some texts shorter.               *)

lzf_compress(s) ==
    IF Saver.compressible /\ Len(s) > 3 THEN [i \in 1..(Len(s) - 2) |-> <<"l", s, i>>] ELSE <<>>

rdbSaveLzfBlob(data, len) ==
    <<EncByte("LZF")>> \o rdbSaveLen(Len(data)) \o rdbSaveLen(len) \o data

(* The code tries integers up to 11 and LZF above 20 bytes.                *)
rdbSaveRawString(s) ==
    LET int == IF Len(s) <= 4 THEN rdbTryIntegerEncoding(s) ELSE <<>>
        lzf == IF Saver.compression /\ Len(s) > 4 THEN lzf_compress(s) ELSE <<>>
    IN  IF int # <<>> THEN int
        ELSE IF lzf # <<>> THEN rdbSaveLzfBlob(lzf, Len(s))
        ELSE rdbSaveLen(Len(s)) \o s

rdbSaveLongLongAsStringObject(v) ==
    IF rdbEncodeInteger(v) # <<>> THEN rdbEncodeInteger(v)
    ELSE rdbSaveLen(Len(ll2string(v))) \o ll2string(v)

rdbSaveStringObject(o) ==
    IF o.enc = "int" THEN rdbSaveLongLongAsStringObject(o.v) ELSE rdbSaveRawString(o.v)

----------------------------------------------------------------------------
(* Objects.                                                                *)

Each(seq, Save(_)) == FlattenSeq([i \in 1..Len(seq) |-> Save(seq[i])])

rdbSaveObjectType(o) ==
    Op(CASE o.type = "string" -> "STRING"
         [] o.type = "list" -> "LIST_QUICKLIST"
         [] o.type = "set" -> IF o.enc = "intset" THEN "SET_INTSET" ELSE "SET"
         [] o.type = "zset" -> IF o.enc = "ziplist" THEN "ZSET_ZIPLIST" ELSE "ZSET_2"
         [] o.type = "hash" -> IF o.enc = "ziplist" THEN "HASH_ZIPLIST" ELSE "HASH"
         [] o.type = "stream" -> "STREAM_LISTPACKS"
         [] o.type = "module" -> "MODULE_2")

rdbSaveStreamPEL(pel, nacks) ==
    rdbSaveLen(Len(pel)) \o
    Each(pel, LAMBDA e : <<raw("id", e.id)>> \o
                         IF nacks THEN <<raw("ms", e.time)>> \o rdbSaveLen(e.count) ELSE <<>>)

rdbSaveStreamConsumers(cg) ==
    rdbSaveLen(Len(cg.consumers)) \o
    Each(cg.consumers, LAMBDA c : rdbSaveRawString(c.name) \o <<raw("ms", c.seen)>>
                                  \o rdbSaveStreamPEL(c.pel, FALSE))

SaveId(id) == rdbSaveLen(id[1]) \o rdbSaveLen(id[2])

SaveStream(o) ==
    rdbSaveLen(Len(o.nodes))
    \o Each(o.nodes, LAMBDA n : rdbSaveRawString(n.key) \o rdbSaveRawString(n.lp))
    \o rdbSaveLen(o.length) \o SaveId(o.last_id) \o rdbSaveLen(Len(o.groups))
    \o Each(o.groups, LAMBDA cg : rdbSaveRawString(cg.name) \o SaveId(cg.last_id)
                                  \o rdbSaveStreamPEL(cg.pel, TRUE) \o rdbSaveStreamConsumers(cg))

(* What the callback of a module writes, through RM_SaveUnsigned() and     *)
(* RM_SaveString(), each item behind its opcode.                           *)
Opcodes == [EOF |-> 0, UINT |-> 2, STRING |-> 5]

SaveItem(i) ==
    IF i.kind = "uint" THEN rdbSaveLen(Opcodes.UINT) \o rdbSaveLen(i.v)
    ELSE rdbSaveLen(Opcodes.STRING) \o rdbSaveRawString(i.v)

SaveModule(o) == rdbSaveLen(o.id) \o Each(o.items, SaveItem) \o rdbSaveLen(Opcodes.EOF)

rdbSaveObject(o) ==
    CASE o.type = "string" -> rdbSaveStringObject(o)
      [] o.type = "list" ->
            rdbSaveLen(Len(o.nodes)) \o
            Each(o.nodes, LAMBDA n : IF n.lzf THEN rdbSaveLzfBlob(lzf_compress(n.zl), Len(n.zl))
                                     ELSE rdbSaveRawString(n.zl))
      [] o.type \in {"set", "zset", "hash"} /\ o.enc \in {"intset", "ziplist"} ->
            rdbSaveRawString(Blob(o.v, o.size))
      [] o.type = "set" -> rdbSaveLen(Len(o.v)) \o Each(o.v, rdbSaveRawString)
      [] o.type = "zset" ->
            rdbSaveLen(Len(o.v)) \o
            Each(Reverse(o.v), LAMBDA e : rdbSaveRawString(e[1]) \o <<raw("double", e[2])>>)
      [] o.type = "hash" ->
            rdbSaveLen(Len(o.v)) \o
            Each(o.v, LAMBDA e : rdbSaveRawString(e[1]) \o rdbSaveRawString(e[2]))
      [] o.type = "stream" -> SaveStream(o)
      [] o.type = "module" -> SaveModule(o)

rdbSaveKeyValuePair(e) ==
    (IF e.expire # LENERR THEN <<Op("EXPIRETIME_MS"), raw("ms", e.expire)>> ELSE <<>>)
    \o (IF Saver.policy = "lru" THEN <<Op("IDLE")>> \o rdbSaveLen(e.idle) ELSE <<>>)
    \o (IF Saver.policy = "lfu" THEN <<Op("FREQ"), raw("freq", e.idle)>> ELSE <<>>)
    \o <<rdbSaveObjectType(e.val)>> \o rdbSaveRawString(e.key) \o rdbSaveObject(e.val)

rdbSaveAuxField(key, val) == <<Op("AUX"), raw("name", key)>> \o rdbSaveRawString(val)

rdbSaveSingleModuleAux(aux) ==
    <<Op("MODULE_AUX")>> \o rdbSaveLen(aux.id) \o rdbSaveLen(Opcodes.UINT) \o rdbSaveLen(aux.when)
    \o Each(aux.items, SaveItem) \o rdbSaveLen(Opcodes.EOF)

SaveDb(j) ==
    LET db == Dataset.dbs[j]
    IN  IF db = <<>> THEN <<>>
        ELSE <<Op("SELECTDB")>> \o rdbSaveLen(j - 1) \o <<Op("RESIZEDB")>> \o rdbSaveLen(Len(db))
             \o rdbSaveLen(Len(SelectSeq(db, LAMBDA e : e.expire # LENERR)))
             \o Each(db, rdbSaveKeyValuePair)

rdbSaveInfoAuxFields ==
    IF Rsi = None THEN <<>>
    ELSE rdbSaveAuxField("repl-stream-db", ll2string(Rsi.db))
         \o rdbSaveAuxField("repl-id", Rsi.id) \o rdbSaveAuxField("repl-offset", ll2string(Rsi.offset))

SaveAux(when) == Each(SelectSeq(Dataset.aux, LAMBDA a : a.when = when), rdbSaveSingleModuleAux)

(* The checksum is that of all cells before it, or 0 when disabled.        *)
WithChecksum(body) == Append(body, raw("crc", IF Saver.checksum THEN Len(body) ELSE 0))

rdbSaveRio ==
    WithChecksum(<<raw("magic", 9)>> \o rdbSaveInfoAuxFields \o SaveAux(1)
                 \o Each([j \in 1..Len(Dataset.dbs) |-> j], SaveDb)
                 \o (IF Rsi = None THEN <<>>
                     ELSE Each(Dataset.scripts, LAMBDA s : rdbSaveAuxField("lua", s)))
                 \o SaveAux(2) \o <<Op("EOF")>>)

----------------------------------------------------------------------------
(* Reading. A reader is a position, whether all went well, and a value;    *)
(* every error that ends the process or returns NULL is ok = FALSE.        *)

At(p, v) == [ok |-> TRUE, p |-> p, v |-> v]
Corrupt == [ok |-> FALSE, p |-> 0, v |-> None]

(* What K reads after r, from where r ended and with what r read.          *)
Then(r, K(_, _)) == IF r.ok THEN K(r.p, r.v) ELSE Corrupt

(* The result of r, if it is one, with its value changed.                  *)
As(r, F(_)) == Then(r, LAMBDA p, v : At(p, F(v)))

rioRead(p, n) == IF p + n - 1 <= Len(file) THEN At(p + n, SubSeq(file, p, p + n - 1)) ELSE Corrupt

rioReadRaw(p, tag) ==
    Then(rioRead(p, 1), LAMBDA q, v : IF v[1][1] = tag THEN At(q, v[1][2]) ELSE Corrupt)

(* The value is a pair: isencoded and the length, or the error value, for  *)
(* which not every caller looks.                                           *)
NoLen == At(Len(file) + 1, <<FALSE, LENERR>>)

(* The bytes that follow the first byte b of a length.                     *)
MoreLen(b) == IF b \div 4 = RDB_14BITLEN THEN 1 ELSE IF b = RDB_32BITLEN THEN 2 ELSE 4

LongLen(b, more) ==
    IF ~more.ok THEN NoLen
    ELSE IF b \div 4 = RDB_14BITLEN THEN At(more.p, <<FALSE, (b % 4) * B + more.v[1][2]>>)
    ELSE At(more.p, <<FALSE, FromBigEndian(more.v)>>)

LenFrom(first) ==
    LET b == first.v[1][2]
    IN  IF ~first.ok \/ first.v[1][1] # "b" THEN NoLen
        ELSE IF b \div 4 = RDB_ENCVAL THEN At(first.p, <<TRUE, b % 4>>)
        ELSE IF b \div 4 = RDB_6BITLEN THEN At(first.p, <<FALSE, b % 4>>)
        ELSE LongLen(b, rioRead(first.p, MoreLen(b)))

rdbLoadLenEnc(p) == LenFrom(rioRead(p, 1))

rdbLoadLen(p) == As(rdbLoadLenEnc(p), LAMBDA v : v[2])

Signed(n, k) == IF n >= B^k \div 2 THEN n - B^k ELSE n

rdbLoadIntegerObject(p, enc) ==
    LET k == CHOOSE i \in 1..3 : i = enc + 1
    IN  As(rioRead(p, k), LAMBDA v : ll2string(Signed(FromBigEndian(Reverse(v)), k)))

lzf_decompress(c) == c[1][2]

rdbLoadLzfStringObject(p) ==
    LET text(clen, len, q) ==
          IF clen = LENERR \/ len = LENERR THEN Corrupt
          ELSE Then(rioRead(q, clen), LAMBDA r, c : IF Len(lzf_decompress(c)) # len THEN Corrupt
                                                    ELSE At(r, lzf_decompress(c)))
    IN  Then(rdbLoadLen(p), LAMBDA q, clen : Then(rdbLoadLen(q), LAMBDA r, len : text(clen, len, r)))

rdbGenericLoadStringObject(p) ==
    Then(rdbLoadLenEnc(p), LAMBDA q, v :
        IF v[1] THEN IF v[2] = Encs.LZF THEN rdbLoadLzfStringObject(q) ELSE rdbLoadIntegerObject(q, v[2])
        ELSE IF v[2] = LENERR THEN Corrupt ELSE rioRead(q, v[2]))

(* n values one after the other. A count that is the error value makes the *)
(* loop read on until the end of the file stops it.                        *)
Times(p, n, Load(_)) ==
    IF n = LENERR THEN Corrupt
    ELSE FoldLeft(LAMBDA acc, i : Then(acc, LAMBDA q, vs : As(Load(q), LAMBDA v : Append(vs, v))),
                  At(p, <<>>), [i \in 1..n |-> i])

Both(p, First(_), Second(_)) == Then(First(p), LAMBDA q, a : As(Second(q), LAMBDA b : <<a, b>>))

Str(p) == rdbGenericLoadStringObject(p)

Counted(p, Load(_)) == Then(rdbLoadLen(p), LAMBDA q, n : Times(q, n, Load))

----------------------------------------------------------------------------
(* Objects.                                                                *)

AllNumbers(v) == \A i \in 1..Len(v) : IsNumber(v[i])
Longest(v) == Max({0} \cup {Len(v[i][1]) : i \in 1..Len(v)})
LongestPair(v) == Max({Longest(v)} \cup {Len(v[i][2]) : i \in 1..Len(v)})

(* tryObjectEncoding() makes an integer of the text of one.                *)
LoadString(p) ==
    As(Str(p), LAMBDA s : IF IsNumber(s) THEN [type |-> "string", enc |-> "int", v |-> s[1][2]]
                          ELSE [type |-> "string", enc |-> "raw", v |-> s])

Coll(type, enc, v) == [type |-> type, enc |-> enc, v |-> v, size |-> IF v = <<>> THEN 1 ELSE Len(v)]

LoadSet(p) ==
    As(Counted(p, Str), LAMBDA v :
        Coll("set", IF Len(v) > Loader.intset \/ ~AllNumbers(v) THEN "ht" ELSE "intset", v))

LoadZset(p) ==
    As(Counted(p, LAMBDA q : Both(q, Str, LAMBDA r : rioReadRaw(r, "double"))), LAMBDA v :
        Coll("zset", IF Len(v) <= Loader.ziplist /\ Longest(v) <= Loader.value
                     THEN "ziplist" ELSE "skiplist", Reverse(v)))

LoadHash(p) ==
    As(Counted(p, LAMBDA q : Both(q, Str, Str)), LAMBDA v :
        Coll("hash", IF Len(v) <= Loader.ziplist /\ LongestPair(v) <= Loader.value
                     THEN "ziplist" ELSE "ht", v))

LoadQuicklist(p) ==
    As(Counted(p, Str), LAMBDA v :
        [type |-> "list", nodes |-> [i \in 1..Len(v) |-> [lzf |-> FALSE, zl |-> v[i]]]])

(* Only the number of elements is looked at, not their size.               *)
LoadEncoded(p, type, enc, max, other) ==
    As(Str(p), LAMBDA blob :
        Coll(type, IF Len(blob[1][2]) > max THEN other ELSE enc, blob[1][2]))

LoadPEL(p) ==
    Counted(p, LAMBDA q : As(Both(q, LAMBDA r : rioReadRaw(r, "id"),
                                     LAMBDA r : Both(r, LAMBDA t : rioReadRaw(t, "ms"), rdbLoadLen)),
                             LAMBDA v : [id |-> v[1], time |-> v[2][1], count |-> v[2][2]]))

(* The entries of a consumer are looked up in the list of its group.       *)
LoadConsumer(p, pel) ==
    LET Nack(id) == {i \in 1..Len(pel) : pel[i].id = id}
        consumer(q, head, ids) ==
          IF \E i \in 1..Len(ids) : Nack(ids[i]) = {} THEN Corrupt
          ELSE At(q, [name |-> head[1], seen |-> head[2],
                      pel |-> [i \in 1..Len(ids) |-> pel[Max(Nack(ids[i]))]]])
    IN  Then(Both(p, Str, LAMBDA q : rioReadRaw(q, "ms")), LAMBDA q, head :
            Then(Counted(q, LAMBDA r : rioReadRaw(r, "id")), LAMBDA r, ids : consumer(r, head, ids)))

LoadId(p) == Both(p, rdbLoadLen, rdbLoadLen)

LoadGroup(p) ==
    Then(Both(p, Str, LoadId), LAMBDA q, head :
        Then(LoadPEL(q), LAMBDA r, pel :
            As(Counted(r, LAMBDA t : LoadConsumer(t, pel)), LAMBDA consumers :
                [name |-> head[1], last_id |-> head[2], pel |-> pel, consumers |-> consumers])))

LoadStreamNodes(p) ==
    As(Counted(p, LAMBDA q : Both(q, Str, Str)), LAMBDA v :
        [i \in 1..Len(v) |-> [key |-> v[i][1], lp |-> v[i][2]]])

LoadStream(p) ==
    As(Both(p, LoadStreamNodes,
            LAMBDA q : Both(q, LAMBDA r : Both(r, rdbLoadLen, LoadId), LAMBDA r : Counted(r, LoadGroup))),
       LAMBDA v : [type |-> "stream", nodes |-> v[1], length |-> v[2][1][1], last_id |-> v[2][1][2],
                   groups |-> v[2][2]])

(* The callback of the module reads what it wrote, item by item, and each  *)
(* read checks the opcode.                                                 *)
LoadItem(p, kind) ==
    LET item(op, q, v) ==
          IF \/ op # (IF kind = "uint" THEN Opcodes.UINT ELSE Opcodes.STRING)
             \/ kind = "uint" /\ v = LENERR
          THEN Corrupt ELSE At(q, [kind |-> kind, v |-> v])
    IN  Then(rdbLoadLen(p), LAMBDA q, op :
            Then(IF kind = "uint" THEN rdbLoadLen(q) ELSE Str(q), LAMBDA r, v : item(op, r, v)))

LoadItems(p, kinds) ==
    Then(FoldLeft(LAMBDA acc, k : Then(acc, LAMBDA q, is : As(LoadItem(q, k), LAMBDA i : Append(is, i))),
                  At(p, <<>>), kinds),
         LAMBDA q, items : Then(rdbLoadLen(q), LAMBDA r, eof :
                                  IF eof # Opcodes.EOF THEN Corrupt ELSE At(r, items)))

LoadModule(p) ==
    Then(rdbLoadLen(p), LAMBDA q, id :
        IF id \notin DOMAIN Loader.modules THEN Corrupt
        ELSE As(LoadItems(q, Loader.modules[id]), LAMBDA v : [type |-> "module", id |-> id, items |-> v]))

rdbLoadObject(type, p) ==
    CASE type = "STRING" -> LoadString(p)
      [] type = "SET" -> LoadSet(p)
      [] type = "ZSET_2" -> LoadZset(p)
      [] type = "HASH" -> LoadHash(p)
      [] type = "LIST_QUICKLIST" -> LoadQuicklist(p)
      [] type = "SET_INTSET" -> LoadEncoded(p, "set", "intset", Loader.intset, "ht")
      [] type = "ZSET_ZIPLIST" -> LoadEncoded(p, "zset", "ziplist", Loader.ziplist, "skiplist")
      [] type = "HASH_ZIPLIST" -> LoadEncoded(p, "hash", "ziplist", Loader.ziplist, "ht")
      [] type = "STREAM_LISTPACKS" -> LoadStream(p)
      [] type = "MODULE_2" -> LoadModule(p)
      [] OTHER -> Corrupt

----------------------------------------------------------------------------
(* The file: opcodes that say something about the next key, or about the   *)
(* file, and keys with their values.                                       *)

Fresh == [db |-> 1, expire |-> LENERR, idle |-> LENERR, freq |-> LENERR,
          dbs |-> [j \in 1..Len(Dataset.dbs) |-> <<>>], scripts |-> <<>>, aux |-> <<>>,
          rsi |-> None, end |-> FALSE]

(* MUTANT of NextKey: the attributes of a key stay for the next one.       *)
NextKeyKeeps(st) == st

NextKey(st) == [st EXCEPT !.expire = LENERR, !.idle = LENERR, !.freq = LENERR]

(* A master drops the keys that expired; not so with an AOF preamble.      *)
Expired(st) == Loader.master /\ ~Loader.aof /\ st.expire # LENERR /\ st.expire < Loader.now

objectSetLRUOrLFU(st) ==
    IF Loader.policy = "lfu" THEN st.freq ELSE st.idle

LoadKey(st, type, p) ==
    LET entry(key, val) == [key |-> key, val |-> val, expire |-> st.expire, idle |-> objectSetLRUOrLFU(st)]
    IN  As(Both(p, Str, LAMBDA q : rdbLoadObject(type, q)), LAMBDA v :
            NextKey(IF Expired(st) THEN st ELSE [st EXCEPT !.dbs[st.db] = Append(@, entry(v[1], v[2]))]))

LoadAux(st, p) ==
    LET Num(val) == IF IsNumber(val) THEN val[1][2] ELSE 0
    IN  As(Both(p, LAMBDA q : rioReadRaw(q, "name"), Str), LAMBDA v :
            CASE v[1] = "repl-stream-db" -> [st EXCEPT !.rsi = [db |-> Num(v[2])]]
              [] v[1] = "repl-id" -> [st EXCEPT !.rsi = [db |-> st.rsi.db, id |-> v[2]]]
              [] v[1] = "repl-offset" ->
                    [st EXCEPT !.rsi = [db |-> st.rsi.db, id |-> st.rsi.id, offset |-> Num(v[2])]]
              [] OTHER -> [st EXCEPT !.scripts = Append(@, v[2])])

LoadModuleAux(st, p) ==
    LET aux(q, id, opcode, when) ==
          IF opcode # Opcodes.UINT \/ id \notin DOMAIN Loader.modules THEN Corrupt
          ELSE As(LoadItems(q, Loader.modules[id]), LAMBDA v :
                   [st EXCEPT !.aux = Append(@, [id |-> id, when |-> when, items |-> v])])
    IN  Then(rdbLoadLen(p), LAMBDA q, id : Then(Both(q, rdbLoadLen, rdbLoadLen), LAMBDA r, v :
            aux(r, id, v[1], v[2])))

SelectDb(st, p) ==
    Then(rdbLoadLen(p), LAMBDA q, n :
        IF n = LENERR \/ n >= Len(Dataset.dbs) THEN Corrupt ELSE At(q, [st EXCEPT !.db = n + 1]))

(* One round of the loop of rdbLoadRio().                                  *)
LoadTyped(st, type, q) ==
    CASE type = "EXPIRETIME_MS" -> As(rioReadRaw(q, "ms"), LAMBDA t : [st EXCEPT !.expire = t])
      [] type = "FREQ" -> As(rioReadRaw(q, "freq"), LAMBDA f : [st EXCEPT !.freq = f])
      [] type = "IDLE" ->
            Then(rdbLoadLen(q), LAMBDA r, n : IF n = LENERR THEN Corrupt ELSE At(r, [st EXCEPT !.idle = n]))
      [] type = "EOF" -> At(q, [st EXCEPT !.end = TRUE])
      [] type = "SELECTDB" -> SelectDb(st, q)
      [] type = "RESIZEDB" ->
            Then(Both(q, rdbLoadLen, rdbLoadLen), LAMBDA r, v : IF LENERR \in ToSet(v) THEN Corrupt ELSE At(r, st))
      [] type = "AUX" -> LoadAux(st, q)
      [] type = "MODULE_AUX" -> LoadModuleAux(st, q)
      [] OTHER -> LoadKey(st, type, q)

LoadOne(st, p) == Then(rioReadRaw(p, "op"), LAMBDA q, type : LoadTyped(st, type, q))

RECURSIVE LoadLoop(_)
LoadLoop(r) == IF ~r.ok \/ r.v.end THEN r ELSE LoadLoop(LoadOne(r.v, r.p))

(* The checksum is read, and compared unless it is disabled on one side.   *)
rdbLoadRio ==
    LET checked(p, st, q, crc) ==
          IF Loader.checksum /\ crc # 0 /\ crc # p - 1 THEN Corrupt ELSE At(q, st)
    IN  Then(LoadLoop(As(rioReadRaw(1, "magic"), LAMBDA v : Fresh)), LAMBDA p, st :
            Then(rioReadRaw(p, "crc"), LAMBDA q, crc : checked(p, st, q, crc)))

----------------------------------------------------------------------------
(* A file is saved; it may be cut short, by a crash or by a connection that*)
(* breaks; it is loaded.                                                   *)

Save ==
    /\ file = None \/ loaded # None
    /\ file' = rdbSaveRio
    /\ loaded' = None
    /\ UNCHANGED scenario

Cut ==
    /\ file # None /\ loaded = None /\ Len(file) = Len(rdbSaveRio)
    /\ \E n \in 1..(Len(file) - 1) : file' = SubSeq(file, 1, n)
    /\ UNCHANGED <<scenario, loaded>>

Load ==
    /\ file # None /\ loaded = None
    /\ loaded' = rdbLoadRio
    /\ UNCHANGED <<scenario, file>>

Init ==
    /\ scenario \in Scenarios
    /\ file = None
    /\ loaded = None

Next == Save \/ Cut \/ Load

Spec == Init /\ [][Next]_vars

----------------------------------------------------------------------------
(* The value of an object, whatever its encoding.                          *)
ValueOf(o) ==
    CASE o.type = "string" -> IF o.enc = "int" THEN ll2string(o.v) ELSE o.v
      [] o.type = "list" -> [i \in 1..Len(o.nodes) |-> o.nodes[i].zl]
      [] o.type = "zset" -> o.v
      [] o.type \in {"set", "hash"} -> ToSet(o.v)
      [] OTHER -> o

Usage(e) ==
    IF Saver.policy = Loader.policy /\ Saver.policy \in {"lru", "lfu"} THEN e.idle ELSE LENERR

Meaning(e) == [key |-> e.key, type |-> e.val.type, v |-> ValueOf(e.val), expire |-> e.expire]

Survives(e) == ~(Loader.master /\ ~Loader.aof /\ e.expire # LENERR /\ e.expire < Loader.now)

WithinLimits(o) ==
    o.type \in {"set", "zset", "hash"} /\ o.enc \in {"intset", "ziplist"} =>
        Len(o.v) <= IF o.type = "set" THEN Loader.intset ELSE Loader.ziplist

(* A whole file gives back what was saved: every key with its value, its   *)
(* expire time and its idle time, in its DB, except the keys that a master *)
(* finds expired; the replication fields with the scripts; the data of     *)
(* modules; and no compact encoding above the limits of the instance that  *)
(* loads. A file that was cut short anywhere is refused, though the code   *)
(* does not look at every length it reads.                                 *)
RdbRoundTrip ==
    loaded # None =>
        IF Len(file) < Len(rdbSaveRio) THEN ~loaded.ok
        ELSE /\ loaded.ok
             /\ \A j \in 1..Len(Dataset.dbs) :
                  LET saved == SelectSeq(Dataset.dbs[j], Survives)
                      got == loaded.v.dbs[j]
                  IN  /\ Len(got) = Len(saved)
                      /\ \A i \in 1..Len(saved) : /\ Meaning(got[i]) = Meaning(saved[i])
                                                  /\ got[i].idle = Usage(saved[i])
                                                  /\ WithinLimits(got[i].val)
             /\ loaded.v.aux = Dataset.aux
             /\ loaded.v.rsi = Rsi
             /\ loaded.v.scripts = IF Rsi = None THEN <<>> ELSE Dataset.scripts
=============================================================================
