---------------------------- MODULE BacklogProofs ----------------------------
(***************************************************************************)
(* A partial resynchronization sends exactly the missing bytes, for every  *)
(* buffer size, every sequence of calls and every length of the stream.    *)
(***************************************************************************)
EXTENDS Backlog, TLAPS, SequenceTheorems

IInv == BacklogConstantsOK /\ BacklogTypeOK /\ Contents

\* The remainders that addReplyReplicationBacklog computes are of numbers
\* less than twice the size.
LEMMA ModOnce ==
  ASSUME NEW n \in Nat \ {0}, NEW a \in Nat, a < n + n
  PROVE  a % n = IF a < n THEN a ELSE a - n
  OBVIOUS

\* A buffer is never the missing one.
LEMMA NotNull ==
  ASSUME NEW n \in Nat \ {0}, NEW S, NEW f \in [0 .. n - 1 -> S]
  PROVE  f # NoBuffer
  <1>1. 0 \in DOMAIN f
    OBVIOUS
  <1>2. DOMAIN NoBuffer = {}
    BY DEF NoBuffer
  <1>3. QED
    BY <1>1, <1>2

\* The copy of one chunk, byte by byte: the k-th last byte of the buffer
\* after the copy is a copied byte or the (k-n)-th last byte before it.
LEMMA ChunkPositions ==
  ASSUME NEW size \in Nat \ {0}, NEW idx \in Nat, idx < size,
         NEW n \in Nat \ {0}, idx + n <= size,
         NEW k \in Nat \ {0}, k <= size
  PROVE  LET idx2 == IF idx + n = size THEN 0 ELSE idx + n
             pos2 == IF k <= idx2 THEN idx2 - k ELSE idx2 - k + size
             pos1 == IF k - n <= idx THEN idx - (k - n) ELSE idx - (k - n) + size
         IN  /\ pos2 \in 0 .. size - 1
             /\ idx2 \in Nat /\ idx2 < size
             /\ k <= n => pos2 \in idx .. idx + n - 1 /\ pos2 - idx = n - k
             /\ k > n => pos2 = pos1 /\ pos2 \notin idx .. idx + n - 1
  OBVIOUS

\* There is no buffer at first.
LEMMA InitIInv == BacklogConstantsOK /\ BacklogInit => IInv
  BY DEF BacklogConstantsOK, BacklogInit, IInv, BacklogTypeOK, Contents, NoBuffer, Feeding, Written

\* An empty buffer is in order whatever the offset.
LEMMA EmptyBufferType ==
  ASSUME BacklogConstantsOK, NEW size \in Nat, size >= MinSize, NEW offset \in Nat, EmptyBuffer(size, offset)
  PROVE  /\ repl_backlog' \in [0 .. size - 1 -> Byte \cup {Junk}]
         /\ repl_backlog_idx' = 0 /\ repl_backlog_idx' < size
         /\ repl_backlog_histlen' = 0
         /\ repl_backlog_off' = offset + 1
  BY DEF BacklogConstantsOK, EmptyBuffer, zmalloc

\* createReplicationBacklog starts with an empty buffer.
LEMMA CreatePreserves ==
  ASSUME IInv, createReplicationBacklog PROVE IInv'
  <1>1. EmptyBuffer(repl_backlog_size, master_repl_offset)
    BY DEF createReplicationBacklog
  <1>2. /\ repl_backlog' \in [0 .. repl_backlog_size - 1 -> Byte \cup {Junk}]
        /\ repl_backlog_idx' = 0 /\ repl_backlog_idx' < repl_backlog_size
        /\ repl_backlog_histlen' = 0
        /\ repl_backlog_off' = master_repl_offset + 1
    BY <1>1, EmptyBufferType DEF IInv, BacklogTypeOK
  <1>3. BacklogTypeOK'
    BY <1>2 DEF IInv, BacklogTypeOK, createReplicationBacklog
  <1>4. Contents'
    BY <1>2 DEF IInv, BacklogTypeOK, Contents, createReplicationBacklog, Feeding, Written
  <1>5. QED
    BY <1>3, <1>4 DEF IInv

\* resizeReplicationBacklog starts again with an empty one of the new size.
LEMMA ResizePreserves ==
  ASSUME IInv, NEW requested \in 0 .. MaxSize, resizeReplicationBacklog(requested)
  PROVE  IInv'
  <1> DEFINE newsize == IF requested < MinSize THEN MinSize ELSE requested
  <1>1. newsize \in Nat /\ newsize >= MinSize
    BY DEF IInv, BacklogConstantsOK
  <1>2. /\ ~Feeding /\ Resize(newsize)
        /\ UNCHANGED <<master_repl_offset, data, copied, stream, base>>
    BY DEF resizeReplicationBacklog
  <1> HIDE DEF newsize
  <1>3. CASE repl_backlog = NoBuffer
    <2>1. /\ repl_backlog_size' = newsize
          /\ UNCHANGED <<repl_backlog, repl_backlog_histlen, repl_backlog_idx, repl_backlog_off>>
      BY <1>2, <1>3 DEF Resize
    <2>2. QED
      BY <1>1, <1>2, <1>3, <2>1 DEF IInv, BacklogTypeOK, Contents, Feeding
  <1>4. CASE repl_backlog # NoBuffer
    <2>1. repl_backlog_size' = newsize /\ EmptyBuffer(newsize, master_repl_offset)
      BY <1>2, <1>4 DEF Resize
    <2>2. /\ repl_backlog' \in [0 .. newsize - 1 -> Byte \cup {Junk}]
          /\ repl_backlog_idx' = 0 /\ repl_backlog_idx' < newsize
          /\ repl_backlog_histlen' = 0
          /\ repl_backlog_off' = master_repl_offset + 1
      BY <1>1, <2>1, EmptyBufferType DEF IInv, BacklogTypeOK
    <2>3. BacklogTypeOK'
      BY <1>1, <1>2, <2>1, <2>2 DEF IInv, BacklogTypeOK
    <2>4. Contents'
      <3>1. /\ data' = <<>> /\ copied' = 0 /\ Len(data') = 0
            /\ Len(stream') = Len(stream) /\ Len(stream) \in Nat
            /\ master_repl_offset' = base' + Len(stream')
            /\ master_repl_offset \in Nat /\ newsize \in Nat
        BY <1>1, <1>2 DEF IInv, BacklogTypeOK, Contents, Feeding
      <3>2. QED
        BY <1>2, <2>1, <2>2, <3>1 DEF Contents, Feeding, Written
    <2>5. QED
      BY <2>3, <2>4 DEF IInv
  <1>5. QED
    BY <1>3, <1>4

\* freeReplicationBacklog.
LEMMA FreePreserves ==
  ASSUME IInv, freeReplicationBacklog PROVE IInv'
  BY DEF IInv, BacklogTypeOK, Contents, freeReplicationBacklog, Feeding

\* A replica that was sent a dataset starts a stream of its own.
LEMMA FullResyncPreserves ==
  ASSUME IInv, NEW offset \in 0 .. MaxOffset, FullResync(offset) PROVE IInv'
  <1>1. /\ repl_backlog' \in [0 .. repl_backlog_size - 1 -> Byte \cup {Junk}]
        /\ repl_backlog_idx' = 0 /\ repl_backlog_idx' < repl_backlog_size
        /\ repl_backlog_histlen' = 0
        /\ repl_backlog_off' = offset + 1
    BY EmptyBufferType DEF BacklogConstantsOK, FullResync, IInv, BacklogTypeOK
  <1>2. /\ data = <<>> /\ data' = data /\ copied' = copied /\ copied = 0
        /\ stream' = <<>> /\ base' = offset /\ master_repl_offset' = offset
        /\ repl_backlog_size' = repl_backlog_size
    BY DEF FullResync, Feeding, IInv, BacklogTypeOK
  <1>3. BacklogTypeOK'
    BY <1>1, <1>2 DEF BacklogConstantsOK, IInv, BacklogTypeOK
  <1>4. Contents'
    BY <1>1, <1>2 DEF BacklogConstantsOK, IInv, BacklogTypeOK, Contents, Feeding, Written
  <1>5. QED
    BY <1>3, <1>4 DEF IInv

\* A sequence followed by another one, element by element.
LEMMA JoinBytes ==
  ASSUME NEW st \in Seq(Byte), NEW more \in Seq(Byte),
         NEW len \in Nat, len = Len(st), NEW n \in Nat, n = Len(more)
  PROVE  /\ st \o more \in Seq(Byte)
         /\ Len(st \o more) = len + n
         /\ \A i \in 1 .. len : (st \o more)[i] = st[i]
         /\ \A j \in 1 .. n : (st \o more)[len + j] = more[j]
  <1>1. /\ st \o more \in Seq(Byte) /\ Len(st \o more) = len + n
        /\ \A i \in 1 .. len + n : (st \o more)[i] = IF i <= len THEN st[i] ELSE more[i - len]
    BY ConcatProperties
  <1>2. \A i \in 1 .. len : i \in 1 .. len + n /\ i <= len
    OBVIOUS
  <1>3. \A j \in 1 .. n : len + j \in 1 .. len + n /\ ~(len + j <= len) /\ (len + j) - len = j
    OBVIOUS
  <1>4. \A i \in 1 .. len : (st \o more)[i] = st[i]
    BY <1>1, <1>2
  <1>5. \A j \in 1 .. n : (st \o more)[len + j] = more[j]
    BY <1>1, <1>3
  <1>6. QED
    BY <1>1, <1>4, <1>5

\* feedReplicationBacklog is called.
LEMMA FeedBeginPreserves ==
  ASSUME IInv, NEW n \in 1 .. MaxFeed, NEW ptr \in [1 .. n -> Byte], FeedBegin(ptr)
  PROVE  IInv'
  <1>1. ptr \in Seq(Byte) /\ Len(ptr) = n /\ ptr # <<>> /\ n \in Nat
    BY DEF IInv, BacklogConstantsOK
  <1>2. /\ stream \o ptr \in Seq(Byte)
        /\ Len(stream \o ptr) = Len(stream) + n
        /\ \A i \in 1 .. Len(stream) : (stream \o ptr)[i] = stream[i]
        /\ \A j \in 1 .. n : (stream \o ptr)[Len(stream) + j] = ptr[j]
    <2>1. stream \in Seq(Byte) /\ Len(stream) \in Nat
      BY DEF IInv, BacklogTypeOK
    <2>2. QED
      BY <1>1, <2>1, JoinBytes
  <1>3. /\ data = <<>> /\ copied = 0 /\ repl_backlog # NoBuffer
        /\ data' = ptr /\ copied' = 0
        /\ master_repl_offset' = master_repl_offset + n
        /\ UNCHANGED <<repl_backlog, repl_backlog_size, repl_backlog_idx,
                       repl_backlog_histlen, repl_backlog_off, base>>
    BY <1>1 DEF FeedBegin, Feeding, IInv, BacklogTypeOK
  <1> DEFINE stream2 == stream \o ptr
  <1>4. stream' = stream2
    BY DEF FeedBegin
  <1>5. Len(stream) \in Nat /\ Len(stream2) \in Nat
    BY <1>2 DEF IInv, BacklogTypeOK
  <1>6. /\ stream2 \in Seq(Byte) /\ Len(stream2) = Len(stream) + n
        /\ \A i \in 1 .. Len(stream) : stream2[i] = stream[i]
        /\ \A j \in 1 .. n : stream2[Len(stream) + j] = ptr[j]
    BY <1>2
  <1> HIDE DEF stream2
  <1>7. BacklogTypeOK'
    BY <1>1, <1>3, <1>4, <1>6 DEF IInv, BacklogTypeOK
  <1>8. Written = Len(stream) /\ Written' = Len(stream)
    <2>1. Len(stream') = Len(stream) + n /\ Len(data') = n /\ Len(data) = 0
      BY <1>1, <1>3, <1>4, <1>6
    <2>2. QED
      BY <1>1, <1>3, <1>5, <2>1 DEF Written
  <1>9. Contents'
    <2>1. /\ repl_backlog_histlen \in Nat /\ repl_backlog_histlen <= Len(stream)
          /\ \A k \in 1 .. repl_backlog_histlen :
               k <= repl_backlog_size => repl_backlog[Pos(k)] = stream[Len(stream) - k + 1]
      BY <1>3, <1>8 DEF IInv, BacklogTypeOK, Contents
    <2>2. ASSUME NEW k \in 1 .. repl_backlog_histlen, k <= repl_backlog_size
          PROVE  repl_backlog[Pos(k)] = stream2[Len(stream) - k + 1]
      <3>1. Len(stream) - k + 1 \in 1 .. Len(stream)
        BY <1>5, <2>1
      <3>2. QED
        BY <1>6, <2>1, <2>2, <3>1
    <2>3. \A k : Pos(k)' = Pos(k)
      BY <1>3 DEF Pos
    <2>4. \A k \in 1 .. repl_backlog_histlen' :
            k <= repl_backlog_size' => repl_backlog'[Pos(k)'] = stream'[Written' - k + 1]
      BY <1>3, <1>4, <1>8, <2>2, <2>3
    <2>5. /\ master_repl_offset' = base' + Len(stream')
          /\ Len(data') <= Len(stream')
          /\ Feeding' => repl_backlog' # NoBuffer
          /\ copied' <= repl_backlog_histlen'
          /\ repl_backlog_histlen' <= Written'
          /\ repl_backlog_histlen' - copied' <= repl_backlog_size'
          /\ repl_backlog_off' =
               master_repl_offset' - Len(data') - (repl_backlog_histlen' - copied') + 1
      <3>1. /\ base \in Nat /\ master_repl_offset = base + Len(stream)
            /\ repl_backlog_size \in Nat /\ repl_backlog_histlen <= repl_backlog_size
            /\ repl_backlog_off = master_repl_offset - repl_backlog_histlen + 1
        BY <1>3 DEF IInv, BacklogTypeOK, Contents
      <3>2. Len(data') = n /\ Len(stream') = Len(stream) + n /\ n \in Nat
        BY <1>1, <1>3, <1>4, <1>6
      <3>3. QED
        BY <1>3, <1>5, <1>8, <2>1, <3>1, <3>2
    <2>6. \A j \in 1 .. Len(data') : data'[j] = stream'[Len(stream') - Len(data') + j]
      <3>1. Len(data') = n /\ Len(stream') - Len(data') = Len(stream)
        BY <1>1, <1>3, <1>4, <1>5, <1>6
      <3>2. QED
        BY <1>3, <1>4, <1>6, <3>1
    <2>7. QED
      BY <2>4, <2>5, <2>6 DEF Contents
  <1>10. QED
    BY <1>7, <1>9 DEF IInv

\* One memcpy of its loop.
LEMMA FeedChunkPreserves ==
  ASSUME IInv, FeedChunk PROVE IInv'
  <1> DEFINE n == ThisLen
             size == repl_backlog_size
             idx == repl_backlog_idx
             hist == repl_backlog_histlen
             w == Written
  <1>1. /\ copied < Len(data) /\ copied \in Nat /\ Len(data) \in Nat
        /\ Len(stream) \in Nat /\ data \in Seq(Byte) /\ stream \in Seq(Byte)
        /\ Feeding /\ repl_backlog # NoBuffer
    BY DEF FeedChunk, IInv, BacklogTypeOK, Contents, Feeding
  <1>2. /\ size \in Nat \ {0} /\ idx \in Nat /\ idx < size /\ hist \in Nat
        /\ repl_backlog \in [0 .. size - 1 -> Byte \cup {Junk}]
    BY <1>1 DEF BacklogConstantsOK, IInv, BacklogTypeOK
  <1>3. n \in Nat \ {0} /\ idx + n <= size /\ copied + n <= Len(data)
    BY <1>1, <1>2 DEF ThisLen
  <1>4. /\ repl_backlog' = [i \in 0 .. size - 1 |->
                              IF i \in idx .. idx + n - 1
                              THEN data[copied + (i - idx) + 1] ELSE repl_backlog[i]]
        /\ repl_backlog_idx' = IF idx + n = size THEN 0 ELSE idx + n
        /\ repl_backlog_histlen' = hist + n
        /\ copied' = copied + n
        /\ UNCHANGED <<repl_backlog_size, repl_backlog_off, master_repl_offset,
                       data, stream, base>>
    BY DEF FeedChunk, Rewind
  <1>5. /\ w \in Int /\ w = Len(stream) - (Len(data) - copied)
        /\ Written' = w + n
    BY <1>1, <1>3, <1>4 DEF Written
  <1>6. /\ hist <= w
        /\ \A k \in 1 .. hist : k <= size => repl_backlog[Pos(k)] = stream[w - k + 1]
    BY <1>1 DEF IInv, Contents
  <1> HIDE DEF n, w
  <1>7. \A i \in idx .. idx + n - 1 : data[copied + (i - idx) + 1] \in Byte
    BY <1>1, <1>2, <1>3
  <1>8. /\ repl_backlog' \in [0 .. size - 1 -> Byte \cup {Junk}]
        /\ repl_backlog_idx' \in Nat /\ repl_backlog_idx' < size
    <2>1. repl_backlog_idx' \in Nat /\ repl_backlog_idx' < size
      BY <1>2, <1>3, <1>4
    <2>2. \A i \in 0 .. size - 1 :
            (IF i \in idx .. idx + n - 1 THEN data[copied + (i - idx) + 1] ELSE repl_backlog[i])
              \in Byte \cup {Junk}
      BY <1>2, <1>7
    <2>3. QED
      BY <1>4, <2>1, <2>2
  <1>9. repl_backlog' # NoBuffer
    BY <1>2, <1>8, NotNull
  <1>10. BacklogTypeOK'
    BY <1>1, <1>2, <1>3, <1>4, <1>8 DEF IInv, BacklogTypeOK
  \* The bytes being copied are the next bytes of the stream.
  <1>11. \A j \in 1 .. Len(data) : data[j] = stream[Len(stream) - Len(data) + j]
    BY <1>1 DEF IInv, Contents
  <1>12. ASSUME NEW k \in 1 .. hist + n, k <= size
         PROVE  repl_backlog'[Pos(k)'] = stream[w + n - k + 1]
    <2> DEFINE idx2 == IF idx + n = size THEN 0 ELSE idx + n
               pos2 == IF k <= idx2 THEN idx2 - k ELSE idx2 - k + size
    <2>1. Pos(k)' = pos2
      BY <1>4 DEF Pos
    <2>2. k \in Nat \ {0}
      BY <1>2, <1>3
    <2>3. /\ pos2 \in 0 .. size - 1
          /\ k <= n => pos2 \in idx .. idx + n - 1 /\ pos2 - idx = n - k
          /\ k > n => pos2 = Pos(k - n) /\ pos2 \notin idx .. idx + n - 1
      BY <1>2, <1>3, <1>12, <2>2, ChunkPositions DEF Pos
    <2> HIDE DEF pos2
    <2>4. CASE k <= n
      <3>1. repl_backlog'[pos2] = data[copied + (n - k) + 1]
        BY <1>4, <2>3, <2>4
      <3>2. copied + (n - k) + 1 \in 1 .. Len(data)
        BY <1>1, <1>3, <2>2, <2>4
      <3>3. Len(stream) - Len(data) + (copied + (n - k) + 1) = w + n - k + 1
        BY <1>1, <1>3, <1>5, <2>2
      <3>4. QED
        BY <1>11, <2>1, <3>1, <3>2, <3>3
    <2>5. CASE k > n
      <3>1. repl_backlog'[pos2] = repl_backlog[Pos(k - n)]
        BY <1>4, <2>3, <2>5
      <3>2. k - n \in 1 .. hist /\ k - n <= size
        BY <1>2, <1>3, <1>12, <2>2, <2>5
      <3>3. w - (k - n) + 1 = w + n - k + 1
        BY <1>3, <1>5, <2>2
      <3>4. QED
        BY <1>6, <2>1, <3>1, <3>2, <3>3
    <2>6. QED
      BY <1>3, <2>2, <2>4, <2>5
  <1>13. Contents'
    <2>1. /\ copied <= hist /\ hist - copied <= size
          /\ repl_backlog_off = master_repl_offset - Len(data) - (hist - copied) + 1
          /\ master_repl_offset = base + Len(stream) /\ Len(data) <= Len(stream)
          /\ master_repl_offset \in Nat
      BY <1>1 DEF IInv, BacklogTypeOK, Contents
    <2>2. /\ copied' <= repl_backlog_histlen'
          /\ repl_backlog_histlen' <= Written'
          /\ repl_backlog_histlen' - copied' <= repl_backlog_size'
          /\ repl_backlog_off' =
               master_repl_offset' - Len(data') - (repl_backlog_histlen' - copied') + 1
      <3>1. /\ copied' = copied + n /\ repl_backlog_histlen' = hist + n
            /\ repl_backlog_size' = size /\ repl_backlog_off' = repl_backlog_off
            /\ master_repl_offset' = master_repl_offset /\ data' = data
        BY <1>4
      <3>2. hist <= w /\ w \in Int /\ Written' = w + n
        BY <1>5, <1>6
      <3>3. copied \in Nat /\ n \in Nat /\ hist \in Nat /\ size \in Nat /\ Len(data) \in Nat
        BY <1>1, <1>2, <1>3
      <3>4. PICK c \in Nat, h \in Nat, s \in Nat, l \in Nat, m \in Nat, v \in Int, i \in Nat :
              c = copied /\ h = hist /\ s = size /\ l = Len(data) /\ m = n /\ v = w /\ i = master_repl_offset
        BY <2>1, <3>2, <3>3
      <3>5. c + m <= h + m /\ h + m <= v + m /\ (h + m) - (c + m) <= s
        BY <2>1, <3>2, <3>4
      <3>6. i - l - (h - c) + 1 = i - l - ((h + m) - (c + m)) + 1
        OBVIOUS
      <3>7. QED
        BY <2>1, <3>1, <3>2, <3>4, <3>5, <3>6
    <2>3. ASSUME NEW k \in 1 .. repl_backlog_histlen', k <= repl_backlog_size'
          PROVE  repl_backlog'[Pos(k)'] = stream'[Written' - k + 1]
      <3>1. k \in 1 .. hist + n /\ k <= size
        BY <1>4, <2>3
      <3>2. repl_backlog'[Pos(k)'] = stream[w + n - k + 1]
        BY <1>12, <3>1
      <3>3. stream' = stream /\ Written' - k + 1 = w + n - k + 1
        BY <1>2, <1>3, <1>4, <1>5, <3>1
      <3>4. QED
        BY <3>2, <3>3
    <2>4. QED
      BY <1>4, <1>9, <1>11, <2>1, <2>2, <2>3 DEF Contents
  <1>14. QED
    BY <1>10, <1>13 DEF IInv

\* Its end: the length of the history is cut to the size of the buffer.
LEMMA FeedEndPreserves ==
  ASSUME IInv, FeedEnd PROVE IInv'
  <1>1. /\ copied = Len(data) /\ Len(data) \in Nat /\ Len(stream) \in Nat
        /\ repl_backlog # NoBuffer /\ repl_backlog_size \in Nat /\ repl_backlog_histlen \in Nat
        /\ master_repl_offset \in Nat
    BY DEF FeedEnd, IInv, BacklogTypeOK, Contents
  <1>2. /\ repl_backlog_histlen' = Capped(repl_backlog_histlen)
        /\ repl_backlog_off' = master_repl_offset - repl_backlog_histlen' + 1
        /\ data' = <<>> /\ copied' = 0
        /\ UNCHANGED <<repl_backlog, repl_backlog_size, repl_backlog_idx,
                       master_repl_offset, stream, base>>
    BY DEF FeedEnd
  <1>3. /\ repl_backlog_histlen' \in Nat
        /\ repl_backlog_histlen' <= repl_backlog_histlen
        /\ repl_backlog_histlen' <= repl_backlog_size
    BY <1>1, <1>2 DEF Capped
  <1>4. BacklogTypeOK'
    BY <1>1, <1>2, <1>3 DEF IInv, BacklogTypeOK
  <1>5. Written = Len(stream) /\ Written' = Len(stream) /\ Len(data') = 0
    BY <1>1, <1>2 DEF Written
  <1>6. \A k : Pos(k)' = Pos(k)
    BY <1>2 DEF Pos
  <1>7. ASSUME NEW k \in 1 .. repl_backlog_histlen', k <= repl_backlog_size'
        PROVE  repl_backlog'[Pos(k)'] = stream'[Written' - k + 1]
    <2>1. k \in 1 .. repl_backlog_histlen /\ k <= repl_backlog_size
      BY <1>1, <1>2, <1>3, <1>7
    <2>2. repl_backlog[Pos(k)] = stream[Written - k + 1]
      BY <1>1, <2>1 DEF IInv, Contents
    <2>3. QED
      BY <1>2, <1>5, <1>6, <2>2
  <1>8. /\ repl_backlog_histlen <= Len(stream)
        /\ master_repl_offset = base + Len(stream)
    BY <1>1, <1>5 DEF IInv, Contents
  <1>9. Contents'
    <2>1. /\ master_repl_offset' = base' + Len(stream')
          /\ Len(data') <= Len(stream')
          /\ Feeding' => repl_backlog' # NoBuffer
      BY <1>1, <1>2, <1>5, <1>8 DEF Feeding
    <2>2. /\ copied' <= repl_backlog_histlen'
          /\ repl_backlog_histlen' <= Written'
          /\ repl_backlog_histlen' - copied' <= repl_backlog_size'
          /\ repl_backlog_off' =
               master_repl_offset' - Len(data') - (repl_backlog_histlen' - copied') + 1
      <3>1. PICK h \in Nat : h = repl_backlog_histlen'
        BY <1>3
      <3>2. h - 0 = h /\ master_repl_offset - 0 - h + 1 = master_repl_offset - h + 1
        BY <1>1
      <3>3. h <= Len(stream)
        BY <1>1, <1>3, <1>8, <3>1
      <3>4. QED
        BY <1>1, <1>2, <1>3, <1>5, <3>1, <3>2, <3>3
    <2>3. \A j \in 1 .. Len(data') : data'[j] = stream'[Len(stream') - Len(data') + j]
      BY <1>5
    <2>4. QED
      BY <1>7, <2>1, <2>2, <2>3 DEF Contents
  <1>10. QED
    BY <1>4, <1>9 DEF IInv

\* So the buffer is always in order.
LEMMA IInvInvariant == BacklogConstantsOK /\ BacklogSpec => []IInv
  <1>1. IInv /\ [BacklogNext]_backlogVars => IInv'
    <2> SUFFICES ASSUME IInv, [BacklogNext]_backlogVars PROVE IInv'
      OBVIOUS
    <2>1. CASE createReplicationBacklog
      BY <2>1, CreatePreserves
    <2>2. CASE \E requested \in 0 .. MaxSize : resizeReplicationBacklog(requested)
      BY <2>2, ResizePreserves
    <2>3. CASE freeReplicationBacklog
      BY <2>3, FreePreserves
    <2>4. CASE \E offset \in 0 .. MaxOffset : FullResync(offset)
      BY <2>4, FullResyncPreserves
    <2>5. CASE \E n \in 1 .. MaxFeed : \E ptr \in [1 .. n -> Byte] : FeedBegin(ptr)
      BY <2>5, FeedBeginPreserves
    <2>6. CASE FeedChunk
      BY <2>6, FeedChunkPreserves
    <2>7. CASE FeedEnd
      BY <2>7, FeedEndPreserves
    <2>8. CASE UNCHANGED backlogVars
      BY <2>8 DEF backlogVars, IInv, BacklogTypeOK, Contents, Feeding, Written, Pos
    <2>9. QED
      BY <2>1, <2>2, <2>3, <2>4, <2>5, <2>6, <2>7, <2>8 DEF BacklogNext
  <1>2. QED
    BY <1>1, InitIInv, PTL DEF BacklogSpec

\* No index of the circular buffer leaves it, also inside the copy loop.
THEOREM TypeCorrect == BacklogConstantsOK /\ BacklogSpec => []BacklogTypeOK
  BY IInvInvariant, PTL DEF IInv

\* The buffer always holds the last bytes of the stream that were copied.
THEOREM BufferHoldsStream == BacklogConstantsOK /\ BacklogSpec => []Contents
  BY IInvInvariant, PTL DEF IInv

\* The index at which addReplyReplicationBacklog starts reading is the
\* position of the m-th last byte, m being the length of the reply.
LEMMA FirstIndex ==
  ASSUME NEW size \in Nat \ {0}, NEW idx \in Nat, idx < size,
         NEW hist \in Nat \ {0}, hist <= size,
         NEW skip \in Nat, NEW m \in Nat, hist = skip + m
  PROVE  (((idx + (size - hist)) % size) + skip) % size
               = IF m <= idx THEN idx - m ELSE idx - m + size
  <1>1. PICK a \in Nat : a = idx + (size - hist) /\ a < size + size
    OBVIOUS
  <1>2. PICK old \in Nat : old = a % size /\ old = IF a < size THEN a ELSE a - size
    <2>1. a % size = IF a < size THEN a ELSE a - size
      BY <1>1, ModOnce
    <2>2. (IF a < size THEN a ELSE a - size) \in Nat
      OBVIOUS
    <2>3. QED
      BY <2>1, <2>2
  <1>3. PICK b \in Nat : b = old + skip /\ b < size + size
    BY <1>1, <1>2
  <1>4. b % size = IF b < size THEN b ELSE b - size
    BY <1>3, ModOnce
  <1>5. (IF b < size THEN b ELSE b - size) = IF m <= idx THEN idx - m ELSE idx - m + size
    BY <1>1, <1>2, <1>3
  <1>6. (((idx + (size - hist)) % size) + skip) % size = b % size
    BY <1>1, <1>2, <1>3
  <1>7. QED
    BY <1>4, <1>5, <1>6

\* The reply of m bytes starts at index start and its first part has chunk bytes.
Parts(size, idx, m, start, chunk) ==
  /\ start = IF m <= idx THEN idx - m ELSE idx - m + size
  /\ chunk = IF size - start < m THEN size - start ELSE m

\* The last m bytes of st are in buf, the k-th last one at pos[k].
HoldsEnd(buf, pos, idx, size, st, m) ==
  \A k \in 1 .. m : /\ pos[k] = IF k <= idx THEN idx - k ELSE idx - k + size
                    /\ buf[pos[k]] = st[Len(st) - k + 1]

\* A run of n bytes read from index d of a buffer.
Run(buf, d, n) == [k \in 1 .. n |-> buf[d + k - 1]]

Readable(buf, d, n) ==
  d \in Nat /\ n \in Nat /\ \A i \in 1 .. n : buf[d + i - 1] \in Byte

RunOf(buf, d, n) ==
  /\ Run(buf, d, n) \in Seq(Byte) /\ Len(Run(buf, d, n)) = n
  /\ \A i \in 1 .. n : Run(buf, d, n)[i] = buf[d + i - 1]

\* A run of the buffer is a sequence of its bytes.
LEMMA RunIsSeq ==
  ASSUME NEW buf, NEW d, NEW n, Readable(buf, d, n)
  PROVE  RunOf(buf, d, n)
  BY DEF Run, Readable, RunOf

\* The end of a sequence, element by element.
LEMMA SuffixBytes ==
  ASSUME NEW st \in Seq(Byte), NEW len \in Nat, len = Len(st),
         NEW m \in Nat, m <= len
  PROVE  /\ SubSeq(st, len - m + 1, len) \in Seq(Byte)
         /\ Len(SubSeq(st, len - m + 1, len)) = m
         /\ \A i \in 1 .. m : SubSeq(st, len - m + 1, len)[i] = st[len - m + i]
         /\ \A i \in 1 .. m : st[len - m + i] \in Byte
  <1>1. len - m + 1 \in 1 .. len + 1
    OBVIOUS
  <1>2. PICK a \in 1 .. len + 1 : a = len - m + 1
    BY <1>1
  <1>3. /\ SubSeq(st, a, len) \in Seq(Byte)
        /\ Len(SubSeq(st, a, len)) = IF a <= len THEN len - a + 1 ELSE 0
        /\ \A i \in 1 .. len - a + 1 : SubSeq(st, a, len)[i] = st[a + i - 1]
    <2>1. \A i \in a .. len : st[i] \in Byte
      BY <1>2
    <2>2. QED
      BY <1>2, <2>1, SubSeqProperties
  <1>4. (IF a <= len THEN len - a + 1 ELSE 0) = m /\ len - a + 1 = m
    BY <1>2
  <1>5. \A i \in 1 .. m : a + i - 1 = len - m + i /\ len - m + i \in 1 .. len
    BY <1>2
  <1>6. QED
    BY <1>2, <1>3, <1>4, <1>5

\* Two parts that are consecutive pieces of the end of a stream make it up.
Pieces(p1, p2, suffix, chunk, rest, m) ==
  /\ chunk \in Nat /\ rest \in Nat /\ m \in Nat /\ m = chunk + rest
  /\ p1 \in Seq(Byte) /\ Len(p1) = chunk
  /\ p2 \in Seq(Byte) /\ Len(p2) = rest
  /\ suffix \in Seq(Byte) /\ Len(suffix) = m
  /\ \A i \in 1 .. chunk : p1[i] = suffix[i]
  /\ \A i \in 1 .. rest : p2[i] = suffix[chunk + i]

\* Two runs that together have the bytes of a suffix are that suffix.
LEMMA JoinParts ==
  ASSUME NEW p1, NEW p2, NEW suffix, NEW chunk, NEW rest, NEW m,
         Pieces(p1, p2, suffix, chunk, rest, m)
  PROVE  p1 \o p2 = suffix
  <1> USE DEF Pieces
  <1>1. /\ p1 \o p2 \in Seq(Byte) /\ Len(p1 \o p2) = m
        /\ \A i \in 1 .. m : (p1 \o p2)[i] = IF i <= chunk THEN p1[i] ELSE p2[i - chunk]
    <2>1. /\ p1 \o p2 \in Seq(Byte) /\ Len(p1 \o p2) = Len(p1) + Len(p2)
          /\ \A i \in 1 .. Len(p1) + Len(p2) : (p1 \o p2)[i] =
                IF i <= Len(p1) THEN p1[i] ELSE p2[i - Len(p1)]
      BY ConcatProperties
    <2>2. QED
      BY <2>1
  <1>2. ASSUME NEW i \in 1 .. m PROVE (p1 \o p2)[i] = suffix[i]
    <2>1. CASE i <= chunk
      <3>1. i \in 1 .. chunk
        BY <2>1
      <3>2. QED
        BY <1>1, <2>1, <3>1
    <2>2. CASE ~(i <= chunk)
      <3>1. i - chunk \in 1 .. rest /\ chunk + (i - chunk) = i
        BY <2>2
      <3>2. QED
        BY <1>1, <2>2, <3>1
    <2>3. QED
      BY <2>1, <2>2
  <1>3. QED
    BY <1>1, <1>2, SeqEqual

\* The two parts read from a buffer that holds the last bytes of a stream
\* make the end of that stream.
Reply(buf, size, idx, st, len, m, pos, start, chunk, rest) ==
  /\ size \in Nat \ {0} /\ idx \in Nat /\ idx < size
  /\ st \in Seq(Byte) /\ len \in Nat /\ len = Len(st)
  /\ m \in Nat /\ m <= size /\ m <= len
  /\ HoldsEnd(buf, pos, idx, size, st, m)
  /\ start \in Nat /\ chunk \in Nat /\ Parts(size, idx, m, start, chunk)
  /\ rest \in Nat /\ m = chunk + rest

ReplyOf(buf, st, len, m, start, chunk, rest) ==
  Run(buf, start, chunk) \o Run(buf, 0, rest) = SubSeq(st, len - m + 1, len)

\* The index at which the i-th byte of a reply is read, counted from the end.
Nth(size, idx, m, start, chunk, i, k) ==
  /\ size \in Nat /\ idx \in Nat /\ idx < size /\ m \in Nat /\ m <= size
  /\ start \in Nat /\ chunk \in Nat /\ Parts(size, idx, m, start, chunk)
  /\ i \in 1 .. m /\ k \in 1 .. m /\ k + i = m + 1

NthIndex(size, idx, start, chunk, i, k) ==
  /\ i <= chunk => start + i - 1 = IF k <= idx THEN idx - k ELSE idx - k + size
  /\ ~(i <= chunk) => i - chunk - 1 = IF k <= idx THEN idx - k ELSE idx - k + size

\* Where the n-th byte that is sent is in the buffer.
LEMMA PartPosition ==
  ASSUME NEW size, NEW idx, NEW m, NEW start, NEW chunk, NEW i, NEW k,
         Nth(size, idx, m, start, chunk, i, k)
  PROVE  NthIndex(size, idx, start, chunk, i, k)
  <1> USE DEF Nth, NthIndex
  <1>1. CASE m <= idx
    BY <1>1 DEF Parts
  <1>2. CASE ~(m <= idx)
    <2>1. start = idx - m + size /\ size - start = m - idx
      BY <1>2 DEF Parts
    <2>2. chunk = IF m - idx < m THEN m - idx ELSE m
      BY <2>1 DEF Parts
    <2>3. QED
      BY <1>2, <2>1, <2>2
  <1>3. QED
    BY <1>1, <1>2

\* addReplyReplicationBacklog sends a suffix of the stream.
LEMMA ReplyIsSuffix ==
  ASSUME NEW buf, NEW size, NEW idx, NEW st, NEW len, NEW m, NEW pos,
         NEW start, NEW chunk, NEW rest,
         Reply(buf, size, idx, st, len, m, pos, start, chunk, rest)
  PROVE  ReplyOf(buf, st, len, m, start, chunk, rest)
  <1> USE DEF Reply
  <1>1. PICK suffix : suffix = SubSeq(st, len - m + 1, len)
    OBVIOUS
  <1>2. /\ suffix \in Seq(Byte) /\ Len(suffix) = m
        /\ \A i \in 1 .. m : suffix[i] = st[len - m + i] /\ suffix[i] \in Byte
    BY <1>1, SuffixBytes, SMTT(20)
  <1>3. ASSUME NEW i \in 1 .. m
        PROVE  /\ i <= chunk => buf[start + i - 1] = suffix[i]
               /\ ~(i <= chunk) => buf[i - chunk - 1] = suffix[i]
    <2>1. PICK k \in 1 .. m : k + i = m + 1 /\ len - k + 1 = len - m + i
      <3>1. m - i + 1 \in 1 .. m /\ (m - i + 1) + i = m + 1
            /\ len - (m - i + 1) + 1 = len - m + i
        OBVIOUS
      <3>2. QED
        BY <3>1
    <2>2. /\ i <= chunk => start + i - 1 = pos[k]
          /\ ~(i <= chunk) => i - chunk - 1 = pos[k]
      <3>1. pos[k] = IF k <= idx THEN idx - k ELSE idx - k + size
        BY DEF HoldsEnd
      <3>2. Nth(size, idx, m, start, chunk, i, k)
        BY <2>1 DEF Nth
      <3>3. NthIndex(size, idx, start, chunk, i, k)
        BY <3>2, PartPosition
      <3>4. QED
        BY <3>1, <3>3 DEF NthIndex
    <2>3. buf[pos[k]] = suffix[i]
      <3>1. buf[pos[k]] = st[len - k + 1]
        BY DEF HoldsEnd
      <3>2. QED
        BY <1>2, <2>1, <3>1
    <2>4. QED
      BY <2>2, <2>3
  <1>4. ASSUME NEW i \in 1 .. chunk
        PROVE  buf[start + i - 1] = suffix[i] /\ suffix[i] \in Byte
    <2>1. i \in 1 .. m /\ i <= chunk
      OBVIOUS
    <2>2. QED
      BY <1>2, <1>3, <2>1
  <1>5. ASSUME NEW i \in 1 .. rest
        PROVE  buf[0 + i - 1] = suffix[chunk + i] /\ suffix[chunk + i] \in Byte
    <2>1. chunk + i \in 1 .. m /\ ~(chunk + i <= chunk) /\ (chunk + i) - chunk - 1 = 0 + i - 1
      OBVIOUS
    <2>2. QED
      BY <1>2, <1>3, <2>1
  <1>6. /\ Run(buf, start, chunk) \in Seq(Byte) /\ Len(Run(buf, start, chunk)) = chunk
        /\ \A i \in 1 .. chunk : Run(buf, start, chunk)[i] = suffix[i]
    <2>1. Readable(buf, start, chunk)
      BY <1>4 DEF Readable
    <2>2. RunOf(buf, start, chunk)
      BY <2>1, RunIsSeq
    <2>3. QED
      BY <1>4, <2>2 DEF RunOf
  <1>7. /\ Run(buf, 0, rest) \in Seq(Byte) /\ Len(Run(buf, 0, rest)) = rest
        /\ \A i \in 1 .. rest : Run(buf, 0, rest)[i] = suffix[chunk + i]
    <2>1. Readable(buf, 0, rest)
      BY <1>5 DEF Readable
    <2>2. RunOf(buf, 0, rest)
      BY <2>1, RunIsSeq
    <2>3. QED
      BY <1>5, <2>2 DEF RunOf
  <1>8. PICK p1 \in Seq(Byte), p2 \in Seq(Byte) :
          p1 = Run(buf, start, chunk) /\ p2 = Run(buf, 0, rest)
    BY <1>6, <1>7
  <1>9. p1 \o p2 = suffix
    <2>1. Pieces(p1, p2, suffix, chunk, rest, m)
      BY <1>2, <1>6, <1>7, <1>8 DEF Pieces
    <2>2. QED
      BY <2>1, JoinParts
  <1>10. QED
    BY <1>1, <1>8, <1>9 DEF ReplyOf

\* A buffer in order answers exactly what a replica misses.
LEMMA ContentsImpliesExact == IInv => PartialResyncExact
  <1> SUFFICES ASSUME IInv, ~Feeding, NEW o \in 0 .. master_repl_offset + 2, InBacklog(o)
               PROVE  /\ o > base /\ o <= master_repl_offset + 1
                      /\ addReplyReplicationBacklog(o) = SubSeq(stream, o - base, Len(stream))
    BY DEF PartialResyncExact
  <1>1. /\ repl_backlog_size \in Nat \ {0} /\ repl_backlog_idx \in Nat
        /\ repl_backlog_histlen \in Nat /\ Len(stream) \in Nat
        /\ repl_backlog_idx < repl_backlog_size
        /\ repl_backlog # NoBuffer /\ data = <<>> /\ copied = 0 /\ Written = Len(stream)
        /\ stream \in Seq(Byte) /\ base \in Nat /\ master_repl_offset \in Nat
    <2>1. /\ repl_backlog # NoBuffer /\ data = <<>> /\ Len(data) = 0 /\ copied = 0
          /\ stream \in Seq(Byte) /\ base \in Nat /\ master_repl_offset \in Nat
      BY DEF Feeding, IInv, BacklogTypeOK, InBacklog
    <2>2. QED
      BY <2>1 DEF BacklogConstantsOK, IInv, BacklogTypeOK, Written
  <1>2. PICK size \in Nat \ {0} : size = repl_backlog_size
    BY <1>1
  <1>3. PICK idx \in Nat : idx = repl_backlog_idx /\ idx < size
    BY <1>1, <1>2
  <1>4. PICK hist \in Nat : hist = repl_backlog_histlen
    BY <1>1
  <1>5. PICK len \in Nat : len = Len(stream)
    BY <1>1
  <1>6. /\ master_repl_offset = base + len
        /\ hist <= len /\ hist <= size
        /\ repl_backlog_off = master_repl_offset - hist + 1
    BY <1>1, <1>2, <1>4, <1>5 DEF IInv, Contents
  <1>7. PICK pos : pos = [k \in 1 .. hist |-> IF k <= idx THEN idx - k ELSE idx - k + size]
    OBVIOUS
  <1>8. \A k \in 1 .. hist :
          /\ pos[k] = IF k <= idx THEN idx - k ELSE idx - k + size
          /\ repl_backlog[pos[k]] = stream[len - k + 1]
    BY <1>1, <1>2, <1>3, <1>4, <1>5, <1>6, <1>7 DEF IInv, Contents, Pos
  <1>9. PICK skip \in Nat : skip = o - repl_backlog_off /\ skip <= hist
    BY <1>1, <1>4, <1>6 DEF InBacklog
  <1>10. PICK m \in Nat : m = hist - skip /\ hist = skip + m
    BY <1>9
  <1>11. o - base = len - m + 1 /\ m <= len /\ m <= size
    BY <1>1, <1>6, <1>9, <1>10
  <1>12. o > base /\ o <= master_repl_offset + 1
    BY <1>1, <1>6, <1>9
  <1>13. CASE hist = 0
    <2>1. o - base = len + 1
      BY <1>10, <1>11, <1>13
    <2>2. addReplyReplicationBacklog(o) = <<>>
      BY <1>4, <1>13 DEF addReplyReplicationBacklog
    <2>3. SubSeq(stream, len + 1, len) = <<>>
      BY <1>1, SubSeqEmpty
    <2>4. QED
      BY <1>5, <1>12, <2>1, <2>2, <2>3
  <1>14. CASE hist # 0
    <2>1. PICK start \in Nat : start = (IF m <= idx THEN idx - m ELSE idx - m + size) /\ start < size
      <3>1. CASE m <= idx
        BY <1>3, <3>1
      <3>2. CASE ~(m <= idx)
        BY <1>11, <3>2
      <3>3. QED
        BY <3>1, <3>2
    <2>2. (OldestByte + skip) % size = start
      BY <1>2, <1>3, <1>4, <1>6, <1>10, <1>14, <2>1, FirstIndex DEF OldestByte
    <2>3. PICK chunk \in Nat : /\ chunk = IF size - start < m THEN size - start ELSE m
                               /\ chunk <= m
      <3>1. CASE size - start < m
        BY <2>1, <3>1
      <3>2. CASE ~(size - start < m)
        BY <3>2
      <3>3. QED
        BY <3>1, <3>2
    <2>4. PICK rest \in Nat : m = chunk + rest /\ m - chunk = rest
      BY <2>3
    <2>5. addReplyReplicationBacklog(o) = Bytes(start, chunk) \o Bytes(0, rest)
      BY <1>2, <1>4, <1>9, <1>10, <1>14, <2>2, <2>3, <2>4 DEF addReplyReplicationBacklog
    <2>6. HoldsEnd(repl_backlog, pos, idx, size, stream, m) /\ Parts(size, idx, m, start, chunk)
      BY <1>5, <1>8, <1>10, <2>1, <2>3 DEF HoldsEnd, Parts
    <2>7. Bytes(start, chunk) \o Bytes(0, rest) = SubSeq(stream, len - m + 1, len)
      <3>1. /\ Bytes(start, chunk) = Run(repl_backlog, start, chunk)
            /\ Bytes(0, rest) = Run(repl_backlog, 0, rest)
        BY DEF Bytes, Run
      <3>2. Run(repl_backlog, start, chunk) \o Run(repl_backlog, 0, rest)
              = SubSeq(stream, len - m + 1, len)
        <4>1. Reply(repl_backlog, size, idx, stream, len, m, pos, start, chunk, rest)
          BY <1>1, <1>3, <1>5, <1>11, <2>4, <2>6 DEF Reply
        <4>2. ReplyOf(repl_backlog, stream, len, m, start, chunk, rest)
          BY <4>1, ReplyIsSuffix
        <4>3. QED
          BY <4>2 DEF ReplyOf
      <3>3. QED
        BY <3>1, <3>2
    <2>8. QED
      BY <1>5, <1>11, <1>12, <2>5, <2>7
  <1>15. QED
    BY <1>13, <1>14

\* A PSYNC that masterTryPartialResynchronization accepts is answered with
\* exactly the bytes of the stream the replica does not have, for every
\* backlog size and every sequence of writes, resizes and resynchronizations.
THEOREM PartialResync == BacklogConstantsOK /\ BacklogSpec => []PartialResyncExact
  BY IInvInvariant, ContentsImpliesExact, PTL

----------------------------------------------------------------------------
(* The buffer implements the window of BacklogWindow.                      *)

\* The stream that the window has seen: what the call in progress appends
\* counts when the call ends.
Shown == SubSeq(stream, 1, Len(stream) - Len(data))

\* The length of a prefix.
LEMMA PrefixLen ==
  ASSUME NEW S, NEW s \in Seq(S), NEW n \in Nat, n <= Len(s)
  PROVE  SubSeq(s, 1, n) \in Seq(S) /\ Len(SubSeq(s, 1, n)) = n
  <1>1. \A i \in 1 .. n : s[i] \in S
    OBVIOUS
  <1>2. QED
    BY <1>1, SubSeqProperties

\* A sequence is a prefix of its continuation.
LEMMA PrefixOfConcat ==
  ASSUME NEW S, NEW s \in Seq(S), NEW t \in Seq(S)
  PROVE  SubSeq(s \o t, 1, Len(s)) = s
  <1>1. CASE Len(s) = 0
    <2>1. SubSeq(s \o t, 1, 0) = <<>>
      BY SubSeqEmpty
    <2>2. QED
      BY <1>1, <2>1
  <1>2. CASE Len(s) # 0
    <2>1. 1 \in 1 .. Len(s) /\ Len(s) \in 1 .. Len(s)
      BY <1>2
    <2>2. SubSeq(s \o t, 1, Len(s)) = SubSeq(s, 1, Len(s))
      BY <2>1, SubSeqOfConcat1
    <2>3. QED
      BY <2>2, SubSeqFull
  <1>3. QED
    BY <1>1, <1>2

\* Between two calls the window has seen the whole stream; its end is always
\* the offset before the call in progress.
LEMMA ShownFacts ==
  ASSUME IInv
  PROVE  /\ Len(Shown) = Len(stream) - Len(data)
         /\ base + Len(Shown) = master_repl_offset - Len(data)
         /\ base + Len(Shown) \in Nat
         /\ ~Feeding => Shown = stream /\ Len(data) = 0
  <1>1. /\ stream \in Seq(Byte) /\ data \in Seq(Byte) /\ base \in Nat
        /\ Len(data) <= Len(stream) /\ master_repl_offset = base + Len(stream)
    BY DEF IInv, BacklogTypeOK, Contents
  <1>2. /\ Len(stream) - Len(data) \in Nat
        /\ Len(stream) - Len(data) <= Len(stream)
        /\ Len(data) \in Nat /\ Len(stream) \in Nat
    BY <1>1
  <1>3. Len(Shown) = Len(stream) - Len(data)
    BY <1>1, <1>2, PrefixLen DEF Shown
  <1>4. ~Feeding => Shown = stream /\ Len(data) = 0
    BY <1>1, SubSeqFull DEF Feeding, Shown
  <1>5. QED
    BY <1>1, <1>2, <1>3, <1>4

\* The window is empty at first.
LEMMA WindowInit == BacklogConstantsOK /\ BacklogInit => Window!WInit
  <1>1. SUFFICES ASSUME BacklogConstantsOK, BacklogInit PROVE Window!WInit
    OBVIOUS
  <1>2. Shown = <<>>
    BY <1>1, SubSeqEmpty DEF BacklogInit, Shown
  <1>3. repl_backlog_size \in Nat /\ repl_backlog_size >= MinSize
    BY <1>1 DEF BacklogConstantsOK, BacklogInit
  <1>4. QED
    BY <1>1, <1>2, <1>3 DEF BacklogInit, Shown, Window!WInit

\* Every step of the buffer is a step of the window or does not move it.
LEMMA WindowStep ==
  ASSUME IInv, IInv', [BacklogNext]_backlogVars
  PROVE  [Window!WNext]_(Window!wvars)
  <1> DEFINE active == repl_backlog # NoBuffer
             Stutter == /\ Shown' = Shown /\ base' = base
                        /\ repl_backlog_off' = repl_backlog_off
                        /\ active' = active
                        /\ repl_backlog_size' = repl_backlog_size
  <1>s. Stutter => UNCHANGED Window!wvars
    BY DEF Shown, Window!wvars
  <1>n. \A b : b \in [0 .. repl_backlog_size' - 1 -> Byte \cup {Junk}] => b # NoBuffer
    <2>1. repl_backlog_size' \in Nat \ {0}
      BY DEF IInv, BacklogConstantsOK, BacklogTypeOK
    <2>2. QED
      BY <2>1, NotNull
  <1>1. CASE createReplicationBacklog
    <2>1. /\ EmptyBuffer(repl_backlog_size, master_repl_offset)
          /\ repl_backlog_size' = repl_backlog_size
          /\ data' = data /\ stream' = stream /\ base' = base
          /\ ~Feeding /\ ~active
      BY <1>1 DEF createReplicationBacklog
    <2>2. active' /\ repl_backlog_off' = master_repl_offset + 1
      BY <1>n, <2>1, EmptyBufferType DEF IInv, BacklogTypeOK
    <2>3. base + Len(Shown) = master_repl_offset /\ Shown' = Shown
      BY <2>1, ShownFacts DEF Shown, IInv, BacklogTypeOK
    <2>4. Window!WCreate
      BY <2>1, <2>2, <2>3 DEF Window!WCreate, Window!End, Shown
    <2>5. QED
      BY <2>4 DEF Window!WNext
  <1>2. ASSUME NEW requested \in 0 .. MaxSize, resizeReplicationBacklog(requested)
        PROVE  Window!WNext
    <2> DEFINE newsize == IF requested < MinSize THEN MinSize ELSE requested
    <2>1. newsize \in Nat /\ newsize >= MinSize
      BY DEF IInv, BacklogConstantsOK
    <2>2. /\ ~Feeding /\ Resize(newsize)
          /\ data' = data /\ stream' = stream /\ base' = base
      BY <1>2 DEF resizeReplicationBacklog
    <2> HIDE DEF newsize
    <2>3. repl_backlog_size' = newsize
      BY <2>2 DEF Resize
    <2>4. base + Len(Shown) = master_repl_offset /\ Shown' = Shown
      <3>1. master_repl_offset \in Nat
        BY DEF IInv, BacklogTypeOK
      <3>2. base + Len(Shown) = master_repl_offset - Len(data) /\ Len(data) = 0
        BY <2>2, ShownFacts
      <3>3. QED
        BY <2>2, <3>1, <3>2 DEF Shown
    <2>5. /\ active' = active
          /\ repl_backlog_off' = IF active THEN base + Len(Shown) + 1 ELSE repl_backlog_off
      <3>1. CASE active
        <4>1. EmptyBuffer(newsize, master_repl_offset)
          BY <2>2, <3>1 DEF Resize
        <4>2. active' /\ repl_backlog_off' = master_repl_offset + 1
          BY <1>n, <2>1, <2>3, <4>1, EmptyBufferType DEF IInv, BacklogTypeOK
        <4>3. QED
          BY <2>4, <3>1, <4>2
      <3>2. CASE ~active
        BY <2>2, <3>2 DEF Resize
      <3>3. QED
        BY <3>1, <3>2
    <2>6. Window!WResize
      BY <2>1, <2>2, <2>3, <2>4, <2>5 DEF Window!WResize, Window!End, Shown
    <2>7. QED
      BY <2>6 DEF Window!WNext
  <1>3. CASE freeReplicationBacklog
    <2>1. Window!WFree
      BY <1>3 DEF freeReplicationBacklog, Window!WFree
    <2>2. QED
      BY <2>1 DEF Window!WNext
  <1>4. ASSUME NEW offset \in 0 .. MaxOffset, FullResync(offset)
        PROVE  Window!WNext
    <2>1. offset \in Nat
      BY DEF IInv, BacklogConstantsOK
    <2>2. /\ EmptyBuffer(repl_backlog_size, offset) /\ stream' = <<>> /\ base' = offset
          /\ repl_backlog_size' = repl_backlog_size /\ ~active
          /\ data' = <<>>
      BY <1>4 DEF FullResync, Feeding
    <2>3. active' /\ repl_backlog_off' = offset + 1
      BY <1>n, <2>1, <2>2, EmptyBufferType DEF IInv, BacklogTypeOK
    <2>4. Shown' = <<>>
      BY <2>2, SubSeqEmpty DEF Shown
    <2>5. Window!WNewHistory
      BY <2>1, <2>2, <2>3, <2>4 DEF Window!WNewHistory, Shown
    <2>6. QED
      BY <2>5 DEF Window!WNext
  <1>5. ASSUME NEW n \in 1 .. MaxFeed, NEW ptr \in [1 .. n -> Byte], FeedBegin(ptr)
        PROVE  Stutter
    <2>1. ptr \in Seq(Byte) /\ stream \in Seq(Byte)
      <3>1. ptr \in Seq(Byte)
        BY DEF IInv, BacklogConstantsOK
      <3>2. QED
        BY <3>1 DEF IInv, BacklogTypeOK
    <2>2. /\ stream' = stream \o ptr /\ data' = ptr /\ ~Feeding
          /\ UNCHANGED <<repl_backlog, repl_backlog_size, repl_backlog_off, base>>
      BY <1>5 DEF FeedBegin
    <2>3. Len(stream') - Len(data') = Len(stream)
      BY <2>1, <2>2, ConcatProperties
    <2>4. Shown' = stream
      BY <2>1, <2>2, <2>3, PrefixOfConcat DEF Shown
    <2>5. QED
      BY <2>2, <2>4, ShownFacts
  <1>6. CASE FeedChunk
    <2>1. /\ data' = data /\ stream' = stream
          /\ UNCHANGED <<repl_backlog_size, repl_backlog_off, base>>
      BY <1>6 DEF FeedChunk
    <2>2. active
      BY <1>6 DEF FeedChunk, IInv, BacklogTypeOK, Contents, Feeding
    <2>3. active'
      BY <2>1, <2>2, <1>6 DEF IInv, Contents, FeedChunk, Feeding, BacklogTypeOK
    <2>4. Stutter
      BY <2>1, <2>2, <2>3 DEF Shown
    <2>5. QED
      BY <1>s, <2>4
  <1>7. CASE FeedEnd
    <2>1. /\ data' = <<>> /\ stream' = stream
          /\ repl_backlog' = repl_backlog
          /\ repl_backlog_size' = repl_backlog_size /\ base' = base
          /\ repl_backlog_histlen' = Capped(repl_backlog_histlen)
          /\ repl_backlog_off' = master_repl_offset - repl_backlog_histlen' + 1
          /\ master_repl_offset' = master_repl_offset
          /\ Feeding /\ copied = Len(data)
      BY <1>7 DEF FeedEnd
    <2>2. active /\ stream \in Seq(Byte)
      BY <2>1 DEF IInv, BacklogTypeOK, Contents
    <2>3. Shown' = stream
      BY <2>1, <2>2, SubSeqFull DEF Shown
    <2>4. /\ Len(Shown) = Len(stream) - Len(data)
          /\ Len(data) \in Nat /\ Len(stream) \in Nat /\ Len(data) <= Len(stream)
      <3>1. Len(Shown) = Len(stream) - Len(data)
        BY ShownFacts
      <3>2. data \in Seq(Byte) /\ stream \in Seq(Byte) /\ Len(data) <= Len(stream)
        BY DEF IInv, BacklogTypeOK, Contents
      <3>3. QED
        BY <3>1, <3>2
    <2>5. Len(stream) >= Len(Shown) /\ SubSeq(stream, 1, Len(Shown)) = Shown
      BY <2>4 DEF Shown
    <2>6. PICK h \in Nat, c \in Nat, m \in Nat, z \in Nat :
            /\ h = repl_backlog_histlen /\ c = copied
            /\ m = master_repl_offset /\ z = repl_backlog_size
      BY DEF IInv, BacklogTypeOK
    <2>7. /\ h >= c /\ h - c <= z
          /\ repl_backlog_off = m - c - (h - c) + 1
          /\ m = base + Len(stream)
      BY <2>1, <2>2, <2>6 DEF IInv, Contents
    <2>8. repl_backlog_off' = m - (IF h > z THEN z ELSE h) + 1
      BY <2>1, <2>6 DEF Capped
    <2>9. /\ repl_backlog_off' \in repl_backlog_off .. m + 1
          /\ m - repl_backlog_off' + 1 <= z
      <3>1. repl_backlog_off = m - h + 1
        BY <2>6, <2>7
      <3>2. CASE h > z
        BY <2>6, <2>8, <3>1, <3>2
      <3>3. CASE ~(h > z)
        BY <2>6, <2>8, <3>1, <3>3
      <3>4. QED
        BY <3>2, <3>3
    <2>10. Window!WFeed
      BY <2>1, <2>2, <2>3, <2>5, <2>6, <2>7, <2>9 DEF Window!WFeed, Window!End, Shown
    <2>11. QED
      BY <2>10 DEF Window!WNext
  <1>8. CASE UNCHANGED backlogVars
    BY <1>8 DEF backlogVars, Window!wvars
  <1>9. QED
    BY <1>s, <1>1, <1>2, <1>3, <1>4, <1>5, <1>6, <1>7, <1>8 DEF BacklogNext

\* The circular buffer of feedReplicationBacklog, with its index, its
\* rewinds and its history length, implements the sliding window: contiguous,
\* ending at the current offset, never growing backwards and never longer
\* than repl-backlog-size, whatever the sizes and the calls.
THEOREM Refinement == BacklogConstantsOK /\ BacklogSpec => IsAWindow
  <1>1. BacklogConstantsOK /\ BacklogInit => Window!WInit
    BY WindowInit
  <1>2. IInv /\ IInv' /\ [BacklogNext]_backlogVars => [Window!WNext]_(Window!wvars)
    BY WindowStep
  <1>3. BacklogConstantsOK /\ BacklogSpec => []IInv
    BY IInvInvariant
  <1>4. QED
    BY <1>1, <1>2, <1>3, PTL DEF IsAWindow, Window!WSpec, BacklogSpec
==============================================================================
