------------------------------- MODULE Backlog -------------------------------
(***************************************************************************)
(* The replication backlog: the circular buffer of src/src/replication.c   *)
(* from which a master serves partial resynchronizations.                  *)
(*                                                                         *)
(* The copy loop of feedReplicationBacklog is modelled one memcpy at a     *)
(* time: between FeedBegin and FeedEnd no other operation runs, as in the  *)
(* single-threaded server.  The history variables stream and base hold the *)
(* bytes the buffer is a window of.  A zero-length call (an empty argument)*)
(* changes nothing and is left out.                                        *)
(***************************************************************************)
EXTENDS Integers, Sequences

CONSTANTS
    Byte,       \* values of a byte of the stream
    Junk,       \* contents of freshly allocated memory
    MinSize,    \* CONFIG_REPL_BACKLOG_MIN_SIZE
    MaxSize,    \* bound on a configured repl-backlog-size
    MaxFeed,    \* bound on the length of one feedReplicationBacklog call
    MaxOffset   \* bound on master_repl_offset

\* What the configuration guarantees of the sizes.
BacklogConstantsOK ==
    /\ MinSize \in Nat \ {0}
    /\ MaxSize \in Nat /\ MaxSize >= MinSize
    /\ MaxFeed \in Nat /\ MaxOffset \in Nat
    /\ Junk \notin Byte

VARIABLES
    repl_backlog,          \* the buffer, or NoBuffer
    repl_backlog_size,
    repl_backlog_idx,
    repl_backlog_histlen,
    repl_backlog_off,
    master_repl_offset,
    data, copied,          \* ptr and the number of its bytes already copied
    stream, base           \* history: the bytes fed since offset base

backlogVars == <<repl_backlog, repl_backlog_size, repl_backlog_idx, repl_backlog_histlen,
                 repl_backlog_off, master_repl_offset, data, copied, stream, base>>

NoBuffer == <<>>

Feeding == data # <<>>

zmalloc(size) == [i \in 0 .. size - 1 |-> Junk]

BacklogInit ==
    /\ repl_backlog = NoBuffer
    /\ repl_backlog_size \in MinSize .. MaxSize
    /\ repl_backlog_idx = 0 /\ repl_backlog_histlen = 0
    /\ repl_backlog_off = 1      \* zero in the code; never read without a buffer
    /\ master_repl_offset = 0
    /\ data = <<>> /\ copied = 0
    /\ stream = <<>> /\ base = 0

\* A new empty buffer whose first byte is the next one of the stream.
EmptyBuffer(size, offset) ==
    /\ repl_backlog' = zmalloc(size)
    /\ repl_backlog_histlen' = 0
    /\ repl_backlog_idx' = 0
    /\ repl_backlog_off' = offset + 1

createReplicationBacklog ==
    /\ ~Feeding /\ repl_backlog = NoBuffer
    /\ EmptyBuffer(repl_backlog_size, master_repl_offset)
    /\ UNCHANGED <<repl_backlog_size, master_repl_offset, data, copied, stream, base>>

\* CONFIG SET repl-backlog-size.
ResizeKeepsWindow(newsize) ==     \* mutant: the offset of the first byte is not reset
    /\ repl_backlog_size' = newsize
    /\ repl_backlog' = IF repl_backlog = NoBuffer THEN NoBuffer ELSE zmalloc(newsize)
    /\ UNCHANGED <<repl_backlog_histlen, repl_backlog_idx, repl_backlog_off>>

Resize(newsize) ==
    /\ repl_backlog_size' = newsize
    /\ IF repl_backlog # NoBuffer
       THEN EmptyBuffer(newsize, master_repl_offset)
       ELSE UNCHANGED <<repl_backlog, repl_backlog_histlen, repl_backlog_idx, repl_backlog_off>>

resizeReplicationBacklog(requested) ==
    LET newsize == IF requested < MinSize THEN MinSize ELSE requested
    IN  /\ ~Feeding
        /\ newsize # repl_backlog_size
        /\ Resize(newsize)
        /\ UNCHANGED <<master_repl_offset, data, copied, stream, base>>

freeReplicationBacklog ==
    /\ ~Feeding /\ repl_backlog # NoBuffer
    /\ repl_backlog' = NoBuffer
    /\ UNCHANGED <<repl_backlog_size, repl_backlog_idx, repl_backlog_histlen,
                   repl_backlog_off, master_repl_offset, data, copied, stream, base>>

\* readSyncBulkPayload: a new history starts at the offset the master
\* announced, and the buffer freed by syncWithMaster is created again.
FullResync(offset) ==
    /\ ~Feeding /\ repl_backlog = NoBuffer
    /\ master_repl_offset' = offset
    /\ EmptyBuffer(repl_backlog_size, offset)
    /\ stream' = <<>> /\ base' = offset
    /\ UNCHANGED <<repl_backlog_size, data, copied>>

----------------------------------------------------------------------------
(* feedReplicationBacklog(ptr, len)                                        *)

FeedBegin(ptr) ==
    /\ ~Feeding /\ repl_backlog # NoBuffer
    /\ master_repl_offset + Len(ptr) <= MaxOffset
    /\ master_repl_offset' = master_repl_offset + Len(ptr)
    /\ data' = ptr /\ copied' = 0
    /\ stream' = stream \o ptr
    /\ UNCHANGED <<repl_backlog, repl_backlog_size, repl_backlog_idx,
                   repl_backlog_histlen, repl_backlog_off, base>>

ThisLen ==
    LET room == repl_backlog_size - repl_backlog_idx
        len  == Len(data) - copied
    IN  IF room > len THEN len ELSE room

\* The index after an advance, rewound at the end of the buffer.
Rewind(idx) == IF idx = repl_backlog_size THEN 0 ELSE idx

\* One iteration of the while loop.
FeedChunk ==
    /\ copied < Len(data)
    /\ repl_backlog' =
         [i \in 0 .. repl_backlog_size - 1 |->
            IF i \in repl_backlog_idx .. repl_backlog_idx + ThisLen - 1
            THEN data[copied + (i - repl_backlog_idx) + 1]
            ELSE repl_backlog[i]]
    /\ repl_backlog_idx' = Rewind(repl_backlog_idx + ThisLen)
    /\ repl_backlog_histlen' = repl_backlog_histlen + ThisLen
    /\ copied' = copied + ThisLen
    /\ UNCHANGED <<repl_backlog_size, repl_backlog_off, master_repl_offset,
                   data, stream, base>>

Uncapped(histlen) == histlen      \* mutant

Capped(histlen) == IF histlen > repl_backlog_size THEN repl_backlog_size ELSE histlen

\* After the loop.
FeedEnd ==
    /\ Feeding /\ copied = Len(data)
    /\ repl_backlog_histlen' = Capped(repl_backlog_histlen)
    /\ repl_backlog_off' = master_repl_offset - repl_backlog_histlen' + 1
    /\ data' = <<>> /\ copied' = 0
    /\ UNCHANGED <<repl_backlog, repl_backlog_size, repl_backlog_idx,
                   master_repl_offset, stream, base>>

----------------------------------------------------------------------------
(* Serving a PSYNC.                                                        *)

\* masterTryPartialResynchronization: the offsets that are accepted.
InBacklog(psync_offset) ==
    /\ repl_backlog # NoBuffer
    /\ psync_offset >= repl_backlog_off
    /\ psync_offset <= repl_backlog_off + repl_backlog_histlen

\* n bytes of the buffer from index j on.
Bytes(j, n) == [k \in 1 .. n |-> repl_backlog[j + k - 1]]

\* The index of the oldest byte, that is of byte repl_backlog_off.
OldestByte ==
    (repl_backlog_idx + (repl_backlog_size - repl_backlog_histlen)) % repl_backlog_size

\* The reply; the code's loop runs at most twice since len <= size.
addReplyReplicationBacklog(offset) ==
    IF repl_backlog_histlen = 0 THEN <<>>
    ELSE LET skip  == offset - repl_backlog_off
             j     == (OldestByte + skip) % repl_backlog_size
             len   == repl_backlog_histlen - skip
             chunk == IF repl_backlog_size - j < len THEN repl_backlog_size - j ELSE len
         IN  Bytes(j, chunk) \o Bytes(0, len - chunk)

----------------------------------------------------------------------------
BacklogNext ==
    \/ createReplicationBacklog
    \/ \E requested \in 0 .. MaxSize : resizeReplicationBacklog(requested)
    \/ freeReplicationBacklog
    \/ \E offset \in 0 .. MaxOffset : FullResync(offset)
    \/ \E n \in 1 .. MaxFeed : \E ptr \in [1 .. n -> Byte] : FeedBegin(ptr)
    \/ FeedChunk
    \/ FeedEnd

BacklogSpec == BacklogInit /\ [][BacklogNext]_backlogVars

----------------------------------------------------------------------------
\* The position of the k-th last byte written.
Pos(k) == IF k <= repl_backlog_idx THEN repl_backlog_idx - k
          ELSE repl_backlog_idx - k + repl_backlog_size

\* Bytes of the stream that have been copied into the buffer.
Written == Len(stream) - (Len(data) - copied)

\* No index of the circular buffer ever leaves it, also in the middle of
\* the copy loop of feedReplicationBacklog.
BacklogTypeOK ==
    /\ repl_backlog_size \in Nat /\ repl_backlog_size >= MinSize
    /\ \/ repl_backlog = NoBuffer
       \/ repl_backlog \in [0 .. repl_backlog_size - 1 -> Byte \cup {Junk}]
    /\ repl_backlog_idx \in Nat
    /\ repl_backlog # NoBuffer => repl_backlog_idx < repl_backlog_size
    /\ repl_backlog_histlen \in Nat
    /\ repl_backlog_off \in Int /\ master_repl_offset \in Nat /\ base \in Nat
    /\ data \in Seq(Byte) /\ copied \in Nat /\ copied <= Len(data)
    /\ stream \in Seq(Byte)

\* The last bytes written, at most a bufferful of them, are the last bytes
\* of the stream, also between two memcpy of feedReplicationBacklog; and
\* repl_backlog_off is the offset of the oldest byte of the last call.
Contents ==
    /\ master_repl_offset = base + Len(stream)
    /\ Len(data) <= Len(stream)
    /\ \A j \in 1 .. Len(data) : data[j] = stream[Len(stream) - Len(data) + j]
    /\ Feeding => repl_backlog # NoBuffer
    /\ repl_backlog # NoBuffer =>
         /\ copied <= repl_backlog_histlen
         /\ repl_backlog_histlen <= Written
         /\ repl_backlog_histlen - copied <= repl_backlog_size
         /\ repl_backlog_off =
              master_repl_offset - Len(data) - (repl_backlog_histlen - copied) + 1
         /\ \A k \in 1 .. repl_backlog_histlen :
              k <= repl_backlog_size => repl_backlog[Pos(k)] = stream[Written - k + 1]

\* Whatever offset masterTryPartialResynchronization accepts, the bytes
\* addReplyReplicationBacklog then sends are exactly the bytes of the
\* replication stream from that offset to its end, never bytes of an older
\* lap of the buffer, of a previous history, or uninitialized memory.
PartialResyncExact ==
    ~Feeding =>
        \A o \in 0 .. master_repl_offset + 2 :
            InBacklog(o) =>
                /\ o > base /\ o <= master_repl_offset + 1
                /\ addReplyReplicationBacklog(o) = SubSeq(stream, o - base, Len(stream))

\* The circular buffer as a sliding window of the stream: the window moves
\* when a feedReplicationBacklog call ends.
Window == INSTANCE BacklogWindow WITH
    stream <- SubSeq(stream, 1, Len(stream) - Len(data)),
    base <- base, first <- repl_backlog_off,
    active <- repl_backlog # NoBuffer, capacity <- repl_backlog_size

\* Every operation on the buffer is an operation on the window, so the
\* window is contiguous, ends at the current offset, never grows backwards
\* and never holds more than repl-backlog-size bytes.
IsAWindow == Window!WSpec
=============================================================================
