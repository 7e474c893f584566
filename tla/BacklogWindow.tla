---------------------------- MODULE BacklogWindow ----------------------------
(***************************************************************************)
(* What the replication backlog of src/src/replication.c promises: a       *)
(* suffix of the replication stream that is contiguous, ends at the        *)
(* current replication offset and is no longer than the configured size.   *)
(* Byte number o of the stream is stream[o - base].                        *)
(***************************************************************************)
EXTENDS Integers, Sequences

CONSTANT MinSize

VARIABLES
    stream,   \* the bytes of the current replication history
    base,     \* replication offset before the first byte of stream
    first,    \* offset of the oldest byte that is retained
    active,   \* is there a backlog
    capacity  \* repl_backlog_size

wvars == <<stream, base, first, active, capacity>>

End == base + Len(stream)

WInit ==
    /\ stream = <<>> /\ base = 0 /\ first = 1
    /\ active = FALSE
    /\ capacity \in Nat /\ capacity >= MinSize

WCreate ==
    /\ ~active
    /\ active' = TRUE /\ first' = End + 1
    /\ UNCHANGED <<stream, base, capacity>>

WFree ==
    /\ active /\ active' = FALSE
    /\ UNCHANGED <<stream, base, first, capacity>>

WFeed ==
    /\ active
    /\ Len(stream') >= Len(stream)
    /\ SubSeq(stream', 1, Len(stream)) = stream
    /\ first' \in first .. End' + 1
    /\ End' - first' + 1 <= capacity
    /\ UNCHANGED <<base, active, capacity>>

WResize ==
    /\ capacity' \in Nat /\ capacity' >= MinSize
    /\ first' = IF active THEN End + 1 ELSE first
    /\ UNCHANGED <<stream, base, active>>

WNewHistory ==
    /\ ~active
    /\ base' \in Nat /\ stream' = <<>>
    /\ active' = TRUE /\ first' = base' + 1
    /\ UNCHANGED capacity

WNext == WCreate \/ WFree \/ WFeed \/ WResize \/ WNewHistory

WSpec == WInit /\ [][WNext]_wvars
=============================================================================
