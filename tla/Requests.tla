------------------------------- MODULE Requests -----------------------------
(***************************************************************************)
(* The input side of connections (src/src/networking.c): what arrives in   *)
(* pieces of any size is gathered in the query buffer and cut into commands*)
(* of the unified protocol or of the inline one, with the shortcuts for    *)
(* large arguments, for clients that are paused or blocked in between, and *)
(* for the link from the master, whose stream is forwarded as it was read. *)
(*                                                                         *)
(* Bytes are one-letter strings; a count has one digit.                    *)
(***************************************************************************)
EXTENDS Integers, FiniteSetsExt, SequencesExt

CONSTANT Scenarios    \* what the peer sends, and bounds: fields below

VARIABLES
    scenario,
    net,    \* bytes on their way
    cli,    \* the client
    log     \* the commands executed, errors, and what was forwarded

vars == <<scenario, net, cli, log>>

Sends == scenario.Sends            \* requests: the arguments with the protocol, or raw bytes
Master == scenario.Master
BigArg == scenario.BigArg          \* PROTO_MBULK_BIG_ARG
IoBuf == scenario.IoBuf            \* PROTO_IOBUF_LEN
InlineMax == scenario.InlineMax    \* PROTO_INLINE_MAX_SIZE
MaxBulk == scenario.MaxBulk        \* proto-max-bulk-len
MaxQuery == scenario.MaxQuery      \* client-query-buffer-limit

CR == "CR"
LF == "LF"
NonPrint == "^"                    \* stands for the byte 01
Digit == [d \in {"0", "1", "2", "3", "4", "5", "6", "7", "8", "9"} |->
            CHOOSE n \in 0..9 : ToString(n) = d]
Blanks == {" ", CR, LF}

----------------------------------------------------------------------------
(* The line of an inline request: sdssplitargs() of sds.c, which undoes    *)
(* what sdscatrepr() does to an argument.                                  *)

Escape(b) ==
    CASE b \in {"\\", "\""} -> <<"\\", b>>
      [] b = LF -> <<"\\", "n">>
      [] b = CR -> <<"\\", "r">>
      [] b = NonPrint -> <<"\\", "x", "0", "1">>
      [] OTHER -> <<b>>

sdscatrepr(arg) == <<"\"">> \o FlattenSeq([i \in 1..Len(arg) |-> Escape(arg[i])]) \o <<"\"">>

Get(line, p) == IF p <= Len(line) THEN line[p] ELSE "end"

Unescape(b) == CASE b = "n" -> LF [] b = "r" -> CR [] OTHER -> b

EndsWord(line, p) == Get(line, p + 1) \in Blanks \cup {"end"}

is_hex_digit(b) == b \in DOMAIN Digit
HexEscape(line, p) == Get(line, p + 1) = "x" /\ is_hex_digit(Get(line, p + 2)) /\ is_hex_digit(Get(line, p + 3))

(* The next character of a word, or its end: what it adds to the word.     *)
Reads(p, quote, word) == [p |-> p, quote |-> quote, word |-> word, end |-> FALSE, ok |-> TRUE]
Ends(p, word, ok) == [p |-> p, quote |-> "", word |-> word, end |-> TRUE, ok |-> ok]

WordStep(line, p, quote, word) ==
    LET b == Get(line, p)
        next == Get(line, p + 1)
    IN  CASE quote = "\"" /\ b = "\\" /\ HexEscape(line, p) -> Reads(p + 4, quote, Append(word, NonPrint))
          [] quote = "\"" /\ b = "\\" /\ next # "end" /\ ~HexEscape(line, p) ->
               Reads(p + 2, quote, Append(word, Unescape(next)))
          [] quote = "'" /\ b = "\\" /\ next = "'" -> Reads(p + 2, quote, Append(word, "'"))
          [] quote # "" /\ b = quote -> IF EndsWord(line, p) THEN Ends(p + 1, word, TRUE) ELSE Ends(p, word, FALSE)
          [] quote # "" /\ b = "end" -> Ends(p, word, FALSE)
          [] quote = "" /\ b \in Blanks \cup {"end"} -> Ends(p, word, TRUE)
          [] quote = "" /\ b \in {"\"", "'"} -> Reads(p + 1, b, word)
          [] OTHER -> Reads(p + 1, quote, Append(word, b))

RECURSIVE Word(_, _)
Word(line, w) == IF w.end THEN w ELSE Word(line, WordStep(line, w.p, w.quote, w.word))

(* A round of the outer loop: a blank, or a whole word.                    *)
SplitStep(line, s) ==
    LET took(w) == [p |-> w.p, ok |-> w.ok, args |-> IF w.ok THEN Append(s.args, w.word) ELSE <<>>]
    IN  IF Get(line, s.p) \in Blanks THEN [s EXCEPT !.p = @ + 1]
        ELSE took(Word(line, Reads(s.p, "", <<>>)))

RECURSIVE SplitFrom(_, _)
SplitFrom(line, s) ==
    IF ~s.ok \/ Get(line, s.p) = "end" THEN s ELSE SplitFrom(line, SplitStep(line, s))

sdssplitargs(line) == SplitFrom(line, [p |-> 1, ok |-> TRUE, args |-> <<>>])

----------------------------------------------------------------------------
(* The parsers. They return the client, changed, and whether a command is  *)
(* ready ("ok"), more is to be read ("more") or the protocol was violated. *)

Avail(c) == Len(c.querybuf) - c.qb_pos
Rest(c) == SubSeq(c.querybuf, c.qb_pos + 1, Len(c.querybuf))

(* The distance to the first b, or -1.                                     *)
Find(c, b) == LET is == {i \in 1..Avail(c) : Rest(c)[i] = b}
              IN  IF is = {} THEN -1 ELSE Min(is) - 1

Result(c, what) == [c |-> c, what |-> what]

setProtocolError(c) == Result([c EXCEPT !.closing = TRUE], "error")

processInlineBuffer(c) ==
    LET newline == Find(c, LF)
        cr == newline > 0 /\ Rest(c)[newline] = CR
        querylen == IF cr THEN newline - 1 ELSE newline
        taken(split) == IF ~split.ok THEN setProtocolError(c)
                        ELSE Result([c EXCEPT !.qb_pos = @ + newline + 1,
                                              !.argv = SelectSeq(split.args, LAMBDA a : a # <<>>)], "ok")
    IN  IF newline = -1 THEN IF Avail(c) > InlineMax THEN setProtocolError(c) ELSE Result(c, "more")
        ELSE taken(sdssplitargs(SubSeq(Rest(c), 1, querylen)))

(* The number after the sign at the start of a line, or Bad.               *)
Bad == -100
string2ll(text) ==
    IF Len(text) = 1 /\ text[1] \in DOMAIN Digit THEN Digit[text[1]]
    ELSE IF Len(text) = 2 /\ text[1] = "-" /\ text[2] \in DOMAIN Digit \ {"0"} THEN -Digit[text[2]]
    ELSE Bad

LineNumber(c) == string2ll(SubSeq(Rest(c), 2, Find(c, CR)))

(* MUTANT of TrimForBigArg: the buffer is trimmed, the position stays.     *)
TrimKeepsPos(c, ll) ==
    IF ll >= BigArg /\ Avail(c) <= ll + 2 THEN [c EXCEPT !.querybuf = Rest(c)] ELSE c

TrimForBigArg(c, ll) ==
    IF ll >= BigArg /\ Avail(c) <= ll + 2 THEN [c EXCEPT !.querybuf = Rest(c), !.qb_pos = 0] ELSE c

(* The length of the next argument, from the line before it.               *)
ReadBulkLen(c, newline, ll) ==
    IF newline = -1 /\ Avail(c) > InlineMax THEN setProtocolError(c)
    ELSE IF newline = -1 \/ newline > Avail(c) - 2 THEN Result(c, "more")
    ELSE IF Rest(c)[1] # "$" \/ ll < 0 \/ ll > MaxBulk THEN setProtocolError(c)
    ELSE Result([TrimForBigArg([c EXCEPT !.qb_pos = @ + newline + 2], ll) EXCEPT !.bulklen = ll], "go on")

(* The argument; the buffer becomes it when it holds nothing else.         *)
ReadBulk(c, n) ==
    LET whole == c.qb_pos = 0 /\ n >= BigArg /\ Len(c.querybuf) = n + 2
        d == [c EXCEPT !.argv = Append(@, SubSeq(Rest(c), 1, n)), !.bulklen = -1, !.multibulklen = @ - 1]
    IN  IF Avail(c) < n + 2 THEN Result(c, "more")
        ELSE Result(IF whole THEN [d EXCEPT !.querybuf = <<>>] ELSE [d EXCEPT !.qb_pos = @ + n + 2], "go on")

RECURSIVE ReadArgs(_)
ReadArgs(r) ==
    IF r.what # "go on" THEN r
    ELSE ReadArgs(IF r.c.multibulklen = 0 THEN Result(r.c, "ok")
                  ELSE IF r.c.bulklen = -1 THEN ReadBulkLen(r.c, Find(r.c, CR), LineNumber(r.c))
                  ELSE ReadBulk(r.c, r.c.bulklen))

(* The number of arguments, from the first line.                           *)
ReadMultibulkLen(c, newline, ll) ==
    LET d == [c EXCEPT !.qb_pos = @ + newline + 2]
    IN  IF newline = -1 /\ Avail(c) > InlineMax THEN setProtocolError(c)
        ELSE IF newline = -1 \/ newline > Avail(c) - 2 THEN Result(c, "more")
        ELSE IF ll = Bad THEN setProtocolError(c)
        ELSE IF ll <= 0 THEN Result(d, "ok")
        ELSE Result([d EXCEPT !.multibulklen = ll], "go on")

processMultibulkBuffer(c) ==
    ReadArgs(IF c.multibulklen # 0 THEN Result(c, "go on")
             ELSE ReadMultibulkLen(c, Find(c, CR), LineNumber(c)))

resetClient(c) == [c EXCEPT !.reqtype = "none", !.argv = <<>>, !.multibulklen = 0, !.bulklen = -1]

(* The command: some block the client, or open and close a transaction.    *)
processCommand(c) ==
    CASE c.argv[1] = <<"B">> -> [c EXCEPT !.blocked = ~Master]
      [] c.argv[1] = <<"M">> -> [c EXCEPT !.multi = TRUE]
      [] c.argv[1] = <<"E">> -> [c EXCEPT !.multi = FALSE]
      [] OTHER -> c

Applied(c) ==
    IF Master /\ ~c.multi THEN [c EXCEPT !.reploff = c.read_reploff - Len(c.querybuf) + c.qb_pos] ELSE c

(* The protocol of a request is that of its first byte.                    *)
Typed(c) ==
    IF c.reqtype # "none" THEN c
    ELSE [c EXCEPT !.reqtype = IF Rest(c)[1] = "*" THEN "multibulk" ELSE "inline"]

Parse(t) == IF t.reqtype = "inline" THEN processInlineBuffer(t) ELSE processMultibulkBuffer(t)

(* What the loop does with what was parsed.                                *)
Take(s, r) ==
    IF r.what # "ok" THEN [s EXCEPT !.c = r.c, !.errors = @ + IF r.what = "error" THEN 1 ELSE 0, !.end = TRUE]
    ELSE IF r.c.argv = <<>> THEN [s EXCEPT !.c = resetClient(r.c)]
    ELSE [s EXCEPT !.c = resetClient(Applied(processCommand(r.c))), !.cmds = Append(@, r.c.argv)]

(* The loop; cmds and errors are what the log gets.                        *)
RECURSIVE InputLoop(_)
InputLoop(s) ==
    IF s.end \/ s.c.qb_pos >= Len(s.c.querybuf) \/ s.c.paused \/ s.c.blocked \/ s.c.closing THEN s
    ELSE InputLoop(Take(s, Parse(Typed(s.c))))

processInputBuffer(c) ==
    LET trim(r) == [r EXCEPT !.c = [@ EXCEPT !.querybuf = Rest(r.c), !.qb_pos = 0]]
    IN  trim(InputLoop([c |-> c, cmds |-> <<>>, errors |-> 0, end |-> FALSE]))

processInputBufferAndReplicate(c) ==
    \E r \in {processInputBuffer(c)} :
      LET applied == r.c.reploff - c.reploff
      IN  /\ cli' = [r.c EXCEPT !.pending = SubSeq(@, applied + 1, Len(@))]
          /\ log' = [cmds |-> log.cmds \o r.cmds, errors |-> log.errors + r.errors,
                     forwarded |-> log.forwarded \o SubSeq(c.pending, 1, applied)]

----------------------------------------------------------------------------
(* Events.                                                                 *)

(* A large argument that is known to come is read on its own.              *)
ReadLen(c) ==
    LET remaining == c.bulklen + 2 - Len(c.querybuf)
    IN  IF /\ c.reqtype = "multibulk" /\ c.multibulklen # 0 /\ c.bulklen # -1 /\ c.bulklen >= BigArg
           /\ remaining > 0 /\ remaining < IoBuf
        THEN remaining ELSE IoBuf

readQueryFromClient ==
    /\ cli.open /\ net # <<>>
    /\ \E n \in 1..Min({ReadLen(cli), Len(net)}) :
         LET got == SubSeq(net, 1, n)
             c == [cli EXCEPT !.querybuf = @ \o got,
                              !.pending = IF Master THEN @ \o got ELSE @,
                              !.read_reploff = IF Master THEN @ + n ELSE @]
         IN  /\ net' = SubSeq(net, n + 1, Len(net))
             /\ IF Len(c.querybuf) > MaxQuery
                THEN cli' = [c EXCEPT !.open = FALSE] /\ UNCHANGED log
                ELSE processInputBufferAndReplicate(c)
    /\ UNCHANGED scenario

(* CLIENT PAUSE, or for the master a script that runs for long.            *)
Pause ==
    /\ scenario.Pauses /\ ~cli.paused /\ net # <<>>
    /\ cli' = [cli EXCEPT !.paused = TRUE]
    /\ UNCHANGED <<scenario, net, log>>

(* The client is queued for reprocessing when it ends, or is unblocked.    *)
Reprocess ==
    /\ cli.open /\ (cli.paused \/ cli.blocked)
    /\ \/ processInputBufferAndReplicate([cli EXCEPT !.paused = FALSE])
       \/ cli.blocked /\ processInputBufferAndReplicate([cli EXCEPT !.blocked = FALSE])
    /\ UNCHANGED <<scenario, net>>

----------------------------------------------------------------------------
ToStringDigit(n) == CHOOSE d \in DOMAIN Digit : Digit[d] = n

Bulk(arg) == <<"$", ToStringDigit(Len(arg)), CR, LF>> \o arg \o <<CR, LF>>

Wire(req) ==
    CASE req.as = "multibulk" ->
           <<"*", ToStringDigit(Len(req.args)), CR, LF>>
           \o FlattenSeq([i \in 1..Len(req.args) |-> Bulk(req.args[i])])
      [] req.as = "inline" ->
           FlattenSeq([i \in 1..Len(req.args) |-> sdscatrepr(req.args[i]) \o <<" ">>]) \o <<CR, LF>>
      [] OTHER -> req.bytes

Stream == FlattenSeq([i \in 1..Len(Sends) |-> Wire(Sends[i])])

Init ==
    /\ scenario \in Scenarios
    /\ net = Stream
    /\ cli = [open |-> TRUE, querybuf |-> <<>>, qb_pos |-> 0, reqtype |-> "none", argv |-> <<>>,
              multibulklen |-> 0, bulklen |-> -1, closing |-> FALSE, blocked |-> FALSE, paused |-> FALSE,
              multi |-> FALSE, reploff |-> 0, read_reploff |-> 0, pending |-> <<>>]
    /\ log = [cmds |-> <<>>, errors |-> 0, forwarded |-> <<>>]

Next == readQueryFromClient \/ Pause \/ Reprocess

Spec == Init /\ [][Next]_vars

----------------------------------------------------------------------------
(* The requests before the first that is not one, without the empty ones.  *)
Wellformed == LET bad == {i \in 1..Len(Sends) : Sends[i].as = "bad"}
              IN  IF bad = {} THEN Sends ELSE SubSeq(Sends, 1, Min(bad) - 1)

NonEmpty(args) == SelectSeq(args, LAMBDA a : a # <<>>)

Expected ==
    SelectSeq([i \in 1..Len(Wellformed) |->
                 CASE Wellformed[i].as = "multibulk" -> Wellformed[i].args
                   [] Wellformed[i].as = "inline" -> NonEmpty(Wellformed[i].args)
                   [] OTHER -> <<>>], LAMBDA a : a # <<>>)

Idle == net = <<>> /\ ~cli.paused /\ ~cli.blocked /\ cli.open

(* The commands executed are those that were sent, in order, whatever the  *)
(* pieces in which they arrived; all of them once everything was read,     *)
(* unless the protocol was violated, which is answered once. A replica     *)
(* forwards its master's stream byte by byte, up to the last command       *)
(* executed outside of a transaction, and keeps the rest.                  *)
RequestsExact ==
    /\ IsPrefix(log.cmds, Expected)
    /\ Idle => /\ log.cmds = Expected
               /\ log.errors = IF Wellformed = Sends THEN 0 ELSE 1
    /\ Master => /\ log.forwarded = SubSeq(Stream, 1, cli.reploff)
                 /\ log.forwarded \o cli.pending = SubSeq(Stream, 1, cli.read_reploff)
                 /\ Idle /\ ~cli.multi /\ Wellformed = Sends => cli.pending = <<>>
=============================================================================
