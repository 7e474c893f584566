------------------------------ MODULE EventLoop -------------------------------
(***************************************************************************)
(* The event loop (ae.c, ae_epoll.c): descriptors with their handlers, the *)
(* kernel's set of them, timers in a list, and a clock that may be set.    *)
(* A step is a hook, a poll, one call of a handler or one timer.  What a   *)
(* handler may do to the loop is an input: register and delete handlers,   *)
(* close a descriptor and accept another under the same number, create and *)
(* delete timers, take time.                                               *)
(***************************************************************************)
EXTENDS Integers, Sequences, FiniteSets, FiniteSetsExt

CONSTANT Scenarios   \* bounds: records with the fields below

VARIABLES
    scenario,
    loop,      \* aeEventLoop: events, maxfd, timers, nextId, lastTime, and where it is
    env,       \* the kernel: interest and owner per descriptor; the time and the clock
    hist       \* what was called

vars == <<scenario, loop, env, hist>>

Fds == 1..scenario.Fds
MS == scenario.MS                  \* ticks per second: 1000 in the code
Jumps == scenario.Jumps            \* by how much the clock may be set
Ops == scenario.Ops                \* what handlers may do
MaxOps == scenario.MaxOps          \* bound on what handlers do
MaxTime == scenario.MaxTime        \* bound on the time
AE_DELETED_EVENT_ID == 0 - 1
AE_NONE == {}

Wall(e) == 2 * MS + e.mono + e.skew          \* aeGetTime()
Second(t) == t \div MS

NoEvent == [mask |-> AE_NONE, rfileProc |-> "none", wfileProc |-> "none", clientData |-> 0]

\* A timer, with the time at which it should fire were the clock never set.
Timer(id, e, delay) ==
    [id |-> id, when |-> Wall(e) + delay, due |-> e.mono + delay, slack |-> e.slack, period |-> delay]

Init ==
    /\ scenario \in Scenarios
    /\ env = [kernel |-> [f \in Fds |-> {}], owner |-> [f \in Fds |-> 0], owners |-> 0,
              mono |-> 0, skew |-> 0, slack |-> 0, polled |-> 0, turned |-> 0, ops |-> 0]
    /\ loop = [events |-> [f \in Fds |-> NoEvent], maxfd |-> 0, timers |-> <<>>, nextId |-> 0,
               lastTime |-> Second(2 * MS), fired |-> <<>>, stage |-> 1, invert |-> FALSE, called |-> "none",
               phase |-> "before", left |-> 0, maxId |-> AE_DELETED_EVENT_ID]
    /\ hist = [stale |-> FALSE, barrier |-> FALSE, twice |-> FALSE, early |-> FALSE, ran |-> {}]

-----------------------------------------------------------------------------
(* Registration.  A state w has the fields loop and env.                   *)

aeCreateFileEvent(w, fd, mask, proc, data) ==
    LET fe == w.loop.events[fd]
    IN  [w EXCEPT !.loop.events[fd] = [mask |-> fe.mask \cup mask,
                                       rfileProc |-> IF "r" \in mask THEN proc ELSE fe.rfileProc,
                                       wfileProc |-> IF "w" \in mask THEN proc ELSE fe.wfileProc,
                                       clientData |-> data],
                  !.loop.maxfd = Max({@, fd}),
                  !.env.kernel[fd] = (fe.mask \cup mask) \cap {"r", "w"}]

\* The barrier goes with the writable event.
aeDeleteFileEvent(w, fd, del) ==
    LET mask == w.loop.events[fd].mask
        left == mask \ (IF "w" \in del THEN del \cup {"b"} ELSE del)
        others == {f \in Fds : f # fd /\ w.loop.events[f].mask # AE_NONE}
    IN  IF mask = AE_NONE THEN w
        ELSE [w EXCEPT !.loop.events[fd].mask = left,
                       !.loop.maxfd = IF fd = @ /\ left = AE_NONE THEN Max(others \cup {0}) ELSE @,
                       !.env.kernel[fd] = left \cap {"r", "w"}]

aeCreateTimeEvent(w, delay) ==
    [w EXCEPT !.loop.timers = <<Timer(w.loop.nextId, w.env, delay)>> \o @, !.loop.nextId = @ + 1]

\* The event is only marked: the loop removes it when it gets there.
aeDeleteTimeEvent(w, id) ==
    [w EXCEPT !.loop.timers = [i \in DOMAIN @ |-> IF @[i].id = id THEN [@[i] EXCEPT !.id = AE_DELETED_EVENT_ID] ELSE @[i]]]

\* A descriptor that was closed is the next one to be given out.
Accept(w, fd, mask, proc) ==
    LET v == [w EXCEPT !.env.owners = @ + 1, !.env.owner[fd] = w.env.owners + 1]
    IN  aeCreateFileEvent(v, fd, mask, proc, v.env.owner[fd])

Close(w, fd) == [aeDeleteFileEvent(w, fd, {"r", "w"}) EXCEPT !.env.owner[fd] = 0]

\* What a handler, a timer or a hook may do, at most one thing each.
Effects(w) ==
    LET open == {f \in Fds : w.env.owner[f] # 0}
        free == Fds \ open
        ids == {w.loop.timers[i].id : i \in DOMAIN w.loop.timers} \ {AE_DELETED_EVENT_ID}
        does(op, set) == IF op \in Ops /\ w.env.ops < MaxOps THEN set ELSE {}
        done == does("accept", {Accept(w, Min(free), {"r"}, "read") : f \in IF free = {} THEN {} ELSE {1}})
             \cup does("connect", {Accept(w, Min(free), {"r", "w"}, "sync") : f \in IF free = {} THEN {} ELSE {1}})
             \cup does("write", {aeCreateFileEvent(w, f, {"w", "b"}, "write", w.env.owner[f]) : f \in open})
             \cup does("written", {aeDeleteFileEvent(w, f, {"w"}) : f \in open})
             \cup does("close", {Close(w, f) : f \in open})
             \cup does("timer", {aeCreateTimeEvent(w, d) : d \in 1..2})
             \cup does("cancel", {aeDeleteTimeEvent(w, id) : id \in ids})
             \cup does("slow", IF w.env.mono < MaxTime THEN {[w EXCEPT !.env.mono = @ + 1]} ELSE {})
    IN  {w} \cup {[v EXCEPT !.env.ops = @ + 1] : v \in done}

Here == [loop |-> loop, env |-> env]
Now(w) == loop' = w.loop /\ env' = w.env

-----------------------------------------------------------------------------
(* One turn of aeMain().                                                   *)

beforesleep ==
    /\ loop.phase = "before"
    /\ \E w \in Effects(Here) : Now([w EXCEPT !.loop.phase = "poll"])
    /\ hist' = [hist EXCEPT !.ran = {}]
    /\ UNCHANGED scenario

\* The first timer to fire, the deleted ones included: how long to sleep.
aeSearchNearestTimer == Min({loop.timers[i].when : i \in DOMAIN loop.timers})

\* What a descriptor may report: events that were asked for, and errors, which
\* count as writable.
Reports(fd) == {m \in SUBSET (env.kernel[fd] \cup {"w"}) : m # {} /\ env.kernel[fd] # {}}

Orders(set) == {s \in [1..Cardinality(set) -> set] : \A i, j \in DOMAIN s : s[i] = s[j] => i = j}

\* The poll ends when something is ready or when the time is up; the clock may
\* be set in the meantime.
aeApiPoll ==
    /\ loop.phase = "poll"
    /\ \E ready \in SUBSET {f \in Fds : env.kernel[f] # {}}, passed \in 0..2, jump \in Jumps \cup {0} :
         LET ms == aeSearchNearestTimer - Wall(env)
             timeout == IF ms > 0 THEN ms ELSE 0
         IN  /\ ready # {} \/ (loop.timers # <<>> /\ passed = timeout)
             /\ loop.timers # <<>> => passed <= timeout
             /\ env.mono + passed <= MaxTime
             /\ jump # 0 => env.ops < MaxOps
             /\ \E s \in Orders(ready) : \E m \in [ready -> SUBSET {"r", "w"}] :
                  /\ \A f \in ready : m[f] \in Reports(f)
                  /\ loop' = [loop EXCEPT !.fired = [i \in DOMAIN s |-> [fd |-> s[i], mask |-> m[s[i]],
                                                                         owner |-> env.owner[s[i]],
                                                                         asked |-> loop.events[s[i]].mask]],
                                          !.phase = "file"]
             /\ env' = [env EXCEPT !.mono = @ + passed, !.skew = @ + jump, !.polled = env.mono + passed,
                                   !.slack = IF jump # 0 THEN @ + (env.mono + passed - env.turned) + (MS - 1) ELSE @,
                                   !.ops = IF jump # 0 THEN @ + 1 ELSE @]
    /\ UNCHANGED <<scenario, hist>>

\* The next of the two handlers of the descriptor: readable first, or writable
\* first if there is a barrier.  What the loop found before is checked again
\* against the mask; a handler for both is called once.
Valid(kind, fe, e) == kind \in fe.mask \cap e.mask

processFileEvent ==
    /\ loop.phase = "file" /\ loop.fired # <<>>
    /\ LET e == Head(loop.fired)
           fe == loop.events[e.fd]
           invert == IF loop.stage = 1 THEN "b" \in fe.mask ELSE loop.invert
           kind == IF (loop.stage = 1) # invert THEN "r" ELSE "w"
           proc == IF kind = "r" THEN fe.rfileProc ELSE fe.wfileProc
           call == Valid(kind, fe, e) /\ (loop.called = "none" \/ fe.wfileProc # fe.rfileProc)
           after == [Here EXCEPT !.loop.stage = IF loop.stage = 1 THEN 2 ELSE 1,
                                 !.loop.invert = IF loop.stage = 1 THEN invert ELSE FALSE,
                                 !.loop.called = IF loop.stage = 2 THEN "none" ELSE IF call THEN kind ELSE "none",
                                 !.loop.fired = IF loop.stage = 2 THEN Tail(@) ELSE @]
       IN  IF call
           THEN /\ \E w \in Effects(after) : Now(w)
                /\ hist' = [hist EXCEPT !.stale = @ \/ env.owner[e.fd] = 0 \/ fe.clientData # env.owner[e.fd],
                                        !.barrier = @ \/ (kind = "w" /\ loop.called = "r" /\ "b" \in e.asked),
                                        !.twice = @ \/ (proc = "sync" /\ <<e.fd, fe.clientData, proc>> \in hist.ran),
                                        !.ran = @ \cup {<<e.fd, fe.clientData, proc>>}]
           ELSE Now(after) /\ UNCHANGED hist
    /\ UNCHANGED scenario

\* If the clock went back, all timers are to fire at once.
IgnoresSkew(now) == loop.timers

Rescheduled(now) ==
    IF now < loop.lastTime
    THEN [i \in DOMAIN loop.timers |-> [loop.timers[i] EXCEPT !.when = @ % MS]]
    ELSE loop.timers

processTimeEvents ==
    /\ loop.phase = "file" /\ loop.fired = <<>>
    /\ loop' = [loop EXCEPT !.timers = Rescheduled(Second(Wall(env))), !.lastTime = Second(Wall(env)),
                            !.phase = "time", !.left = Len(loop.timers), !.maxId = loop.nextId - 1]
    /\ env' = [env EXCEPT !.turned = env.mono]
    /\ UNCHANGED <<scenario, hist>>

\* The timer at hand: new ones go to the head of the list, so that what is left
\* is counted from its end.
timeProc ==
    /\ loop.phase = "time" /\ loop.left > 0
    /\ LET i == Len(loop.timers) - loop.left + 1
           te == loop.timers[i]
           next == [Here EXCEPT !.loop.left = @ - 1]
           place(w) == Len(w.loop.timers) - loop.left + 1
           again(w) == [w EXCEPT !.loop.timers[place(w)] = Timer(@.id, w.env, te.period)]
           nomore(w) == [w EXCEPT !.loop.timers[place(w)].id = AE_DELETED_EVENT_ID]
       IN  IF te.id = AE_DELETED_EVENT_ID
           THEN /\ Now([next EXCEPT !.loop.timers = SubSeq(@, 1, i - 1) \o SubSeq(@, i + 1, Len(@))])
                /\ UNCHANGED hist
           ELSE IF te.id > loop.maxId \/ Wall(env) < te.when
           THEN Now(next) /\ UNCHANGED hist
           ELSE /\ \E w \in Effects(next) : Now(again(w)) \/ Now(nomore(w))
                /\ hist' = [hist EXCEPT !.early = @ \/ (env.mono < te.due /\ te.slack = env.slack),
                                        !.twice = @ \/ <<"timer", te.id>> \in hist.ran,
                                        !.ran = @ \cup {<<"timer", te.id>>}]
    /\ UNCHANGED scenario

TurnEnds ==
    /\ loop.phase = "time" /\ loop.left = 0
    /\ loop' = [loop EXCEPT !.phase = "before"]
    /\ UNCHANGED <<scenario, env, hist>>

Next == beforesleep \/ aeApiPoll \/ processFileEvent \/ processTimeEvents \/ timeProc \/ TurnEnds

Spec == Init /\ [][Next]_vars

-----------------------------------------------------------------------------
\* A handler is called with what is registered for its descriptor now, never
\* for a descriptor that was closed by another handler of the same turn, and
\* the kernel is asked for exactly what is registered.
HandlersCurrent ==
    /\ ~hist.stale
    /\ \A f \in Fds : env.kernel[f] = loop.events[f].mask \cap {"r", "w"}
    /\ loop.maxfd = Max({f \in Fds : loop.events[f].mask # AE_NONE} \cup {0})

\* Behind a barrier the writable handler never runs after the readable one in
\* the same turn, one handler for both runs once, and so does a timer.  A
\* barrier is never left without a writable event.
TurnOrdered ==
    /\ ~hist.barrier /\ ~hist.twice
    /\ \A f \in Fds : "b" \in loop.events[f].mask => "w" \in loop.events[f].mask

\* No timer fires before its time unless the clock was set, and at the end of a
\* turn none is overdue since the poll, but for what setting the clock back can
\* hide: the time since the turn before, and less than a second.
TimersPunctual ==
    /\ ~hist.early
    /\ loop.phase = "before" =>
         \A i \in DOMAIN loop.timers :
            LET te == loop.timers[i]
            IN  te.id # AE_DELETED_EVENT_ID /\ te.id <= loop.maxId
                => te.due > env.polled - (env.slack - te.slack)
=============================================================================
