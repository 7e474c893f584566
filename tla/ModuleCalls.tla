---------------------------- MODULE ModuleCalls -----------------------------
(***************************************************************************)
(* What runs when a module runs (src/src/module.c, call() of               *)
(* src/src/server.c): the dispatcher of module commands, RM_Call() and     *)
(* RM_Replicate(), command filters, keyspace notifications and timer       *)
(* callbacks, which call each other to any depth, and what of it reaches   *)
(* the replicas.                                                           *)
(*                                                                         *)
(* The dataset is a counter.  A callback of a module is a program of       *)
(* steps: <<"call", name, replicate>> is RM_Call() of the command of that  *)
(* name ("incr" or a command of a module), <<"replicate">> a write with    *)
(* the key API followed by RM_Replicate() of the same, <<"verbatim">> one  *)
(* followed by RM_ReplicateVerbatim().                                     *)
(***************************************************************************)
EXTENDS Integers, FiniteSets, SequencesExt

CONSTANT Scenarios    \* configurations and bounds: records with the fields below

VARIABLES
    scenario,
    srv,      \* counter, nesting levels, active subscribers, and the stack of what runs
    slave     \* the counter of a replica, and its open transaction

vars == <<scenario, srv, slave>>

Modules == scenario.Modules
Commands == scenario.Commands        \* name -> [module, prog]
Subscribers == scenario.Subscribers  \* sequence of [module, prog], in order of subscription
Filters == scenario.Filters          \* sequence of [module, noself], in order of registration
Entries == scenario.Entries          \* what starts: <<"command", name, inMulti>> or
                                     \* <<"timer" or "thread", module, prog>>
MaxEntries == scenario.MaxEntries    \* bound on what starts

----------------------------------------------------------------------------
(* The replica.                                                            *)

Apply(n, op) ==
    CASE op[1] = "multi" -> [n EXCEPT !.open = TRUE, !.nested = @ \/ n.open]
      [] op[1] = "exec" -> [n EXCEPT !.open = FALSE, !.val = @ + n.queued, !.queued = 0]
      [] op[1] = "add" -> IF n.open THEN [n EXCEPT !.queued = @ + op[2]] ELSE [n EXCEPT !.val = @ + op[2]]

propagateAll(n, ops) == FoldLeft(Apply, n, ops)

----------------------------------------------------------------------------
(* The stack: the last frame runs.  A frame of a module has a context      *)
(* (whose MULTI it may have emitted) and the array of alsoPropagate() of   *)
(* the call() it is in; "core" is a command of the server, which notifies  *)
(* the subscribers one after the other.                                    *)

Top == Last(srv.stack)
Below == Front(srv.stack)

ModuleFrame(kind, module, prog, multi, bang) ==
    [kind |-> kind, module |-> module, prog |-> prog, pc |-> 1, multi |-> multi, emitted |-> FALSE,
     bang |-> bang, also |-> <<>>, sub |-> 0]

CoreFrame(bang, multi) == [ModuleFrame("core", "server", <<>>, multi, bang) EXCEPT !.pc = 0]

Active(s) == {i \in DOMAIN Subscribers : \E j \in DOMAIN s.stack : s.stack[j].sub = i}

(* moduleReplicateMultiIfNeeded(): MULTI before the first thing that is    *)
(* replicated, unless the client is in a transaction of its own or the     *)
(* context is that of a thread.                                            *)
NeedsMulti(f) == ~f.multi /\ ~f.emitted /\ f.kind # "thread"

----------------------------------------------------------------------------
(* moduleCallCommandFilters(): a filter with NOSELF does not see what its  *)
(* own module calls, however deep; saw collects the filters that did.      *)
Filtered(s) ==
    LET called == {i \in DOMAIN Filters : ~(Filters[i].noself /\ s.in_call[Filters[i].module] > 0)}
        own(i) == \E j \in DOMAIN s.stack : s.stack[j].kind = "calling" /\ s.stack[j].module = Filters[i].module
    IN  [s EXCEPT !.saw = @ \cup {i \in called : Filters[i].noself /\ own(i)}]

(* call() of a command: a module's through RedisModuleCommandDispatcher(). *)
Begin(s, name, multi, bang) ==
    LET frame == IF name = "incr" THEN CoreFrame(bang, multi)
                 ELSE ModuleFrame("command", Commands[name].module, Commands[name].prog, multi, bang)
    IN  [s EXCEPT !.stack = Append(@, frame)]

(* A client's command, in a transaction or not, a timer callback, or a     *)
(* thread that has the global lock.                                        *)
Enter(e) ==
    /\ srv.stack = <<>> /\ srv.entries < MaxEntries
    /\ LET s == [srv EXCEPT !.entries = @ + 1, !.base = slave.val]
       IN  IF e[1] = "command"
           THEN /\ srv' = Begin(Filtered(s), e[2], e[3], TRUE)
                /\ slave' = IF e[3] THEN Apply(slave, <<"multi">>) ELSE slave
           ELSE /\ srv' = [s EXCEPT !.stack = <<ModuleFrame(e[1], e[2], e[3], FALSE, TRUE)>>]
                /\ UNCHANGED slave
    /\ UNCHANGED scenario

Callbacks == {"command", "notify", "timer", "thread"}
Advance(f) == [f EXCEPT !.pc = @ + 1]

(* RM_Call(): the caller's frame waits, marked "calling", with its nesting *)
(* level raised, until the command has returned.                           *)
RM_Call ==
    /\ srv.stack # <<>> /\ Top.kind \in Callbacks /\ Top.pc <= Len(Top.prog)
    /\ LET step == Top.prog[Top.pc]
           bang == step[3]
           emit == bang /\ NeedsMulti(Top)
           frame == [Advance(Top) EXCEPT !.emitted = @ \/ emit]
           marker == [ModuleFrame("calling", Top.module, <<>>, FALSE, FALSE) EXCEPT !.pc = 0]
           s == [srv EXCEPT !.stack = Below \o <<frame, marker>>, !.in_call[Top.module] = @ + 1]
       IN  /\ step[1] = "call"
           /\ srv' = Begin(Filtered(s), step[2], FALSE, bang)
           /\ slave' = IF emit THEN Apply(slave, <<"multi">>) ELSE slave
    /\ UNCHANGED scenario

Replicated == srv.stack # <<>> /\ Top.kind = "command" /\ Top.pc <= Len(Top.prog)

RM_Replicate ==
    /\ Replicated /\ Top.prog[Top.pc][1] = "replicate"
    /\ LET emit == NeedsMulti(Top)
       IN  /\ srv' = [srv EXCEPT !.val = @ + 1,
                                 !.stack = Append(Below, [Advance(Top) EXCEPT !.emitted = @ \/ emit,
                                                                              !.also = Append(@, <<"add", 1>>)])]
           /\ slave' = IF emit THEN Apply(slave, <<"multi">>) ELSE slave
    /\ UNCHANGED scenario

RM_ReplicateVerbatim ==
    /\ Replicated /\ Top.prog[Top.pc][1] = "verbatim"
    /\ srv' = [srv EXCEPT !.val = @ + 1,
                          !.stack = Append(Below, [Advance(Top) EXCEPT !.also = Append(@, <<"add", 1>>)])]
    /\ UNCHANGED <<scenario, slave>>

(* A command of the server: it writes, then moduleNotifyKeyspaceEvent()    *)
(* calls the subscribers that are not active; then call() propagates it.   *)
incrCommand ==
    /\ srv.stack # <<>> /\ Top.kind = "core" /\ Top.pc = 0
    /\ srv' = [srv EXCEPT !.val = @ + 1, !.stack = Append(Below, Advance(Top)),
                          !.local = IF Top.bang THEN @ ELSE @ + 1]
    /\ UNCHANGED <<scenario, slave>>

moduleNotifyKeyspaceEvent ==
    /\ srv.stack # <<>> /\ Top.kind = "core" /\ Top.pc \in DOMAIN Subscribers
    /\ LET i == Top.pc
           frame == [ModuleFrame("notify", Subscribers[i].module, Subscribers[i].prog, FALSE, TRUE) EXCEPT !.sub = i]
       IN  srv' = [srv EXCEPT !.stack = Below \o <<Advance(Top)>> \o (IF i \in Active(srv) THEN <<>> ELSE <<frame>>)]
    /\ UNCHANGED <<scenario, slave>>

(* Back in RM_Call(): the nesting level drops.                             *)
Unwound(s) ==
    IF s.stack # <<>> /\ Last(s.stack).kind = "calling"
    THEN [s EXCEPT !.stack = Front(@), !.in_call[Last(s.stack).module] = @ - 1]
    ELSE s

(* A frame returns.  call() propagates the command (modules propagate      *)
(* theirs explicitly), then what was collected with alsoPropagate(), both  *)
(* if its flags say so; moduleHandlePropagationAfterCommandCallback() adds *)
(* EXEC to the latter.  The callers of a transaction end it.               *)
Return ==
    /\ srv.stack # <<>>
    /\ \/ Top.kind = "core" /\ Top.pc > Len(Subscribers)
       \/ Top.kind \in Callbacks /\ Top.pc > Len(Top.prog)
    /\ LET own == IF Top.kind = "core" THEN <<<<"add", 1>>>> ELSE <<>>
           exec == IF Top.kind = "command" /\ Top.emitted THEN <<<<"exec">>>> ELSE <<>>
           outer == IF Below = <<>> /\ Top.multi THEN <<<<"exec">>>> ELSE <<>>
       IN  slave' = propagateAll(slave, (IF Top.bang THEN own \o Top.also \o exec ELSE <<>>) \o outer)
    /\ srv' = Unwound([srv EXCEPT !.stack = Below])
    /\ UNCHANGED scenario

----------------------------------------------------------------------------
Init ==
    /\ scenario \in Scenarios
    /\ srv = [val |-> 0, base |-> 0, local |-> 0, in_call |-> [m \in Modules |-> 0], stack |-> <<>>,
              saw |-> {}, entries |-> 0]
    /\ slave = [val |-> 0, open |-> FALSE, queued |-> 0, nested |-> FALSE]

Next ==
    \/ \E e \in Entries : Enter(e)
    \/ RM_Call \/ RM_Replicate \/ RM_ReplicateVerbatim \/ incrCommand \/ moduleNotifyKeyspaceEvent \/ Return

Spec == Init /\ [][Next]_vars

----------------------------------------------------------------------------
(* ModuleReplicated: whatever called what, once the outermost command or   *)
(* callback is over the replica has no transaction open, never opened one  *)
(* inside another, and has executed every write a module asked to          *)
(* replicate exactly once; and until then a replica sees nothing of it,    *)
(* unless it comes from a thread.                                          *)
ModuleReplicated ==
    /\ ~slave.nested
    /\ srv.stack = <<>> => ~slave.open /\ slave.val = srv.val - srv.local
    /\ (srv.stack # <<>> /\ srv.stack[1].kind # "thread") => slave.val = srv.base

(* NestingSound: a subscriber is not called again by what it does itself,  *)
(* a NOSELF filter never sees a command that its own module called, not    *)
(* even through the callbacks of another module, and all nesting levels    *)
(* are back at zero in the end.                                            *)
NestingSound ==
    /\ \A i, j \in DOMAIN srv.stack : (i # j /\ srv.stack[i].sub # 0) => srv.stack[i].sub # srv.stack[j].sub
    /\ srv.saw = {}
    /\ srv.stack = <<>> => \A m \in Modules : srv.in_call[m] = 0
=============================================================================
