--------------------------- MODULE ModuleRegistry ---------------------------
(***************************************************************************)
(* Loading and unloading of modules (src/src/module.c): what a module      *)
(* registers while its RedisModule_OnLoad() runs (commands, data types,    *)
(* shared APIs, command filters, keyspace subscribers), what it takes from *)
(* other modules, and what MODULE UNLOAD, or an OnLoad() that fails, takes *)
(* back.                                                                   *)
(***************************************************************************)
EXTENDS Integers, FiniteSets, SequencesExt

CONSTANT Scenarios    \* configurations and bounds: records with the fields below

VARIABLES
    scenario,
    modules,  \* module -> its structure, or Absent
    tables    \* server.commands, server.sharedapi, moduleCommandFilters, moduleKeyspaceSubscribers

vars == <<scenario, modules, tables>>

Modules == scenario.Modules
Wishes == scenario.Wishes          \* module -> the things it may register: sets of <<kind, name>>
MaxSteps == scenario.MaxSteps      \* bound on loads and calls

Absent == [on |-> FALSE]

Loaded == {m \in Modules : modules[m].on}

(* usedby is a list whose nodes may be unlinked without its length knowing *)
(* of it (see moduleUnregisterUsedAPI): live nodes, and the length.        *)
RM_SetModuleAttribs ==
    [on |-> TRUE, types |-> {}, using |-> {}, usedby |-> {}, usedbyLen |-> 0, filters |-> {}]

----------------------------------------------------------------------------
(* Registration: each answers an error if the name is taken.               *)

Owner(t, kind, name) == {m \in Modules : <<kind, name, m>> \in t}

Busy(t, ms, wish, m) ==
    CASE wish[1] \in {"command", "api"} -> Owner(t.named, wish[1], wish[2]) # {}
      [] wish[1] = "type" -> \E o \in Modules \ {m} : ms[o].on /\ wish[2] \in ms[o].types
      [] OTHER -> FALSE

Registered(r, wish, m) ==
    CASE wish[1] \in {"command", "api"} -> [r EXCEPT !.t.named = @ \cup {<<wish[1], wish[2], m>>}]
      [] wish[1] = "type" -> [r EXCEPT !.ms[m].types = @ \cup {wish[2]}]
      [] wish[1] = "filter" -> [r EXCEPT !.t.moduleCommandFilters = Append(@, <<m, wish[2]>>),
                                         !.ms[m].filters = @ \cup {wish[2]}]
      [] wish[1] = "events" -> [r EXCEPT !.t.moduleKeyspaceSubscribers = Append(@, <<m, wish[2]>>)]

----------------------------------------------------------------------------
(* Unregistration.                                                         *)

moduleUnregisterCommands(r, m) == [r EXCEPT !.t.named = {e \in @ : ~(e[1] = "command" /\ e[3] = m)}]

moduleUnregisterSharedAPI(r, m) == [r EXCEPT !.t.named = {e \in @ : ~(e[1] = "api" /\ e[3] = m)}]

(* The node is looked up in usedby of the module used, and deleted from    *)
(* the using list of this one: usedby keeps its length.                    *)
moduleUnregisterUsedAPI(r, m) ==
    [r EXCEPT !.ms = [o \in Modules |-> IF o \in r.ms[m].using THEN [r.ms[o] EXCEPT !.usedby = @ \ {m}] ELSE r.ms[o]]]

UnregisterNoFilters(r, m) == r

moduleUnregisterFilters(r, m) ==
    [r EXCEPT !.t.moduleCommandFilters = SelectSeq(@, LAMBDA f : ~(f[1] = m /\ f[2] \in r.ms[m].filters))]

moduleUnsubscribeNotifications(r, m) ==
    [r EXCEPT !.t.moduleKeyspaceSubscribers = SelectSeq(@, LAMBDA e : e[1] # m)]

moduleFreeModuleStructure(r, m) == [r EXCEPT !.ms[m] = Absent]

----------------------------------------------------------------------------
(* moduleLoad(): OnLoad() registers what it wishes in some order and gives *)
(* up at the first error, or later for reasons of its own; filters and     *)
(* subscriptions come last and do not fail.                                *)
Try(r, wish, m) ==
    IF r.err THEN r
    ELSE IF Busy(r.t, r.ms, wish, m) THEN [r EXCEPT !.err = TRUE]
    ELSE Registered(r, wish, m)

Failed(r, m) ==
    moduleFreeModuleStructure(moduleUnregisterUsedAPI(moduleUnregisterSharedAPI(moduleUnregisterCommands(r, m), m), m), m)

moduleLoad(m, named, hooks, giveUp) ==
    /\ ~modules[m].on /\ tables.steps < MaxSteps
    /\ LET r == [ms |-> [modules EXCEPT ![m] = RM_SetModuleAttribs],
                 t |-> [tables EXCEPT !.steps = @ + 1], err |-> FALSE]
           a == FoldLeft(LAMBDA x, w : Try(x, w, m), r, SetToSeq(named))
           b == IF a.err \/ giveUp THEN Failed(a, m)
                ELSE FoldLeft(LAMBDA x, w : Registered(x, w, m), a, SetToSeq(hooks))
       IN  modules' = b.ms /\ tables' = b.t
    /\ UNCHANGED scenario

(* RM_GetSharedAPI(), from a command of the module.  A list with a freed   *)
(* node is not searched: modules whose users were unloaded are left out.   *)
RM_GetSharedAPI(m, api) ==
    /\ m \in Loaded /\ tables.steps < MaxSteps
    /\ \E o \in Owner(tables.named, "api", api) \ {m} :
         /\ modules[o].usedbyLen = Cardinality(modules[o].usedby)
         /\ m \notin modules[o].usedby
         /\ modules' = [modules EXCEPT ![o].usedby = @ \cup {m}, ![o].usedbyLen = @ + 1, ![m].using = @ \cup {o}]
    /\ tables' = [tables EXCEPT !.steps = @ + 1]
    /\ UNCHANGED scenario

(* moduleUnload(): refused with data types (EBUSY) or users (EPERM).       *)
moduleUnload(m) ==
    /\ m \in Loaded /\ modules[m].types = {} /\ modules[m].usedbyLen = 0
    /\ LET a == moduleUnregisterCommands([ms |-> modules, t |-> tables], m)
           b == moduleUnregisterUsedAPI(moduleUnregisterSharedAPI(a, m), m)
           c == moduleFreeModuleStructure(moduleUnsubscribeNotifications(moduleUnregisterFilters(b, m), m), m)
       IN  modules' = c.ms /\ tables' = c.t
    /\ UNCHANGED scenario

RM_UnregisterCommandFilter(m, f) ==
    /\ m \in Loaded /\ f \in modules[m].filters /\ tables.steps < MaxSteps
    /\ modules' = [modules EXCEPT ![m].filters = @ \ {f}]
    /\ tables' = [tables EXCEPT !.steps = @ + 1,
                                !.moduleCommandFilters = SelectSeq(@, LAMBDA e : e # <<m, f>>)]
    /\ UNCHANGED scenario

----------------------------------------------------------------------------
Hooks(m) == {w \in Wishes[m] : w[1] \in {"filter", "events"}}

Init ==
    /\ scenario \in Scenarios
    /\ modules = [m \in Modules |-> Absent]
    /\ tables = [named |-> {}, moduleCommandFilters |-> <<>>, moduleKeyspaceSubscribers |-> <<>>, steps |-> 0]

Next ==
    \E m \in Modules :
      \/ \E named \in SUBSET (Wishes[m] \ Hooks(m)), hooks \in SUBSET Hooks(m), giveUp \in BOOLEAN :
           moduleLoad(m, named, hooks, giveUp)
      \/ \E api \in {"a", "b"} : RM_GetSharedAPI(m, api)
      \/ moduleUnload(m)
      \/ \E f \in {"f", "g"} : RM_UnregisterCommandFilter(m, f)

Spec == Init /\ [][Next]_vars

----------------------------------------------------------------------------
(* CodeMapped: the server never calls into a library that was closed: each *)
(* command, shared API, filter and subscriber belongs to a loaded module,  *)
(* a name has one owner, the module whose API a loaded module has got is   *)
(* loaded, a data type is of one module, and the filters of the server and *)
(* those its modules believe to have are the same.                         *)
CodeMapped ==
    /\ \A e \in tables.named : e[3] \in Loaded /\ Owner(tables.named, e[1], e[2]) = {e[3]}
    /\ \A e \in ToSet(tables.moduleKeyspaceSubscribers) : e[1] \in Loaded
    /\ ToSet(tables.moduleCommandFilters) = UNION {{<<m, f>> : f \in modules[m].filters} : m \in Loaded}
    /\ \A m \in Loaded : /\ modules[m].using \subseteq Loaded
                         /\ modules[m].usedby = {o \in Loaded : m \in modules[o].using}
                         /\ modules[m].usedbyLen >= Cardinality(modules[m].usedby)
    /\ \A m, o \in Loaded : m # o => modules[m].types \cap modules[o].types = {}
=============================================================================
