---------------------------- MODULE ApolloProofs ----------------------------
(***************************************************************************)
(* Leases, engine and configurations of the sumavlib module, for any set   *)
(* of hosts, any set of functions and any time to live.                    *)
(***************************************************************************)
EXTENDS Apollo, FiniteSetTheorems, TLAPS

DbFields == {"master", "alive", "locked", "vips", "clusters", "conf", "warned", "list", "code"}
HostFields == {"poll", "up", "sub", "pub_ex", "inbox", "conf", "since"}
Messages == {"kill_vip", "reset_vip", "ci_task", "diamond_config"}

\* The key of the leader d, and the leases x that were promised.
LeaseOK(d, x) ==
    /\ d = [val |-> d.val, ttl |-> d.ttl] /\ d.ttl \in Nat
    /\ x \in [Hosts -> Nat \cup {NoExpire}]
    /\ \A h \in Hosts : x[h] # NoExpire => d.val = h /\ d.ttl >= x[h]

\* Every name of the list has a value among the functions of F.
Has(F, list, code) ==
    code \in [F -> Nat] /\ list \in Seq(F) /\ \A i \in DOMAIN list : code[list[i]] # 0

\* The engine e over the functions F; what is in the list has code.
EngineOK(F, e, list, code) ==
    /\ DOMAIN e = {"lock", "timers", "funcs"}
    /\ e.lock \in BOOLEAN /\ e.timers = (IF e.lock THEN 1 ELSE 0)
    /\ e.funcs \in [F -> Nat] /\ Has(F, list, code)
    /\ e.lock => Has(F, list, e.funcs)

\* The hosts that were registered for the sub-task: none before it is locked.
VipsOK(vips, locked) ==
    /\ locked \in BOOLEAN /\ vips \subseteq Hosts \X BOOLEAN
    /\ \A v, w \in vips : v[2] /\ w[2] => v = w /\ locked

\* What client c knows of the configuration conf, or will be told.
ClientOK(c, conf) ==
    /\ DOMAIN c = HostFields
    /\ c.sub \in BOOLEAN /\ c.pub_ex \in BOOLEAN /\ c.inbox \in Seq(Messages)
    /\ c.sub /\ conf # c.since =>
        c.conf = conf \/ \E i \in DOMAIN c.inbox : c.inbox[i] = "diamond_config"

IInv ==
    /\ "none" \notin Hosts /\ TIME_OUT_NUM \in Nat
    /\ DOMAIN db = DbFields /\ DOMAIN past = {"lease", "ops"} /\ DOMAIN host = Hosts
    /\ LeaseOK(db.master, past.lease)
    /\ EngineOK(Functions, engine, db.list, db.code)
    /\ VipsOK(db.vips, db.locked)
    /\ \A h \in Hosts : ClientOK(host[h], db.conf)

----------------------------------------------------------------------------
(* Leases.                                                                 *)

\* AfterTime: the key and the leases lose the same time.
LEMMA TimePasses ==
  ASSUME "none" \notin Hosts, DOMAIN db = DbFields, LeaseOK(db.master, past.lease), NEW t \in Nat
  PROVE  LET d == AfterTime(db, t)
             x == [h \in Hosts |-> Passed(past.lease[h], t)]
         IN  /\ DOMAIN d = DbFields
             /\ LeaseOK(d.master, x)
             /\ d.master # None => d.master.val = db.master.val /\ db.master # None
             /\ d.list = db.list /\ d.code = db.code /\ d.conf = db.conf
             /\ d.vips = db.vips /\ d.locked = db.locked
  <1> DEFINE m == db.master
             n == IF m = None \/ m.ttl - t < 0 THEN None ELSE [val |-> m.val, ttl |-> m.ttl - t]
             d == AfterTime(db, t)
             x == [h \in Hosts |-> Passed(past.lease[h], t)]
  <1>1. d = [db EXCEPT !.master = n, !.alive = [h \in Hosts |-> Passed(db.alive[h], t)]]
    BY DEF AfterTime
  <1> HIDE DEF d
  <1>2. /\ DOMAIN d = DbFields /\ d.master = n
        /\ d.list = db.list /\ d.code = db.code /\ d.conf = db.conf
        /\ d.vips = db.vips /\ d.locked = db.locked
    <2> HIDE DEF n
    <2>1. QED
      BY <1>1 DEF DbFields
  <1>3. n = [val |-> n.val, ttl |-> n.ttl] /\ n.ttl \in Nat /\ (n # None => n.val = m.val /\ m # None)
    BY DEF LeaseOK, None
  <1>4. x \in [Hosts -> Nat \cup {NoExpire}]
    BY DEF LeaseOK, Passed, NoExpire
  <1>5. ASSUME NEW h \in Hosts, x[h] # NoExpire PROVE n.val = h /\ n.ttl >= x[h]
    <2> DEFINE l == past.lease[h]
    <2>1. l \in Nat \cup {NoExpire} /\ (l # NoExpire => m.val = h /\ m.ttl >= l) /\ m.ttl \in Nat
      BY DEF LeaseOK
    <2>2. x[h] = Passed(l, t)
      OBVIOUS
    <2> HIDE DEF l, x
    <2>3. l \in Nat /\ x[h] = l - t /\ l - t >= 0
      BY <1>5, <2>1, <2>2 DEF Passed, NoExpire
    <2>4. m.val = h /\ m.ttl - t >= 0 /\ l # NoExpire
      BY <2>1, <2>3 DEF NoExpire
    <2>5. m # None
      BY <2>4 DEF None
    <2>6. QED
      BY <2>1, <2>3, <2>4, <2>5
  <1> HIDE DEF n, x
  <1>6. LeaseOK(d.master, x)
    BY <1>2, <1>3, <1>4, <1>5 DEF LeaseOK
  <1>7. QED
    BY <1>2, <1>3, <1>6 DEF d, x

\* A new lease for h when nobody else has one.
LEMMA NewLease ==
  ASSUME NEW d, NEW x, LeaseOK(d, x), NEW h \in Hosts, NEW n \in Nat,
         \A i \in Hosts \ {h} : x[i] = NoExpire
  PROVE  LeaseOK([val |-> h, ttl |-> n], [x EXCEPT ![h] = n])
  BY DEF LeaseOK

----------------------------------------------------------------------------
(* The engine.                                                             *)

\* codes_install: all functions of the list are there afterwards.
LEMMA Installs ==
  ASSUME NEW e, NEW d, DOMAIN e = {"lock", "timers", "funcs"},
         e.funcs \in [Functions -> Nat], Has(Functions, d.list, d.code)
  PROVE  LET y == codes_install(e, d)
         IN  /\ DOMAIN y = {"lock", "timers", "funcs"} /\ y.lock = e.lock /\ y.timers = e.timers
             /\ y.funcs \in [Functions -> Nat] /\ Has(Functions, d.list, y.funcs)
  <1> DEFINE new == [f \in Functions |-> IF \E i \in DOMAIN d.list : d.list[i] = f
                                         THEN register_c(e, d, f) ELSE e.funcs[f]]
             y == codes_install(e, d)
  <1>1. y = [e EXCEPT !.funcs = new]
    BY DEF codes_install
  <1>2. new \in [Functions -> Nat]
    BY DEF register_c, Has
  <1>3. ASSUME NEW i \in DOMAIN d.list PROVE new[d.list[i]] # 0
    <2>1. d.list[i] \in Functions
      BY DEF Has
    <2>2. QED
      BY <2>1 DEF register_c, Has
  <1> HIDE DEF new, y
  <1>4. /\ DOMAIN y = {"lock", "timers", "funcs"} /\ y.lock = e.lock /\ y.timers = e.timers
        /\ y.funcs = new
    BY <1>1
  <1>5. QED
    BY <1>2, <1>3, <1>4 DEF y, Has

\* sumavlib.epoll leaves one timer and all functions installed.
LEMMA EpollOK ==
  ASSUME NEW d, EngineOK(Functions, engine, d.list, d.code)
  PROVE  EngineOK(Functions, TimerCommand_RedisCommand(engine, d), d.list, d.code)
  <1>1. CASE engine.lock
    BY <1>1 DEF TimerCommand_RedisCommand
  <1>2. CASE ~engine.lock
    <2> DEFINE e == [engine EXCEPT !.timers = @ + 1, !.lock = TRUE]
               y == codes_install(e, d)
    <2>1. /\ DOMAIN e = {"lock", "timers", "funcs"} /\ e.lock = TRUE /\ e.timers = 1
          /\ e.funcs \in [Functions -> Nat] /\ Has(Functions, d.list, d.code)
      BY <1>2 DEF EngineOK
    <2>2. TimerCommand_RedisCommand(engine, d) = y
      BY <1>2 DEF TimerCommand_RedisCommand
    <2> HIDE DEF e
    <2>3. /\ DOMAIN y = {"lock", "timers", "funcs"} /\ y.lock = TRUE /\ y.timers = 1
          /\ y.funcs \in [Functions -> Nat] /\ Has(Functions, d.list, y.funcs)
      BY Zenon, <2>1, Installs
    <2> HIDE DEF y
    <2>4. QED
      BY <2>1, <2>2, <2>3 DEF EngineOK
  <1>3. QED
    BY <1>1, <1>2

\* A function that is registered is stored in front, and installed at once.
LEMMA RegisterOK ==
  ASSUME DOMAIN db = DbFields, EngineOK(Functions, engine, db.list, db.code),
         NEW f \in Functions, NEW compiles \in BOOLEAN
  PROVE  LET d == biz_compile(db, f, 1 + (db.code[f] % 2), compiles)
         IN  /\ DOMAIN d = DbFields
             /\ EngineOK(Functions, codes_install(engine, d), d.list, d.code)
             /\ d.master = db.master /\ d.conf = db.conf
             /\ d.vips = db.vips /\ d.locked = db.locked
  <1> DEFINE v == 1 + (db.code[f] % 2)
             d == biz_compile(db, f, v, compiles)
             y == codes_install(engine, d)
  <1>1. v \in Nat /\ v # 0
    BY DEF EngineOK, Has
  <1> HIDE DEF v
  <1>2. /\ DOMAIN d = DbFields /\ d.master = db.master /\ d.conf = db.conf
        /\ d.vips = db.vips /\ d.locked = db.locked /\ Has(Functions, d.list, d.code)
    <2>1. CASE ~compiles
      BY <2>1 DEF biz_compile, EngineOK
    <2>2. CASE compiles
      <3>1. d = [db EXCEPT !.code[f] = v, !.list = <<f>> \o @]
        BY <2>2 DEF biz_compile
      <3> HIDE DEF d
      <3>2. /\ DOMAIN d = DbFields /\ d.master = db.master /\ d.conf = db.conf
            /\ d.vips = db.vips /\ d.locked = db.locked
            /\ d.code = [db.code EXCEPT ![f] = v] /\ d.list = <<f>> \o db.list
        BY <3>1 DEF DbFields
      <3>3. /\ db.code \in [Functions -> Nat] /\ db.list \in Seq(Functions)
            /\ \A i \in DOMAIN db.list : db.code[db.list[i]] # 0
        BY DEF EngineOK, Has
      <3>4. d.code \in [Functions -> Nat] /\ d.list \in Seq(Functions)
        BY <1>1, <3>2, <3>3
      <3>5. ASSUME NEW i \in DOMAIN d.list PROVE d.code[d.list[i]] # 0
        <4>1. Len(d.list) = Len(db.list) + 1 /\ i \in 1..(Len(db.list) + 1)
          BY <3>2, <3>3
        <4>2. CASE i = 1
          BY <1>1, <3>2, <3>3, <4>2
        <4>3. CASE i # 1
          <5>1. i - 1 \in DOMAIN db.list /\ d.list[i] = db.list[i - 1]
            BY <3>2, <3>3, <4>1, <4>3
          <5>2. db.list[i - 1] \in Functions /\ db.code[db.list[i - 1]] # 0
            BY <3>3, <5>1
          <5>3. QED
            BY <1>1, <3>2, <3>3, <5>1, <5>2
        <4>4. QED
          BY <4>2, <4>3
      <3>6. QED
        BY <3>2, <3>4, <3>5 DEF Has
    <2>3. QED
      BY <2>1, <2>2
  <1> HIDE DEF d
  <1>3. /\ DOMAIN y = {"lock", "timers", "funcs"} /\ y.lock = engine.lock
        /\ y.timers = engine.timers /\ y.funcs \in [Functions -> Nat]
        /\ Has(Functions, d.list, y.funcs)
    BY <1>2, Installs DEF EngineOK
  <1> HIDE DEF y
  <1>4. EngineOK(Functions, y, d.list, d.code)
    BY <1>2, <1>3 DEF EngineOK
  <1>5. QED
    BY <1>2, <1>4 DEF d, y, v

----------------------------------------------------------------------------
(* Hosts and configurations.                                               *)

\* Poll: a client that subscribes has nothing to be told yet.
LEMMA HeardOK ==
  ASSUME NEW c, ClientOK(c, db.conf), NEW what, NEW answer, NEW lost
  PROVE  ClientOK(Heard(c, what, answer, lost), db.conf)
  <1> DEFINE y == Heard(c, what, answer, lost)
  <1>1. /\ DOMAIN y = HostFields /\ y.sub = (c.sub \/ ~c.pub_ex) /\ y.pub_ex = TRUE
        /\ y.inbox = c.inbox /\ y.conf = c.conf
        /\ y.since = (IF c.pub_ex THEN c.since ELSE db.conf)
    BY DEF Heard, ClientOK, HostFields
  <1> HIDE DEF y
  <1>2. ClientOK(y, db.conf)
    BY <1>1 DEF ClientOK
  <1>3. QED
    BY <1>2 DEF y

\* What a subscriber is sent is at the end of its inbox.
LEMMA SentOK ==
  ASSUME NEW c, NEW conf, ClientOK(c, conf), NEW message \in Messages, NEW new,
         new = conf \/ message = "diamond_config"
  PROVE  LET y == [c EXCEPT !.inbox = Append(@, message)]
         IN  ClientOK(y, new)
  <1> DEFINE y == [c EXCEPT !.inbox = Append(@, message)]
  <1>1. /\ DOMAIN y = HostFields /\ y.sub = c.sub /\ y.pub_ex = c.pub_ex
        /\ y.inbox = Append(c.inbox, message) /\ y.conf = c.conf /\ y.since = c.since
    BY DEF ClientOK, HostFields
  <1> HIDE DEF y
  <1>2. c.inbox \in Seq(Messages)
    BY DEF ClientOK
  <1>3. /\ y.inbox \in Seq(Messages)
        /\ \A i \in DOMAIN c.inbox : i \in DOMAIN y.inbox /\ y.inbox[i] = c.inbox[i]
        /\ Len(c.inbox) + 1 \in DOMAIN y.inbox /\ y.inbox[Len(c.inbox) + 1] = message
    BY <1>1, <1>2
  <1>4. CASE message = "diamond_config"
    BY <1>1, <1>3, <1>4 DEF ClientOK
  <1>5. CASE new = conf
    BY <1>1, <1>3, <1>5 DEF ClientOK
  <1>6. QED
    BY <1>4, <1>5 DEF y

\* localCmds: the message handled is the first, the others move up.
LEMMA ObeyedOK ==
  ASSUME NEW c, ClientOK(c, db.conf), c.inbox # <<>>
  PROVE  ClientOK(Obeyed(c, Head(c.inbox)), db.conf)
  <1> DEFINE m == Head(c.inbox)
             y == Obeyed(c, m)
  <1>1. c.inbox \in Seq(Messages)
    BY DEF ClientOK
  <1>2. m = c.inbox[1]
    BY <1>1
  <1> HIDE DEF m
  <1>3. /\ DOMAIN y = HostFields /\ y.sub = c.sub /\ y.pub_ex = c.pub_ex
        /\ y.inbox = Tail(c.inbox) /\ y.since = c.since
        /\ y.conf = (IF m = "diamond_config" THEN db.conf ELSE c.conf)
    BY DEF Obeyed, ClientOK, HostFields
  <1> HIDE DEF y
  <1>4. y.inbox \in Seq(Messages)
    BY <1>1, <1>3
  <1>5. ASSUME c.sub, db.conf # c.since, m # "diamond_config"
        PROVE  c.conf = db.conf \/ \E i \in DOMAIN y.inbox : y.inbox[i] = "diamond_config"
    <2>1. CASE c.conf = db.conf
      BY <2>1
    <2>2. CASE \E i \in DOMAIN c.inbox : c.inbox[i] = "diamond_config"
      <3>1. PICK i \in DOMAIN c.inbox : c.inbox[i] = "diamond_config"
        BY <2>2
      <3>2. i - 1 \in DOMAIN y.inbox /\ y.inbox[i - 1] = c.inbox[i]
        <4>1. i \in 1..Len(c.inbox) /\ i # 1
          BY <1>1, <1>2, <1>5, <3>1
        <4>2. i - 1 \in 1..(Len(c.inbox) - 1) /\ (i - 1) + 1 = i
          BY <1>1, <4>1
        <4>3. /\ DOMAIN Tail(c.inbox) = 1..(Len(c.inbox) - 1)
              /\ \A j \in 1..(Len(c.inbox) - 1) : Tail(c.inbox)[j] = c.inbox[j + 1]
          BY <1>1
        <4>4. QED
          BY <1>3, <4>2, <4>3
      <3>3. QED
        BY <3>1, <3>2
    <2>3. QED
      BY <1>5, <2>1, <2>2 DEF ClientOK
  <1>6. ClientOK(y, db.conf)
    BY <1>3, <1>4, <1>5 DEF ClientOK
  <1>7. QED
    BY <1>6 DEF y, m

\* A client that is not subscribed is told nothing.
LEMMA UnsubscribedOK ==
  ASSUME NEW c, NEW y, NEW conf, NEW new, ClientOK(c, conf),
         DOMAIN y = HostFields, y.sub = FALSE, y.pub_ex \in BOOLEAN, y.inbox \in Seq(Messages)
  PROVE  ClientOK(y, new)
  BY DEF ClientOK

----------------------------------------------------------------------------
(* The steps.                                                              *)

\* What a step must show: the rest of the invariant stays.
LEMMA Keeps ==
  ASSUME IInv, UNCHANGED scenario,
         DOMAIN db' = DbFields, DOMAIN past' = {"lease", "ops"}, DOMAIN host' = Hosts,
         \/ LeaseOK(db'.master, past'.lease)
         \/ db'.master = db.master /\ past'.lease = past.lease,
         \/ EngineOK(Functions, engine', db'.list, db'.code)
         \/ engine' = engine /\ db'.list = db.list /\ db'.code = db.code,
         VipsOK(db'.vips, db'.locked) \/ (db'.vips = db.vips /\ db'.locked = db.locked),
         \/ \A h \in Hosts : ClientOK(host'[h], db'.conf)
         \/ host' = host /\ db'.conf = db.conf
  PROVE  IInv'
  <1>1. Functions' = Functions /\ TIME_OUT_NUM' = TIME_OUT_NUM
    BY DEF Functions, TIME_OUT_NUM
  <1>2. LeaseOK(db'.master, past'.lease) /\ VipsOK(db'.vips, db'.locked)
    BY DEF IInv
  <1>3. EngineOK(Functions, engine', db'.list, db'.code)
    BY DEF IInv
  <1>4. \A h \in Hosts : ClientOK(host'[h], db'.conf)
    BY DEF IInv
  <1>5. QED
    BY <1>1, <1>2, <1>3, <1>4 DEF IInv

\* The bounded steps keep the leases.
LEMMA UsedKeeps ==
  ASSUME IInv, Used PROVE DOMAIN past' = {"lease", "ops"} /\ past'.lease = past.lease
  BY DEF IInv, Used

\* The clock moves between two commands.
LEMMA TickStep ==
  ASSUME IInv, Tick PROVE IInv'
  <1>1. /\ db' = AfterTime(db, 1) /\ UNCHANGED <<scenario, engine, host>>
        /\ past' = [past EXCEPT !.lease = [h \in Hosts |-> Passed(past.lease[h], 1)]]
    BY DEF Tick, LeasesAfter
  <1>2. DOMAIN past' = {"lease", "ops"} /\ past'.lease = [h \in Hosts |-> Passed(past.lease[h], 1)]
    BY <1>1 DEF IInv
  <1>3. /\ DOMAIN db' = DbFields /\ LeaseOK(db'.master, past'.lease)
        /\ db'.list = db.list /\ db'.code = db.code /\ db'.conf = db.conf
        /\ db'.vips = db.vips /\ db'.locked = db.locked
    BY <1>1, <1>2, TimePasses DEF IInv
  <1>4. QED
    BY <1>1, <1>2, <1>3, Keeps DEF IInv

\* The engine, and the configurations.
LEMMA EngineSteps ==
  ASSUME IInv, \/ Epoll \/ timerDataProcessorHandler \/ Restart
               \/ \E f \in Functions, compiles \in BOOLEAN : suma_biz_script_register(f, compiles)
  PROVE  IInv'
  <1>0. /\ DOMAIN db = DbFields /\ DOMAIN past = {"lease", "ops"} /\ DOMAIN host = Hosts
        /\ EngineOK(Functions, engine, db.list, db.code)
        /\ \A h \in Hosts : ClientOK(host[h], db.conf)
    BY DEF IInv
  <1>1. CASE Epoll
    <2>1. EngineOK(Functions, engine', db.list, db.code)
      BY <1>0, <1>1, EpollOK DEF Epoll
    <2>2. QED
      BY <1>0, <1>1, <2>1, Keeps DEF Epoll
  <1>2. CASE timerDataProcessorHandler
    <2>1. /\ DOMAIN engine' = {"lock", "timers", "funcs"} /\ engine'.lock = engine.lock
          /\ engine'.timers = engine.timers /\ engine'.funcs = engine.funcs
      BY <1>0, <1>2 DEF timerDataProcessorHandler, EngineOK
    <2>2. EngineOK(Functions, engine', db.list, db.code)
      BY <1>0, <2>1 DEF EngineOK
    <2>3. QED
      BY <1>0, <1>2, <2>2, Keeps DEF timerDataProcessorHandler
  <1>3. CASE Restart
    <2>1. EngineOK(Functions, engine', db.list, db.code)
      BY <1>0, <1>3 DEF Restart, EngineOK
    <2>2. ASSUME NEW h \in Hosts PROVE ClientOK(host'[h], db.conf)
      <3> DEFINE c == host[h]
                 y == [c EXCEPT !.sub = FALSE]
      <3>1. ClientOK(c, db.conf) /\ host'[h] = y
        BY <1>0, <1>3 DEF Restart
      <3> HIDE DEF c
      <3>2. DOMAIN y = HostFields /\ y.sub = FALSE /\ y.pub_ex \in BOOLEAN /\ y.inbox \in Seq(Messages)
        BY <3>1 DEF ClientOK, HostFields
      <3> HIDE DEF y
      <3>3. QED
        BY <3>1, <3>2, UnsubscribedOK
    <2>3. DOMAIN host' = Hosts /\ UNCHANGED <<scenario, db>> /\ Used
      BY <1>3 DEF Restart
    <2>4. QED
      BY <1>0, <2>1, <2>2, <2>3, UsedKeeps, Keeps
  <1>4. CASE \E f \in Functions, compiles \in BOOLEAN : suma_biz_script_register(f, compiles)
    <2>1. PICK f \in Functions, compiles \in BOOLEAN : suma_biz_script_register(f, compiles)
      BY <1>4
    <2> DEFINE d == biz_compile(db, f, 1 + (db.code[f] % 2), compiles)
    <2>2. Used /\ db' = d /\ engine' = codes_install(engine, d) /\ UNCHANGED <<scenario, host>>
      BY <2>1 DEF suma_biz_script_register
    <2>3. /\ DOMAIN d = DbFields
          /\ EngineOK(Functions, codes_install(engine, d), d.list, d.code)
          /\ d.master = db.master /\ d.conf = db.conf
          /\ d.vips = db.vips /\ d.locked = db.locked
      BY <1>0, RegisterOK
    <2> HIDE DEF d
    <2>4. QED
      BY <1>0, <2>2, <2>3, UsedKeeps, Keeps
  <1>5. QED
    BY <1>1, <1>2, <1>3, <1>4

\* Messages for the hosts: a new configuration is sent to all subscribers.
LEMMA PublishSteps ==
  ASSUME IInv, \/ suma_ci_task \/ suma_diamond_publish
               \/ \E h \in Hosts : suma_vip_kill(h) \/ suma_vip_reset(h)
  PROVE  IInv'
  <1>0. /\ DOMAIN db = DbFields /\ DOMAIN host = Hosts
        /\ \A h \in Hosts : ClientOK(host[h], db.conf)
    BY DEF IInv
  <1>1. ASSUME NEW targets, NEW message \in Messages, Publish(targets, message) PROVE IInv'
    <2>1. ASSUME NEW h \in Hosts PROVE ClientOK(host'[h], db.conf)
      <3>1. host'[h] = IF h \in targets /\ host[h].sub
                       THEN [host[h] EXCEPT !.inbox = Append(@, message)] ELSE host[h]
        BY <1>1 DEF Publish, Sent
      <3>2. ClientOK([host[h] EXCEPT !.inbox = Append(@, message)], db.conf)
        BY <1>0, SentOK
      <3>3. QED
        BY <1>0, <3>1, <3>2
    <2>2. Used /\ DOMAIN host' = Hosts /\ UNCHANGED <<scenario, db, engine>>
      BY <1>1 DEF Publish, Sent
    <2>3. QED
      BY <1>0, <2>1, <2>2, UsedKeeps, Keeps
  <1>2. CASE suma_diamond_publish
    <2>1. /\ DOMAIN db' = DbFields /\ db'.conf = db.conf + 1 /\ db'.master = db.master
          /\ db'.list = db.list /\ db'.code = db.code
          /\ db'.vips = db.vips /\ db'.locked = db.locked
      BY <1>0, <1>2 DEF suma_diamond_publish, DbFields
    <2>2. ASSUME NEW h \in Hosts PROVE ClientOK(host'[h], db'.conf)
      <3>1. host'[h] = IF host[h].sub
                       THEN [host[h] EXCEPT !.inbox = Append(@, "diamond_config")] ELSE host[h]
        BY <1>2 DEF suma_diamond_publish, Sent
      <3>2. ClientOK([host[h] EXCEPT !.inbox = Append(@, "diamond_config")], db'.conf)
        <4>1. "diamond_config" \in Messages
          BY DEF Messages
        <4>2. QED
          BY <1>0, <4>1, SentOK
      <3>3. CASE ~host[h].sub
        BY <1>0, <3>1, <3>3 DEF ClientOK
      <3>4. QED
        BY <3>1, <3>2, <3>3
    <2>3. Used /\ DOMAIN host' = Hosts /\ UNCHANGED <<scenario, engine>>
      BY <1>2 DEF suma_diamond_publish, Sent
    <2>4. QED
      BY <2>1, <2>2, <2>3, UsedKeeps, Keeps
  <1>3. QED
    BY <1>1, <1>2 DEF suma_ci_task, suma_vip_kill, suma_vip_reset, Messages

\* Polls, and what clients do by themselves.
LEMMA ClientSteps ==
  ASSUME IInv, NEW h \in Hosts, Crash(h) \/ Return(h) \/ localCmds(h)
  PROVE  IInv'
  <1> DEFINE c == host[h]
  <1>0. /\ DOMAIN db = DbFields /\ DOMAIN past = {"lease", "ops"} /\ DOMAIN host = Hosts
        /\ \A i \in Hosts : ClientOK(host[i], db.conf)
    BY DEF IInv
  <1>1. ASSUME NEW y, host' = [host EXCEPT ![h] = y], ClientOK(y, db.conf)
        PROVE  DOMAIN host' = Hosts /\ \A i \in Hosts : ClientOK(host'[i], db.conf)
    BY <1>0, <1>1
  <1>2. CASE Crash(h)
    <2> DEFINE y == [c EXCEPT !.up = FALSE, !.sub = FALSE, !.inbox = <<>>]
    <2>1. host' = [host EXCEPT ![h] = y]
      BY <1>2 DEF Crash
    <2>2. DOMAIN y = HostFields /\ y.sub = FALSE /\ y.pub_ex \in BOOLEAN /\ y.inbox \in Seq(Messages)
      BY <1>0 DEF ClientOK, HostFields
    <2> HIDE DEF y
    <2>3. ClientOK(y, db.conf)
      BY <1>0, <2>2, UnsubscribedOK
    <2>4. Used /\ UNCHANGED <<scenario, db, engine>>
      BY <1>2 DEF Crash
    <2>5. QED
      BY <1>0, <1>1, <2>1, <2>3, <2>4, UsedKeeps, Keeps
  <1>3. CASE Return(h)
    <2>1. ClientOK(Started, db.conf)
      BY DEF Started, ClientOK, HostFields
    <2>2. QED
      BY <1>0, <1>1, <1>3, <2>1, Keeps DEF Return
  <1>4. CASE localCmds(h)
    <2>1. ClientOK(Obeyed(c, Head(c.inbox)), db.conf)
      BY <1>0, <1>4, ObeyedOK DEF localCmds
    <2>2. QED
      BY <1>0, <1>1, <1>4, <2>1, Keeps DEF localCmds
  <1>5. QED
    BY <1>2, <1>3, <1>4

\* A poll, in which the clock may move between the lookups: who is told to
\* lead gets the key for the time promised, and nobody else had a lease.
LEMMA PollStep ==
  ASSUME IInv, NEW h \in Hosts, NEW late \in 0..1, NEW lost \in BOOLEAN, Poll(h, late, lost)
  PROVE  IInv'
  <1> DEFINE later == AfterTime(db, late)
             left == [i \in Hosts |-> Passed(past.lease[i], late)]
             what == host[h].poll
             r == IF what = "try" THEN suma_try_leader_string(h, late) ELSE suma_keep_alive_string(h, late)
             T == TIME_OUT_NUM
  <1>0. /\ "none" \notin Hosts /\ T \in Nat
        /\ DOMAIN db = DbFields /\ DOMAIN past = {"lease", "ops"} /\ DOMAIN host = Hosts
        /\ LeaseOK(db.master, past.lease) /\ EngineOK(Functions, engine, db.list, db.code)
        /\ \A i \in Hosts : ClientOK(host[i], db.conf)
    BY DEF IInv
  <1>1. /\ db' = r.db /\ engine' = r.engine
        /\ host' = [host EXCEPT ![h] = Heard(host[h], what, r.answer, lost)]
        /\ past' = [LeasesAfter(past, late) EXCEPT
                       !.lease[h] = IF r.lease = NoExpire THEN @ ELSE r.lease,
                       !.ops = IF lost THEN @ + 1 ELSE @]
        /\ UNCHANGED scenario
    BY DEF Poll
  <1>2. /\ DOMAIN past' = {"lease", "ops"}
        /\ past'.lease = [left EXCEPT ![h] = IF r.lease = NoExpire THEN @ ELSE r.lease]
    <2> HIDE DEF r
    <2>1. DOMAIN LeasesAfter(past, late) = {"lease", "ops"} /\ LeasesAfter(past, late).lease = left
      BY <1>0 DEF LeasesAfter
    <2>2. QED
      BY <1>1, <2>1
  <1>3. /\ DOMAIN later = DbFields /\ LeaseOK(later.master, left)
        /\ later.master # None => later.master.val = db.master.val /\ db.master # None
        /\ later.list = db.list /\ later.code = db.code /\ later.conf = db.conf
        /\ later.vips = db.vips /\ later.locked = db.locked
    <2>1. late \in Nat
      OBVIOUS
    <2>2. QED
      BY <1>0, <2>1, TimePasses
  <1> DEFINE kept == [left EXCEPT ![h] = IF r.lease = NoExpire THEN @ ELSE r.lease]
             Others == \A i \in Hosts \ {h} : left[i] = NoExpire
             Same(d) == /\ DOMAIN d = DbFields /\ d.list = db.list /\ d.code = db.code
                        /\ d.conf = db.conf /\ d.vips = db.vips /\ d.locked = db.locked
             Good == /\ Same(r.db) /\ EngineOK(Functions, r.engine, db.list, db.code)
                     /\ LeaseOK(r.db.master, kept)
  <1> HIDE DEF later, left, T
  <1>4. T # NoExpire /\ left \in [Hosts -> Nat \cup {NoExpire}]
    BY <1>0, <1>3 DEF LeaseOK, NoExpire
  <1>5. ASSUME NEW d, NEW e, NEW a, r = Reply(d, e, NoExpire, a), Same(d), d.master = later.master,
               EngineOK(Functions, e, db.list, db.code)
        PROVE  Good
    <2> HIDE DEF r
    <2>1. r.db = d /\ r.engine = e /\ r.lease = NoExpire
      BY <1>5 DEF Reply
    <2>2. kept = left
      BY <1>4, <2>1
    <2> HIDE DEF kept
    <2>3. QED
      BY <1>3, <1>5, <2>1, <2>2
  <1>6. ASSUME NEW d, NEW e, NEW a, r = Reply(d, e, T, a), Same(d), d.master = [val |-> h, ttl |-> T],
               EngineOK(Functions, e, db.list, db.code), Others
        PROVE  Good
    <2> HIDE DEF r
    <2>1. r.db = d /\ r.engine = e /\ r.lease = T
      BY <1>6 DEF Reply
    <2>2. kept = [left EXCEPT ![h] = T]
      BY <1>4, <2>1
    <2> HIDE DEF kept
    <2>3. LeaseOK([val |-> h, ttl |-> T], [left EXCEPT ![h] = T])
      BY <1>0, <1>3, <1>6, NewLease
    <2>4. QED
      BY <1>6, <2>1, <2>2, <2>3
  <1>7. ASSUME what = "try", db.master = None PROVE Good
    <2> DEFINE d == [later EXCEPT !.master = [val |-> h, ttl |-> T]]
    <2>1. r = Reply(d, TimerCommand_RedisCommand(engine, db), T, "1")
      BY <1>7 DEF suma_try_leader_string, later, T
    <2>2. Same(d) /\ d.master = [val |-> h, ttl |-> T]
      BY <1>3 DEF DbFields
    <2>3. EngineOK(Functions, TimerCommand_RedisCommand(engine, db), db.list, db.code)
      BY <1>0, EpollOK
    <2>4. ASSUME NEW i \in Hosts PROVE left[i] = NoExpire
      <3>1. past.lease[i] = NoExpire
        BY <1>0, <1>7 DEF LeaseOK, None
      <3>2. QED
        BY <3>1 DEF left, Passed, NoExpire
    <2> HIDE DEF d, r, Good, Same
    <2>5. QED
      BY <1>6, <2>1, <2>2, <2>3, <2>4
  <1>8. ASSUME what = "try", db.master # None PROVE Good
    <2>1. PICK a : r = Reply(later, engine, NoExpire, a)
      BY <1>8 DEF suma_try_leader_string, later
    <2> HIDE DEF r, Good
    <2>2. QED
      BY <1>0, <1>3, <1>5, <2>1
  <1>9. ASSUME what # "try" PROVE Good
    <2> DEFINE d == [later EXCEPT !.alive[h] = T]
               f == [d EXCEPT !.master.ttl = T]
    <2>1. Same(d) /\ d.master = later.master
      BY <1>3 DEF DbFields
    <2>2. \/ r = Reply(later, engine, NoExpire, "0") /\ db.master = None
          \/ r = Reply(d, engine, NoExpire, "0")
          \/ r = Reply(f, engine, T, "list") /\ later.master # None /\ db.master.val = h
          \/ r = Reply(d, engine, NoExpire, "leader")
      BY <1>3, <1>9, <2>1 DEF suma_keep_alive_string, later, T
    <2>3. Same(f) /\ f.master = [d.master EXCEPT !.ttl = T]
      <3> HIDE DEF d
      <3>1. QED
        BY <2>1 DEF DbFields
    <2>4. ASSUME later.master # None, db.master.val = h
          PROVE  f.master = [val |-> h, ttl |-> T] /\ Others
      <3>1. later.master = [val |-> h, ttl |-> later.master.ttl]
        BY <1>3, <2>4 DEF LeaseOK
      <3>2. f.master = [val |-> h, ttl |-> T]
        BY <2>1, <2>3, <3>1
      <3>3. Others
        BY <1>3, <3>1 DEF LeaseOK
      <3>4. QED
        BY <3>2, <3>3
    <2> HIDE DEF d, f, r, Good, Same
    <2>5. CASE r = Reply(later, engine, NoExpire, "0")
      BY <1>0, <1>3, <1>5, <2>5 DEF Same
    <2>6. CASE \E a : r = Reply(d, engine, NoExpire, a)
      BY <1>0, <1>5, <2>1, <2>6
    <2>7. CASE r = Reply(f, engine, T, "list") /\ later.master # None /\ db.master.val = h
      BY <1>0, <1>6, <2>3, <2>4, <2>7
    <2>8. QED
      BY <2>2, <2>5, <2>6, <2>7
  <1>10. Good
    BY <1>7, <1>8, <1>9
  <1> HIDE DEF r, kept
  <1>11. DOMAIN host' = Hosts /\ \A i \in Hosts : ClientOK(host'[i], db.conf)
    <2>1. ClientOK(Heard(host[h], what, r.answer, lost), db.conf)
      BY <1>0, HeardOK
    <2>2. QED
      BY <1>0, <1>1, <2>1
  <1>12. QED
    BY <1>1, <1>2, <1>10, <1>11, Keeps DEF kept

\* The registry of hosts: who registers with a sub-task takes its lock.
LEMMA RegistrySteps ==
  ASSUME IInv, \/ suma_biz_id_cluster_online
               \/ \E h \in Hosts, subtask \in BOOLEAN : suma_vip_register_list(h, subtask)
  PROVE  IInv'
  <1>0. /\ DOMAIN db = DbFields /\ DOMAIN past = {"lease", "ops"} /\ DOMAIN host = Hosts
        /\ VipsOK(db.vips, db.locked)
    BY DEF IInv
  <1>1. CASE suma_biz_id_cluster_online
    <2>1. /\ DOMAIN db' = DbFields /\ db'.conf = db.conf /\ db'.master = db.master
          /\ db'.list = db.list /\ db'.code = db.code
          /\ db'.vips = db.vips /\ db'.locked = db.locked
          /\ UNCHANGED <<scenario, engine, host, past>>
      BY <1>0, <1>1 DEF suma_biz_id_cluster_online, DbFields
    <2>2. QED
      BY <1>0, <2>1, Keeps
  <1>2. CASE \E h \in Hosts, subtask \in BOOLEAN : suma_vip_register_list(h, subtask)
    <2>1. PICK h \in Hosts, subtask \in BOOLEAN : suma_vip_register_list(h, subtask)
      BY <1>2
    <2> DEFINE vips == IF subtask /\ db.locked THEN db.vips ELSE db.vips \cup {<<h, subtask>>}
               locked == db.locked \/ subtask
    <2>2. /\ DOMAIN db' = DbFields /\ db'.conf = db.conf /\ db'.master = db.master
          /\ db'.list = db.list /\ db'.code = db.code
          /\ db'.vips = vips /\ db'.locked = locked
          /\ Used /\ UNCHANGED <<scenario, engine, host>>
      <3> HIDE DEF vips, locked
      <3>1. db' = [db EXCEPT !.clusters = @ \/ subtask, !.vips = vips, !.locked = locked]
        BY <2>1 DEF suma_vip_register_list, vips, locked
      <3>2. Used /\ UNCHANGED <<scenario, engine, host>>
        BY <2>1 DEF suma_vip_register_list
      <3>3. QED
        BY <1>0, <3>1, <3>2 DEF DbFields
    <2>3. VipsOK(vips, locked)
      <3>1. locked \in BOOLEAN /\ vips \subseteq Hosts \X BOOLEAN
        BY <1>0 DEF VipsOK
      <3>2. ASSUME NEW v \in vips, NEW w \in vips, v[2], w[2]
            PROVE  v = w /\ locked
        BY <1>0, <3>2 DEF VipsOK
      <3> HIDE DEF vips, locked
      <3>3. QED
        BY <3>1, <3>2 DEF VipsOK
    <2> HIDE DEF vips, locked
    <2>4. QED
      BY <1>0, <2>2, <2>3, UsedKeeps, Keeps
  <1>3. QED
    BY <1>1, <1>2

----------------------------------------------------------------------------

\* The invariant holds at first.
LEMMA InitStep ==
  ASSUME ApolloConstantsOK, ApolloInit PROVE IInv
  <1>1. "none" \notin Hosts /\ TIME_OUT_NUM \in Nat
    BY DEF ApolloConstantsOK, ApolloInit, TIME_OUT_NUM
  <1>2. DOMAIN db = DbFields /\ DOMAIN past = {"lease", "ops"} /\ DOMAIN host = Hosts
    BY DEF ApolloInit, DbFields
  <1>3. /\ db.master = None /\ past.lease = [h \in Hosts |-> NoExpire] /\ db.list = <<>>
        /\ db.code = [f \in Functions |-> 0] /\ db.vips = {} /\ db.locked = FALSE /\ db.conf = 0
    BY DEF ApolloInit
  <1>4. LeaseOK(db.master, past.lease)
    BY <1>3 DEF LeaseOK, None
  <1>5. EngineOK(Functions, engine, db.list, db.code)
    BY <1>3 DEF ApolloInit, EngineOK, Has
  <1>6. VipsOK(db.vips, db.locked)
    BY <1>3 DEF VipsOK
  <1>7. ASSUME NEW h \in Hosts PROVE ClientOK(host[h], db.conf)
    <2>1. host[h] = Started
      BY DEF ApolloInit
    <2>2. QED
      BY <2>1 DEF Started, ClientOK, HostFields
  <1>8. QED
    BY <1>1, <1>2, <1>4, <1>5, <1>6, <1>7 DEF IInv

\* Every step keeps the invariant.
LEMMA NextStep ==
  ASSUME IInv, [ApolloNext]_apolloVars PROVE IInv'
  <1>1. CASE UNCHANGED apolloVars
    BY <1>1, Keeps DEF apolloVars, IInv
  <1>2. CASE ApolloNext
    BY <1>2, TickStep, EngineSteps, PublishSteps, RegistrySteps, PollStep, ClientSteps DEF ApolloNext
  <1>3. QED
    BY <1>1, <1>2

\* A set without two members has at most one.
LEMMA Single ==
  ASSUME NEW S, \A v, w \in S : v = w PROVE Cardinality(S) <= 1
  <1>1. CASE S = {}
    BY <1>1, FS_EmptySet
  <1>2. CASE S # {}
    <2>1. PICK v : S = {v}
      BY <1>2
    <2>2. QED
      BY <2>1, FS_Singleton
  <1>3. QED
    BY <1>1, <1>2

\* The invariant implies the property.
LEMMA Sound ==
  ASSUME IInv PROVE ApolloSound
  <1>1. LeaseHolds
    BY DEF IInv, LeaseOK, LeaseHolds
  <1>2. engine.timers = (IF engine.lock THEN 1 ELSE 0)
    BY DEF IInv, EngineOK
  <1>3. engine.lock => \A i \in DOMAIN db.list : engine.funcs[db.list[i]] # 0
    BY DEF IInv, EngineOK, Has
  <1>4. Cardinality({v \in db.vips : v[2]}) <= 1
    <2> DEFINE S == {v \in db.vips : v[2]}
    <2>1. \A v, w \in S : v = w
      BY DEF IInv, VipsOK
    <2> HIDE DEF S
    <2>2. QED
      BY <2>1, Single DEF S
  <1>5. ConfigurationSeen
    <2>1. ASSUME NEW h \in Hosts, host[h].sub, host[h].inbox = <<>>, db.conf # host[h].since
          PROVE  host[h].conf = db.conf
      BY <2>1 DEF IInv, ClientOK
    <2>2. QED
      BY <2>1 DEF ConfigurationSeen
  <1>6. QED
    BY <1>1, <1>2, <1>3, <1>4, <1>5 DEF EngineSound, ApolloSound

(***************************************************************************)
(* The module is sound for any set of hosts, any functions and any time to *)
(* live: leases hold, whatever the clock does between the lookups of one   *)
(* command; there is one timer from the start of the engine on, with every *)
(* listed function installed; one host takes the lock of a sub-task; and   *)
(* no subscriber misses the configuration published last.                  *)
(***************************************************************************)
THEOREM ApolloIsSound ==
  ApolloConstantsOK /\ ApolloSpec => []ApolloSound
  <1>1. ApolloConstantsOK /\ ApolloInit => IInv
    BY InitStep
  <1>2. IInv /\ [ApolloNext]_apolloVars => IInv'
    BY NextStep
  <1>3. IInv => ApolloSound
    BY Sound
  <1>4. QED
    BY <1>1, <1>2, <1>3, PTL DEF ApolloSpec
=============================================================================
