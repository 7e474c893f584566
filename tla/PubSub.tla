------------------------------- MODULE PubSub -------------------------------
(***************************************************************************)
(* Publish and subscribe (src/src/pubsub.c), with the three sources of     *)
(* messages: PUBLISH, the stream a master sends its replica, and the       *)
(* cluster bus; and keyspace notifications (src/src/notify.c).             *)
(*                                                                         *)
(* Two servers: the second is a replica of the first, or the other node of *)
(* a cluster.  Every subscription is in two tables, of the client and of   *)
(* the server; a message is delivered from the server's.                   *)
(***************************************************************************)
EXTENDS Integers, FiniteSets, SequencesExt

CONSTANT Scenarios    \* records with the fields below

VARIABLES
    scenario,
    srv,     \* per server: pubsub_channels and pubsub_patterns
    cl,      \* per client: its own tables, CLIENT_PUBSUB, and what it was sent
    net      \* the link between the servers, the messages published, the last one

vars == <<scenario, srv, cl, net>>

-----------------------------------------------------------------------------
(* Glob-style patterns (stringmatchlen of src/src/util.c), which KEYS,     *)
(* SCAN, PSUBSCRIBE, PUBSUB CHANNELS and CONFIG GET share.  A string is a  *)
(* sequence of character codes.                                            *)

Star == 42
Dash == 45
Question == 63
Open == 91
Backslash == 92
Close == 93
Caret == 94

\* What the code reads at the end of a string: sds strings end with a zero.
At(s, i) == IF i <= Len(s) THEN s[i] ELSE 0

From(s, i) == SubSeq(s, i, Len(s))

tolower(c) == IF c \in 65..90 THEN c + 32 ELSE c

Same(a, b, nocase) == IF nocase THEN tolower(a) = tolower(b) ELSE a = b

InRange(c, a, b, nocase) ==
    LET low == IF a > b THEN b ELSE a
        high == IF a > b THEN a ELSE b
    IN  IF nocase THEN tolower(c) \in tolower(low)..tolower(high) ELSE c \in low..high

\* The loop of a character class, from p on: whether c was matched, and what
\* follows the class.  An escaped character is compared as it is.
RECURSIVE Class(_, _, _, _)
Class(p, c, nocase, match) ==
    CASE At(p, 1) = Backslash /\ Len(p) >= 2 ->
            Class(From(p, 3), c, nocase, match \/ p[2] = c)
      [] At(p, 1) = Close -> [match |-> match, rest |-> Tail(p)]
      [] p = <<>> -> [match |-> match, rest |-> <<>>]
      [] Len(p) >= 3 /\ p[1] \notin {Backslash, Close} /\ p[2] = Dash ->
            Class(From(p, 4), c, nocase, match \/ InRange(c, p[1], p[3], nocase))
      [] p # <<>> /\ p[1] # Close /\ ~(p[1] = Backslash /\ Len(p) >= 2)
              /\ ~(Len(p) >= 3 /\ p[1] # Backslash /\ p[2] = Dash) ->
            Class(Tail(p), c, nocase, match \/ Same(p[1], c, nocase))

SkipStars(p) ==
    IF \A i \in DOMAIN p : p[i] = Star THEN <<>>
    ELSE From(p, CHOOSE i \in DOMAIN p : p[i] # Star /\ \A j \in 1..(i - 1) : p[j] = Star)

RECURSIVE stringmatchlen(_, _, _)
stringmatchlen(p, s, nocase) ==
    LET \* the end of the loop body: on to the next character
        Advance(rest) ==
            IF Len(s) = 1 THEN SkipStars(rest) = <<>> ELSE stringmatchlen(rest, Tail(s), nocase)
        negated == At(p, 2) = Caret
        class == Class(From(p, IF negated THEN 3 ELSE 2), s[1], nocase, FALSE)
        literal == IF p[1] = Backslash /\ Len(p) >= 2 THEN Tail(p) ELSE p
    IN  IF p = <<>> \/ s = <<>> THEN p = <<>> /\ s = <<>>
        ELSE CASE p[1] = Star ->
                    \/ SkipStars(p) = <<>>
                    \/ \E i \in 1..Len(s) : stringmatchlen(SkipStars(p), From(s, i), nocase)
               [] p[1] = Question -> Advance(Tail(p))
               [] p[1] = Open -> (class.match # negated) /\ Advance(class.rest)
               [] p[1] \notin {Star, Question, Open} ->
                    Same(literal[1], s[1], nocase) /\ Advance(Tail(literal))

----------------------------------------------------------------------------
(* The reference: the pattern as a sequence of elements, each any string   *)
(* ("many") or one of the characters (of the alphabet given) it allows.    *)

OneOf(set) == [many |-> FALSE, set |-> set]

RECURSIVE Elements(_, _)
Elements(p, alphabet) ==
    CASE p = <<>> -> <<>>
      [] p # <<>> /\ At(p, 1) = Star -> <<[many |-> TRUE, set |-> {}]>> \o Elements(Tail(p), alphabet)
      [] At(p, 1) = Question -> <<OneOf(alphabet)>> \o Elements(Tail(p), alphabet)
      [] At(p, 1) = Open ->
            LET negated == At(p, 2) = Caret
                body == From(p, IF negated THEN 3 ELSE 2)
                matched == {c \in alphabet : Class(body, c, FALSE, FALSE).match}
            IN  <<OneOf(IF negated THEN alphabet \ matched ELSE matched)>>
                    \o Elements(Class(body, 0, FALSE, FALSE).rest, alphabet)
      [] At(p, 1) = Backslash /\ Len(p) >= 2 -> <<OneOf({p[2]})>> \o Elements(From(p, 3), alphabet)
      [] p # <<>> /\ p[1] \notin {Star, Question, Open} /\ ~(p[1] = Backslash /\ Len(p) >= 2) ->
            <<OneOf({p[1]})>> \o Elements(Tail(p), alphabet)

\* The string can be cut into one piece per element: cut[i] is where piece i ends.
Denotes(e, s) ==
    \E cut \in [0..Len(e) -> 0..Len(s)] :
        /\ cut[0] = 0 /\ cut[Len(e)] = Len(s)
        /\ \A i \in DOMAIN e :
              /\ cut[i - 1] <= cut[i]
              /\ ~e[i].many => cut[i] = cut[i - 1] + 1 /\ s[cut[i]] \in e[i].set

(***************************************************************************)
(* Patterns mean what they say.  For a string that is not empty, the       *)
(* backtracking of stringmatchlen() answers that the pattern matches       *)
(* exactly if the string can be cut into pieces that the elements of the   *)
(* pattern allow, classes that are not closed and escapes at the end of    *)
(* the pattern included.  The empty string is matched by the empty         *)
(* pattern only, by "*" not.                                               *)
(***************************************************************************)
MatchSound(p, s, alphabet) ==
    stringmatchlen(p, s, FALSE) <=>
        IF s = <<>> THEN p = <<>> ELSE Denotes(Elements(p, alphabet), s)

-----------------------------------------------------------------------------
(* The servers and their clients.                                          *)

Servers == {"m", "n"}
Home == scenario.Home                  \* client -> the server it is connected to
Clients == DOMAIN Home
Channels == scenario.Channels          \* sequences of character codes
Patterns == scenario.Patterns
cluster_enabled == scenario.Cluster
notify_keyspace_events == scenario.Notify    \* a set of flags
MaxPublish == scenario.MaxPublish      \* bound on the messages published
MaxSub == scenario.MaxSub              \* bound on the (un)subscribe commands

Peer(s) == IF s = "m" THEN "n" ELSE "m"

NewClient == [chans |-> {}, pats |-> <<>>, flag |-> FALSE, open |-> TRUE, got |-> <<>>]

Init ==
    /\ scenario \in Scenarios
    /\ srv = [s \in Servers |-> [chans |-> [c \in Channels |-> <<>>], pats |-> <<>>]]
    /\ cl = [c \in Clients |-> NewClient]
    /\ net = [m |-> <<>>, n |-> <<>>, up |-> TRUE, published |-> 0, subs |-> 0, due |-> [c \in Clients |-> <<>>]]

----------------------------------------------------------------------------
(* The tables.  t holds both: t.srv of the server, t.cl of one client c.   *)

clientSubscriptionsCount(k) == Cardinality(k.chans) + Len(k.pats)

pubsubSubscribeChannel(t, c, ch) ==
    IF ch \in t.cl.chans THEN t
    ELSE [t EXCEPT !.cl.chans = @ \cup {ch}, !.srv.chans[ch] = Append(@, c)]

\* listDelNode() of the node listSearchKey() finds: the first.
Without(list, e) ==
    IF \E i \in DOMAIN list : list[i] = e
    THEN RemoveAt(list, CHOOSE i \in DOMAIN list : list[i] = e /\ \A j \in 1..(i - 1) : list[j] # e)
    ELSE list

pubsubUnsubscribeChannel(t, c, ch) ==
    IF ch \notin t.cl.chans THEN t
    ELSE [t EXCEPT !.cl.chans = @ \ {ch}, !.srv.chans[ch] = Without(@, c)]

pubsubSubscribePattern(t, c, p) ==
    IF Contains(t.cl.pats, p) THEN t
    ELSE [t EXCEPT !.cl.pats = Append(@, p), !.srv.pats = Append(@, <<c, p>>)]

pubsubUnsubscribePattern(t, c, p) ==
    IF ~Contains(t.cl.pats, p) THEN t
    ELSE [t EXCEPT !.cl.pats = Without(@, p), !.srv.pats = Without(@, <<c, p>>)]

pubsubUnsubscribeAllChannels(t, c) ==
    FoldLeft(LAMBDA acc, ch : pubsubUnsubscribeChannel(acc, c, ch), t, SetToSeq(t.cl.chans))

pubsubUnsubscribeAllPatterns(t, c) ==
    FoldLeft(LAMBDA acc, p : pubsubUnsubscribePattern(acc, c, p), t, t.cl.pats)

Tables(c) == [srv |-> srv[Home[c]], cl |-> cl[c]]

Update(c, t) ==
    /\ srv' = [srv EXCEPT ![Home[c]] = t.srv]
    /\ cl' = [cl EXCEPT ![c] = t.cl]
    /\ UNCHANGED scenario

Subscribing(c) ==
    /\ cl[c].open
    /\ net.subs < MaxSub
    /\ net' = [net EXCEPT !.subs = @ + 1]

subscribeCommand(c, ch) ==
    /\ Subscribing(c)
    /\ Update(c, [pubsubSubscribeChannel(Tables(c), c, ch) EXCEPT !.cl.flag = TRUE])

psubscribeCommand(c, p) ==
    /\ Subscribing(c)
    /\ Update(c, [pubsubSubscribePattern(Tables(c), c, p) EXCEPT !.cl.flag = TRUE])

Unflagged(t) == IF clientSubscriptionsCount(t.cl) = 0 THEN [t EXCEPT !.cl.flag = FALSE] ELSE t

unsubscribeCommand(c, chans) ==
    /\ Subscribing(c)
    /\ Update(c, Unflagged(IF chans = {} THEN pubsubUnsubscribeAllChannels(Tables(c), c)
                           ELSE FoldLeft(LAMBDA acc, ch : pubsubUnsubscribeChannel(acc, c, ch),
                                         Tables(c), SetToSeq(chans))))

punsubscribeCommand(c, pats) ==
    /\ Subscribing(c)
    /\ Update(c, Unflagged(IF pats = {} THEN pubsubUnsubscribeAllPatterns(Tables(c), c)
                           ELSE FoldLeft(LAMBDA acc, p : pubsubUnsubscribePattern(acc, c, p),
                                         Tables(c), SetToSeq(pats))))

freeClient(c) ==
    /\ Subscribing(c)
    /\ Update(c, [pubsubUnsubscribeAllPatterns(pubsubUnsubscribeAllChannels(Tables(c), c), c)
                    EXCEPT !.cl.open = FALSE])

----------------------------------------------------------------------------
(* Messages.  A message is its number; a client is sent it with the        *)
(* channel, and with the pattern if a pattern is why.                      *)

pubsubPublishMessage(clients, s, ch, message) ==
    LET direct == IF ch \in Channels
                  THEN FoldLeft(LAMBDA k, c : [k EXCEPT ![c].got = Append(@, <<message, ch>>)],
                                clients, srv[s].chans[ch])
                  ELSE clients
        matching == SelectSeq(srv[s].pats, LAMBDA e : stringmatchlen(e[2], ch, FALSE))
    IN  FoldLeft(LAMBDA k, e : [k EXCEPT ![e[1]].got = Append(@, <<message, e[2], ch>>)],
                 direct, matching)

\* What a client at server s is owed when ch is published there: once for its
\* subscription to the channel, and once for each of its patterns that matches,
\* in the order in which they were asked for.
Owed(c, s, ch, message) ==
    IF Home[c] # s THEN <<>>
    ELSE (IF ch \in cl[c].chans THEN <<<<message, ch>>>> ELSE <<>>)
         \o [i \in 1..Len(SelectSeq(cl[c].pats, LAMBDA p : stringmatchlen(p, ch, FALSE))) |->
                <<message, SelectSeq(cl[c].pats, LAMBDA p : stringmatchlen(p, ch, FALSE))[i], ch>>]

Accounted(s, ch, message) == [c \in Clients |-> net.due[c] \o Owed(c, s, ch, message)]

Publishing == net.published < MaxPublish

\* A client in the context of Pub/Sub may not publish.
MayPublish(c) == cl[c].open /\ ~cl[c].flag

\* In a cluster the message goes over the link to the other node, if it is up.
clusterSendPublish(queue, entry) == IF net.up THEN Append(queue, entry) ELSE queue

\* Without a cluster the message goes to the replica with the commands, and a
\* replica forwards nothing.
publishCommand(c, ch) ==
    LET s == Home[c] message == net.published + 1
    IN  /\ Publishing
        /\ MayPublish(c)
        /\ cl' = pubsubPublishMessage(cl, s, ch, message)
        /\ net' = [net EXCEPT !.published = message, !.due = Accounted(s, ch, message),
                              ![s] = IF cluster_enabled THEN clusterSendPublish(@, [ch |-> ch, message |-> message])
                                     ELSE IF s = "m" THEN Append(@, [ch |-> ch, message |-> message]) ELSE @]
        /\ UNCHANGED <<scenario, srv>>

\* The replica runs the PUBLISH of its master, the other node handles
\* CLUSTERMSG_TYPE_PUBLISH; the latter only if anybody subscribed to anything.
clusterProcessPublish(s) ==
    LET pending == net[Peer(s)]
        skipped == cluster_enabled /\ srv[s].pats = <<>> /\ \A ch \in Channels : srv[s].chans[ch] = <<>>
    IN  /\ pending # <<>>
        /\ cl' = IF skipped THEN cl ELSE pubsubPublishMessage(cl, s, Head(pending).ch, Head(pending).message)
        /\ net' = [net EXCEPT ![Peer(s)] = Tail(@),
                              !.due = Accounted(s, Head(pending).ch, Head(pending).message)]
        /\ UNCHANGED <<scenario, srv>>

\* The link of the cluster bus is freed with what is in it, and made again.
LinkDown ==
    /\ cluster_enabled /\ net.up
    /\ net' = [net EXCEPT !.up = FALSE, !.m = <<>>, !.n = <<>>]
    /\ UNCHANGED <<scenario, srv, cl>>

LinkUp ==
    /\ ~net.up
    /\ net' = [net EXCEPT !.up = TRUE]
    /\ UNCHANGED <<scenario, srv, cl>>

\* An event of a key: __keyspace@<db>__:<key> and __keyevent@<db>__:<event>,
\* each if asked for, and only if the class of the event is; neither is sent
\* to the other server.
notifyKeyspaceEvent(s, class, keyspace, keyevent) ==
    LET on == class \in notify_keyspace_events
        first == net.published + 1
        after == IF on /\ "K" \in notify_keyspace_events
                 THEN pubsubPublishMessage(cl, s, keyspace, first) ELSE cl
    IN  /\ Publishing
        /\ keyspace # keyevent
        /\ cl' = IF on /\ "E" \in notify_keyspace_events
                 THEN pubsubPublishMessage(after, s, keyevent, first) ELSE after
        /\ net' = [net EXCEPT !.published = first,
                              !.due = [c \in Clients |-> @[c]
                                  \o (IF {class, "K"} \subseteq notify_keyspace_events
                                      THEN Owed(c, s, keyspace, first) ELSE <<>>)
                                  \o (IF {class, "E"} \subseteq notify_keyspace_events
                                      THEN Owed(c, s, keyevent, first) ELSE <<>>)]]
        /\ UNCHANGED <<scenario, srv>>

Next ==
    \/ \E c \in Clients :
        \/ \E ch \in Channels : subscribeCommand(c, ch) \/ publishCommand(c, ch)
        \/ \E p \in Patterns : psubscribeCommand(c, p)
        \/ \E chans \in SUBSET Channels : unsubscribeCommand(c, chans)
        \/ \E pats \in SUBSET Patterns : punsubscribeCommand(c, pats)
        \/ freeClient(c)
    \/ \E s \in Servers : clusterProcessPublish(s)
    \/ \E s \in Servers, class \in scenario.Classes, ch, ev \in Channels : notifyKeyspaceEvent(s, class, ch, ev)
    \/ LinkDown
    \/ LinkUp

Spec == Init /\ [][Next]_vars

----------------------------------------------------------------------------
(***************************************************************************)
(* Tables and deliveries agree.  A client is in the list of a channel      *)
(* exactly once if it subscribed to it and not otherwise, the same for     *)
(* patterns; the asserts of pubsubUnsubscribeChannel() rest on it, and so  *)
(* does that no list names a client that was freed.  CLIENT_PUBSUB is set  *)
(* exactly while there is a subscription.  Every client was sent exactly   *)
(* what its subscriptions called for, in the order of publication at its   *)
(* server, and no message a second time from the other server.             *)
(***************************************************************************)
SubscriptionsAgree ==
    /\ \A s \in Servers : \A c \in Clients :
        /\ \A ch \in Channels :
              Cardinality({i \in DOMAIN srv[s].chans[ch] : srv[s].chans[ch][i] = c})
                = IF Home[c] = s /\ ch \in cl[c].chans THEN 1 ELSE 0
        /\ SelectSeq(srv[s].pats, LAMBDA e : e[1] = c)
             = IF Home[c] = s THEN [i \in DOMAIN cl[c].pats |-> <<c, cl[c].pats[i]>>] ELSE <<>>
    /\ \A c \in Clients :
        /\ cl[c].open => (cl[c].flag <=> clientSubscriptionsCount(cl[c]) > 0)
        /\ ~cl[c].open => clientSubscriptionsCount(cl[c]) = 0
        /\ cl[c].got = net.due[c]
        /\ \A i, j \in DOMAIN cl[c].got : i # j => cl[c].got[i] # cl[c].got[j]
=============================================================================
