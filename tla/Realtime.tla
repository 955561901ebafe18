------------------------------- MODULE Realtime -------------------------------
(***************************************************************************)
(* Realtime (src/src/realtime/manager.ts, sse.ts and the socket handlers   *)
(* of server.ts): the connections of one server process, what they listen  *)
(* to, whose token they carry, and the fan-out of events to them.          *)
(*                                                                         *)
(* All of it runs on one event loop.  What runs without an await is one    *)
(* action; a token is verified across an await, so an authentication is an *)
(* action that asks and one that applies the answer.  Events are numbered  *)
(* in the order they are broadcast.  A token stands for its principal too. *)
(* There are two kinds of topics: one record, and collection-wide.         *)
(***************************************************************************)
EXTENDS Naturals, Sequences, FiniteSets

CONSTANTS Sockets,         \* the WebSocket connections
          Streams,         \* the SSE connections
          Addresses,
          IpOf,            \* the address each connection comes from
          Tokens,
          Admins,          \* the tokens of admins
          Rules,           \* the rules an event may be broadcast under
          Anonymous,
          MaxConnections,  \* MAX_REALTIME_CONNECTIONS
          MaxPerIp,        \* MAX_CONNECTIONS_PER_IP
          MaxTopics,       \* MAX_TOPICS_PER_CONNECTION
          InlineMax,       \* FANOUT_INLINE_MAX
          MaxBacklog,      \* FANOUT_MAX_BACKLOG
          Listeners,       \* bound: the connections that subscribe and authenticate
          MaxEvents,       \* bound: events broadcast
          MaxAsks          \* bound: messages that carry a token

Conns == Sockets \cup Streams
Topics == {"record", "wide"}
Auths == Tokens \cup {Anonymous}

\* A rule pair: who passes the view rule and who the list rule, admins apart.
RulePair == [view : SUBSET Auths, list : SUBSET Auths]

ASSUME RealtimeAssumption == /\ Sockets \cap Streams = {}
                             /\ IpOf \in [Conns -> Addresses]
                             /\ Listeners \subseteq Conns
                             /\ Admins \subseteq Tokens
                             /\ Anonymous \notin Tokens
                             /\ Rules \subseteq RulePair
                             /\ {MaxConnections, MaxPerIp, MaxTopics, InlineMax,
                                 MaxBacklog, MaxEvents, MaxAsks} \subseteq Nat

VARIABLES socket,     \* each connection: "new", "open", "closing" or "closed"
          reg,        \* the registry of the manager
          token,      \* each token: "valid", "revoked" or "expired"
          asks,       \* authentications waiting for a token to be verified
          asked,      \* how many there have been
          queue,      \* fanoutQueue: what is still to be sent, and to whom
          backlog,    \* queuedDeliveries
          pumping,    \* a pump is scheduled
          sent,       \* how many events have been broadcast
          inbox       \* history: the events each connection was sent

fan == <<queue, backlog, pumping, sent, inbox>>
realtimeVars == <<socket, reg, token, asks, asked, fan>>

\* reg.live      the connections counted in (liveConns, wsConns)
\* reg.byIp      connsByIp
\* reg.subs      the connections of each topic;  reg.topics: the reverse index
\* reg.auth      wsAuth;  reg.checks: the re-verifications under way of an entry
\*               that has not been replaced since
\* reg.sse       the registered SSE clients;  reg.owner: sseOwners
Registry == [live : SUBSET Conns, byIp : [Addresses -> Nat],
             subs : [Topics -> SUBSET Conns], topics : [Conns -> SUBSET Topics],
             auth : [Conns -> Auths], checks : SUBSET (Conns \X BOOLEAN),
             sse : SUBSET Streams, owner : [Streams -> Auths]]

RealtimeInit == /\ socket = [c \in Conns |-> "new"]
                /\ reg = [live |-> {}, byIp |-> [a \in Addresses |-> 0],
                          subs |-> [t \in Topics |-> {}], topics |-> [c \in Conns |-> {}],
                          auth |-> [c \in Conns |-> Anonymous], checks |-> {},
                          sse |-> {}, owner |-> [s \in Streams |-> Anonymous]]
                /\ token = [t \in Tokens |-> "valid"]
                /\ asks = {}
                /\ asked = 0
                /\ queue = <<>>
                /\ backlog = 0
                /\ pumping = FALSE
                /\ sent = 0
                /\ inbox = [c \in Conns |-> <<>>]

-----------------------------------------------------------------------------
(* The registry.  Each operator takes a registry and gives the next one.    *)

Full(a) == Cardinality(reg.live) >= MaxConnections \/ reg.byIp[a] >= MaxPerIp

Admitted(r, c) == [r EXCEPT !.live = @ \cup {c}, !.byIp[IpOf[c]] = @ + 1]

\* setWSAuth: a new entry, which no re-verification under way speaks of.
WithAuth(r, c, a) == [r EXCEPT !.auth[c] = a, !.checks = {k \in @ : k[1] # c}]

Forgotten(r, C) == [r EXCEPT !.auth = [c \in Conns |-> IF c \in C THEN Anonymous ELSE @[c]],
                             !.checks = {k \in @ : k[1] \notin C}]

LeftAll(r, C) == [r EXCEPT !.subs = [t \in Topics |-> @[t] \ C],
                           !.topics = [c \in Conns |-> IF c \in C THEN {} ELSE @[c]]]

WithTopic(r, c, t) ==
    IF Cardinality(r.topics[c] \cup {t}) > MaxTopics THEN r
    ELSE [r EXCEPT !.subs[t] = @ \cup {c}, !.topics[c] = @ \cup {t}]

\* setSSESubscriptions: leave every topic, then take these.
WithTopics(r, c, T) ==
    LET left == LeftAll(r, {c})
    IN  IF T = Topics THEN WithTopic(WithTopic(left, c, "record"), c, "wide")
        ELSE IF T = {} THEN left
        ELSE WithTopic(left, c, CHOOSE t \in T : TRUE)

\* releaseConnection, of those that were counted in.
Released(r, C) ==
    [r EXCEPT !.live = @ \ C,
              !.byIp = [a \in Addresses |->
                          @[a] - Cardinality({c \in C \cap r.live : IpOf[c] = a})]]

disconnectAll(r, C) == Released(Forgotten(LeftAll(r, C), C), C)

unregisterSSEClient(r, C) ==
    LET known == C \cap r.sse
    IN  [disconnectAll(r, known) EXCEPT
           !.sse = @ \ known,
           !.owner = [s \in Streams |-> IF s \in known THEN Anonymous ELSE @[s]]]

\* An SSE stream that is ended is unregistered at once; a WebSocket has a close
\* handler that runs later.
Ended(C) == [c \in Conns |-> IF c \in C /\ socket[c] = "open"
                             THEN IF c \in Streams THEN "closed" ELSE "closing"
                             ELSE socket[c]]

\* The auth of a connection, which an expired token is not any more.
currentAuth(c) == IF reg.auth[c] # Anonymous /\ token[reg.auth[c]] = "expired"
                  THEN Anonymous ELSE reg.auth[c]

Expired(C) == {c \in C : reg.auth[c] # Anonymous /\ currentAuth(c) = Anonymous}

Verifies(t) == token[t] = "valid"

-----------------------------------------------------------------------------
(* Connections. *)

\* The open handler, and GET /realtime: the connection is counted in, or
\* refused: a socket is closed with its id, a stream is never opened.
Open(c) ==
    /\ socket[c] = "new"
    /\ IF Full(IpOf[c])
       THEN /\ socket' = [socket EXCEPT ![c] = IF c \in Streams THEN "closed" ELSE "closing"]
            /\ UNCHANGED reg
       ELSE /\ socket' = [socket EXCEPT ![c] = "open"]
            /\ reg' = [Admitted(reg, c) EXCEPT !.sse = IF c \in Streams THEN @ \cup {c} ELSE @]
    /\ UNCHANGED <<token, asks, asked, fan>>

\* The client goes, or a stream's DELETE: a stream's cancel cleans up at once.
Hangup(c) == /\ socket[c] = "open"
             /\ socket' = Ended({c})
             /\ reg' = IF c \in Streams THEN unregisterSSEClient(reg, {c}) ELSE reg
             /\ UNCHANGED <<token, asks, asked, fan>>

\* The close handler of a WebSocket.
CloseHandler(c) == /\ socket[c] = "closing"
                   /\ socket' = [socket EXCEPT ![c] = "closed"]
                   /\ reg' = disconnectAll(reg, {c})
                   /\ UNCHANGED <<token, asks, asked, fan>>

\* Maintenance: connections that are not an admin's are closed.
closeConnections ==
    LET closed == {c \in reg.live : currentAuth(c) \notin Admins}
    IN  /\ closed # {}
        /\ socket' = Ended(closed)
        /\ reg' = unregisterSSEClient(Forgotten(reg, Expired(reg.live)), closed)
        /\ UNCHANGED <<token, asks, asked, fan>>

Subscribe(c, t) == /\ c \in Sockets \cap Listeners
                   /\ socket[c] = "open"
                   /\ reg' = WithTopic(reg, c, t)
                   /\ UNCHANGED <<socket, token, asks, asked, fan>>

Unsubscribe(c, t) == /\ c \in Sockets
                     /\ socket[c] = "open"
                     /\ reg' = [reg EXCEPT !.subs[t] = @ \ {c}, !.topics[c] = @ \ {t}]
                     /\ UNCHANGED <<socket, token, asks, asked, fan>>

-----------------------------------------------------------------------------
(* Tokens. *)

Spoil(t) == /\ Verifies(t)
            /\ \E how \in {"revoked", "expired"} : token' = [token EXCEPT ![t] = how]
            /\ UNCHANGED <<socket, reg, asks, asked, fan>>

\* An auth message of a WebSocket: its token is verified, across an await.
AskAuth(c, t) ==
    /\ asked < MaxAsks
    /\ c \in Sockets \cap Listeners
    /\ socket[c] = "open"
    /\ asked' = asked + 1
    /\ asks' = asks \cup {[conn |-> c, topics |-> {},
                           auth |-> IF Verifies(t) THEN t ELSE Anonymous]}
    /\ UNCHANGED <<socket, reg, token, fan>>

\* POST /realtime: a stream's token and topics.  The owner alone may change it.
PostStream(c, t) ==
    /\ asked < MaxAsks
    /\ c \in reg.sse
    /\ reg.owner[c] # Anonymous => Verifies(t) /\ reg.owner[c] = t
    /\ asked' = asked + 1
    /\ \E T \in SUBSET Topics :
         asks' = asks \cup {[conn |-> c, topics |-> T,
                             auth |-> IF Verifies(t) THEN t ELSE Anonymous]}
    /\ UNCHANGED <<socket, reg, token, fan>>

\* A POST without a token of its own changes the topics alone.
PostTopics(c) == /\ c \in reg.sse
                 /\ reg.owner[c] # Anonymous => Verifies(reg.owner[c])
                 /\ \E T \in SUBSET Topics : reg' = WithTopics(reg, c, T)
                 /\ UNCHANGED <<socket, token, asks, asked, fan>>

\* Mutant: nobody looks whether the socket has gone meanwhile.
SocketAuthUnchecked(r, ask) == WithAuth(r, ask.conn, ask.auth)

SocketAuth(r, ask) ==
    IF ask.conn \in r.live THEN WithAuth(r, ask.conn, ask.auth) ELSE r

\* The stream may have gone meanwhile; its topics are set only if it has not.
StreamAuth(r, ask) ==
    LET c == ask.conn
        owned == [WithAuth(r, c, ask.auth) EXCEPT
                    !.owner[c] = IF @ = Anonymous THEN ask.auth ELSE @]
    IN  IF c \in r.sse THEN WithTopics(owned, c, ask.topics) ELSE owned

ApplyAuth(ask) ==
    /\ reg' = IF ask.conn \in Streams THEN StreamAuth(reg, ask) ELSE SocketAuth(reg, ask)
    /\ asks' = asks \ {ask}
    /\ UNCHANGED <<socket, token, asked, fan>>

\* reverifyRealtimeAuth, of one connection: verify, across an await.
Recheck(c) ==
    /\ reg.auth[c] # Anonymous
    /\ \A k \in reg.checks : k[1] # c
    /\ reg' = [reg EXCEPT !.checks = @ \cup {<<c, Verifies(reg.auth[c])>>}]
    /\ UNCHANGED <<socket, token, asks, asked, fan>>

\* Mutant: a token that no longer verifies keeps its entry.
Kept(k) == reg' = [reg EXCEPT !.checks = @ \ {k}]

\* Then the entry is refreshed, or dropped; an entry replaced meanwhile is left.
Rechecked(k) == reg' = WithAuth(reg, k[1], IF k[2] THEN reg.auth[k[1]] ELSE Anonymous)

ApplyRecheck(k) == Rechecked(k) /\ UNCHANGED <<socket, token, asks, asked, fan>>

-----------------------------------------------------------------------------
(* Fan-out. *)

\* Mutant: only topics count, of those that hold one.
alwaysHere(r, c) == TRUE

\* Still connected and subscribed.
stillHere(r, c) == r.topics[c] # {} \/ c \in r.sse

\* The event n goes out to C; of those, the ones behind are cut off.
SendNow(r, n, C, behind) ==
    /\ socket' = Ended(behind)
    /\ reg' = LeftAll(unregisterSSEClient(r, behind), behind)
    /\ inbox' = [c \in Conns |-> IF c \in C \ behind /\ socket[c] = "open"
                                 THEN Append(inbox[c], n) ELSE inbox[c]]

WaitsFor(c) == {i \in DOMAIN queue : c \in queue[i].to}

\* Mutant: the queue is dropped and its connections know nothing of it.
ShedQuietly(r) == /\ UNCHANGED socket
                  /\ reg' = r

\* shedBacklog: those that wait are disconnected, and leave their topics.
shedBacklog(r) ==
    LET waiting == {c \in Conns : WaitsFor(c) # {}}
        cut == {c \in waiting : stillHere(r, c)}
    IN  /\ socket' = Ended(cut)
        /\ reg' = LeftAll(unregisterSSEClient(r, cut), waiting)

enqueue(r, n, C) ==
    LET full == backlog + Cardinality(C) > MaxBacklog
        item == [n |-> n, to |-> C]
    IN  /\ IF full THEN shedBacklog(r) ELSE UNCHANGED socket /\ reg' = r
        /\ queue' = IF full THEN <<item>> ELSE Append(queue, item)
        /\ backlog' = IF full THEN Cardinality(C) ELSE backlog + Cardinality(C)
        /\ pumping' = TRUE
        /\ UNCHANGED inbox

\* Mutant: small fan-outs overtake the queue.
inlineWhenSmall(C) == Cardinality(C) <= InlineMax

\* At once when small and nothing is queued, else in order through the queue.
inline(C) == queue = <<>> /\ Cardinality(C) <= InlineMax

fanOut(r, n, C) ==
    IF inline(C)
    THEN /\ \E behind \in SUBSET C : SendNow(r, n, C, behind)
         /\ UNCHANGED <<queue, backlog, pumping>>
    ELSE enqueue(r, n, C)

\* Who receives an event under these rules: once, however many topics match.
Audience(rules) ==
    LET passes(c, allowed) == currentAuth(c) \in allowed \cup Admins
    IN  {c \in reg.subs["record"] : passes(c, rules.view)}
          \cup {c \in reg.subs["wide"] : passes(c, rules.view \cap rules.list)}

\* Those whose auth it takes to tell; an expired one is noticed, and dropped.
Judged(rules) ==
    LET byId == reg.subs["record"]
    IN  IF rules.view # Auths THEN byId \cup reg.subs["wide"]
        ELSE IF rules.list # Auths THEN reg.subs["wide"] \ byId
        ELSE {}

broadcast(rules) ==
    LET judged == Judged(rules)
        to == Audience(rules)
    IN  /\ sent < MaxEvents
        /\ to # {}
        /\ sent' = sent + 1
        /\ fanOut(Forgotten(reg, Expired(judged)), sent + 1, to)
        /\ UNCHANGED <<token, asks, asked>>

\* One slice of the pump: the next delivery of the oldest event.
pump ==
    /\ pumping
    /\ queue # <<>>
    /\ \E c \in Head(queue).to :
         LET rest == Head(queue).to \ {c}
         IN  /\ queue' = IF rest = {} THEN Tail(queue)
                         ELSE [queue EXCEPT ![1].to = rest]
             /\ backlog' = backlog - 1
             /\ IF stillHere(reg, c)
                THEN \E behind \in SUBSET {c} : SendNow(reg, Head(queue).n, {c}, behind)
                ELSE UNCHANGED <<socket, reg, inbox>>
    /\ pumping' = (queue' # <<>>)
    /\ UNCHANGED <<token, asks, asked, sent>>

-----------------------------------------------------------------------------

RealtimeNext == \/ \E c \in Conns : \/ Open(c) \/ Hangup(c) \/ CloseHandler(c) \/ Recheck(c)
                                    \/ PostTopics(c)
                                    \/ \E t \in Topics : Subscribe(c, t) \/ Unsubscribe(c, t)
                                    \/ \E t \in Tokens : AskAuth(c, t) \/ PostStream(c, t)
                \/ \E t \in Tokens : Spoil(t)
                \/ \E ask \in asks : ApplyAuth(ask)
                \/ \E k \in reg.checks : ApplyRecheck(k)
                \/ closeConnections
                \/ \E rules \in Rules : broadcast(rules)
                \/ pump

RealtimeSpec == RealtimeInit /\ [][RealtimeNext]_realtimeVars

\* The re-verification timer goes on firing, and verifying a token ends.
Fairness == /\ WF_realtimeVars(\E ask \in asks : ApplyAuth(ask))
            /\ \A c \in Listeners :
                 /\ WF_realtimeVars(Recheck(c))
                 /\ WF_realtimeVars(\E k \in reg.checks : k[1] = c /\ ApplyRecheck(k))

FairSpec == RealtimeSpec /\ Fairness

-----------------------------------------------------------------------------

\* A connection gets its events in the order they were broadcast, and none
\* twice, whether they were sent at once or through the queue
\* (manager.ts:456-458).
InOrder == \A c \in Conns : \A i, j \in DOMAIN inbox[c] :
    i < j => inbox[c][i] < inbox[c][j]

\* What waits for a connection leaves the queue only by being sent to it, or
\* with the connection: a client never goes on after a gap, unless it had left
\* all its topics (manager.ts:458-462).
NothingSkipped ==
    [][\A c \in Conns : \A i \in WaitsFor(c) :
         LET n == queue[i].n
         IN  \/ \E j \in WaitsFor(c)' : queue'[j].n = n
             \/ \E j \in DOMAIN inbox'[c] : inbox'[c][j] = n
             \/ socket'[c] # "open"
             \/ reg.topics[c] = {}]_realtimeVars

\* A WebSocket that has left its topics is sent nothing more, whatever waited
\* for it (manager.ts:497).
NothingAfterLeaving ==
    [][\A c \in Sockets : inbox'[c] # inbox[c] => reg.topics[c] # {}]_realtimeVars

\* The two indexes agree, and a connection that is gone holds no topic and, if
\* it was a WebSocket, no auth, although its messages await (server.ts:284).
GoneHoldsNothing ==
    /\ \A c \in Conns, t \in Topics : c \in reg.subs[t] <=> t \in reg.topics[c]
    /\ \A c \in Conns \ reg.live : reg.topics[c] = {}
    /\ \A c \in Sockets \ reg.live : reg.auth[c] = Anonymous

\* A connection doesn't keep a token that was revoked (manager.ts:219-225).
RevokedForgotten == \A c \in Listeners, t \in Tokens :
    [](token[t] = "revoked" => <>(reg.auth[c] # t))

=============================================================================
