----------------------------- MODULE EventsProofs -----------------------------
(***************************************************************************)
(* What is told to others: the events a server sends to its connections,   *)
(* and the announcements that keep every server's collection cache true.   *)
(***************************************************************************)
EXTENDS Realtime, CollectionCache, SequenceTheorems, TLAPS

-----------------------------------------------------------------------------
(* Realtime, for any connections, tokens, rules and limits.  The registry  *)
(* stays in order whatever its operations are given; a connection that is  *)
(* open is in it; and what waits in the queue is newer than what its       *)
(* connection was sent.                                                    *)

RegistryShaped(r) ==
    /\ DOMAIN r = {"live", "byIp", "subs", "topics", "auth", "checks", "sse", "owner"}
    /\ r.live \subseteq Conns
    /\ r.subs \in [Topics -> SUBSET Conns]
    /\ r.topics \in [Conns -> SUBSET Topics]
    /\ r.auth \in [Conns -> Auths]
    /\ r.checks \subseteq Conns \X BOOLEAN
    /\ r.sse \subseteq Streams

IndexesAgree(r) == \A c \in Conns, t \in Topics : c \in r.subs[t] <=> t \in r.topics[c]

\* Those that are gone hold no topic, and the sockets among them no auth.
HeldByTheLive(r) == /\ r.sse \subseteq r.live
                    /\ \A c \in Conns \ r.live : r.topics[c] = {}
                    /\ \A c \in Sockets \ r.live : r.auth[c] = Anonymous

RegistryOK(r) == RegistryShaped(r) /\ IndexesAgree(r) /\ HeldByTheLive(r)

ConnsOK ==
    /\ socket \in [Conns -> {"new", "open", "closing", "closed"}]
    /\ \A s \in Streams : socket[s] # "closing"
    /\ \A c \in Conns : socket[c] = "open" => c \in reg.live
    /\ asks \subseteq [conn : Conns, auth : Auths, topics : SUBSET Topics]

\* The queue: an event, and the connections it has still to be sent to.
Items == [n : Nat, to : SUBSET Conns]

\* What is queued and what was sent, each in order, the latter before the former.
FanOK ==
    /\ sent \in Nat
    /\ queue \in Seq(Items)
    /\ inbox \in [Conns -> Seq(Nat)]
    /\ \A i \in DOMAIN queue : queue[i].n <= sent
    /\ \A i, j \in DOMAIN queue : i < j => queue[i].n < queue[j].n
    /\ \A c \in Conns : \A i \in DOMAIN inbox[c] : inbox[c][i] <= sent
    /\ \A c \in Conns : \A i, j \in DOMAIN inbox[c] : i < j => inbox[c][i] < inbox[c][j]
    /\ \A c \in Conns : \A i \in DOMAIN queue, j \in DOMAIN inbox[c] :
         c \in queue[i].to => inbox[c][j] < queue[i].n

RealtimeInv == RegistryOK(reg) /\ ConnsOK /\ FanOK

-----------------------------------------------------------------------------
(* The registry's operations. *)

\* What of a registry the fan-out looks at.
Alike(r, q) == q.live = r.live /\ q.topics = r.topics /\ q.sse = r.sse

LEMMA WithAuthKeeps ==
    ASSUME NEW r, RegistryOK(r), NEW c \in Conns, NEW a \in Auths,
           c \in r.live \/ c \in Streams \/ a = Anonymous
    PROVE  RegistryOK(WithAuth(r, c, a)) /\ Alike(r, WithAuth(r, c, a))
BY RealtimeAssumption DEF WithAuth, Alike, RegistryOK, RegistryShaped, IndexesAgree, HeldByTheLive, Conns

LEMMA ForgottenKeeps ==
    ASSUME NEW r, RegistryOK(r), NEW C
    PROVE  RegistryOK(Forgotten(r, C)) /\ Alike(r, Forgotten(r, C))
BY DEF Forgotten, Alike, RegistryOK, RegistryShaped, IndexesAgree, HeldByTheLive, Conns, Auths

LEMMA LeftAllKeeps ==
    ASSUME NEW r, RegistryOK(r), NEW C
    PROVE  /\ RegistryOK(LeftAll(r, C))
           /\ LeftAll(r, C).live = r.live
           /\ LeftAll(r, C).sse = r.sse
BY DEF LeftAll, RegistryOK, RegistryShaped, IndexesAgree, HeldByTheLive, Conns

LEMMA WithTopicKeeps ==
    ASSUME NEW r, RegistryOK(r), NEW c \in r.live, NEW t \in Topics
    PROVE  /\ RegistryOK(WithTopic(r, c, t))
           /\ WithTopic(r, c, t).live = r.live
           /\ WithTopic(r, c, t).sse = r.sse
BY DEF WithTopic, RegistryOK, RegistryShaped, IndexesAgree, HeldByTheLive, Conns

LEMMA WithTopicsKeeps ==
    ASSUME NEW r, RegistryOK(r), NEW c \in r.live, NEW T \in SUBSET Topics
    PROVE  RegistryOK(WithTopics(r, c, T)) /\ WithTopics(r, c, T).live = r.live
<1> DEFINE left == LeftAll(r, {c})
<1>1. RegistryOK(left) /\ left.live = r.live
  BY LeftAllKeeps
<1> HIDE DEF left
<1>2. CASE T = Topics
  <2>1. LET one == WithTopic(left, c, "record")
        IN  RegistryOK(one) /\ one.live = r.live
    BY <1>1, WithTopicKeeps DEF Topics
  <2> QED
    BY <1>2, <2>1, WithTopicKeeps DEF WithTopics, left, Topics
<1>3. CASE T # Topics /\ T = {}
  BY <1>1, <1>3 DEF WithTopics, left
<1>4. CASE T # Topics /\ T # {}
  BY <1>1, <1>4, WithTopicKeeps DEF WithTopics, left
<1> QED
  BY <1>2, <1>3, <1>4

LEMMA Disconnected ==
    ASSUME NEW r, RegistryOK(r), NEW C,
           NEW q, q = disconnectAll(r, C)
    PROVE  /\ DOMAIN q = {"live", "byIp", "subs", "topics", "auth", "checks", "sse", "owner"}
           /\ q.live = r.live \ C
           /\ q.subs = [t \in Topics |-> r.subs[t] \ C]
           /\ q.topics = [c \in Conns |-> IF c \in C THEN {} ELSE r.topics[c]]
           /\ q.auth = [c \in Conns |-> IF c \in C THEN Anonymous ELSE r.auth[c]]
           /\ q.checks = {k \in r.checks : k[1] \notin C}
           /\ q.sse = r.sse
BY DEF disconnectAll, LeftAll, Forgotten, Released, RegistryOK, RegistryShaped

LEMMA DisconnectedKeeps ==
    ASSUME NEW r, RegistryOK(r), NEW C, C \cap r.sse = {}
    PROVE  /\ RegistryOK(disconnectAll(r, C))
           /\ disconnectAll(r, C).live = r.live \ C
<1> DEFINE q == disconnectAll(r, C)
<1>1. /\ DOMAIN q = {"live", "byIp", "subs", "topics", "auth", "checks", "sse", "owner"}
      /\ q.live = r.live \ C
      /\ q.subs = [t \in Topics |-> r.subs[t] \ C]
      /\ q.topics = [c \in Conns |-> IF c \in C THEN {} ELSE r.topics[c]]
      /\ q.auth = [c \in Conns |-> IF c \in C THEN Anonymous ELSE r.auth[c]]
      /\ q.checks = {k \in r.checks : k[1] \notin C}
      /\ q.sse = r.sse
  BY Disconnected
<1> HIDE DEF q
<1>2. RegistryShaped(q)
  BY <1>1 DEF RegistryOK, RegistryShaped, Auths
<1>3. IndexesAgree(q)
  BY <1>1 DEF RegistryOK, RegistryShaped, IndexesAgree
<1>4. HeldByTheLive(q)
  BY <1>1 DEF RegistryOK, RegistryShaped, HeldByTheLive, Conns
<1> QED
  BY <1>1, <1>2, <1>3, <1>4 DEF RegistryOK, q

LEMMA UnregisterKeeps ==
    ASSUME NEW r, RegistryOK(r), NEW C
    PROVE  /\ RegistryOK(unregisterSSEClient(r, C))
           /\ unregisterSSEClient(r, C).live = r.live \ (C \cap r.sse)
<1> DEFINE known == C \cap r.sse
           d == disconnectAll(r, known)
           q == unregisterSSEClient(r, C)
<1>1. /\ DOMAIN d = {"live", "byIp", "subs", "topics", "auth", "checks", "sse", "owner"}
      /\ d.live = r.live \ known
      /\ d.subs = [t \in Topics |-> r.subs[t] \ known]
      /\ d.topics = [c \in Conns |-> IF c \in known THEN {} ELSE r.topics[c]]
      /\ d.auth = [c \in Conns |-> IF c \in known THEN Anonymous ELSE r.auth[c]]
      /\ d.checks = {k \in r.checks : k[1] \notin known}
      /\ d.sse = r.sse
  BY Disconnected
<1> HIDE DEF d
<1>2. /\ DOMAIN q = DOMAIN d
      /\ q.live = d.live /\ q.subs = d.subs /\ q.topics = d.topics
      /\ q.auth = d.auth /\ q.checks = d.checks
      /\ q.sse = r.sse \ known
  BY <1>1 DEF unregisterSSEClient, d
<1> HIDE DEF q, known
<1>3. RegistryShaped(q)
  BY <1>1, <1>2 DEF RegistryOK, RegistryShaped, Auths
<1>4. IndexesAgree(q)
  BY <1>1, <1>2 DEF RegistryOK, RegistryShaped, IndexesAgree
<1>5. HeldByTheLive(q)
  BY <1>1, <1>2 DEF RegistryOK, RegistryShaped, HeldByTheLive, Conns
<1> QED
  BY <1>1, <1>2, <1>3, <1>4, <1>5 DEF RegistryOK, q, known

-----------------------------------------------------------------------------
(* The connections. *)

LEMMA EndedKeeps ==
    ASSUME ConnsOK, NEW C
    PROVE  /\ Ended(C) \in [Conns -> {"new", "open", "closing", "closed"}]
           /\ \A s \in Streams : Ended(C)[s] # "closing"
           /\ \A c \in Conns : Ended(C)[c] = "open" <=> socket[c] = "open" /\ c \notin C
BY DEF ConnsOK, Ended, Conns

LEMMA OpenKeeps ==
    ASSUME RealtimeInv, NEW c \in Conns, Open(c)
    PROVE  RegistryOK(reg') /\ ConnsOK'
<1>1. CASE Full(IpOf[c])
  BY <1>1, RealtimeAssumption DEF Open, RealtimeInv, ConnsOK, Conns
<1>2. CASE ~Full(IpOf[c])
  <2>1. /\ socket' = [socket EXCEPT ![c] = "open"]
        /\ reg' = [Admitted(reg, c) EXCEPT !.sse = IF c \in Streams THEN @ \cup {c} ELSE @]
        /\ asks' = asks
    BY <1>2 DEF Open
  <2> DEFINE a == Admitted(reg, c)
  <2>2. /\ DOMAIN a = DOMAIN reg
        /\ a.live = reg.live \cup {c}
        /\ a.subs = reg.subs /\ a.topics = reg.topics /\ a.auth = reg.auth
        /\ a.checks = reg.checks /\ a.sse = reg.sse
    BY DEF Admitted, RealtimeInv, RegistryOK, RegistryShaped
  <2> HIDE DEF a
  <2>3. /\ DOMAIN reg' = DOMAIN reg
        /\ reg'.live = reg.live \cup {c}
        /\ reg'.subs = reg.subs /\ reg'.topics = reg.topics /\ reg'.auth = reg.auth
        /\ reg'.checks = reg.checks
        /\ reg'.sse = IF c \in Streams THEN reg.sse \cup {c} ELSE reg.sse
    BY <2>1, <2>2 DEF a, RealtimeInv, RegistryOK, RegistryShaped
  <2>4. RegistryOK(reg')
    BY <2>3 DEF RealtimeInv, RegistryOK, RegistryShaped, IndexesAgree, HeldByTheLive
  <2>5. ConnsOK'
    BY <2>1, <2>3 DEF RealtimeInv, ConnsOK, Conns
  <2> QED
    BY <2>4, <2>5
<1> QED
  BY <1>1, <1>2

LEMMA HangupKeeps ==
    ASSUME RealtimeInv, NEW c \in Conns, Hangup(c)
    PROVE  RegistryOK(reg') /\ ConnsOK'
<1>1. socket' = Ended({c}) /\ asks' = asks
  BY DEF Hangup
<1>2. RegistryOK(reg') /\ \A d \in reg.live \ {c} : d \in reg'.live
  BY UnregisterKeeps DEF RealtimeInv, Hangup
<1>3. ConnsOK'
  BY <1>1, <1>2, EndedKeeps DEF RealtimeInv, ConnsOK
<1> QED
  BY <1>2, <1>3

LEMMA CloseKeeps ==
    ASSUME RealtimeInv, NEW c \in Conns, CloseHandler(c)
    PROVE  RegistryOK(reg') /\ ConnsOK'
<1>1. /\ socket' = [socket EXCEPT ![c] = "closed"] /\ asks' = asks
      /\ reg' = disconnectAll(reg, {c})
  BY DEF CloseHandler
<1>2. {c} \cap reg.sse = {}
  BY DEF CloseHandler, RealtimeInv, ConnsOK, RegistryOK, RegistryShaped
<1>3. RegistryOK(reg') /\ reg'.live = reg.live \ {c}
  BY <1>1, <1>2, DisconnectedKeeps DEF RealtimeInv
<1>4. ConnsOK'
  BY <1>1, <1>3 DEF RealtimeInv, ConnsOK, Conns
<1> QED
  BY <1>3, <1>4

LEMMA MaintenanceKeeps ==
    ASSUME RealtimeInv, closeConnections
    PROVE  RegistryOK(reg') /\ ConnsOK'
<1> DEFINE closed == {c \in reg.live : currentAuth(c) \notin Admins}
           r == Forgotten(reg, Expired(reg.live))
<1>1. /\ socket' = Ended(closed) /\ asks' = asks
      /\ reg' = unregisterSSEClient(r, closed)
  BY DEF closeConnections
<1> HIDE DEF closed
<1>2. RegistryOK(r) /\ r.live = reg.live
  BY ForgottenKeeps DEF RealtimeInv, Alike
<1> HIDE DEF r
<1>3. RegistryOK(reg') /\ \A d \in reg.live \ closed : d \in reg'.live
  BY <1>1, <1>2, UnregisterKeeps
<1>4. ConnsOK'
  BY <1>1, <1>3, EndedKeeps DEF RealtimeInv, ConnsOK
<1> QED
  BY <1>3, <1>4

LEMMA SubscribeKeeps ==
    ASSUME RealtimeInv, NEW c \in Conns, NEW t \in Topics, Subscribe(c, t) \/ Unsubscribe(c, t)
    PROVE  RegistryOK(reg') /\ ConnsOK'
<1>1. UNCHANGED <<socket, asks>> /\ c \in reg.live
  BY DEF Subscribe, Unsubscribe, RealtimeInv, ConnsOK
<1>2. RegistryOK(reg') /\ reg'.live = reg.live
  <2>1. CASE Subscribe(c, t)
    BY <1>1, <2>1, WithTopicKeeps DEF Subscribe, RealtimeInv
  <2>2. CASE Unsubscribe(c, t)
    BY <1>1, <2>2 DEF Unsubscribe, RealtimeInv, RegistryOK, RegistryShaped, IndexesAgree, HeldByTheLive
  <2> QED
    BY <2>1, <2>2
<1> QED
  BY <1>1, <1>2 DEF RealtimeInv, ConnsOK

LEMMA AsksKeep ==
    ASSUME RealtimeInv, NEW c \in Conns, NEW t \in Tokens, AskAuth(c, t) \/ PostStream(c, t)
    PROVE  RegistryOK(reg') /\ ConnsOK'
<1>1. UNCHANGED <<socket, reg>>
  BY DEF AskAuth, PostStream
<1>2. PICK T \in SUBSET Topics :
        asks' = asks \cup {[conn |-> c, topics |-> T,
                            auth |-> IF Verifies(t) THEN t ELSE Anonymous]}
  BY DEF AskAuth, PostStream
<1> QED
  BY <1>1, <1>2 DEF RealtimeInv, ConnsOK, Auths

LEMMA TopicsPostedKeep ==
    ASSUME RealtimeInv, NEW c \in Conns, PostTopics(c)
    PROVE  RegistryOK(reg') /\ ConnsOK'
<1>1. c \in reg.live /\ UNCHANGED <<socket, asks>>
  BY DEF PostTopics, RealtimeInv, RegistryOK, HeldByTheLive
<1>2. PICK T \in SUBSET Topics : reg' = WithTopics(reg, c, T)
  BY DEF PostTopics
<1>3. RegistryOK(reg') /\ reg'.live = reg.live
  BY <1>1, <1>2, WithTopicsKeeps DEF RealtimeInv
<1> QED
  BY <1>1, <1>3 DEF RealtimeInv, ConnsOK

LEMMA AuthKeeps ==
    ASSUME RealtimeInv, NEW ask \in asks, ApplyAuth(ask)
    PROVE  RegistryOK(reg') /\ ConnsOK'
<1> DEFINE c == ask.conn
<1>1. c \in Conns /\ ask.auth \in Auths /\ ask.topics \in SUBSET Topics
  BY DEF RealtimeInv, ConnsOK
<1>2. UNCHANGED socket /\ asks' \subseteq asks
  BY DEF ApplyAuth
<1>3. RegistryOK(reg') /\ reg'.live = reg.live
  <2>1. CASE c \in Streams
    <3> DEFINE w == WithAuth(reg, c, ask.auth)
               owned == [w EXCEPT !.owner[c] = IF @ = Anonymous THEN ask.auth ELSE @]
    <3>1. RegistryOK(w) /\ Alike(reg, w)
      BY <1>1, <2>1, WithAuthKeeps DEF RealtimeInv
    <3> HIDE DEF w
    <3>2. RegistryOK(owned) /\ owned.live = reg.live
      BY <3>1 DEF RegistryOK, RegistryShaped, IndexesAgree, HeldByTheLive, Alike
    <3>3. reg' = IF c \in reg.sse THEN WithTopics(owned, c, ask.topics) ELSE owned
      BY <2>1 DEF ApplyAuth, StreamAuth, w
    <3> HIDE DEF owned
    <3>4. c \in reg.sse => c \in owned.live
      BY <3>2 DEF RealtimeInv, RegistryOK, HeldByTheLive
    <3> QED
      BY <1>1, <3>2, <3>3, <3>4, WithTopicsKeeps
  <2>2. CASE c \notin Streams
    BY <1>1, <2>2, WithAuthKeeps DEF ApplyAuth, SocketAuth, RealtimeInv, Alike
  <2> QED
    BY <2>1, <2>2
<1> QED
  BY <1>2, <1>3 DEF RealtimeInv, ConnsOK

LEMMA RechecksKeep ==
    ASSUME RealtimeInv,
           \/ \E c \in Conns : Recheck(c)
           \/ \E k \in reg.checks : ApplyRecheck(k)
    PROVE  RegistryOK(reg') /\ ConnsOK'
<1>1. UNCHANGED <<socket, asks>>
  BY DEF Recheck, ApplyRecheck
<1>2. RegistryOK(reg') /\ reg'.live = reg.live
  <2>1. ASSUME NEW c \in Conns, Recheck(c)
        PROVE  RegistryOK(reg') /\ reg'.live = reg.live
    <3>1. PICK b \in BOOLEAN : reg' = [reg EXCEPT !.checks = @ \cup {<<c, b>>}]
      BY <2>1 DEF Recheck, Verifies
    <3> QED
      BY <3>1 DEF RealtimeInv, RegistryOK, RegistryShaped, IndexesAgree, HeldByTheLive
  <2>2. ASSUME NEW k \in reg.checks, ApplyRecheck(k)
        PROVE  RegistryOK(reg') /\ reg'.live = reg.live
    <3>1. PICK a \in Auths : /\ a = IF k[2] THEN reg.auth[k[1]] ELSE Anonymous
                             /\ reg' = WithAuth(reg, k[1], a)
      BY <2>2 DEF ApplyRecheck, Rechecked, RealtimeInv, RegistryOK, RegistryShaped, Auths
    <3>2. k[1] \in Conns
      BY DEF RealtimeInv, RegistryOK, RegistryShaped
    <3>3. k[1] \in reg.live \/ k[1] \in Streams \/ a = Anonymous
      BY <3>1, <3>2 DEF RealtimeInv, RegistryOK, HeldByTheLive, Conns
    <3> QED
      BY <3>1, <3>2, <3>3, WithAuthKeeps DEF RealtimeInv, Alike
  <2> QED
    BY <2>1, <2>2
<1> QED
  BY <1>1, <1>2 DEF RealtimeInv, ConnsOK

-----------------------------------------------------------------------------
(* The fan-out. *)

\* An event that is sent: newer than all that its connections were sent.
LEMMA SentInOrder ==
    ASSUME FanOK, NEW n \in Nat, NEW C,
           inbox' = [c \in Conns |-> IF c \in C THEN Append(inbox[c], n) ELSE inbox[c]],
           sent' \in Nat, sent <= sent', n <= sent',
           \A c \in Conns \cap C : \A j \in DOMAIN inbox[c] : inbox[c][j] < n
    PROVE  /\ inbox' \in [Conns -> Seq(Nat)]
           /\ \A c \in Conns : \A i \in DOMAIN inbox'[c] : inbox'[c][i] <= sent'
           /\ \A c \in Conns : \A i, j \in DOMAIN inbox'[c] : i < j => inbox'[c][i] < inbox'[c][j]
           /\ \A c \in Conns \ C : inbox'[c] = inbox[c]
           /\ \A c \in Conns \cap C : \A j \in DOMAIN inbox'[c] : inbox'[c][j] <= n
<1>1. ASSUME NEW c \in Conns
      PROVE  /\ inbox'[c] \in Seq(Nat)
             /\ \A i \in DOMAIN inbox'[c] : inbox'[c][i] <= sent'
             /\ \A i, j \in DOMAIN inbox'[c] : i < j => inbox'[c][i] < inbox'[c][j]
             /\ c \in C => \A j \in DOMAIN inbox'[c] : inbox'[c][j] <= n
  <2> DEFINE was == inbox[c]
  <2>1. /\ was \in Seq(Nat)
        /\ \A i \in DOMAIN was : was[i] <= sent
        /\ \A i, j \in DOMAIN was : i < j => was[i] < was[j]
        /\ c \in C => \A j \in DOMAIN was : was[j] < n
        /\ sent \in Nat
    BY DEF FanOK
  <2>2. inbox'[c] = IF c \in C THEN Append(was, n) ELSE was
    OBVIOUS
  <2>3. CASE c \notin C
    BY <2>1, <2>2, <2>3
  <2>4. CASE c \in C
    <3> DEFINE s == Append(was, n)
    <3>1. /\ s \in Seq(Nat)
          /\ DOMAIN s = 1 .. Len(was) + 1
          /\ DOMAIN was = 1 .. Len(was)
          /\ Len(was) \in Nat
          /\ s[Len(was) + 1] = n
          /\ \A i \in DOMAIN was : s[i] = was[i]
      BY <2>1
    <3>2. inbox'[c] = s
      BY <2>2, <2>4
    <3> HIDE DEF s, was
    <3>3. \A i \in DOMAIN s : i \in DOMAIN was \/ i = Len(was) + 1
      BY <3>1
    <3>4. \A i \in DOMAIN was : was[i] \in Nat
      BY <2>1
    <3>5. \A i \in DOMAIN s : s[i] <= sent' /\ s[i] <= n
      BY <2>1, <2>4, <3>1, <3>3, <3>4
    <3>6. ASSUME NEW i \in DOMAIN s, NEW j \in DOMAIN s, i < j
          PROVE  s[i] < s[j]
      <4>1. i \in DOMAIN was
        BY <3>1, <3>3, <3>6
      <4>2. CASE j \in DOMAIN was
        BY <2>1, <3>1, <3>6, <4>1, <4>2
      <4>3. CASE j = Len(was) + 1
        BY <2>1, <2>4, <3>1, <4>1, <4>3
      <4> QED
        BY <3>3, <4>2, <4>3
    <3> QED
      BY <3>1, <3>2, <3>5, <3>6
  <2> QED
    BY <2>3, <2>4
<1>2. inbox' \in [Conns -> Seq(Nat)]
  BY <1>1
<1> QED
  BY <1>1, <1>2

LEMMA SendKeeps ==
    ASSUME ConnsOK, NEW r, RegistryOK(r), r.live = reg.live, UNCHANGED asks,
           NEW n, NEW C, NEW behind \in SUBSET C, SendNow(r, n, C, behind)
    PROVE  RegistryOK(reg') /\ ConnsOK'
<1> DEFINE u == unregisterSSEClient(r, behind)
<1>1. RegistryOK(u) /\ \A d \in r.live \ behind : d \in u.live
  BY UnregisterKeeps
<1>2. socket' = Ended(behind) /\ reg' = LeftAll(u, behind)
  BY DEF SendNow
<1> HIDE DEF u
<1>3. RegistryOK(reg') /\ reg'.live = u.live
  BY <1>1, <1>2, LeftAllKeeps
<1>4. ConnsOK'
  BY <1>1, <1>2, <1>3, EndedKeeps DEF ConnsOK
<1> QED
  BY <1>3, <1>4

LEMMA ShedKeeps ==
    ASSUME ConnsOK, NEW r, RegistryOK(r), r.live = reg.live, UNCHANGED asks, shedBacklog(r)
    PROVE  RegistryOK(reg') /\ ConnsOK'
<1> DEFINE waiting == {c \in Conns : WaitsFor(c) # {}}
           cut == {c \in waiting : stillHere(r, c)}
           u == unregisterSSEClient(r, cut)
<1>1. socket' = Ended(cut) /\ reg' = LeftAll(u, waiting)
  BY DEF shedBacklog
<1> HIDE DEF waiting, cut
<1>2. RegistryOK(u) /\ \A d \in r.live \ cut : d \in u.live
  BY UnregisterKeeps
<1> HIDE DEF u
<1>3. RegistryOK(reg') /\ reg'.live = u.live
  BY <1>1, <1>2, LeftAllKeeps
<1>4. ConnsOK'
  BY <1>1, <1>2, <1>3, EndedKeeps DEF ConnsOK
<1> QED
  BY <1>3, <1>4

\* Those an event is for are connected, and listen.
LEMMA AudienceListens ==
    ASSUME RegistryOK(reg), NEW rules
    PROVE  /\ Audience(rules) \subseteq Conns
           /\ \A c \in Audience(rules) : reg.topics[c] # {}
BY DEF Audience, RegistryOK, RegistryShaped, IndexesAgree, Topics

\* What a broadcast does: send at once, queue, or shed what is queued and queue.
LEMMA Broadcasts ==
    ASSUME RealtimeInv, NEW rules \in Rules, broadcast(rules)
    PROVE  LET to == Audience(rules)
           IN  \E r : /\ RegistryOK(r) /\ Alike(reg, r)
                      /\ sent' = sent + 1 /\ UNCHANGED asks
                      /\ \/ /\ queue = <<>> /\ UNCHANGED queue
                            /\ \E behind \in SUBSET to : SendNow(r, sent + 1, to, behind)
                         \/ /\ shedBacklog(r) /\ queue' = <<[n |-> sent + 1, to |-> to]>>
                            /\ UNCHANGED inbox
                         \/ /\ UNCHANGED socket /\ reg' = r
                            /\ queue' = Append(queue, [n |-> sent + 1, to |-> to])
                            /\ UNCHANGED inbox
<1> DEFINE to == Audience(rules)
           r == Forgotten(reg, Expired(Judged(rules)))
<1>1. RegistryOK(r) /\ Alike(reg, r)
  BY ForgottenKeeps DEF RealtimeInv
<1>2. sent' = sent + 1 /\ UNCHANGED asks /\ fanOut(r, sent + 1, to)
  BY DEF broadcast
<1> HIDE DEF r
<1>3. CASE inline(to)
  BY <1>1, <1>2, <1>3 DEF fanOut, inline
<1>4. CASE ~inline(to)
  <2>1. enqueue(r, sent + 1, to)
    BY <1>2, <1>4 DEF fanOut
  <2>2. CASE backlog + Cardinality(to) > MaxBacklog
    BY <1>1, <1>2, <2>1, <2>2 DEF enqueue
  <2>3. CASE ~(backlog + Cardinality(to) > MaxBacklog)
    BY <1>1, <1>2, <2>1, <2>3 DEF enqueue
  <2> QED
    BY <2>2, <2>3
<1> QED
  BY <1>3, <1>4

LEMMA BroadcastKeeps ==
    ASSUME RealtimeInv, NEW rules \in Rules, broadcast(rules)
    PROVE  RealtimeInv'
<1> DEFINE to == Audience(rules)
           item == [n |-> sent + 1, to |-> to]
<1>1. PICK r : /\ RegistryOK(r) /\ Alike(reg, r)
               /\ sent' = sent + 1 /\ UNCHANGED asks
               /\ \/ /\ queue = <<>> /\ UNCHANGED queue
                     /\ \E behind \in SUBSET to : SendNow(r, sent + 1, to, behind)
                  \/ /\ shedBacklog(r) /\ queue' = <<item>>
                     /\ UNCHANGED inbox
                  \/ /\ UNCHANGED socket /\ reg' = r
                     /\ queue' = Append(queue, item)
                     /\ UNCHANGED inbox
  BY Broadcasts
<1>2. item \in Items /\ item.n = sent + 1
  BY AudienceListens DEF RealtimeInv, FanOK, Items
<1>3. FanOK /\ ConnsOK /\ sent \in Nat /\ sent' \in Nat /\ sent <= sent' /\ sent + 1 <= sent'
  BY <1>1 DEF RealtimeInv, FanOK
<1> HIDE DEF item, to
<1>4. CASE queue = <<>> /\ UNCHANGED queue /\ \E behind \in SUBSET to : SendNow(r, sent + 1, to, behind)
  <2>1. PICK behind \in SUBSET to : SendNow(r, sent + 1, to, behind)
    BY <1>4
  <2>2. RegistryOK(reg') /\ ConnsOK'
    BY <1>1, <1>3, <2>1, SendKeeps DEF Alike
  <2> DEFINE C == {c \in to \ behind : socket[c] = "open"}
             n == sent + 1
  <2>3. inbox' = [c \in Conns |-> IF c \in C THEN Append(inbox[c], n) ELSE inbox[c]]
    BY <2>1 DEF SendNow
  <2> HIDE DEF C
  <2>4. \A c \in Conns \cap C : \A j \in DOMAIN inbox[c] : inbox[c][j] < n
    BY DEF RealtimeInv, FanOK
  <2>5. n \in Nat
    BY <1>3
  <2> HIDE DEF n
  <2>6. /\ inbox' \in [Conns -> Seq(Nat)]
        /\ \A c \in Conns : \A i \in DOMAIN inbox'[c] : inbox'[c][i] <= sent'
        /\ \A c \in Conns : \A i, j \in DOMAIN inbox'[c] : i < j => inbox'[c][i] < inbox'[c][j]
    <3>1. n <= sent'
      BY <1>3 DEF n
    <3> QED
      BY <1>3, <2>3, <2>4, <2>5, <3>1, SentInOrder
  <2>7. queue' \in Seq(Items) /\ DOMAIN queue' = {}
    BY <1>3, <1>4 DEF FanOK
  <2>8. FanOK'
    BY <1>3, <2>6, <2>7 DEF FanOK
  <2> QED
    BY <2>2, <2>8 DEF RealtimeInv
<1>5. CASE shedBacklog(r) /\ queue' = <<item>> /\ UNCHANGED inbox
  <2>1. RegistryOK(reg') /\ ConnsOK'
    BY <1>1, <1>3, <1>5, ShedKeeps DEF Alike
  <2>2. /\ queue' \in Seq(Items)
        /\ DOMAIN queue' = {1} /\ queue'[1].n = sent + 1
    BY <1>2, <1>5
  <2>3. \A c \in Conns : \A j \in DOMAIN inbox[c] : inbox[c][j] \in Nat /\ inbox[c][j] <= sent
    BY <1>3 DEF FanOK
  <2>4. FanOK'
    BY <1>1, <1>3, <1>5, <2>2, <2>3 DEF FanOK
  <2> QED
    BY <2>1, <2>4 DEF RealtimeInv
<1>6. CASE UNCHANGED socket /\ reg' = r /\ queue' = Append(queue, item) /\ UNCHANGED inbox
  <2>1. RegistryOK(reg') /\ ConnsOK'
    BY <1>1, <1>3, <1>6 DEF Alike, ConnsOK
  <2>2. /\ queue' \in Seq(Items)
        /\ DOMAIN queue' = 1 .. Len(queue) + 1 /\ DOMAIN queue = 1 .. Len(queue)
        /\ Len(queue) \in Nat
        /\ queue'[Len(queue) + 1] = item
        /\ \A i \in DOMAIN queue : queue'[i] = queue[i] /\ queue[i].n \in Nat
    <3>1. queue \in Seq(Items)
      BY <1>3 DEF FanOK
    <3>2. \A i \in DOMAIN queue : queue[i] \in Items
      BY <3>1
    <3> QED
      BY <1>2, <1>6, <3>1, <3>2, AppendProperties, LenProperties DEF Items
  <2>3. \A c \in Conns : \A j \in DOMAIN inbox[c] : inbox[c][j] \in Nat /\ inbox[c][j] <= sent
    BY <1>3 DEF FanOK
  <2>4. ASSUME NEW i \in DOMAIN queue'
        PROVE  /\ queue'[i].n \in Nat /\ queue'[i].n <= sent'
               /\ \A j \in DOMAIN queue' : j < i => queue'[j].n < queue'[i].n
               /\ \A c \in Conns : \A j \in DOMAIN inbox[c] :
                    c \in queue'[i].to => inbox[c][j] < queue'[i].n
    <3>1. CASE i \in DOMAIN queue
      <4>1. \A j \in DOMAIN queue' : j < i => j \in DOMAIN queue
        BY <2>2, <3>1
      <4> QED
        BY <1>3, <2>2, <3>1, <4>1 DEF FanOK
    <3>2. CASE i = Len(queue) + 1
      BY <1>1, <1>2, <1>3, <2>2, <2>3, <3>2 DEF FanOK
    <3> QED
      BY <2>2, <3>1, <3>2
  <2>5. FanOK'
    BY <1>3, <1>6, <2>2, <2>3, <2>4 DEF FanOK
  <2> QED
    BY <2>1, <2>5 DEF RealtimeInv
<1> QED
  BY <1>1, <1>4, <1>5, <1>6

\* The pump: the head's next connection is taken from it, and nothing else.
LEMMA PumpTakes ==
    ASSUME FanOK, queue # <<>>, NEW c \in Head(queue).to,
           queue' = IF Head(queue).to \ {c} = {} THEN Tail(queue)
                    ELSE [queue EXCEPT ![1].to = Head(queue).to \ {c}]
    PROVE  \E gone \in {0, 1} :
             /\ queue' \in Seq(Items)
             /\ \A i \in Nat : i \in DOMAIN queue' <=> i # 0 /\ i + gone \in DOMAIN queue
             /\ \A i \in DOMAIN queue' :
                  /\ queue'[i].n = queue[i + gone].n
                  /\ i + gone = 1 => queue'[i].to = queue[1].to \ {c}
                  /\ i + gone # 1 => queue'[i].to = queue[i + gone].to
             /\ gone = 1 => queue[1].to = {c}
<1> DEFINE rest == Head(queue).to \ {c}
<1>1. /\ queue \in Seq(Items) /\ Len(queue) \in Nat \ {0} /\ DOMAIN queue = 1 .. Len(queue)
      /\ Head(queue) = queue[1] /\ queue[1] \in Items
  BY EmptySeq, HeadTailProperties, LenProperties DEF FanOK
<1>2. CASE rest = {}
  <2>1. /\ Tail(queue) \in Seq(Items)
        /\ DOMAIN Tail(queue) = 1 .. Len(queue) - 1
        /\ \A i \in DOMAIN Tail(queue) : Tail(queue)[i] = queue[i + 1]
    BY <1>1
  <2>2. queue[1].to = {c}
    BY <1>1, <1>2
  <2> QED
    BY <1>1, <1>2, <2>1, <2>2
<1>3. CASE rest # {}
  <2>1. queue' = [queue EXCEPT ![1] = [queue[1] EXCEPT !.to = rest]]
    BY <1>3
  <2>2. [queue[1] EXCEPT !.to = rest] \in Items
    BY <1>1 DEF Items
  <2>3. queue' \in Seq(Items) /\ DOMAIN queue' = DOMAIN queue
    BY <1>1, <2>1, <2>2, ExceptSeq, LenProperties
  <2>4. /\ queue'[1].n = queue[1].n /\ queue'[1].to = rest
        /\ \A i \in DOMAIN queue : i # 1 => queue'[i] = queue[i]
    BY <1>1, <2>1 DEF Items
  <2> QED
    BY <1>1, <2>3, <2>4
<1> QED
  BY <1>2, <1>3

LEMMA PumpKeeps ==
    ASSUME RealtimeInv, pump
    PROVE  RealtimeInv'
<1> DEFINE n == Head(queue).n
<1>1. queue # <<>> /\ UNCHANGED <<sent, asks>>
  BY DEF pump
<1>2. PICK c \in Head(queue).to :
        /\ queue' = IF Head(queue).to \ {c} = {} THEN Tail(queue)
                    ELSE [queue EXCEPT ![1].to = Head(queue).to \ {c}]
        /\ IF stillHere(reg, c)
           THEN \E behind \in SUBSET {c} : SendNow(reg, n, {c}, behind)
           ELSE UNCHANGED <<socket, reg, inbox>>
  BY DEF pump
<1>3. FanOK /\ ConnsOK /\ RegistryOK(reg) /\ sent \in Nat
  BY DEF RealtimeInv, FanOK
<1>4. /\ queue \in Seq(Items) /\ 1 \in DOMAIN queue /\ n = queue[1].n
      /\ n \in Nat /\ n <= sent
      /\ \A i \in DOMAIN queue : i \in Nat /\ queue[i].n \in Nat
      /\ \A i \in DOMAIN queue : i # 1 => n < queue[i].n
      /\ c \in Conns
  <2>1. /\ queue \in Seq(Items) /\ DOMAIN queue = 1 .. Len(queue) /\ Len(queue) \in Nat \ {0}
        /\ Head(queue) = queue[1]
        /\ \A i \in DOMAIN queue : queue[i] \in Items
    BY <1>1, <1>3, EmptySeq, LenProperties DEF FanOK
  <2>2. 1 \in DOMAIN queue /\ \A i \in DOMAIN queue : i # 1 => 1 < i
    BY <2>1
  <2> QED
    BY <1>3, <2>1, <2>2 DEF FanOK, Items
<1> HIDE DEF n
<1>5. PICK gone \in {0, 1} :
        /\ queue' \in Seq(Items)
        /\ \A i \in Nat : i \in DOMAIN queue' <=> i # 0 /\ i + gone \in DOMAIN queue
        /\ \A i \in DOMAIN queue' :
             /\ queue'[i].n = queue[i + gone].n
             /\ i + gone = 1 => queue'[i].to = queue[1].to \ {c}
             /\ i + gone # 1 => queue'[i].to = queue[i + gone].to
        /\ gone = 1 => queue[1].to = {c}
  <2>1. queue' = IF Head(queue).to \ {c} = {} THEN Tail(queue)
                 ELSE [queue EXCEPT ![1].to = Head(queue).to \ {c}]
    BY <1>2
  <2> QED
    BY <1>1, <1>3, <2>1, PumpTakes
<1>6. \A i \in DOMAIN queue' : i \in Nat /\ i + gone \in DOMAIN queue
  <2>1. \A i \in DOMAIN queue' : i \in Nat /\ i # 0
    BY <1>5, LenProperties
  <2> QED
    BY <1>5, <2>1
<1>7. \E C \in SUBSET {c} :
        inbox' = [d \in Conns |-> IF d \in C THEN Append(inbox[d], n) ELSE inbox[d]]
  <2>1. CASE stillHere(reg, c)
    <3>1. PICK behind \in SUBSET {c} : SendNow(reg, n, {c}, behind)
      BY <1>2, <2>1
    <3> DEFINE C == {d \in {c} \ behind : socket[d] = "open"}
    <3>2. inbox' = [d \in Conns |-> IF d \in C THEN Append(inbox[d], n) ELSE inbox[d]]
      BY <3>1 DEF SendNow
    <3> HIDE DEF C
    <3>3. C \in SUBSET {c}
      BY DEF C
    <3> QED
      BY <3>2, <3>3
  <2>2. CASE ~stillHere(reg, c)
    <3>1. inbox' = inbox
      BY <1>2, <2>2
    <3> DEFINE C == {}
    <3>2. inbox = [d \in Conns |-> inbox[d]]
      BY <1>3 DEF FanOK
    <3>3. inbox' = [d \in Conns |-> IF d \in C THEN Append(inbox[d], n) ELSE inbox[d]]
      BY <3>1, <3>2
    <3>4. C \in SUBSET {c}
      OBVIOUS
    <3> HIDE DEF C
    <3> QED
      BY <3>3, <3>4
  <2> QED
    BY <2>1, <2>2
<1>8. PICK C \in SUBSET {c} :
        inbox' = [d \in Conns |-> IF d \in C THEN Append(inbox[d], n) ELSE inbox[d]]
  BY <1>7
<1>9. /\ inbox' \in [Conns -> Seq(Nat)]
      /\ \A d \in Conns : \A i \in DOMAIN inbox'[d] : inbox'[d][i] <= sent'
      /\ \A d \in Conns : \A i, j \in DOMAIN inbox'[d] : i < j => inbox'[d][i] < inbox'[d][j]
      /\ \A d \in Conns \ C : inbox'[d] = inbox[d]
      /\ \A d \in Conns \cap C : \A j \in DOMAIN inbox'[d] : inbox'[d][j] <= n
  <2>1. CASE C = {}
    <3>1. sent' \in Nat /\ sent <= sent' /\ n <= sent'
      BY <1>1, <1>3, <1>4
    <3>2. \A d \in Conns \cap C : \A j \in DOMAIN inbox[d] : inbox[d][j] < n
      BY <2>1
    <3> QED
      BY <1>3, <1>4, <1>8, <3>1, <3>2, SentInOrder
  <2>2. CASE C # {}
    <3>1. sent' \in Nat /\ sent <= sent' /\ n <= sent'
      BY <1>1, <1>3, <1>4
    <3>2. c \in queue[1].to
      BY <1>1, <1>3, EmptySeq, HeadTailProperties DEF FanOK
    <3>3. \A d \in Conns \cap C : \A j \in DOMAIN inbox[d] : inbox[d][j] < n
      BY <1>3, <1>4, <3>2 DEF FanOK
    <3> QED
      BY <1>3, <1>4, <1>8, <3>1, <3>3, SentInOrder
  <2> QED
    BY <2>1, <2>2
<1>10. ASSUME NEW i \in DOMAIN queue'
       PROVE  /\ queue'[i].n <= sent'
              /\ \A j \in DOMAIN queue' : i < j => queue'[i].n < queue'[j].n
              /\ \A d \in Conns : \A j \in DOMAIN inbox'[d] :
                   d \in queue'[i].to => inbox'[d][j] < queue'[i].n
  <2>1. queue'[i].n <= sent'
    BY <1>1, <1>3, <1>5, <1>6 DEF FanOK
  <2>2. ASSUME NEW j \in DOMAIN queue', i < j
        PROVE  queue'[i].n < queue'[j].n
    <3>1. i + gone < j + gone
      BY <1>5, <1>6, <2>2
    <3> QED
      BY <1>3, <1>5, <1>6, <3>1 DEF FanOK
  <2>3. ASSUME NEW d \in Conns, NEW j \in DOMAIN inbox'[d], d \in queue'[i].to
        PROVE  inbox'[d][j] < queue'[i].n
    <3>1. d \in queue[i + gone].to /\ queue'[i].n = queue[i + gone].n
      BY <1>5, <2>3
    <3>2. CASE d \in C
      <4>1. i + gone # 1
        BY <1>5, <2>3, <3>2
      <4>2. n < queue[i + gone].n /\ queue[i + gone].n \in Nat
        BY <1>4, <1>6, <4>1
      <4>3. inbox'[d][j] \in Nat
        BY <1>9
      <4> QED
        BY <1>4, <1>9, <3>1, <3>2, <4>2, <4>3
    <3>3. CASE d \notin C
      BY <1>3, <1>6, <1>9, <3>1, <3>3 DEF FanOK
    <3> QED
      BY <3>2, <3>3
  <2> QED
    BY <2>1, <2>2, <2>3
<1>11. FanOK'
  BY <1>1, <1>3, <1>5, <1>9, <1>10 DEF FanOK
<1>12. RegistryOK(reg') /\ ConnsOK'
  <2>1. CASE stillHere(reg, c)
    BY <1>1, <1>2, <1>3, <2>1, SendKeeps
  <2>2. CASE ~stillHere(reg, c)
    BY <1>1, <1>2, <1>3, <2>2 DEF ConnsOK
  <2> QED
    BY <2>1, <2>2
<1> QED
  BY <1>11, <1>12 DEF RealtimeInv

-----------------------------------------------------------------------------

LEMMA RealtimeStarts ==
    ASSUME RealtimeInit
    PROVE  RealtimeInv
<1>1. RegistryOK(reg)
  BY DEF RealtimeInit, RegistryOK, RegistryShaped, IndexesAgree, HeldByTheLive, Conns, Auths
<1>2. ConnsOK
  BY DEF RealtimeInit, ConnsOK, Conns
<1>3. FanOK
  <2>1. queue \in Seq(Items) /\ DOMAIN queue = {}
    BY EmptySeq DEF RealtimeInit
  <2>2. inbox \in [Conns -> Seq(Nat)] /\ \A c \in Conns : DOMAIN inbox[c] = {}
    BY EmptySeq DEF RealtimeInit
  <2> QED
    BY <2>1, <2>2 DEF RealtimeInit, FanOK
<1> QED
  BY <1>1, <1>2, <1>3 DEF RealtimeInv

\* What leaves the fan-out alone, and what does nothing.
LEMMA RealtimeSteps ==
    ASSUME RealtimeInv, [RealtimeNext]_realtimeVars
    PROVE  RealtimeInv'
<1>1. ASSUME UNCHANGED fan, RegistryOK(reg') /\ ConnsOK'
      PROVE  RealtimeInv'
  BY <1>1 DEF fan, RealtimeInv, FanOK
<1>2. ASSUME NEW c \in Conns, Open(c) \/ Hangup(c) \/ CloseHandler(c) \/ Recheck(c) \/ PostTopics(c)
      PROVE  RealtimeInv'
  <2>1. UNCHANGED fan
    BY <1>2 DEF Open, Hangup, CloseHandler, Recheck, PostTopics
  <2> QED
    BY <1>1, <1>2, <2>1, OpenKeeps, HangupKeeps, CloseKeeps, RechecksKeep, TopicsPostedKeep
<1>3. ASSUME NEW c \in Conns, NEW t \in Topics, Subscribe(c, t) \/ Unsubscribe(c, t)
      PROVE  RealtimeInv'
  <2>1. UNCHANGED fan
    BY <1>3 DEF Subscribe, Unsubscribe
  <2> QED
    BY <1>1, <1>3, <2>1, SubscribeKeeps
<1>4. ASSUME NEW c \in Conns, NEW t \in Tokens, AskAuth(c, t) \/ PostStream(c, t)
      PROVE  RealtimeInv'
  <2>1. UNCHANGED fan
    BY <1>4 DEF AskAuth, PostStream
  <2> QED
    BY <1>1, <1>4, <2>1, AsksKeep
<1>5. ASSUME NEW t \in Tokens, Spoil(t)
      PROVE  RealtimeInv'
  BY <1>1, <1>5 DEF Spoil, RealtimeInv, ConnsOK
<1>6. ASSUME NEW ask \in asks, ApplyAuth(ask)
      PROVE  RealtimeInv'
  <2>1. UNCHANGED fan
    BY <1>6 DEF ApplyAuth
  <2> QED
    BY <1>1, <1>6, <2>1, AuthKeeps
<1>7. ASSUME NEW k \in reg.checks, ApplyRecheck(k)
      PROVE  RealtimeInv'
  <2>1. UNCHANGED fan
    BY <1>7 DEF ApplyRecheck
  <2> QED
    BY <1>1, <1>7, <2>1, RechecksKeep
<1>8. ASSUME closeConnections
      PROVE  RealtimeInv'
  <2>1. UNCHANGED fan
    BY <1>8 DEF closeConnections
  <2> QED
    BY <1>1, <1>8, <2>1, MaintenanceKeeps
<1>9. ASSUME UNCHANGED realtimeVars
      PROVE  RealtimeInv'
  BY <1>9 DEF realtimeVars, fan, RealtimeInv, ConnsOK, FanOK
<1> QED
  BY <1>2, <1>3, <1>4, <1>5, <1>6, <1>7, <1>8, <1>9, BroadcastKeeps, PumpKeeps DEF RealtimeNext

LEMMA RealtimeHolds == RealtimeSpec => []RealtimeInv
<1>1. RealtimeInit => RealtimeInv
  BY RealtimeStarts
<1>2. RealtimeInv /\ [RealtimeNext]_realtimeVars => RealtimeInv'
  BY RealtimeSteps
<1> QED
  BY <1>1, <1>2, PTL DEF RealtimeSpec

\* For any connections, tokens and limits, a connection gets its events in the
\* order they were broadcast, and none twice (manager.ts, fanOut and pump).
THEOREM EventsInOrder == RealtimeSpec => []InOrder
<1>1. RealtimeInv => InOrder
  BY DEF RealtimeInv, FanOK, InOrder
<1> QED
  BY <1>1, RealtimeHolds, PTL

\* The two indexes of the registry agree, and connections that are gone hold no
\* topic and, if sockets, no auth (manager.ts and the handlers of server.ts).
THEOREM NothingHeldForTheGone == RealtimeSpec => []GoneHoldsNothing
<1>1. RealtimeInv => GoneHoldsNothing
  BY DEF RealtimeInv, RegistryOK, IndexesAgree, HeldByTheLive, GoneHoldsNothing
<1> QED
  BY <1>1, RealtimeHolds, PTL

\* Only a broadcast and the pump touch the queue and what was sent.
LEMMA OthersLeaveTheFanOut ==
    ASSUME [RealtimeNext]_realtimeVars,
           \A rules \in Rules : ~broadcast(rules), ~pump
    PROVE  UNCHANGED <<queue, inbox>>
<1>1. ASSUME NEW c \in Conns, Open(c) \/ Hangup(c) \/ CloseHandler(c) \/ Recheck(c) \/ PostTopics(c)
      PROVE  UNCHANGED fan
  BY <1>1 DEF Open, Hangup, CloseHandler, Recheck, PostTopics
<1>2. ASSUME NEW c \in Conns, NEW t \in Topics, Subscribe(c, t) \/ Unsubscribe(c, t)
      PROVE  UNCHANGED fan
  BY <1>2 DEF Subscribe, Unsubscribe
<1>3. ASSUME NEW c \in Conns, NEW t \in Tokens, AskAuth(c, t) \/ PostStream(c, t)
      PROVE  UNCHANGED fan
  BY <1>3 DEF AskAuth, PostStream
<1>4. ASSUME NEW t \in Tokens, Spoil(t)
      PROVE  UNCHANGED fan
  BY <1>4 DEF Spoil
<1>5. ASSUME NEW ask \in asks, ApplyAuth(ask)
      PROVE  UNCHANGED fan
  BY <1>5 DEF ApplyAuth
<1>6. ASSUME NEW k \in reg.checks, ApplyRecheck(k)
      PROVE  UNCHANGED fan
  BY <1>6 DEF ApplyRecheck
<1>7. ASSUME closeConnections \/ UNCHANGED realtimeVars
      PROVE  UNCHANGED fan
  BY <1>7 DEF closeConnections, realtimeVars
<1>8. UNCHANGED fan
  BY <1>1, <1>2, <1>3, <1>4, <1>5, <1>6, <1>7 DEF RealtimeNext
<1> QED
  BY <1>8 DEF fan

LEMMA SentAtOnce ==
    ASSUME RealtimeInv, NEW rules \in Rules, broadcast(rules), inbox' # inbox
    PROVE  \E r : \E behind \in SUBSET Audience(rules) : SendNow(r, sent + 1, Audience(rules), behind)
<1>1. PICK r : /\ RegistryOK(r) /\ Alike(reg, r)
               /\ sent' = sent + 1 /\ UNCHANGED asks
               /\ LET to == Audience(rules)
                  IN  \/ /\ queue = <<>> /\ UNCHANGED queue
                         /\ \E behind \in SUBSET to : SendNow(r, sent + 1, to, behind)
                      \/ /\ shedBacklog(r) /\ queue' = <<[n |-> sent + 1, to |-> to]>>
                         /\ UNCHANGED inbox
                      \/ /\ UNCHANGED socket /\ reg' = r
                         /\ queue' = Append(queue, [n |-> sent + 1, to |-> to])
                         /\ UNCHANGED inbox
  BY Broadcasts
<1> QED
  BY <1>1

LEMMA LeftAreSentNothing ==
    ASSUME RealtimeInv, [RealtimeNext]_realtimeVars,
           NEW c \in Sockets, inbox'[c] # inbox[c]
    PROVE  reg.topics[c] # {}
<1>1. RegistryOK(reg) /\ c \notin reg.sse /\ c \in Conns
  BY RealtimeAssumption DEF RealtimeInv, RegistryOK, RegistryShaped, Conns
<1>2. ASSUME NEW rules \in Rules, broadcast(rules)
      PROVE  reg.topics[c] # {}
  <2>1. inbox' # inbox
    OBVIOUS
  <2>2. PICK r : \E behind \in SUBSET Audience(rules) : SendNow(r, sent + 1, Audience(rules), behind)
    BY <1>2, <2>1, SentAtOnce
  <2>3. c \in Audience(rules)
    <3>1. PICK behind \in SUBSET Audience(rules) : SendNow(r, sent + 1, Audience(rules), behind)
      BY <2>2
    <3> QED
      BY <1>1, <3>1 DEF SendNow
  <2> QED
    BY <1>1, <2>3, AudienceListens
<1>3. ASSUME pump
      PROVE  reg.topics[c] # {}
  <2>1. PICK d \in Head(queue).to :
          IF stillHere(reg, d)
          THEN \E behind \in SUBSET {d} : SendNow(reg, Head(queue).n, {d}, behind)
          ELSE UNCHANGED <<socket, reg, inbox>>
    BY <1>3 DEF pump
  <2>2. d = c /\ stillHere(reg, d)
    BY <1>1, <2>1 DEF SendNow
  <2> QED
    BY <1>1, <2>2 DEF stillHere
<1> QED
  BY <1>2, <1>3, OthersLeaveTheFanOut

\* A WebSocket that has left its topics is sent nothing more, whatever waited
\* for it in the queue (manager.ts, stillHere).
THEOREM LeavingIsObeyed == RealtimeSpec => NothingAfterLeaving
<1>1. RealtimeInv /\ [RealtimeNext]_realtimeVars =>
        [\A c \in Sockets : inbox'[c] # inbox[c] => reg.topics[c] # {}]_realtimeVars
  BY LeftAreSentNothing
<1> QED
  BY <1>1, RealtimeHolds, PTL DEF RealtimeSpec, NothingAfterLeaving

\* What was queued, and what becomes of it.
LEMMA QueuedGoesOut ==
    ASSUME RealtimeInv, [RealtimeNext]_realtimeVars,
           NEW c \in Conns, NEW i \in WaitsFor(c)
    PROVE  \/ \E j \in DOMAIN queue' : c \in queue'[j].to /\ queue'[j].n = queue[i].n
           \/ \E j \in DOMAIN inbox'[c] : inbox'[c][j] = queue[i].n
           \/ socket'[c] # "open"
           \/ reg.topics[c] = {}
<1>1. i \in DOMAIN queue /\ c \in queue[i].to
  BY DEF WaitsFor
<1>2. FanOK /\ ConnsOK /\ queue \in Seq(Items) /\ i \in Nat /\ i # 0
  BY <1>1, LenProperties DEF RealtimeInv, FanOK
<1>3. ASSUME NEW rules \in Rules, broadcast(rules)
      PROVE  \/ \E j \in DOMAIN queue' : c \in queue'[j].to /\ queue'[j].n = queue[i].n
             \/ socket'[c] # "open"
             \/ reg.topics[c] = {}
  <2> DEFINE item == [n |-> sent + 1, to |-> Audience(rules)]
  <2>1. PICK r : /\ Alike(reg, r)
                 /\ \/ queue = <<>>
                    \/ shedBacklog(r)
                    \/ queue' = Append(queue, item)
    BY <1>3, Broadcasts
  <2> HIDE DEF item
  <2>2. CASE queue = <<>>
    BY <1>1, <2>2
  <2>3. CASE shedBacklog(r)
    <3> DEFINE waiting == {d \in Conns : WaitsFor(d) # {}}
               cut == {d \in waiting : stillHere(r, d)}
    <3>1. c \in waiting
      OBVIOUS
    <3>2. socket' = Ended(cut)
      BY <2>3 DEF shedBacklog
    <3>3. CASE stillHere(r, c)
      <4>1. c \in cut
        BY <3>1, <3>3
      <4> HIDE DEF cut
      <4> QED
        BY <1>2, <3>2, <4>1, EndedKeeps
    <3>4. CASE ~stillHere(r, c)
      BY <2>1, <3>4 DEF stillHere, Alike
    <3> QED
      BY <3>3, <3>4
  <2>4. CASE queue' = Append(queue, item)
    <3>1. i \in DOMAIN queue' /\ queue'[i] = queue[i]
      BY <1>1, <1>2, <2>4
    <3> QED
      BY <1>1, <3>1
  <2> QED
    BY <2>1, <2>2, <2>3, <2>4
<1>4. ASSUME pump
      PROVE  \/ \E j \in DOMAIN queue' : c \in queue'[j].to /\ queue'[j].n = queue[i].n
             \/ \E j \in DOMAIN inbox'[c] : inbox'[c][j] = queue[i].n
             \/ socket'[c] # "open"
             \/ reg.topics[c] = {}
  <2> DEFINE n == Head(queue).n
  <2>1. PICK d \in Head(queue).to :
          /\ queue' = IF Head(queue).to \ {d} = {} THEN Tail(queue)
                      ELSE [queue EXCEPT ![1].to = Head(queue).to \ {d}]
          /\ IF stillHere(reg, d)
             THEN \E behind \in SUBSET {d} : SendNow(reg, n, {d}, behind)
             ELSE UNCHANGED <<socket, reg, inbox>>
    BY <1>4 DEF pump
  <2>2. PICK gone \in {0, 1} :
          /\ queue' \in Seq(Items)
          /\ \A k \in Nat : k \in DOMAIN queue' <=> k # 0 /\ k + gone \in DOMAIN queue
          /\ \A k \in DOMAIN queue' :
               /\ queue'[k].n = queue[k + gone].n
               /\ k + gone = 1 => queue'[k].to = queue[1].to \ {d}
               /\ k + gone # 1 => queue'[k].to = queue[k + gone].to
          /\ gone = 1 => queue[1].to = {d}
    <3>1. queue # <<>>
      BY <1>4 DEF pump
    <3>2. queue' = IF Head(queue).to \ {d} = {} THEN Tail(queue)
                   ELSE [queue EXCEPT ![1].to = Head(queue).to \ {d}]
      BY <2>1
    <3> QED
      BY <1>2, <3>1, <3>2, PumpTakes
  \* What waits for others, or later, goes on waiting.
  <2>3. CASE i # 1 \/ c # d
    <3> DEFINE k == i - gone
    <3>1. i # gone
      <4>1. gone = 1 => queue[1].to = {d}
        BY <2>2
      <4> QED
        BY <1>1, <1>2, <2>3, <4>1
    <3>2. k \in Nat /\ k # 0 /\ k + gone = i
      BY <1>2, <2>2, <3>1
    <3> HIDE DEF k
    <3>3. k \in DOMAIN queue' /\ queue'[k].n = queue[i].n
      BY <1>1, <2>2, <3>2
    <3>4. c \in queue'[k].to
      BY <1>1, <2>2, <2>3, <3>2, <3>3
    <3> QED
      BY <3>3, <3>4
  <2>4. CASE i = 1 /\ c = d
    <3>1. CASE stillHere(reg, c)
      <4>1. PICK behind \in SUBSET {c} : SendNow(reg, n, {c}, behind)
        BY <2>1, <2>4, <3>1
      <4>2. CASE c \in behind \/ socket[c] # "open"
        <5>1. socket' = Ended(behind)
          BY <4>1 DEF SendNow
        <5> QED
          BY <1>2, <4>2, <5>1, EndedKeeps
      <4>3. CASE c \notin behind /\ socket[c] = "open"
        <5>1. inbox'[c] = Append(inbox[c], n) /\ inbox[c] \in Seq(Nat)
          BY <1>2, <4>1, <4>3 DEF SendNow, FanOK
        <5>2. n = queue[i].n /\ n \in Nat
          <6>1. Head(queue) = queue[1] /\ queue[i] \in Items
            BY <1>1, <1>2
          <6> QED
            BY <2>4, <6>1 DEF Items
        <5> HIDE DEF n
        <5>3. /\ Len(inbox[c]) + 1 \in DOMAIN inbox'[c]
              /\ inbox'[c][Len(inbox[c]) + 1] = n
          BY <5>1, <5>2
        <5> QED
          BY <5>2, <5>3
      <4> QED
        BY <4>2, <4>3
    <3>2. CASE ~stillHere(reg, c)
      BY <3>2 DEF stillHere
    <3> QED
      BY <3>1, <3>2
  <2> QED
    BY <2>3, <2>4
<1>5. CASE UNCHANGED <<queue, inbox>>
  BY <1>1, <1>5
<1> QED
  BY <1>3, <1>4, <1>5, OthersLeaveTheFanOut

\* What waits for a connection is sent to it, or goes with the connection or its
\* topics: a client never goes on after a gap (manager.ts, shedBacklog).
THEOREM GapsEndConnections == RealtimeSpec => NothingSkipped
<1> DEFINE Follows(c) == \A i \in WaitsFor(c) :
                        LET n == queue[i].n
                        IN  \/ \E j \in WaitsFor(c)' : queue'[j].n = n
                            \/ \E j \in DOMAIN inbox'[c] : inbox'[c][j] = n
                            \/ socket'[c] # "open"
                            \/ reg.topics[c] = {}
<1>1. RealtimeInv /\ [RealtimeNext]_realtimeVars => \A c \in Conns : Follows(c)
  BY QueuedGoesOut DEF WaitsFor
<1>2. RealtimeInv /\ [RealtimeNext]_realtimeVars => [\A c \in Conns : Follows(c)]_realtimeVars
  BY <1>1
<1> QED
  BY <1>2, RealtimeHolds, PTL DEF RealtimeSpec, NothingSkipped

-----------------------------------------------------------------------------
(* The collection cache, for any servers, calls and faults.  The invariant *)
(* says of every entry that may be false, and was put there in good faith, *)
(* why it will go: a message or a reset waits to be handled, the listening *)
(* connection is down, the sequence has moved by somebody else's doing; or *)
(* else that a change is not announced yet, or its announcement has not    *)
(* got through, and is another server's.                                   *)

AnyRow == [id : Nat, ver : Nat]

CallStages == {"start", "found", "made", "write", "written", "reread", "store", "drop", "remove",
               "ok", "failed", "cut"}

\* Before a call has announced anything.
Early == {"start", "found", "write", "written", "drop"}

PeersTypeOK ==
    /\ seq \in Nat
    /\ peer \in [Servers -> Peer]
    /\ bump \in [Calls -> Bump]
    /\ unheard \subseteq Calls

CacheTypeOK ==
    /\ row \in AnyRow
    /\ latest \in Nat \ {0}
    /\ cache \in [Servers -> AnyRow]
    /\ got \in [Calls -> AnyRow]
    /\ target \in [Calls -> Nat]
    /\ at \in [Calls -> CallStages]
    /\ why \in [Servers -> {"kept", "behind", "unsettled"}]

StagesFit == \A c \in Calls :
    /\ at[c] = "found" => c \in Reads \cup Deletes
    /\ at[c] \in {"drop", "remove"} => c \in Deletes
    /\ at[c] = "made" => c \in Creates

EarlyFit == \A c \in Calls : at[c] \in Early =>
    /\ c \notin unheard
    /\ bump[c] = NoBump
    /\ \A s \in Servers : c \notin peer[s].outbox

\* What has moved the sequence is known as a move of it.
MovesFit ==
    /\ \A c \in Calls : bump[c].stage # "none" => bump[c].from \in Servers
    /\ \A c \in Calls : bump[c].stage = "moved" => bump[c].n <= seq /\ c \notin unheard
    /\ \A s \in Servers : peer[s].genSeen <= seq /\ \A g \in peer[s].genOwn : g <= seq

\* No server has in good faith what a create may still take back.
EntriesFit ==
    /\ row.id <= latest
    /\ \A c \in Calls : got[c].id <= latest
    /\ \A s \in Servers : cache[s].id <= latest /\ (~Up(s) => cache[s] = NoRow)
    /\ \A c \in Calls : at[c] = "made" =>
         /\ target[c] # 0
         /\ \A s \in Servers : cache[s].id = target[c] => why[s] # "kept"

Doubtful(s) == /\ why[s] = "kept"
               /\ cache[s] # NoRow
               /\ \/ cache[s] # row
                  \/ \E c \in Calls : at[c] = "remove" /\ target[c] = cache[s].id

\* Another's move, that the next poll will find.
Unseen(s) == \E g \in Nat : /\ peer[s].genSeen < g /\ g <= seq
                            /\ g \notin peer[s].genOwn
                            /\ \A c \in Calls : bump[c].stage = "moved" /\ bump[c].from = s => bump[c].n # g

\* What the server s is going to reset for.
Coming(s) == peer[s].inbox > 0 \/ ~peer[s].listening \/ Unseen(s)

\* What was not told to it.
Untold(s) == \E c \in Calls :
    \/ at[c] \in {"written", "cut"}
    \/ c \in unheard /\ c \notin peer[s].outbox /\ bump[c].from # s

DoubtsAnswered == \A s \in Servers : Doubtful(s) => Coming(s) \/ Untold(s)

CacheInv == /\ PeersTypeOK /\ CacheTypeOK /\ StagesFit /\ EarlyFit
            /\ MovesFit /\ EntriesFit /\ DoubtsAnswered

-----------------------------------------------------------------------------
(* Announcements on their way. *)

Answered(s) == Coming(s) \/ Untold(s)

\* What a step of Peers does for what the cache is waiting for.
GoesOn == /\ PeersTypeOK' /\ EarlyFit' /\ MovesFit'
          /\ \A s \in Servers : Up(s)' <=> Up(s)
          /\ \A s \in Servers : Answered(s) => Answered(s)'

\* A server whose own knowledge stays, goes on waiting.
LEMMA UnseenStays ==
    ASSUME NEW s, Unseen(s), seq' \in Nat, seq \in Nat, seq <= seq',
           peer'[s].genSeen = peer[s].genSeen,
           \A g \in peer'[s].genOwn \ peer[s].genOwn :
             \E c \in Calls : bump[c].stage = "moved" /\ bump[c].from = s /\ bump[c].n = g,
           \A c \in Calls : bump'[c].stage = "moved" /\ bump'[c].from = s =>
             bump'[c] = bump[c] \/ bump'[c].n = seq + 1
    PROVE  Unseen(s)'
<1>1. PICK g \in Nat : /\ peer[s].genSeen < g /\ g <= seq
                       /\ g \notin peer[s].genOwn
                       /\ \A c \in Calls : bump[c].stage = "moved" /\ bump[c].from = s => bump[c].n # g
  BY DEF Unseen
<1>2. peer'[s].genSeen < g /\ g <= seq' /\ g \notin peer'[s].genOwn
  BY <1>1
<1>3. \A c \in Calls : bump'[c].stage = "moved" /\ bump'[c].from = s => bump'[c].n # g
  BY <1>1
<1> QED
  BY <1>2, <1>3 DEF Unseen

LEMMA NextvalGoesOn ==
    ASSUME CacheInv, UNCHANGED at, NEW c \in Calls, Nextval(c)
    PROVE  GoesOn
<1>1. bump[c].stage = "asked" /\ bump[c] \in Bump /\ peer' = peer /\ PeersTypeOK /\ EarlyFit /\ MovesFit
  BY DEF Nextval, CacheInv, PeersTypeOK
<1>2. CASE seq' = seq + 1 /\ bump' = [bump EXCEPT ![c].stage = "moved", ![c].n = seq + 1] /\ unheard' = unheard \ {c}
  <2>1. /\ bump'[c].stage = "moved" /\ bump'[c].n = seq + 1 /\ bump'[c].from = bump[c].from
        /\ bump' \in [Calls -> Bump]
        /\ \A d \in Calls \ {c} : bump'[d] = bump[d]
    <3> DEFINE begun == [bump[c] EXCEPT !.stage = "moved"]
               moved == [begun EXCEPT !.n = seq + 1]
    <3>1. begun \in Bump /\ begun.stage = "moved" /\ begun.from = bump[c].from
      BY <1>1 DEF Bump
    <3>2. moved \in Bump /\ moved.stage = "moved" /\ moved.n = seq + 1 /\ moved.from = bump[c].from
      <4> HIDE DEF begun
      <4> QED
        BY <1>1, <3>1 DEF Bump, PeersTypeOK
    <3>3. bump \in [Calls -> Bump]
      BY <1>1 DEF PeersTypeOK
    <3>4. bump' = [bump EXCEPT ![c] = moved]
      BY <1>2, <3>3
    <3> HIDE DEF moved
    <3> QED
      BY <3>2, <3>3, <3>4
  <2>2. PeersTypeOK'
    BY <1>1, <1>2, <2>1 DEF PeersTypeOK
  <2>3. EarlyFit'
    <3>1. at[c] \notin Early
      BY <1>1 DEF EarlyFit, NoBump
    <3> QED
      BY <1>1, <1>2, <2>1, <3>1 DEF EarlyFit
  <2>4. MovesFit'
    <3>1. \A d \in Calls : bump'[d].stage # "none" => bump'[d].from \in Servers
      BY <1>1, <2>1 DEF MovesFit
    <3>2. \A d \in Calls : bump'[d].stage = "moved" => bump'[d].n <= seq' /\ d \notin unheard'
      <4>1. \A d \in Calls : bump[d].n \in Nat
        BY <1>1 DEF PeersTypeOK, Bump
      <4> QED
        BY <1>1, <1>2, <2>1, <4>1 DEF MovesFit, PeersTypeOK
    <3>3. \A s \in Servers : peer'[s].genSeen <= seq' /\ \A g \in peer'[s].genOwn : g <= seq'
      <4>1. \A s \in Servers : peer[s].genSeen \in Nat /\ peer[s].genOwn \subseteq Nat
        BY <1>1 DEF PeersTypeOK, Peer
      <4>2. seq \in Nat /\ seq' = seq + 1 /\ peer' = peer
        BY <1>1, <1>2 DEF PeersTypeOK
      <4> QED
        BY <1>1, <4>1, <4>2 DEF MovesFit
    <3> QED
      BY <3>1, <3>2, <3>3 DEF MovesFit
  <2>5. ASSUME NEW s \in Servers, Answered(s)
        PROVE  Answered(s)'
    <3>1. CASE peer[s].inbox > 0 \/ ~peer[s].listening
      BY <1>1, <3>1 DEF Answered, Coming
    <3>2. CASE Unseen(s)
      <4>1. Unseen(s)'
        <5>1. \A d \in Calls : bump'[d].stage = "moved" /\ bump'[d].from = s =>
                bump'[d] = bump[d] \/ bump'[d].n = seq + 1
          BY <2>1
        <5>2. seq \in Nat /\ seq' \in Nat /\ seq <= seq'
          BY <1>1, <1>2 DEF PeersTypeOK
        <5> QED
          BY <1>1, <3>2, <5>1, <5>2, UnseenStays
      <4> QED
        BY <4>1 DEF Answered, Coming
    <3>3. CASE Untold(s)
      <4>1. PICK d \in Calls : \/ at[d] \in {"written", "cut"}
                               \/ d \in unheard /\ d \notin peer[s].outbox /\ bump[d].from # s
        BY <3>3 DEF Untold
      <4>2. CASE at[d] \in {"written", "cut"} \/ d # c
        BY <1>1, <1>2, <2>1, <4>1, <4>2 DEF Answered, Untold
      <4>3. CASE d = c /\ bump[c].from # s
        <5> DEFINE g == seq + 1
        <5>1. g \in Nat /\ peer'[s].genSeen < g /\ g <= seq' /\ g \notin peer'[s].genOwn
          BY <1>1, <1>2 DEF MovesFit, PeersTypeOK, Peer
        <5>2. \A e \in Calls : bump'[e].stage = "moved" /\ bump'[e].from = s => bump'[e].n # g
          BY <1>1, <2>1, <4>3 DEF MovesFit, PeersTypeOK, Bump
        <5> HIDE DEF g
        <5> QED
          BY <5>1, <5>2 DEF Answered, Coming, Unseen
      <4> QED
        BY <4>1, <4>2, <4>3
    <3> QED
      BY <2>5, <3>1, <3>2, <3>3 DEF Answered, Coming
  <2> QED
    BY <1>1, <2>2, <2>3, <2>4, <2>5 DEF GoesOn, Up
<1>3. CASE bump' = [bump EXCEPT ![c] = NoBump] /\ UNCHANGED <<seq, unheard>>
  <2>1. /\ bump'[c] = NoBump /\ NoBump \in Bump /\ bump' \in [Calls -> Bump]
        /\ \A d \in Calls \ {c} : bump'[d] = bump[d]
    BY <1>1, <1>3 DEF PeersTypeOK, Bump, NoBump
  <2>2. PeersTypeOK' /\ EarlyFit'
    BY <1>1, <1>3, <2>1 DEF PeersTypeOK, EarlyFit
  <2>3. MovesFit'
    BY <1>1, <1>3, <2>1 DEF MovesFit, NoBump
  <2>4. ASSUME NEW s \in Servers, Answered(s)
        PROVE  Answered(s)'
    <3>1. CASE peer[s].inbox > 0 \/ ~peer[s].listening
      BY <1>1, <3>1 DEF Answered, Coming
    <3>2. CASE Unseen(s)
      <4>1. \A d \in Calls : bump'[d].stage = "moved" /\ bump'[d].from = s =>
              bump'[d] = bump[d] \/ bump'[d].n = seq + 1
        BY <2>1 DEF NoBump
      <4>2. seq \in Nat /\ seq' \in Nat /\ seq <= seq'
        BY <1>1, <1>3 DEF PeersTypeOK
      <4>3. Unseen(s)'
        BY <1>1, <3>2, <4>1, <4>2, UnseenStays
      <4> QED
        BY <4>3 DEF Answered, Coming
    <3>3. CASE Untold(s)
      <4>1. None # s
        BY PeersAssumption
      <4> QED
        BY <1>1, <1>3, <2>1, <3>3, <4>1 DEF Answered, Untold, NoBump
    <3> QED
      BY <2>4, <3>1, <3>2, <3>3 DEF Answered, Coming
  <2> QED
    BY <1>1, <2>2, <2>3, <2>4 DEF GoesOn, Up
<1> QED
  BY <1>2, <1>3 DEF Nextval, BumpOver

LEMMA BumpAnswerGoesOn ==
    ASSUME CacheInv, UNCHANGED at, NEW c \in Calls, BumpAnswer(c)
    PROVE  GoesOn
<1> DEFINE s0 == bump[c].from
<1>1. /\ bump[c].stage = "moved" /\ bump[c] \in Bump /\ PeersTypeOK /\ EarlyFit /\ MovesFit
      /\ UNCHANGED <<seq, unheard>> /\ bump' = [bump EXCEPT ![c] = NoBump]
      /\ s0 \in Servers /\ bump[c].n <= seq /\ c \notin unheard
  BY DEF BumpAnswer, BumpOver, CacheInv, PeersTypeOK, MovesFit
<1>2. peer' = [peer EXCEPT ![s0].genOwn = @ \cup {bump[c].n}] \/ peer' = peer
  BY DEF BumpAnswer
<1>3. /\ bump'[c] = NoBump /\ NoBump \in Bump /\ bump' \in [Calls -> Bump]
      /\ \A d \in Calls \ {c} : bump'[d] = bump[d]
  BY <1>1 DEF PeersTypeOK, Bump, NoBump
<1>4. /\ peer' \in [Servers -> Peer]
      /\ \A s \in Servers :
           /\ peer'[s].up = peer[s].up /\ peer'[s].listening = peer[s].listening
           /\ peer'[s].inbox = peer[s].inbox /\ peer'[s].outbox = peer[s].outbox
           /\ peer'[s].genSeen = peer[s].genSeen
           /\ peer'[s].genOwn \subseteq peer[s].genOwn \cup {bump[c].n}
           /\ s # s0 => peer'[s] = peer[s]
  <2>1. peer \in [Servers -> Peer] /\ bump[c].n \in Nat
    BY <1>1 DEF PeersTypeOK, Bump
  <2>2. CASE peer' = peer
    BY <2>1, <2>2
  <2>3. CASE peer' = [peer EXCEPT ![s0].genOwn = @ \cup {bump[c].n}]
    <3> DEFINE p == [peer[s0] EXCEPT !.genOwn = @ \cup {bump[c].n}]
    <3>1. /\ p \in Peer /\ p.up = peer[s0].up /\ p.listening = peer[s0].listening
          /\ p.inbox = peer[s0].inbox /\ p.outbox = peer[s0].outbox
          /\ p.genSeen = peer[s0].genSeen /\ p.genOwn = peer[s0].genOwn \cup {bump[c].n}
      BY <1>1, <2>1 DEF Peer
    <3>2. peer' = [peer EXCEPT ![s0] = p]
      BY <2>3
    <3> HIDE DEF p, s0
    <3> QED
      BY <1>1, <2>1, <3>1, <3>2
  <2> QED
    BY <1>2, <2>2, <2>3
<1> HIDE DEF s0
<1>5. PeersTypeOK'
  BY <1>1, <1>3, <1>4 DEF PeersTypeOK
<1>6. EarlyFit'
  BY <1>1, <1>3, <1>4 DEF EarlyFit
<1>7. MovesFit'
  BY <1>1, <1>3, <1>4 DEF MovesFit, NoBump
<1>8. ASSUME NEW s \in Servers, Answered(s)
      PROVE  Answered(s)'
  <2>1. CASE peer[s].inbox > 0 \/ ~peer[s].listening
    BY <1>4, <2>1 DEF Answered, Coming
  <2>2. CASE Unseen(s)
    <3>1. \A d \in Calls : bump'[d].stage = "moved" /\ bump'[d].from = s =>
            bump'[d] = bump[d] \/ bump'[d].n = seq + 1
      BY <1>3 DEF NoBump
    <3>2. seq \in Nat /\ seq' \in Nat /\ seq <= seq' /\ peer'[s].genSeen = peer[s].genSeen
      BY <1>1, <1>4 DEF PeersTypeOK
    <3>3. \A g \in peer'[s].genOwn \ peer[s].genOwn :
            \E d \in Calls : bump[d].stage = "moved" /\ bump[d].from = s /\ bump[d].n = g
      BY <1>1, <1>4 DEF s0
    <3>4. Unseen(s)'
      BY <2>2, <3>1, <3>2, <3>3, UnseenStays
    <3> QED
      BY <3>4 DEF Answered, Coming
  <2>3. CASE Untold(s)
    BY <1>1, <1>3, <1>4, <2>3 DEF Answered, Untold
  <2> QED
    BY <1>8, <2>1, <2>2, <2>3 DEF Answered, Coming
<1> QED
  BY <1>4, <1>5, <1>6, <1>7, <1>8 DEF GoesOn, Up

\* A step that moves no sequence and answers no nextval.
LEMMA QuietGoesOn ==
    ASSUME CacheInv, UNCHANGED <<at, seq, bump>>,
           peer' \in [Servers -> Peer], unheard' \subseteq unheard,
           \A s \in Servers :
             /\ peer'[s].up <=> peer[s].up
             /\ peer'[s].outbox \subseteq peer[s].outbox
             /\ peer'[s].genSeen <= seq
             /\ peer'[s].genOwn \subseteq peer[s].genOwn
             /\ peer[s].inbox > 0 \/ ~peer[s].listening => peer'[s].inbox > 0 \/ ~peer'[s].listening
             /\ \/ peer'[s].genSeen = peer[s].genSeen
                \/ peer'[s].inbox > 0
                \/ Unseen(s) => Unseen(s)'
             /\ \A c \in unheard \ unheard' :
                  c \in peer[s].outbox \/ peer'[s].inbox > 0 \/ ~peer'[s].listening
    PROVE  GoesOn
<1>1. PeersTypeOK /\ EarlyFit /\ MovesFit
  BY DEF CacheInv
<1>2. PeersTypeOK'
  BY <1>1 DEF PeersTypeOK
<1>3. EarlyFit'
  BY <1>1 DEF EarlyFit
<1>4. MovesFit'
  BY <1>1 DEF MovesFit
<1>5. ASSUME NEW s \in Servers, Answered(s)
      PROVE  Answered(s)'
  <2>1. CASE peer[s].inbox > 0 \/ ~peer[s].listening
    BY <2>1 DEF Answered, Coming
  <2>2. CASE Unseen(s)
    <3>1. CASE peer'[s].genSeen = peer[s].genSeen
      <4>1. \A d \in Calls : bump'[d].stage = "moved" /\ bump'[d].from = s =>
              bump'[d] = bump[d] \/ bump'[d].n = seq + 1
        OBVIOUS
      <4>2. seq \in Nat /\ seq' \in Nat /\ seq <= seq'
        BY <1>1 DEF PeersTypeOK
      <4>3. \A g \in peer'[s].genOwn \ peer[s].genOwn :
              \E d \in Calls : bump[d].stage = "moved" /\ bump[d].from = s /\ bump[d].n = g
        OBVIOUS
      <4>4. Unseen(s)'
        BY <2>2, <3>1, <4>1, <4>2, <4>3, UnseenStays
      <4> QED
        BY <4>4 DEF Answered, Coming
    <3>2. CASE peer'[s].genSeen # peer[s].genSeen
      BY <2>2, <3>2 DEF Answered, Coming
    <3> QED
      BY <3>1, <3>2
  <2>3. CASE Untold(s)
    <3>1. PICK d \in Calls : \/ at[d] \in {"written", "cut"}
                             \/ d \in unheard /\ d \notin peer[s].outbox /\ bump[d].from # s
      BY <2>3 DEF Untold
    <3>2. CASE at[d] \in {"written", "cut"} \/ d \in unheard'
      BY <3>1, <3>2 DEF Answered, Untold
    <3>3. CASE d \in unheard \ unheard' /\ d \notin peer[s].outbox
      BY <3>3 DEF Answered, Coming
    <3> QED
      BY <3>1, <3>2, <3>3
  <2> QED
    BY <1>5, <2>1, <2>2, <2>3 DEF Answered, Coming
<1> QED
  BY <1>2, <1>3, <1>4, <1>5 DEF GoesOn, Up

\* A NOTIFY gets to every other server that listens; if given up, its
\* announcements stay unheard.
LEMMA PostGoesOn ==
    ASSUME CacheInv, UNCHANGED at, NEW s0 \in Servers, post(s0)
    PROVE  GoesOn
<1>1. /\ UNCHANGED <<seq, bump>> /\ PeersTypeOK /\ MovesFit
      /\ peer \in [Servers -> Peer]
  BY DEF post, CacheInv, PeersTypeOK
<1>2. PICK some \in SUBSET peer[s0].outbox, times \in {0, 1, 2} :
        /\ unheard' = IF times = 0 THEN unheard ELSE unheard \ some
        /\ peer' = [IF times = 0 THEN peer ELSE Delivered(s0, times)
                      EXCEPT ![s0].outbox = peer[s0].outbox \ some]
  BY DEF post
<1> DEFINE heard == IF times = 0 THEN peer ELSE Delivered(s0, times)
<1>3. /\ heard \in [Servers -> Peer]
      /\ \A s \in Servers :
           /\ heard[s].up = peer[s].up /\ heard[s].listening = peer[s].listening
           /\ heard[s].outbox = peer[s].outbox /\ heard[s].genSeen = peer[s].genSeen
           /\ heard[s].genOwn = peer[s].genOwn
           /\ heard[s].inbox >= peer[s].inbox
           /\ times # 0 /\ s # s0 /\ peer[s].listening => heard[s].inbox > 0
  <2>1. CASE times = 0
    BY <1>1, <2>1 DEF Peer
  <2>2. CASE times # 0
    <3>1. ASSUME NEW s \in Servers
          PROVE  /\ heard[s] \in Peer
                 /\ heard[s].up = peer[s].up /\ heard[s].listening = peer[s].listening
                 /\ heard[s].outbox = peer[s].outbox /\ heard[s].genSeen = peer[s].genSeen
                 /\ heard[s].genOwn = peer[s].genOwn
                 /\ heard[s].inbox >= peer[s].inbox
                 /\ s # s0 /\ peer[s].listening => heard[s].inbox > 0
      <4>1. heard[s] = IF s # s0 /\ peer[s].listening
                       THEN [peer[s] EXCEPT !.inbox = @ + times] ELSE peer[s]
        BY <2>2 DEF Delivered
      <4>2. peer[s] \in Peer
        BY <1>1
      <4> HIDE DEF heard
      <4> QED
        BY <2>2, <4>1, <4>2 DEF Peer
    <3>2. DOMAIN heard = Servers /\ heard = [s \in Servers |-> heard[s]]
      BY <2>2 DEF Delivered
    <3> QED
      BY <3>1, <3>2
  <2> QED
    BY <2>1, <2>2
<1>4. peer' = [heard EXCEPT ![s0].outbox = peer[s0].outbox \ some]
  BY <1>2
<1> HIDE DEF heard
<1>5. ASSUME NEW s \in Servers
      PROVE  /\ peer'[s] \in Peer
             /\ peer'[s].up = heard[s].up /\ peer'[s].listening = heard[s].listening
             /\ peer'[s].genSeen = heard[s].genSeen /\ peer'[s].genOwn = heard[s].genOwn
             /\ peer'[s].inbox = heard[s].inbox
             /\ peer'[s].outbox = IF s = s0 THEN peer[s0].outbox \ some ELSE peer[s].outbox
  <2>1. peer'[s] = IF s = s0 THEN [heard[s0] EXCEPT !.outbox = peer[s0].outbox \ some] ELSE heard[s]
    BY <1>3, <1>4
  <2>2. heard[s] \in Peer /\ heard[s0] \in Peer /\ peer[s0] \in Peer
    BY <1>1, <1>3
  <2> QED
    BY <1>3, <2>1, <2>2 DEF Peer
<1>6. peer' \in [Servers -> Peer]
  BY <1>3, <1>4, <1>5
<1>7. ASSUME NEW s \in Servers
      PROVE  /\ peer'[s].up <=> peer[s].up
             /\ peer'[s].outbox \subseteq peer[s].outbox
             /\ peer'[s].genSeen <= seq
             /\ peer'[s].genOwn \subseteq peer[s].genOwn
             /\ peer[s].inbox > 0 \/ ~peer[s].listening => peer'[s].inbox > 0 \/ ~peer'[s].listening
             /\ peer'[s].genSeen = peer[s].genSeen
             /\ \A c \in unheard \ unheard' :
                  c \in peer[s].outbox \/ peer'[s].inbox > 0 \/ ~peer'[s].listening
  <2>1. peer[s] \in Peer /\ heard[s] \in Peer
    BY <1>1, <1>3
  <2>2. heard[s].inbox \in Nat /\ peer[s].inbox \in Nat
    BY <2>1 DEF Peer
  <2> QED
    BY <1>1, <1>2, <1>3, <1>5, <2>2 DEF MovesFit
<1> QED
  BY <1>1, <1>2, <1>6, <1>7, QuietGoesOn

\* The poll's answer: what it has not seen yet it will, or it resets.
LEMMA PollAnswerGoesOn ==
    ASSUME CacheInv, UNCHANGED at, NEW s0 \in Servers, PollAnswer(s0)
    PROVE  GoesOn
<1>1. /\ UNCHANGED <<seq, bump, unheard>> /\ PeersTypeOK /\ MovesFit
      /\ peer \in [Servers -> Peer] /\ seq \in Nat
      /\ peer[s0] \in Peer /\ peer[s0].polling \in Nat
  <2>1. peer[s0] \in Peer /\ peer[s0].polling # None
    BY DEF PollAnswer, CacheInv, PeersTypeOK
  <2> QED
    BY <2>1 DEF PollAnswer, CacheInv, PeersTypeOK, Peer
<1> DEFINE known == [peer[s0] EXCEPT !.polling = None]
<1>2. PICK gen \in peer[s0].polling .. seq :
        peer' = [peer EXCEPT ![s0] =
                   IF gen <= peer[s0].genSeen THEN known
                   ELSE [known EXCEPT
                           !.genSeen = gen,
                           !.genOwn = {g \in @ : g > gen},
                           !.inbox = IF Missed(s0, gen) THEN @ + 1 ELSE @]]
  BY DEF PollAnswer
<1>3. gen \in Nat /\ gen <= seq
  BY <1>1
<1>4. /\ known \in Peer /\ known.up = peer[s0].up /\ known.listening = peer[s0].listening
      /\ known.inbox = peer[s0].inbox /\ known.outbox = peer[s0].outbox
      /\ known.genSeen = peer[s0].genSeen /\ known.genOwn = peer[s0].genOwn
  BY <1>1 DEF Peer
<1> HIDE DEF known
<1>5. ASSUME NEW s \in Servers \ {s0}
      PROVE  peer'[s] = peer[s]
  BY <1>1, <1>2
<1>6. CASE gen <= peer[s0].genSeen
  <2>1. peer' = [peer EXCEPT ![s0] = known]
    BY <1>2, <1>6
  <2>2. peer' \in [Servers -> Peer] /\ peer'[s0] = known
    BY <1>1, <1>4, <2>1
  <2>3. \A s \in Servers :
          /\ peer'[s].up = peer[s].up /\ peer'[s].listening = peer[s].listening
          /\ peer'[s].inbox = peer[s].inbox /\ peer'[s].outbox = peer[s].outbox
          /\ peer'[s].genSeen = peer[s].genSeen /\ peer'[s].genOwn = peer[s].genOwn
          /\ peer[s].genSeen <= seq
    BY <1>1, <1>4, <1>5, <2>2 DEF MovesFit
  <2> QED
    BY <1>1, <2>2, <2>3, QuietGoesOn
<1>7. CASE ~(gen <= peer[s0].genSeen)
  <2> DEFINE p == [known EXCEPT
                     !.genSeen = gen,
                     !.genOwn = {g \in @ : g > gen},
                     !.inbox = IF Missed(s0, gen) THEN @ + 1 ELSE @]
  <2>1. /\ p \in Peer /\ p.up = peer[s0].up /\ p.listening = peer[s0].listening
        /\ p.inbox = (IF Missed(s0, gen) THEN peer[s0].inbox + 1 ELSE peer[s0].inbox)
        /\ p.outbox = peer[s0].outbox
        /\ p.genSeen = gen /\ p.genOwn = {g \in peer[s0].genOwn : g > gen}
    <3> DEFINE seen == [known EXCEPT !.genSeen = gen]
               pruned == [seen EXCEPT !.genOwn = {g \in peer[s0].genOwn : g > gen}]
               inbox0 == IF Missed(s0, gen) THEN peer[s0].inbox + 1 ELSE peer[s0].inbox
               told == [pruned EXCEPT !.inbox = inbox0]
    <3>1. /\ seen \in Peer /\ seen.up = peer[s0].up /\ seen.listening = peer[s0].listening
          /\ seen.inbox = peer[s0].inbox /\ seen.outbox = peer[s0].outbox
          /\ seen.genSeen = gen /\ seen.genOwn = peer[s0].genOwn
      BY <1>3, <1>4 DEF Peer
    <3> HIDE DEF seen
    <3>2. /\ pruned \in Peer /\ pruned.up = peer[s0].up /\ pruned.listening = peer[s0].listening
          /\ pruned.inbox = peer[s0].inbox /\ pruned.outbox = peer[s0].outbox
          /\ pruned.genSeen = gen /\ pruned.genOwn = {g \in peer[s0].genOwn : g > gen}
      BY <1>3, <3>1 DEF Peer
    <3> HIDE DEF pruned
    <3>3. inbox0 \in Nat
      BY <1>1 DEF Peer
    <3> HIDE DEF inbox0
    <3>4. /\ told \in Peer /\ told.up = peer[s0].up /\ told.listening = peer[s0].listening
          /\ told.inbox = inbox0 /\ told.outbox = peer[s0].outbox
          /\ told.genSeen = gen /\ told.genOwn = {g \in peer[s0].genOwn : g > gen}
      BY <3>2, <3>3 DEF Peer
    <3>5. p = told
      BY <1>4, <3>1 DEF inbox0, pruned, seen
    <3> HIDE DEF p, told
    <3> QED
      BY <3>4, <3>5 DEF inbox0
  <2>2. peer' = [peer EXCEPT ![s0] = p]
    BY <1>2, <1>7
  <2> HIDE DEF p
  <2>3. peer' \in [Servers -> Peer] /\ peer'[s0] = p
    BY <1>1, <2>1, <2>2
  <2>4. peer[s0].inbox \in Nat /\ peer[s0].genSeen \in Nat /\ peer[s0].genSeen <= seq
    BY <1>1 DEF Peer, MovesFit
  <2>5. ASSUME Unseen(s0)
        PROVE  peer'[s0].inbox > 0 \/ Unseen(s0)'
    <3>1. PICK g \in Nat : /\ peer[s0].genSeen < g /\ g <= seq
                           /\ g \notin peer[s0].genOwn
                           /\ \A c \in Calls : bump[c].stage = "moved" /\ bump[c].from = s0 => bump[c].n # g
      BY <2>5 DEF Unseen
    <3>2. CASE g <= gen
      <4>1. g \in (peer[s0].genSeen + 1) .. gen
        BY <1>3, <2>4, <3>1, <3>2
      <4>2. Missed(s0, gen)
        BY <3>1, <4>1 DEF Missed
      <4> QED
        BY <2>1, <2>3, <2>4, <4>2
    <3>3. CASE ~(g <= gen)
      <4>1. peer'[s0].genSeen < g /\ g <= seq' /\ g \notin peer'[s0].genOwn
        BY <1>1, <1>3, <2>1, <2>3, <3>1, <3>3
      <4>2. \A c \in Calls : bump'[c].stage = "moved" /\ bump'[c].from = s0 => bump'[c].n # g
        BY <1>1, <3>1
      <4> QED
        BY <4>1, <4>2 DEF Unseen
    <3> QED
      BY <3>2, <3>3
  <2>6. ASSUME NEW s \in Servers
        PROVE  /\ peer'[s].up <=> peer[s].up
               /\ peer'[s].outbox \subseteq peer[s].outbox
               /\ peer'[s].genSeen <= seq
               /\ peer'[s].genOwn \subseteq peer[s].genOwn
               /\ peer[s].inbox > 0 \/ ~peer[s].listening => peer'[s].inbox > 0 \/ ~peer'[s].listening
               /\ \/ peer'[s].genSeen = peer[s].genSeen
                  \/ peer'[s].inbox > 0
                  \/ Unseen(s) => Unseen(s)'
    <3>1. CASE s = s0
      <4>1. peer'[s].inbox >= peer[s].inbox /\ peer'[s].inbox \in Nat
        BY <2>1, <2>3, <2>4, <3>1
      <4>2. peer'[s].inbox > 0 \/ (Unseen(s) => Unseen(s)')
        BY <2>5, <3>1
      <4> QED
        BY <1>3, <2>1, <2>3, <2>4, <3>1, <4>1, <4>2
    <3>2. CASE s # s0
      BY <1>1, <1>5, <3>2 DEF MovesFit
    <3> QED
      BY <3>1, <3>2
  <2> QED
    BY <1>1, <2>3, <2>6, QuietGoesOn
<1> QED
  BY <1>6, <1>7

\* A poll begins; the listening connection drops, or comes back with a reset.
LEMMA ConnectionGoesOn ==
    ASSUME CacheInv, UNCHANGED at, NEW s0 \in Servers,
           Poll(s0) \/ Disconnect(s0) \/ Reconnect(s0)
    PROVE  GoesOn
<1>1. /\ UNCHANGED <<seq, bump, unheard>> /\ PeersTypeOK /\ MovesFit
      /\ peer \in [Servers -> Peer] /\ seq \in Nat /\ peer[s0] \in Peer
  BY DEF Poll, Disconnect, Reconnect, CacheInv, PeersTypeOK
<1>2. PICK p \in Peer :
        /\ peer' = [peer EXCEPT ![s0] = p]
        /\ p.up = peer[s0].up /\ p.outbox = peer[s0].outbox
        /\ p.genSeen = peer[s0].genSeen /\ p.genOwn = peer[s0].genOwn
        /\ peer[s0].inbox > 0 \/ ~peer[s0].listening => p.inbox > 0 \/ ~p.listening
  <2>1. CASE Poll(s0)
    <3> DEFINE p == [peer[s0] EXCEPT !.polling = seq]
    <3>1. /\ p \in Peer
          /\ p.up = peer[s0].up /\ p.outbox = peer[s0].outbox
          /\ p.genSeen = peer[s0].genSeen /\ p.genOwn = peer[s0].genOwn
          /\ p.inbox = peer[s0].inbox /\ p.listening = peer[s0].listening
      BY <1>1 DEF Peer
    <3>2. peer' = [peer EXCEPT ![s0] = p]
      BY <2>1 DEF Poll
    <3> HIDE DEF p
    <3> QED
      BY <3>1, <3>2
  <2>2. CASE Disconnect(s0)
    <3>1. PICK received \in 0 .. peer[s0].inbox :
            peer' = [peer EXCEPT ![s0].listening = FALSE, ![s0].inbox = received]
      BY <2>2 DEF Disconnect
    <3> DEFINE p == [peer[s0] EXCEPT !.listening = FALSE, !.inbox = received]
    <3>2. received \in Nat
      BY <1>1 DEF Peer
    <3>3. /\ p \in Peer
          /\ p.up = peer[s0].up /\ p.outbox = peer[s0].outbox
          /\ p.genSeen = peer[s0].genSeen /\ p.genOwn = peer[s0].genOwn
          /\ ~p.listening
      BY <1>1, <3>2 DEF Peer
    <3>4. peer' = [peer EXCEPT ![s0] = p]
      BY <1>1, <3>1
    <3> HIDE DEF p
    <3> QED
      BY <3>3, <3>4
  <2>3. CASE Reconnect(s0)
    <3> DEFINE back == [peer[s0] EXCEPT !.listening = TRUE]
               p == [back EXCEPT !.inbox = peer[s0].inbox + 1]
    <3>1. /\ back \in Peer
          /\ back.up = peer[s0].up /\ back.outbox = peer[s0].outbox
          /\ back.genSeen = peer[s0].genSeen /\ back.genOwn = peer[s0].genOwn
          /\ back.inbox = peer[s0].inbox /\ peer[s0].inbox \in Nat
      BY <1>1 DEF Peer
    <3>2. /\ p \in Peer
          /\ p.up = peer[s0].up /\ p.outbox = peer[s0].outbox
          /\ p.genSeen = peer[s0].genSeen /\ p.genOwn = peer[s0].genOwn
          /\ p.inbox = peer[s0].inbox + 1 /\ peer[s0].inbox \in Nat
      <4> HIDE DEF back
      <4> QED
        BY <3>1 DEF Peer
    <3>3. peer' = [peer EXCEPT ![s0] = p]
      BY <1>1, <2>3 DEF Reconnect
    <3> HIDE DEF p
    <3>4. p.inbox > 0
      BY <3>2
    <3> QED
      BY <3>2, <3>3, <3>4
  <2> QED
    BY <2>1, <2>2, <2>3
<1>3. peer' \in [Servers -> Peer] /\ \A s \in Servers : peer'[s] = IF s = s0 THEN p ELSE peer[s]
  BY <1>1, <1>2
<1>4. ASSUME NEW s \in Servers
      PROVE  /\ peer'[s].up = peer[s].up /\ peer'[s].outbox = peer[s].outbox
             /\ peer'[s].genSeen = peer[s].genSeen /\ peer'[s].genOwn = peer[s].genOwn
             /\ peer[s].genSeen <= seq
             /\ peer[s].inbox > 0 \/ ~peer[s].listening => peer'[s].inbox > 0 \/ ~peer'[s].listening
  BY <1>1, <1>2, <1>3 DEF MovesFit
<1> QED
  BY <1>1, <1>3, <1>4, QuietGoesOn

LEMMA PeersGoOn ==
    ASSUME CacheInv, UNCHANGED at, PeersStep
    PROVE  GoesOn
BY NextvalGoesOn, BumpAnswerGoesOn, PostGoesOn, PollAnswerGoesOn, ConnectionGoesOn DEF PeersStep

-----------------------------------------------------------------------------
(* The calls. *)

\* The call c goes on to a stage, with what it holds.
Moves(c, stage, id, r) == /\ at' = [at EXCEPT ![c] = stage]
                          /\ target' = [target EXCEPT ![c] = id]
                          /\ got' = [got EXCEPT ![c] = r]

\* A stage may follow another: an early one an early one, and each in its kind
\* of call.
Follows(c, stage) == /\ stage \in CallStages
                     /\ at[c] \notin {"written", "cut"}
                     /\ stage \in Early => at[c] \in Early
                     /\ stage = "found" => c \in Reads \cup Deletes
                     /\ stage \in {"drop", "remove"} => c \in Deletes
                     /\ stage = "made" => c \in Creates

\* A step that announces nothing: it suffices that it makes no new doubts, but
\* by a change that is not announced yet.
LEMMA CallGoesOn ==
    ASSUME CacheInv, UNCHANGED peerVars, NEW c \in Calls, NEW stage, Follows(c, stage),
           at' = [at EXCEPT ![c] = stage],
           CacheTypeOK', EntriesFit',
           \A s \in Servers : Doubtful(s)' => Doubtful(s) \/ stage = "written"
    PROVE  CacheInv'
<1>1. /\ at \in [Calls -> CallStages] /\ at'[c] = stage
      /\ \A d \in Calls \ {c} : at'[d] = at[d]
      /\ UNCHANGED <<seq, peer, bump, unheard>>
  BY DEF CacheInv, CacheTypeOK, peerVars
<1>2. PeersTypeOK' /\ MovesFit'
  BY <1>1 DEF CacheInv, PeersTypeOK, MovesFit
<1>3. StagesFit'
  BY <1>1 DEF CacheInv, StagesFit, Follows
<1>4. EarlyFit'
  BY <1>1 DEF CacheInv, EarlyFit, Follows
<1>5. ASSUME NEW s \in Servers, Doubtful(s)'
      PROVE  Coming(s)' \/ Untold(s)'
  <2>1. CASE stage = "written"
    BY <1>1, <2>1 DEF Untold
  <2>2. CASE Doubtful(s)
    <3>1. Coming(s) \/ Untold(s)
      BY <2>2 DEF CacheInv, DoubtsAnswered
    <3>2. CASE Coming(s)
      BY <1>1, <3>2 DEF Coming, Unseen
    <3>3. CASE Untold(s)
      BY <1>1, <3>3 DEF Untold, Follows
    <3> QED
      BY <3>1, <3>2, <3>3
  <2> QED
    BY <1>5, <2>1, <2>2
<1>6. DoubtsAnswered'
  BY <1>5 DEF DoubtsAnswered
<1> QED
  BY <1>2, <1>3, <1>4, <1>6 DEF CacheInv

\* A step that writes nothing and remembers nothing.
LEMMA ReadingKeeps ==
    ASSUME CacheInv, UNCHANGED <<peerVars, row, latest, cache, why>>,
           NEW c \in Calls, NEW stage, Follows(c, stage), stage \notin {"made", "remove"},
           NEW id \in Nat, NEW r \in AnyRow, r.id <= latest, Moves(c, stage, id, r)
    PROVE  CacheInv'
<1>1. /\ at \in [Calls -> CallStages] /\ at'[c] = stage
      /\ \A d \in Calls \ {c} : at'[d] = at[d] /\ target'[d] = target[d] /\ got'[d] = got[d]
      /\ got'[c] = r
      /\ UNCHANGED <<row, latest, cache, why, peer>>
  BY DEF CacheInv, CacheTypeOK, Moves, peerVars
<1>2. CacheTypeOK'
  BY DEF CacheInv, CacheTypeOK, Moves, Follows
<1>3. EntriesFit'
  BY <1>1 DEF CacheInv, EntriesFit, Up
<1>4. \A s \in Servers : Doubtful(s)' => Doubtful(s)
  BY <1>1 DEF Doubtful
<1>5. at' = [at EXCEPT ![c] = stage]
  BY DEF Moves
<1> QED
  BY <1>2, <1>3, <1>4, <1>5, CallGoesOn

\* A row is put into the cache.
LEMMA RememberingKeeps ==
    ASSUME CacheInv, UNCHANGED <<peerVars, row, latest>>,
           NEW c \in Calls, NEW stage, Follows(c, stage), stage \notin {"made", "remove", "written"},
           at[c] \notin {"made", "remove"},
           NEW id \in Nat, Moves(c, stage, id, NoRow),
           NEW s0 \in Servers, Up(s0), Remembers(s0, got[c])
    PROVE  CacheInv'
<1> DEFINE r == got[c]
<1>1. r \in AnyRow /\ r.id <= latest /\ NoRow \in AnyRow /\ NoRow.id <= latest
  BY DEF CacheInv, CacheTypeOK, EntriesFit, AnyRow, NoRow
<1>2. /\ cache' = [cache EXCEPT ![s0] = r]
      /\ why' = [why EXCEPT ![s0] = IF r # row THEN "behind"
                                    ELSE IF Unsettled(r.id) THEN "unsettled" ELSE "kept"]
  BY DEF Remembers
<1> HIDE DEF r
<1>3. /\ at \in [Calls -> CallStages] /\ at'[c] = stage
      /\ \A d \in Calls \ {c} : at'[d] = at[d] /\ target'[d] = target[d] /\ got'[d] = got[d]
      /\ got'[c] = NoRow
      /\ cache'[s0] = r
      /\ why'[s0] = "kept" => r = row /\ ~Unsettled(r.id)
      /\ \A s \in Servers \ {s0} : cache'[s] = cache[s] /\ why'[s] = why[s]
      /\ UNCHANGED <<row, latest, peer>>
  BY <1>2 DEF CacheInv, CacheTypeOK, Moves, peerVars
<1>4. CacheTypeOK'
  BY <1>1, <1>2 DEF CacheInv, CacheTypeOK, Moves, Follows
<1>5. \A d \in Calls : at[d] \in {"made", "remove"} => d \in Changes
  BY DEF CacheInv, StagesFit, Changes
<1>6. EntriesFit'
  <2>1. /\ row'.id <= latest'
        /\ \A d \in Calls : got'[d].id <= latest'
        /\ \A s \in Servers : cache'[s].id <= latest' /\ (~Up(s)' => cache'[s] = NoRow)
    BY <1>1, <1>3 DEF CacheInv, EntriesFit, Up
  <2>2. ASSUME NEW d \in Calls, at'[d] = "made"
        PROVE  /\ target'[d] # 0
               /\ \A s \in Servers : cache'[s].id = target'[d] => why'[s] # "kept"
    <3>1. d # c /\ at[d] = "made" /\ target'[d] = target[d] /\ d \in Changes
      BY <1>3, <1>5, <2>2
    <3>2. target[d] = r.id => Unsettled(r.id)
      BY <3>1 DEF Unsettled
    <3> QED
      BY <1>3, <3>1, <3>2 DEF CacheInv, EntriesFit
  <2> QED
    BY <2>1, <2>2 DEF EntriesFit
<1>7. ASSUME NEW s \in Servers, Doubtful(s)'
      PROVE  Doubtful(s)
  <2>1. CASE s = s0
    <3>1. why'[s0] = "kept" /\ cache'[s0] = row'
      BY <1>3, <1>7, <2>1 DEF Doubtful
    <3>2. PICK d \in Calls : at'[d] = "remove" /\ target'[d] = r.id
      BY <1>3, <1>7, <2>1, <3>1 DEF Doubtful
    <3>3. at[d] = "remove" /\ target[d] = r.id /\ d \in Changes
      BY <1>3, <1>5, <3>2
    <3>4. Unsettled(r.id)
      BY <3>3 DEF Unsettled
    <3> QED
      BY <1>3, <3>1, <3>4
  <2>2. CASE s # s0
    BY <1>3, <1>7, <2>2 DEF Doubtful
  <2> QED
    BY <2>1, <2>2
<1>8. at' = [at EXCEPT ![c] = stage]
  BY DEF Moves
<1> QED
  BY <1>4, <1>6, <1>7, <1>8, CallGoesOn

\* getCollection, and a delete that begins with it.
LEMMA GetsKeep ==
    ASSUME CacheInv, NEW c \in Calls, NEW s \in Servers, Hit(c, s) \/ Miss(c, s) \/ Fill(c, s)
    PROVE  CacheInv'
<1>1. /\ c \in Deletes => c \notin Reads
      /\ NoRow \in AnyRow /\ NoRow.id <= latest
      /\ row \in AnyRow /\ row.id <= latest
      /\ cache[s] \in AnyRow /\ got[c] \in AnyRow
      /\ cache[s].id \in Nat /\ got[c].id \in Nat
      /\ target \in [Calls -> Nat] /\ got \in [Calls -> AnyRow] /\ latest \in Nat
  <2>1. c \in Deletes => c \notin Reads
    BY CollectionsAssumption DEF Changes
  <2> QED
    BY <2>1 DEF CacheInv, CacheTypeOK, EntriesFit, AnyRow, NoRow
<1>2. CASE Hit(c, s)
  <2>1. at[c] = "start" /\ UNCHANGED <<peerVars, row, latest, cache, why>> /\ c \in Deletes
    BY <1>2 DEF Hit, Starts
  <2>2. Moves(c, "drop", cache[s].id, NoRow)
    BY <1>1, <1>2 DEF Hit, Has, Goto, Moves
  <2>3. Follows(c, "drop")
    BY <2>1 DEF Follows, CallStages, Early
  <2> QED
    BY <1>1, <2>1, <2>2, <2>3, ReadingKeeps
<1>3. CASE Miss(c, s)
  <2>1. at[c] = "start" /\ UNCHANGED <<peerVars, row, latest, cache, why>> /\ c \in Reads \cup Deletes
    BY <1>3 DEF Miss, Starts
  <2>2. target' = [target EXCEPT ![c] = target[c]] /\ target[c] \in Nat
    BY <1>1, <1>3 DEF Miss
  <2>3. Moves(c, "found", target[c], row)
    BY <1>3, <2>2 DEF Miss, Selects, Goto, Moves
  <2>4. Follows(c, "found")
    BY <2>1 DEF Follows, CallStages, Early
  <2> QED
    BY <1>1, <2>1, <2>2, <2>3, <2>4, ReadingKeeps
<1>4. CASE Fill(c, s)
  <2>1. /\ at[c] = "found" /\ Up(s) /\ UNCHANGED <<peerVars, row, latest>>
        /\ c \in Reads \cup Deletes
    BY <1>4 DEF Fill, Runs, CacheInv, StagesFit
  <2>2. CASE got[c] = NoRow
    <3>1. PICK stage \in {"ok", "failed"} : Moves(c, stage, 0, NoRow)
      BY <1>4, <2>2 DEF Fill, End, Goto, Moves
    <3>2. Follows(c, stage) /\ UNCHANGED <<cache, why>>
      BY <1>4, <2>1, <2>2 DEF Fill, Follows, CallStages, Early
    <3>3. stage \notin {"made", "remove"}
      OBVIOUS
    <3> QED
      BY <1>1, <2>1, <3>1, <3>2, <3>3, ReadingKeeps
  <2>3. CASE got[c] # NoRow
    <3>1. Remembers(s, got[c]) /\ Has(c, got[c])
      BY <1>4, <2>3 DEF Fill
    <3>2. PICK stage \in {"ok", "drop"}, id \in Nat :
            Moves(c, stage, id, NoRow) /\ (stage = "drop" => c \notin Reads)
      <4>1. CASE c \in Reads
        <5>1. Moves(c, "ok", 0, NoRow)
          BY <3>1, <4>1 DEF Has, End, Goto, Moves
        <5> QED
          BY <5>1
      <4>2. CASE c \notin Reads
        <5>1. Moves(c, "drop", got[c].id, NoRow)
          BY <3>1, <4>2 DEF Has, Goto, Moves
        <5> QED
          BY <1>1, <4>2, <5>1
      <4> QED
        BY <4>1, <4>2
    <3>3. Follows(c, stage) /\ stage \notin {"made", "remove", "written"}
      BY <2>1, <3>2 DEF Follows, CallStages, Early
    <3> QED
      BY <2>1, <3>1, <3>2, <3>3, RememberingKeeps
  <2> QED
    BY <2>2, <2>3
<1> QED
  BY <1>2, <1>3, <1>4

\* A create or an update reads.
LEMMA FindsKeep ==
    ASSUME CacheInv, NEW c \in Calls, NEW s \in Servers, Find(c, s) \/ Reread(c, s) \/ Store(c, s)
    PROVE  CacheInv'
<1>1. /\ NoRow \in AnyRow /\ NoRow.id <= latest
      /\ row \in AnyRow /\ row.id <= latest /\ row.id \in Nat
      /\ got[c] \in AnyRow /\ got[c].id <= latest /\ target[c] \in Nat
      /\ target \in [Calls -> Nat] /\ got \in [Calls -> AnyRow] /\ latest \in Nat
  BY DEF CacheInv, CacheTypeOK, EntriesFit, AnyRow, NoRow
<1>2. CASE Find(c, s)
  <2>1. at[c] = "start" /\ UNCHANGED <<peerVars, row, latest, cache, why>>
    BY <1>2 DEF Find, Starts
  <2>2. CASE row = NoRow
    <3>1. Moves(c, "failed", 0, NoRow)
      BY <1>2, <2>2 DEF Find, End, Goto, Moves
    <3>2. Follows(c, "failed")
      BY <2>1 DEF Follows, CallStages, Early
    <3> QED
      BY <1>1, <2>1, <3>1, <3>2, ReadingKeeps
  <2>3. CASE row # NoRow
    <3>1. Moves(c, "write", row.id, got[c])
      <4>1. got' = [got EXCEPT ![c] = got[c]]
        BY <1>1, <1>2, <2>3 DEF Find
      <4> QED
        BY <1>2, <2>3, <4>1 DEF Find, Goto, Moves
    <3>2. Follows(c, "write")
      BY <2>1 DEF Follows, CallStages, Early
    <3> QED
      BY <1>1, <2>1, <3>1, <3>2, ReadingKeeps
  <2> QED
    BY <2>2, <2>3
<1>3. CASE Reread(c, s)
  <2>1. at[c] \in {"made", "reread"} /\ UNCHANGED <<peerVars, row, latest, cache, why>>
    BY <1>3 DEF Reread, Runs
  <2>2. PICK r \in {row, NoRow} : got' = [got EXCEPT ![c] = r]
    BY <1>3 DEF Reread, Selects
  <2>3. Moves(c, "store", target[c], r)
    BY <1>1, <1>3, <2>2 DEF Reread, Goto, Moves
  <2>4. Follows(c, "store")
    BY <2>1 DEF Follows, CallStages, Early
  <2> QED
    BY <1>1, <2>1, <2>2, <2>3, <2>4, ReadingKeeps
<1>4. CASE Store(c, s)
  <2>1. at[c] = "store" /\ Up(s) /\ UNCHANGED <<peerVars, row, latest>>
    BY <1>4 DEF Store, Runs
  <2>2. CASE got[c] = NoRow
    <3>1. Moves(c, "failed", 0, NoRow) /\ UNCHANGED <<cache, why>>
      BY <1>4, <2>2 DEF Store, End, Goto, Moves
    <3>2. Follows(c, "failed")
      BY <2>1 DEF Follows, CallStages, Early
    <3> QED
      BY <1>1, <2>1, <3>1, <3>2, ReadingKeeps
  <2>3. CASE got[c] # NoRow
    <3>1. Moves(c, "ok", 0, NoRow) /\ Remembers(s, got[c])
      BY <1>4, <2>3 DEF Store, End, Goto, Moves
    <3>2. Follows(c, "ok")
      BY <2>1 DEF Follows, CallStages, Early
    <3> QED
      BY <2>1, <3>1, <3>2, RememberingKeeps
  <2> QED
    BY <2>2, <2>3
<1> QED
  BY <1>2, <1>3, <1>4

\* A create inserts the row, and may take it away again.
LEMMA CreatesKeep ==
    ASSUME CacheInv, NEW c \in Calls, NEW s \in Servers, Insert(c, s) \/ CreateFails(c, s)
    PROVE  CacheInv'
<1>1. /\ NoRow \in AnyRow /\ NoRow.id = 0 /\ row \in AnyRow /\ latest \in Nat \ {0}
      /\ target \in [Calls -> Nat] /\ got \in [Calls -> AnyRow] /\ cache \in [Servers -> AnyRow]
      /\ at \in [Calls -> CallStages]
      /\ CacheTypeOK /\ EntriesFit
  BY DEF CacheInv, CacheTypeOK, AnyRow, NoRow
<1>2. CASE Insert(c, s) /\ row # NoRow
  <2>1. at[c] = "start" /\ UNCHANGED <<peerVars, row, latest, cache, why>>
    BY <1>2 DEF Insert, Starts
  <2>2. Moves(c, "failed", 0, NoRow)
    BY <1>2 DEF Insert, End, Goto, Moves
  <2>3. Follows(c, "failed")
    BY <2>1 DEF Follows, CallStages, Early
  <2> QED
    BY <1>1, <2>1, <2>2, <2>3, ReadingKeeps
<1>3. CASE Insert(c, s) /\ row = NoRow
  <2>1. /\ at[c] = "start" /\ c \in Creates
        /\ UNCHANGED <<peerVars, cache, why, got>>
        /\ row' = [id |-> latest + 1, ver |-> latest + 1]
        /\ latest' = latest + 1
        /\ target' = [target EXCEPT ![c] = latest + 1]
        /\ at' = [at EXCEPT ![c] = "made"]
    BY <1>3 DEF Insert, Starts, Goto
  <2>2. Follows(c, "made")
    BY <2>1 DEF Follows, CallStages, Early
  <2>3. CacheTypeOK'
    BY <1>1, <2>1 DEF CacheTypeOK, AnyRow, CallStages
  <2>4. EntriesFit'
    <3>1. /\ row'.id <= latest' /\ peer' = peer
          /\ \A d \in Calls : got[d].id \in Nat
          /\ \A r \in Servers : cache[r].id \in Nat
      BY <1>1, <2>1 DEF AnyRow, peerVars
    <3>2. /\ \A d \in Calls : got'[d].id <= latest'
          /\ \A r \in Servers : cache'[r].id <= latest /\ cache'[r].id <= latest' /\ (~Up(r)' => cache'[r] = NoRow)
      BY <1>1, <2>1, <3>1 DEF EntriesFit, Up
    <3>3. ASSUME NEW d \in Calls, at'[d] = "made"
          PROVE  target'[d] # 0 /\ \A r \in Servers : cache'[r].id = target'[d] => why'[r] # "kept"
      <4>1. CASE d = c
        BY <1>1, <2>1, <3>1, <3>2, <4>1
      <4>2. CASE d # c
        BY <1>1, <2>1, <3>3, <4>2 DEF EntriesFit
      <4> QED
        BY <4>1, <4>2
    <3> QED
      BY <3>1, <3>2, <3>3 DEF EntriesFit
  <2>5. ASSUME NEW r \in Servers, Doubtful(r)'
        PROVE  Doubtful(r)
    BY <1>1, <1>3, <2>1, <2>5 DEF Doubtful
  <2> QED
    BY <2>1, <2>2, <2>3, <2>4, <2>5, CallGoesOn
<1>4. CASE CreateFails(c, s)
  <2>1. /\ at[c] = "made"
        /\ UNCHANGED <<peerVars, latest, cache, why>>
        /\ row' = (IF row.id = target[c] THEN NoRow ELSE row)
        /\ Moves(c, "failed", 0, NoRow)
    BY <1>4 DEF CreateFails, Runs, End, Goto, Moves
  <2>2. Follows(c, "failed") /\ at' = [at EXCEPT ![c] = "failed"]
    BY <2>1 DEF Follows, CallStages, Early, Moves
  <2>3. CacheTypeOK'
    BY <1>1, <2>1 DEF CacheTypeOK, AnyRow, CallStages, Moves
  <2>4. EntriesFit'
    BY <1>1, <2>1 DEF EntriesFit, Up, Moves, peerVars
  <2>5. ASSUME NEW r \in Servers, Doubtful(r)'
        PROVE  Doubtful(r)
    <3>1. cache[r] = row /\ row.id = target[c] => why[r] # "kept"
      BY <1>1, <2>1 DEF EntriesFit
    <3> QED
      BY <1>1, <2>1, <2>5, <3>1 DEF Doubtful, Moves
  <2> QED
    BY <2>1, <2>2, <2>3, <2>4, <2>5, CallGoesOn
<1> QED
  BY <1>2, <1>3, <1>4

\* An update or a delete writes the row.
LEMMA WritesKeep ==
    ASSUME CacheInv, NEW c \in Calls, NEW s \in Servers, Write(c, s) \/ Remove(c, s)
    PROVE  CacheInv'
<1>1. /\ NoRow \in AnyRow /\ NoRow.id = 0 /\ row \in AnyRow /\ latest \in Nat \ {0}
      /\ target \in [Calls -> Nat] /\ got \in [Calls -> AnyRow] /\ cache \in [Servers -> AnyRow]
      /\ at \in [Calls -> CallStages]
      /\ CacheTypeOK /\ EntriesFit
  BY DEF CacheInv, CacheTypeOK, AnyRow, NoRow
<1>2. CASE Write(c, s)
  <2>1. /\ at[c] = "write"
        /\ UNCHANGED <<peerVars, cache, target, got, why>>
        /\ at' = [at EXCEPT ![c] = "written"]
    BY <1>2 DEF Write, Runs, Goto
  <2>2. Follows(c, "written")
    BY <2>1 DEF Follows, CallStages, Early
  <2>3. /\ latest' \in Nat \ {0} /\ latest <= latest'
        /\ row' \in AnyRow /\ row'.id = row.id
    <3>1. CASE row.id = target[c]
      BY <1>1, <1>2, <3>1 DEF Write, AnyRow
    <3>2. CASE row.id # target[c]
      BY <1>1, <1>2, <3>2 DEF Write
    <3> QED
      BY <3>1, <3>2
  <2>4. CacheTypeOK'
    BY <1>1, <2>1, <2>3 DEF CacheTypeOK, CallStages
  <2>5. EntriesFit'
    <3>1. /\ row.id \in Nat /\ peer' = peer
          /\ \A d \in Calls : got[d].id \in Nat
          /\ \A r \in Servers : cache[r].id \in Nat
      BY <1>1, <2>1 DEF AnyRow, peerVars
    <3> QED
      BY <1>1, <2>1, <2>3, <3>1 DEF EntriesFit, Up
  <2>6. \A r \in Servers : Doubtful(r)' => Doubtful(r) \/ "written" = "written"
    OBVIOUS
  <2> QED
    BY <2>1, <2>2, <2>4, <2>5, <2>6, CallGoesOn
<1>3. CASE Remove(c, s)
  <2>1. /\ at[c] = "remove"
        /\ UNCHANGED <<peerVars, latest, cache, why>>
        /\ row' = (IF row.id = target[c] THEN NoRow ELSE row)
        /\ Moves(c, "ok", 0, NoRow)
    BY <1>3 DEF Remove, Runs, End, Goto, Moves
  <2>2. Follows(c, "ok") /\ at' = [at EXCEPT ![c] = "ok"]
    BY <2>1 DEF Follows, CallStages, Early, Moves
  <2>3. CacheTypeOK'
    BY <1>1, <2>1 DEF CacheTypeOK, AnyRow, CallStages, Moves
  <2>4. EntriesFit'
    BY <1>1, <2>1 DEF EntriesFit, Up, Moves, peerVars
  <2>5. ASSUME NEW r \in Servers, Doubtful(r)'
        PROVE  Doubtful(r)
    BY <1>1, <2>1, <2>5 DEF Doubtful, Moves
  <2> QED
    BY <2>1, <2>2, <2>3, <2>4, <2>5, CallGoesOn
<1> QED
  BY <1>2, <1>3


\* An update or a delete tells the others: none of them has heard of it yet.
LEMMA AnnouncementsKeep ==
    ASSUME CacheInv, NEW c \in Calls, NEW s \in Servers, Updated(c, s) \/ Dropped(c, s)
    PROVE  CacheInv'
<1>1. PICK stage \in {"reread", "remove"} :
        /\ Announce(c, s, stage)
        /\ at[c] \in {"written", "drop"}
        /\ stage = "remove" => c \in Deletes
  BY DEF Updated, Dropped, Runs, CacheInv, StagesFit
<1>2. /\ cache' = [cache EXCEPT ![s] = NoRow]
      /\ why' = [why EXCEPT ![s] = "kept"]
      /\ peer' = [peer EXCEPT ![s].outbox = @ \cup {c}]
      /\ bump' = [bump EXCEPT ![c].stage = "asked", ![c].from = s]
      /\ unheard' = unheard \cup {c}
      /\ at' = [at EXCEPT ![c] = stage]
      /\ UNCHANGED <<seq, row, latest, target, got>>
  BY <1>1 DEF Announce, Forgets, sendToPeers, Goto
<1>3. /\ PeersTypeOK /\ CacheTypeOK /\ StagesFit /\ EarlyFit /\ MovesFit /\ EntriesFit
      /\ c \notin unheard /\ bump[c] = NoBump
      /\ \A r \in Servers : c \notin peer[r].outbox
  BY <1>1 DEF CacheInv, EarlyFit, Early
<1>4. /\ peer' \in [Servers -> Peer]
      /\ \A r \in Servers :
           /\ peer'[r].up = peer[r].up
           /\ peer'[r].genSeen = peer[r].genSeen /\ peer'[r].genOwn = peer[r].genOwn
           /\ peer'[r].outbox \subseteq peer[r].outbox \cup {c}
           /\ r # s => peer'[r] = peer[r]
  <2> DEFINE p == [peer[s] EXCEPT !.outbox = @ \cup {c}]
  <2>1. peer \in [Servers -> Peer]
    BY <1>3 DEF PeersTypeOK
  <2>2. /\ p \in Peer /\ p.up = peer[s].up /\ p.genSeen = peer[s].genSeen
        /\ p.genOwn = peer[s].genOwn /\ p.outbox = peer[s].outbox \cup {c}
    BY <2>1 DEF Peer
  <2>3. peer' = [peer EXCEPT ![s] = p]
    BY <1>2
  <2> HIDE DEF p
  <2> QED
    BY <2>1, <2>2, <2>3
<1>5. /\ bump' \in [Calls -> Bump]
      /\ bump'[c].stage = "asked" /\ bump'[c].from = s
      /\ \A d \in Calls \ {c} : bump'[d] = bump[d]
  <2> DEFINE begun == [bump[c] EXCEPT !.stage = "asked"]
             told == [begun EXCEPT !.from = s]
  <2>1. bump \in [Calls -> Bump]
    BY <1>3 DEF PeersTypeOK
  <2>2. begun \in Bump /\ begun.stage = "asked"
    BY <2>1 DEF Bump
  <2>3. told \in Bump /\ told.stage = "asked" /\ told.from = s
    <3> HIDE DEF begun
    <3> QED
      BY <2>2 DEF Bump
  <2>4. bump' = [bump EXCEPT ![c] = told]
    BY <1>2, <2>1
  <2> HIDE DEF told
  <2> QED
    BY <2>1, <2>3, <2>4
<1>6. /\ at' \in [Calls -> CallStages] /\ at'[c] = stage
      /\ \A d \in Calls \ {c} : at'[d] = at[d]
      /\ cache'[s] = NoRow /\ why'[s] = "kept"
      /\ \A r \in Servers \ {s} : cache'[r] = cache[r] /\ why'[r] = why[r]
  BY <1>2, <1>3 DEF CacheTypeOK, CallStages
<1>7. PeersTypeOK'
  BY <1>2, <1>3, <1>4, <1>5 DEF PeersTypeOK
<1>8. CacheTypeOK'
  BY <1>2, <1>3, <1>6 DEF CacheTypeOK, AnyRow, NoRow
<1>9. StagesFit'
  BY <1>1, <1>3, <1>6 DEF StagesFit
<1>10. EarlyFit'
  BY <1>1, <1>2, <1>3, <1>4, <1>5, <1>6 DEF EarlyFit, Early
<1>11. MovesFit'
  BY <1>2, <1>3, <1>4, <1>5 DEF MovesFit
<1>12. EntriesFit'
  <2>1. NoRow.id = 0 /\ latest \in Nat
    BY <1>3 DEF NoRow, CacheTypeOK
  <2> QED
    BY <1>1, <1>2, <1>3, <1>4, <1>6, <2>1 DEF EntriesFit, Up
<1>13. ASSUME NEW r \in Servers, Doubtful(r)'
       PROVE  Untold(r)'
  <2>1. r # s
    BY <1>6, <1>13 DEF Doubtful
  <2>2. c \in unheard' /\ c \notin peer'[r].outbox /\ bump'[c].from # r
    BY <1>2, <1>3, <1>4, <1>5, <2>1
  <2> QED
    BY <2>2 DEF Untold
<1>14. DoubtsAnswered'
  BY <1>13 DEF DoubtsAnswered
<1> QED
  BY <1>7, <1>8, <1>9, <1>10, <1>11, <1>12, <1>14 DEF CacheInv

-----------------------------------------------------------------------------
(* The servers. *)

\* A call that a crash has cut short runs nowhere, so that no other crash ends it
\* again.
CutFit == /\ on \in [Calls -> Servers \cup {None}]
          /\ \A c \in Calls : at[c] = "cut" => on[c] = None

\* A call goes on as it was, or it is cut short.
Survives(c) ==
    \/ at'[c] = at[c] /\ target'[c] = target[c] /\ got'[c] = got[c]
    \/ /\ at'[c] = "cut" \/ (at'[c] = "failed" /\ at[c] \notin {"written", "cut"})
       /\ target'[c] = 0 /\ got'[c] = NoRow

\* The server s alone has nothing cached any more.
Empties(s) ==
    /\ cache' = [cache EXCEPT ![s] = NoRow]
    /\ why' = [why EXCEPT ![s] = "kept"] \/ why' = why
    /\ UNCHANGED <<row, latest, seq, bump, unheard>>
    /\ \A c \in Calls : Survives(c)

LEMMA EmptyingKeeps ==
    ASSUME CacheInv, NEW s \in Servers, Empties(s), at' \in [Calls -> CallStages],
           target' \in [Calls -> Nat], got' \in [Calls -> AnyRow],
           peer' \in [Servers -> Peer],
           \A r \in Servers \ {s} : peer'[r] = peer[r],
           peer'[s].outbox \subseteq peer[s].outbox,
           peer'[s].genSeen <= seq, \A g \in peer'[s].genOwn : g <= seq
    PROVE  CacheInv'
<1>1. /\ PeersTypeOK /\ CacheTypeOK /\ StagesFit /\ EarlyFit /\ MovesFit /\ EntriesFit
      /\ UNCHANGED <<row, latest, seq, bump, unheard>>
      /\ NoRow \in AnyRow /\ NoRow.id = 0
  BY DEF CacheInv, Empties, AnyRow, NoRow
<1>2. /\ cache'[s] = NoRow
      /\ cache' \in [Servers -> AnyRow] /\ why' \in [Servers -> {"kept", "behind", "unsettled"}]
      /\ \A r \in Servers \ {s} : cache'[r] = cache[r] /\ why'[r] = why[r]
  BY <1>1 DEF Empties, CacheTypeOK
<1>3. \A c \in Calls :
         \/ at'[c] = at[c] /\ target'[c] = target[c] /\ got'[c] = got[c]
         \/ /\ at'[c] = "cut" \/ (at'[c] = "failed" /\ at[c] \notin {"written", "cut"})
            /\ target'[c] = 0 /\ got'[c] = NoRow
  BY DEF Empties, Survives
<1>4. PeersTypeOK' /\ CacheTypeOK'
  BY <1>1, <1>2 DEF PeersTypeOK, CacheTypeOK
<1>5. StagesFit'
  BY <1>1, <1>3 DEF StagesFit
<1>6. EarlyFit'
  BY <1>1, <1>3 DEF EarlyFit, Early
<1>7. MovesFit'
  BY <1>1 DEF MovesFit
<1>8. EntriesFit'
  <2>1. latest \in Nat
    BY <1>1 DEF CacheTypeOK
  <2> QED
    BY <1>1, <1>2, <1>3, <2>1 DEF EntriesFit, Up
<1>9. ASSUME NEW r \in Servers, Doubtful(r)'
      PROVE  Coming(r)' \/ Untold(r)'
  <2>1. r # s
    BY <1>2, <1>9 DEF Doubtful
  <2>2. peer'[r] = peer[r]
    BY <2>1
  <2>3. Doubtful(r)
    BY <1>1, <1>2, <1>3, <1>9, <2>1 DEF Doubtful
  <2>4. CASE Coming(r)
    BY <1>1, <2>2, <2>4 DEF Coming, Unseen
  <2>5. CASE Untold(r)
    BY <1>1, <1>3, <2>2, <2>5 DEF Untold
  <2> QED
    BY <2>3, <2>4, <2>5 DEF CacheInv, DoubtsAnswered
<1>10. DoubtsAnswered'
  BY <1>9 DEF DoubtsAnswered
<1> QED
  BY <1>4, <1>5, <1>6, <1>7, <1>8, <1>10 DEF CacheInv

LEMMA DropKeeps ==
    ASSUME CacheInv, NEW s \in Servers, Drop(s)
    PROVE  CacheInv'
<1>1. /\ peer[s].inbox > 0
      /\ peer' = [peer EXCEPT ![s].inbox = @ - 1]
      /\ UNCHANGED <<seq, bump, unheard, row, latest, at, target, got>>
      /\ peer \in [Servers -> Peer]
  BY DEF Drop, Handle, callVars, CacheInv, PeersTypeOK
<1>2. /\ peer' \in [Servers -> Peer]
      /\ \A r \in Servers \ {s} : peer'[r] = peer[r]
      /\ peer'[s].outbox = peer[s].outbox
      /\ peer'[s].genSeen = peer[s].genSeen /\ peer'[s].genOwn = peer[s].genOwn
  <2> DEFINE p == [peer[s] EXCEPT !.inbox = @ - 1]
  <2>1. /\ p \in Peer /\ p.outbox = peer[s].outbox
        /\ p.genSeen = peer[s].genSeen /\ p.genOwn = peer[s].genOwn
    BY <1>1 DEF Peer
  <2>2. peer' = [peer EXCEPT ![s] = p]
    BY <1>1
  <2> HIDE DEF p
  <2> QED
    BY <1>1, <2>1, <2>2
<1>3. peer[s].genSeen <= seq /\ \A g \in peer[s].genOwn : g <= seq
  BY DEF CacheInv, MovesFit
<1>4. Empties(s)
  BY <1>1 DEF Drop, Forgets, Empties, Survives
<1>5. at' \in [Calls -> CallStages] /\ target' \in [Calls -> Nat] /\ got' \in [Calls -> AnyRow]
  BY <1>1 DEF CacheInv, CacheTypeOK
<1> QED
  BY <1>2, <1>3, <1>4, <1>5, EmptyingKeeps

LEMMA CrashKeeps ==
    ASSUME CacheInv, CutFit, NEW s \in Servers, Crash(s)
    PROVE  CacheInv'
<1>1. /\ peer' = [peer EXCEPT ![s] = Off]
      /\ UNCHANGED <<seq, bump, unheard, row, latest>>
      /\ peer \in [Servers -> Peer] /\ seq \in Nat
  BY DEF Crash, PeerCrash, CacheInv, PeersTypeOK
<1>2. Off \in Peer /\ Off.outbox = {} /\ Off.genSeen = 0 /\ Off.genOwn = {}
  BY DEF Off, Peer
<1>3. /\ peer' \in [Servers -> Peer]
      /\ \A r \in Servers \ {s} : peer'[r] = peer[r]
      /\ peer'[s] = Off
  BY <1>1, <1>2
<1>4. ASSUME NEW c \in Calls
      PROVE  Survives(c)
  <2>1. CASE on[c] = s
    <3>1. at[c] # "cut"
      BY <2>1, PeersAssumption DEF CutFit
    <3> QED
      BY <2>1, <3>1 DEF Crash, Survives
  <2>2. CASE on[c] # s
    BY <2>2 DEF Crash, Survives
  <2> QED
    BY <2>1, <2>2
<1>5. at' \in [Calls -> CallStages] /\ target' \in [Calls -> Nat] /\ got' \in [Calls -> AnyRow]
  BY DEF Crash, CacheInv, CacheTypeOK, CallStages, AnyRow, NoRow
<1>6. Empties(s)
  BY <1>1, <1>4 DEF Crash, Forgets, Empties
<1> QED
  BY <1>1, <1>2, <1>3, <1>5, <1>6, EmptyingKeeps

LEMMA RestartKeeps ==
    ASSUME CacheInv, NEW s \in Servers, Restart(s)
    PROVE  CacheInv'
<1>1. /\ ~Up(s)
      /\ peer' = [peer EXCEPT ![s] = Started(seq)]
      /\ UNCHANGED <<seq, bump, unheard, row, latest, cache, why, at, target, got>>
      /\ peer \in [Servers -> Peer] /\ seq \in Nat
      /\ CacheTypeOK /\ EntriesFit
  BY DEF Restart, startPeers, callVars, CacheInv, PeersTypeOK
<1>2. /\ Started(seq) \in Peer
      /\ Started(seq).outbox = {} /\ Started(seq).genSeen = seq /\ Started(seq).genOwn = {}
  <2> DEFINE begun == [Off EXCEPT !.up = TRUE]
             hears == [begun EXCEPT !.listening = TRUE]
  <2>1. begun \in Peer /\ begun.outbox = {} /\ begun.genOwn = {}
    BY DEF Off, Peer
  <2>2. hears \in Peer /\ hears.outbox = {} /\ hears.genOwn = {}
    <3> HIDE DEF begun
    <3> QED
      BY <2>1 DEF Peer
  <2>3. Started(seq) = [hears EXCEPT !.genSeen = seq]
    BY DEF Started
  <2> HIDE DEF hears
  <2> QED
    BY <1>1, <2>2, <2>3 DEF Peer
<1>3. /\ peer' \in [Servers -> Peer]
      /\ \A r \in Servers \ {s} : peer'[r] = peer[r]
      /\ peer'[s] = Started(seq)
  BY <1>1, <1>2
<1>4. Empties(s)
  <2>1. cache[s] = NoRow
    BY <1>1 DEF EntriesFit
  <2> QED
    BY <1>1, <2>1 DEF Empties, Survives, CacheTypeOK
<1> QED
  BY <1>1, <1>2, <1>3, <1>4, EmptyingKeeps DEF CacheTypeOK


\* Only calls under way have a server.
LEMMA CutStays ==
    ASSUME CacheInv, CutFit, [Next]_vars
    PROVE  CutFit'
<1>1. /\ on \in [Calls -> Servers \cup {None}] /\ at \in [Calls -> CallStages]
      /\ \A c \in Calls : at[c] = "cut" => on[c] = None
  BY DEF CutFit, CacheInv, CacheTypeOK
<1>2. ASSUME NEW c \in Calls, NEW s \in Servers, CallStep(c, s)
      PROVE  CutFit'
  <2>1. PICK stage \in CallStages \ {"cut"} : at' = [at EXCEPT ![c] = stage]
    <3>1. CASE Fill(c, s)
      BY <3>1 DEF Fill, Has, End, Goto, CallStages
    <3>2. CASE Hit(c, s) \/ Miss(c, s) \/ Insert(c, s) \/ CreateFails(c, s)
      <4>1. CollectionsAssumption
        BY CollectionsAssumption
      <4> QED
        BY <3>2, <4>1 DEF Hit, Miss, Has, Insert, CreateFails, End, Goto, CallStages,
                          CollectionsAssumption, Changes
    <3>3. CASE Find(c, s) \/ Write(c, s) \/ Updated(c, s) \/ Reread(c, s)
      BY <3>3 DEF Find, Write, Updated, Announce, Reread, End, Goto, CallStages
    <3>4. CASE Store(c, s) \/ Dropped(c, s) \/ Remove(c, s)
      BY <3>4 DEF Store, Dropped, Announce, Remove, End, Goto, CallStages
    <3> QED
      BY <1>2, <3>1, <3>2, <3>3, <3>4 DEF CallStep
  <2>2. PICK d \in Servers \cup {None} : on' = [on EXCEPT ![c] = d] \/ on' = on
    <3>1. CASE Fill(c, s)
      <4>1. c \in Reads \cup Deletes
        BY <3>1 DEF Fill, Runs, CacheInv, StagesFit
      <4> QED
        BY <3>1, <4>1 DEF Fill, Has, End
    <3>2. CASE Hit(c, s) \/ Miss(c, s) \/ Insert(c, s) \/ CreateFails(c, s)
      BY <3>2 DEF Hit, Miss, Insert, CreateFails, End
    <3>3. CASE Find(c, s) \/ Write(c, s) \/ Updated(c, s) \/ Reread(c, s)
      BY <3>3 DEF Find, Write, Updated, Announce, Reread, End
    <3>4. CASE Store(c, s) \/ Dropped(c, s) \/ Remove(c, s)
      BY <3>4 DEF Store, Dropped, Announce, Remove, End
    <3> QED
      BY <1>2, <3>1, <3>2, <3>3, <3>4 DEF CallStep
  <2>3. /\ on' \in [Calls -> Servers \cup {None}]
        /\ \A b \in Calls \ {c} : on'[b] = on[b] /\ at'[b] = at[b]
        /\ at'[c] # "cut"
    BY <1>1, <2>1, <2>2
  <2> QED
    BY <1>1, <2>3 DEF CutFit
<1>3. ASSUME NEW s \in Servers, Crash(s)
      PROVE  CutFit'
  <2>1. /\ on' = [c \in Calls |-> IF on[c] = s THEN None ELSE on[c]]
        /\ \A c \in Calls : on[c] # s => at'[c] = at[c]
    BY <1>3 DEF Crash
  <2> QED
    BY <1>1, <2>1 DEF CutFit
<1>4. CASE UNCHANGED <<at, on>>
  BY <1>1, <1>4 DEF CutFit
<1> QED
  BY <1>2, <1>3, <1>4 DEF Next, Drop, Restart, callVars, vars

LEMMA CacheStarts == Init => CacheInv /\ CutFit
<1> SUFFICES ASSUME Init
             PROVE  CacheInv /\ CutFit
  OBVIOUS
<1>1. /\ PeersInit /\ row \in {NoRow, [id |-> 1, ver |-> 1]} /\ latest = 1
      /\ cache = [s \in Servers |-> NoRow]
      /\ at = [c \in Calls |-> "start"] /\ on = [c \in Calls |-> None]
      /\ target = [c \in Calls |-> 0] /\ got = [c \in Calls |-> NoRow]
      /\ why = [s \in Servers |-> "kept"]
  BY DEF Init
<1>2. Started(0) \in Peer /\ Started(0).outbox = {} /\ Started(0).genSeen = 0 /\ Started(0).genOwn = {}
  BY DEF Started, Off, Peer
<1>3. /\ seq = 0 /\ peer \in [Servers -> Peer] /\ bump \in [Calls -> Bump] /\ unheard = {}
      /\ \A s \in Servers : peer[s] = Started(0)
      /\ \A c \in Calls : bump[c] = NoBump
  BY <1>1, <1>2 DEF PeersInit, Bump, NoBump
<1>4. NoRow \in AnyRow /\ NoRow.id = 0 /\ row \in AnyRow /\ row.id <= 1
  BY <1>1 DEF NoRow, AnyRow
<1>5. PeersTypeOK
  BY <1>3 DEF PeersTypeOK
<1>6. CacheTypeOK
  BY <1>1, <1>4 DEF CacheTypeOK, CallStages
<1>7. StagesFit /\ EarlyFit /\ MovesFit
  BY <1>1, <1>2, <1>3 DEF StagesFit, EarlyFit, MovesFit, NoBump
<1>8. EntriesFit
  BY <1>1, <1>4 DEF EntriesFit
<1>9. DoubtsAnswered
  BY <1>1 DEF DoubtsAnswered, Doubtful
<1>10. CutFit
  BY <1>1 DEF CutFit
<1> QED
  BY <1>5, <1>6, <1>7, <1>8, <1>9, <1>10 DEF CacheInv

LEMMA PeersKeep ==
    ASSUME CacheInv, PeersStep, UNCHANGED <<row, latest, cache, callVars, why>>
    PROVE  CacheInv'
<1>1. UNCHANGED <<row, latest, cache, at, target, got, why>>
  BY DEF callVars
<1>2. GoesOn
  BY <1>1, PeersGoOn
<1>3. CacheTypeOK' /\ StagesFit' /\ EntriesFit'
  BY <1>1, <1>2 DEF CacheInv, CacheTypeOK, StagesFit, EntriesFit, GoesOn
<1>4. \A s \in Servers : Doubtful(s)' => Doubtful(s)
  BY <1>1 DEF Doubtful
<1>5. DoubtsAnswered'
  BY <1>2, <1>4 DEF CacheInv, DoubtsAnswered, GoesOn, Answered
<1> QED
  BY <1>2, <1>3, <1>5 DEF CacheInv, GoesOn

LEMMA CacheSteps == CacheInv /\ CutFit /\ [Next]_vars => CacheInv' /\ CutFit'
<1> SUFFICES ASSUME CacheInv, CutFit, [Next]_vars
             PROVE  CacheInv'
  BY CutStays
<1>1. ASSUME NEW c \in Calls, NEW s \in Servers, CallStep(c, s)
      PROVE  CacheInv'
  BY <1>1, GetsKeep, FindsKeep, CreatesKeep, WritesKeep, AnnouncementsKeep DEF CallStep
<1>2. ASSUME PeersStep, UNCHANGED <<row, latest, cache, callVars, why>>
      PROVE  CacheInv'
  BY <1>2, PeersKeep
<1>3. ASSUME NEW s \in Servers, Drop(s) \/ Crash(s) \/ Restart(s)
      PROVE  CacheInv'
  BY <1>3, DropKeeps, CrashKeeps, RestartKeeps
<1>4. ASSUME UNCHANGED vars
      PROVE  CacheInv'
  <2>1. UNCHANGED <<seq, peer, bump, unheard, row, latest, cache, at, target, got, why>>
    BY <1>4 DEF vars, peerVars, callVars
  <2>2. /\ PeersTypeOK' /\ CacheTypeOK' /\ StagesFit' /\ EarlyFit' /\ MovesFit' /\ EntriesFit'
    BY <2>1 DEF CacheInv, PeersTypeOK, CacheTypeOK, StagesFit, EarlyFit, MovesFit, EntriesFit, Up
  <2>3. DoubtsAnswered'
    BY <2>1 DEF CacheInv, DoubtsAnswered, Doubtful, Coming, Unseen, Untold
  <2> QED
    BY <2>2, <2>3 DEF CacheInv
<1> QED
  BY <1>1, <1>2, <1>3, <1>4 DEF Next

\* When all is quiet there is nothing left to wait for.
LEMMA NothingIsDoubtful == CacheInv => ChangesReachEveryone
<1> SUFFICES ASSUME CacheInv, Quiet, AllTold, NEW s \in Servers,
                    cache[s] \notin {NoRow, row}, why[s] = "kept"
             PROVE  FALSE
  BY DEF ChangesReachEveryone
<1>1. Up(s)
  BY DEF CacheInv, EntriesFit
<1>2. Coming(s) \/ Untold(s)
  BY DEF CacheInv, DoubtsAnswered, Doubtful
<1>3. peer[s].inbox = 0 /\ peer[s].listening /\ peer[s].genSeen = seq /\ seq \in Nat
  BY <1>1 DEF Quiet, PeersQuiet, CacheInv, PeersTypeOK
<1>4. ~Coming(s)
  BY <1>3 DEF Coming, Unseen
<1>5. ~Untold(s)
  BY DEF Untold, Quiet, AllTold
<1> QED
  BY <1>2, <1>4, <1>5

\* Whatever NOTIFYs fail, connections drop and servers restart, once all is quiet
\* and every change could be told, no server has an older row cached in good faith
\* (collections.ts with peers.ts).
THEOREM ChangesReachTheCaches == Spec => []ChangesReachEveryone
<1>1. Spec => [](CacheInv /\ CutFit)
  BY CacheStarts, CacheSteps, PTL DEF Spec
<1> QED
  BY <1>1, NothingIsDoubtful, PTL

=============================================================================
