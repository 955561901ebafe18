-------------------------------- MODULE Peers --------------------------------
(***************************************************************************)
(* How the servers on one Postgres database tell each other that something *)
(* they may have cached has changed (src/src/core/peers.ts).               *)
(*                                                                         *)
(* An announcement moves the sequence GEN_SEQUENCE, in a statement nobody  *)
(* waits for, and waits for a NOTIFY, which is tried again when it fails.  *)
(* Each server polls the sequence: a move it did not make itself means it  *)
(* may have missed an announcement, and it resets, as it does when its     *)
(* listening connection comes back.                                        *)
(*                                                                         *)
(* All announcements are of one kind, and what a server does on hearing    *)
(* one, or on a reset, is the same: it drops its cache (Handle).  They are *)
(* sent outside transactions.  A NOTIFY that fails and gets through when   *)
(* tried again is one that leaves late, after others perhaps.              *)
(***************************************************************************)
EXTENDS Naturals, FiniteSets

CONSTANTS Servers,
          Calls,      \* the calls that may announce a change, once each
          MaxFaults,  \* bound: nextvals that fail, NOTIFYs that are given up or
                      \* sent twice, connections that drop, servers that crash
          None

ASSUME PeersAssumption == MaxFaults \in Nat /\ None \notin Servers \cup Calls

VARIABLES seq,      \* last_value of GEN_SEQUENCE
          peer,     \* what each server knows
          bump,     \* the nextval of each announcement
          unheard,  \* history: the announcements that neither moved the sequence
                    \* nor got through
          faults    \* how much has gone wrong

peerVars == <<seq, peer, bump, unheard, faults>>

\* listening  the listening connection is up;  inbox: messages and resets
\*            received and not handled;  outbox: announcements not sent yet
\* genSeen, genOwn, polling   the generation last seen, the moves that were its
\*            own, and the generation when the poll under way began
Peer == [up : BOOLEAN, listening : BOOLEAN, inbox : Nat, outbox : SUBSET Calls,
         genSeen : Nat, genOwn : SUBSET Nat, polling : Nat \cup {None}]

\* A nextval: under way, run and not answered, or neither.
Bump == [stage : {"none", "asked", "moved"},
         n : Nat, from : Servers \cup {None}]

NoBump == [stage |-> "none", n |-> 0, from |-> None]
Off == [up |-> FALSE, listening |-> FALSE, inbox |-> 0, outbox |-> {},
        genSeen |-> 0, genOwn |-> {}, polling |-> None]
Started(gen) == [Off EXCEPT !.up = TRUE, !.listening = TRUE, !.genSeen = gen]

PeersInit == /\ seq = 0
             /\ peer = [s \in Servers |-> Started(0)]
             /\ bump = [c \in Calls |-> NoBump]
             /\ unheard = {}
             /\ faults = 0

Up(s) == peer[s].up

Fault == faults < MaxFaults /\ faults' = faults + 1
Fine == UNCHANGED faults

-----------------------------------------------------------------------------

\* sendToPeers: the call c on server s announces a change.
sendToPeers(s, c) ==
    /\ peer' = [peer EXCEPT ![s].outbox = @ \cup {c}]
    /\ bump' = [bump EXCEPT ![c].stage = "asked", ![c].from = s]
    /\ unheard' = unheard \cup {c}
    /\ UNCHANGED <<seq, faults>>

BumpOver(c) == bump' = [bump EXCEPT ![c] = NoBump]

\* bumpGeneration's statement runs, or fails.
Nextval(c) == /\ bump[c].stage = "asked"
              /\ \/ /\ Fine
                    /\ seq' = seq + 1
                    /\ bump' = [bump EXCEPT ![c].stage = "moved", ![c].n = seq + 1]
                    /\ unheard' = unheard \ {c}
                 \/ /\ Fault
                    /\ BumpOver(c)
                    /\ UNCHANGED <<seq, unheard>>
              /\ UNCHANGED peer

\* Its answer arrives; or is lost, with its server perhaps.
BumpAnswer(c) ==
    LET s == bump[c].from
    IN  /\ bump[c].stage = "moved"
        /\ BumpOver(c)
        /\ \/ /\ Up(s)
              /\ Fine
              /\ peer' = [peer EXCEPT ![s].genOwn = @ \cup {bump[c].n}]
           \/ /\ IF Up(s) THEN Fault ELSE Fine
              /\ UNCHANGED peer
        /\ UNCHANGED <<seq, unheard>>

bumpsInFlight(s) == {c \in Calls : bump[c].from = s}

\* A NOTIFY reaches every server that listens; its own sender ignores it.
Delivered(s, times) == [r \in Servers |->
                          IF r # s /\ peer[r].listening
                          THEN [peer[r] EXCEPT !.inbox = @ + times] ELSE peer[r]]

\* flush, encode and post: a NOTIFY with some of the announcements gets through;
\* or it does twice, its first answer lost; or it is given up.
post(s) ==
    \E some \in (SUBSET peer[s].outbox) \ {{}} :
       LET left == peer[s].outbox \ some
       IN  /\ \/ /\ Fine
                 /\ peer' = [Delivered(s, 1) EXCEPT ![s].outbox = left]
                 /\ unheard' = unheard \ some
              \/ /\ Fault
                 /\ peer' = [Delivered(s, 2) EXCEPT ![s].outbox = left]
                 /\ unheard' = unheard \ some
              \/ /\ Fault
                 /\ peer' = [peer EXCEPT ![s].outbox = left]
                 /\ UNCHANGED unheard
           /\ UNCHANGED <<seq, bump>>

\* pollGeneration, unless a bump of its own is under way.  (One that begins with
\* nothing new to find is not modelled: all it can do is to reset needlessly.)
Poll(s) == /\ Up(s)
           /\ peer[s].polling = None
           /\ bumpsInFlight(s) = {}
           /\ seq # peer[s].genSeen
           /\ peer' = [peer EXCEPT ![s].polling = seq]
           /\ UNCHANGED <<seq, bump, unheard, faults>>

\* Some move since the generation last seen was not known to be this server's.
Missed(s, gen) == ~(((peer[s].genSeen + 1) .. gen) \subseteq peer[s].genOwn)

\* Its select ran at some moment since, and is answered now.
PollAnswer(s) ==
    /\ Up(s)
    /\ peer[s].polling # None
    /\ \E gen \in peer[s].polling .. seq :
         LET known == [peer[s] EXCEPT !.polling = None]
         IN  peer' = [peer EXCEPT ![s] =
                        IF gen <= peer[s].genSeen THEN known
                        ELSE [known EXCEPT
                                !.genSeen = gen,
                                !.genOwn = {g \in @ : g > gen},
                                !.inbox = IF Missed(s, gen) THEN @ + 1 ELSE @]]
    /\ UNCHANGED <<seq, bump, unheard, faults>>

\* The next message, or reset, is handled.
Handle(s) == /\ peer[s].inbox > 0
             /\ peer' = [peer EXCEPT ![s].inbox = @ - 1]
             /\ UNCHANGED <<seq, bump, unheard, faults>>

\* The listening connection drops: what is sent meanwhile is missed, and so may
\* be what was just sent.
Disconnect(s) == /\ Fault
                 /\ peer[s].listening
                 /\ \E received \in 0 .. peer[s].inbox :
                      peer' = [peer EXCEPT ![s].listening = FALSE, ![s].inbox = received]
                 /\ UNCHANGED <<seq, bump, unheard>>

\* Mutant: nothing is reset when it comes back.
ReconnectOnly(s) == /\ Up(s)
                    /\ ~peer[s].listening
                    /\ peer' = [peer EXCEPT ![s].listening = TRUE]
                    /\ UNCHANGED <<seq, bump, unheard, faults>>

\* It comes back, and everything is reset.
Reconnect(s) == /\ Up(s)
                /\ ~peer[s].listening
                /\ peer' = [peer EXCEPT ![s].listening = TRUE, ![s].inbox = @ + 1]
                /\ UNCHANGED <<seq, bump, unheard, faults>>

\* A crash takes what was not sent; startPeers listens, then reads the sequence.
PeerCrash(s) == /\ Fault
                /\ Up(s)
                /\ peer' = [peer EXCEPT ![s] = Off]
                /\ UNCHANGED <<seq, bump, unheard>>

startPeers(s) == /\ ~Up(s)
                 /\ peer' = [peer EXCEPT ![s] = Started(seq)]
                 /\ UNCHANGED <<seq, bump, unheard, faults>>

PeersStep == \/ \E c \in Calls : Nextval(c) \/ BumpAnswer(c)
             \/ \E s \in Servers : \/ post(s) \/ Poll(s) \/ PollAnswer(s)
                                   \/ Disconnect(s) \/ Reconnect(s)

-----------------------------------------------------------------------------

\* Nothing is on its way, and every server has polled.
PeersQuiet == /\ \A c \in Calls : bump[c] = NoBump
              /\ \A s \in Servers : Up(s) =>
                   /\ peer[s].listening
                   /\ peer[s].inbox = 0
                   /\ peer[s].outbox = {}
                   /\ peer[s].polling = None
                   /\ peer[s].genSeen = seq

=============================================================================
