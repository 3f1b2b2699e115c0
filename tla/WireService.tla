----------------------------- MODULE WireService ----------------------------
(***************************************************************************)
(* Propagated pipes: jxta_wire_service.c, over the walk of the rendezvous  *)
(* server (walk and walker_cb of jxta_rdv_service_server.c) and what an    *)
(* edge peer does instead of it (jxta_rdv_service_client.c and _provider.c *)
(* in src/src).                                                            *)
(*                                                                         *)
(* A message sent on a pipe is given to the sender's own listeners, sent   *)
(* to the peers the rendezvous knows to listen, and walked: one copy goes  *)
(* up and one down the order of the peer view, from neighbour to           *)
(* neighbour, with a time to live of the size of the view.  A peer drops   *)
(* what it sent itself and what it has seen, which it looks up in a list   *)
(* of the last identifiers; the look-up and the entry are two steps of a   *)
(* handler, and several threads may handle messages for the service.       *)
(* There is one pipe.  The peer views do not change (see PeerView).        *)
(*                                                                         *)
(* The listeners of a pipe are in a session, which a table of the service  *)
(* holds and whose registration as a recipient at the endpoint outlives it *)
(* if it is taken out of the table while it has listeners.  What the user  *)
(* adds as a listener stays in the session when its pipe is closed; only   *)
(* what a pipe made itself, to wait for a message, is taken out.           *)
(***************************************************************************)
EXTENDS RdvWalk, Sequences, SequencesExt

CONSTANTS Edge,       \* edge peers
          Lease,      \* the rendezvous an edge peer is connected to
          Msg,        \* message identifiers
          Listener,   \* listeners of input pipes
          Own,        \* those among them that a pipe makes itself (timed_receive)
          Starts,     \* the listeners of the peers' input pipes in the beginning
          MaxCache,   \* MAX_CACHE_MSGID
          Handlers,   \* how many threads of a peer handle messages at a time
          MaxLost,    \* bound on the packets lost
          Callers,    \* bound on who opens and closes input pipes
          MaxChanges  \* bound on input pipes opened and closed and packets lost together

Peer == Rdv \union Edge

ASSUME WireAssumption ==
  /\ Rdv \subseteq Nat /\ Edge \subseteq Nat /\ Rdv \intersect Edge = {}
  /\ View \in [Rdv -> SUBSET Rdv] /\ \A r \in Rdv : r \in View[r]
  /\ Lease \in [Edge -> Rdv] /\ Starts \subseteq [Peer -> SUBSET Listener] /\ None \notin Peer
  /\ {MaxCache, Handlers, MaxLost, MaxChanges} \subseteq Nat
  /\ Handlers > 0 /\ Own \subseteq Listener /\ Callers \subseteq Peer

VARIABLES
  sent,      \* who sent each message, None before
  session,   \* how often a listener is in the session that a peer's table holds for the pipe
  opened,    \* how many input pipes with a listener are open
  recipient, \* is a session of the peer registered at the endpoint?
  index,     \* the edge peers a rendezvous knows to listen (SRDI entries of the pipe)
  seen,      \* cacheMsgIds, the last one first
  handling,  \* the packets whose message was not in the list when it was looked up
  net,       \* the packets under way
  given,     \* how often a peer has gone through its listeners with each message
  lost, calls

pipeVars == <<session, opened, recipient, index, calls>>
wireVars == <<sent, session, opened, recipient, index, seen, handling, net, given, lost, calls>>

Packet == [to: Peer, from: Peer, id: Msg, walk: [dir: {"both", "up", "down"}, ttl: Nat]]

\* What p sends when it walks the message: a rendezvous to its neighbours, an edge peer
\* to its rendezvous (prop_to_peers), which will begin the walk.
EdgeWalk(e, id) == {[to |-> Lease[e], from |-> e, id |-> id, walk |-> NoWalk]}
Walk(p, id, header) ==
  IF p \in Rdv THEN {[to |-> h.to, from |-> p, id |-> id, walk |-> h.walk] : h \in Hops(p, header)}
               ELSE EdgeWalk(p, id)

\* notify_remote_listeners: the message as it came.
Remote(p, id, header) ==
  IF p \in Rdv THEN {[to |-> q, from |-> p, id |-> id, walk |-> header] : q \in index[p]} ELSE {}

MayChange == lost + calls < MaxChanges

\* notify_local_listeners: each listener is called as often as it is in the session.
Local(p, id) == [given EXCEPT ![p][id] = @ + 1]

(***************************************************************************)
(* Sending and receiving.                                                  *)
(***************************************************************************)
\* outputpipe_send: wire_service_propagate.
Propagate(p, id) ==
  /\ sent[id] = None
  /\ sent' = [sent EXCEPT ![id] = p]
  /\ given' = Local(p, id)
  /\ net' = net \union Remote(p, id, NoWalk) \union Walk(p, id, NoWalk)
  /\ UNCHANGED <<pipeVars, seen, handling, lost>>

\* wire_msgid_new, the look-up.
Seen(p, id) == id \in Range(seen[p])
\* Mutant: the source is not compared.
CheckSeenOnly(p, k) ==
  /\ k \in net /\ k.to = p /\ Cardinality(handling[p]) < Handlers
  /\ net' = net \ {k}
  /\ handling' = IF Seen(p, k.id) THEN handling ELSE [handling EXCEPT ![p] = @ \union {k}]
  /\ UNCHANGED <<pipeVars, sent, seen, given, lost>>
\* wire_service_endpoint_cb as far as check_wire_header, and in it the look-up of
\* wire_msgid_new.  walker_cb has dropped a walk without time to live.
Check(p, k) ==
  /\ k \in net /\ k.to = p /\ Cardinality(handling[p]) < Handlers
  /\ net' = net \ {k}
  /\ handling' = IF sent[k.id] = p \/ Seen(p, k.id)
                 THEN handling ELSE [handling EXCEPT ![p] = @ \union {k}]
  /\ UNCHANGED <<pipeVars, sent, seen, given, lost>>

\* The entry in the list: the oldest one makes room if there are more than MaxCache.
Remember(s, id) == <<id>> \o (IF Len(s) > MaxCache THEN Front(s) ELSE s)

\* The rest of wire_service_endpoint_cb.
Accept(p, k) ==
  /\ k \in handling[p]
  /\ handling' = [handling EXCEPT ![p] = @ \ {k}]
  /\ seen' = [seen EXCEPT ![p] = Remember(@, k.id)]
  /\ given' = Local(p, k.id)
  /\ net' = net \union (IF p \in Rdv THEN Remote(p, k.id, k.walk) \union Walk(p, k.id, k.walk)
                                     ELSE {})
  /\ UNCHANGED <<pipeVars, sent, lost>>

Lose(k) ==
  /\ k \in net /\ lost < MaxLost /\ MayChange
  /\ net' = net \ {k} /\ lost' = lost + 1
  /\ UNCHANGED <<pipeVars, sent, seen, handling, given>>

(***************************************************************************)
(* Input pipes.  What an edge peer pushes to its rendezvous may be lost.   *)
(***************************************************************************)
Push(p, S) ==
  IF p \in Edge THEN index' \in {index, [index EXCEPT ![Lease[p]] = S]} ELSE UNCHANGED index

\* inputpipe_add_listener and _timed_receive: wire_service_add_listener.  A new session is
\* refused if an old one is still registered; the mutex, which the same thread may take again,
\* is then not released.
HasSession(p) == \E l \in Listener : session[p][l] > 0
Open(p, l) ==
  /\ l \in Own => opened[p][l] = 0
  /\ MayChange /\ calls' = calls + 1
  /\ \/ /\ ~HasSession(p) /\ recipient[p]
        /\ UNCHANGED <<session, opened, recipient, index>>
     \/ /\ HasSession(p) \/ ~recipient[p]
        /\ opened' = [opened EXCEPT ![p][l] = @ + 1]
        /\ session' = [session EXCEPT ![p][l] = @ + 1]
        /\ recipient' = [recipient EXCEPT ![p] = TRUE]
        /\ Push(p, IF p \in Edge THEN index[Lease[p]] \union {p} ELSE {})
  /\ UNCHANGED <<sent, seen, handling, net, given, lost>>

\* wire_service_remove_listener takes the session out of the table.  It is registered, and the
\* rendezvous thinks that the peer listens, as long as there are other listeners in it.
RemoveListener(p, l) ==
  /\ session' = [session EXCEPT ![p] = [k \in Listener |-> 0]]
  /\ IF \E k \in Listener \ {l} : session[p][k] > 0
     THEN UNCHANGED <<recipient, index>>
     ELSE /\ recipient' = [recipient EXCEPT ![p] = FALSE]
          /\ Push(p, IF p \in Edge THEN index[Lease[p]] \ {p} ELSE {})

\* wire_inputpipe_free, and inputpipe_remove_listener: the user's listener stays.
Close(p, l) ==
  /\ opened[p][l] > 0 /\ MayChange /\ calls' = calls + 1
  /\ opened' = [opened EXCEPT ![p][l] = @ - 1]
  /\ IF l \in Own /\ HasSession(p) THEN RemoveListener(p, l)
                                   ELSE UNCHANGED <<session, recipient, index>>
  /\ UNCHANGED <<sent, seen, handling, net, given, lost>>

Init ==
  /\ sent = [id \in Msg |-> None]
  /\ \E S \in Starts :
       /\ session = [p \in Peer |-> [l \in Listener |-> IF l \in S[p] THEN 1 ELSE 0]]
       /\ recipient = [p \in Peer |-> S[p] # {}]
       /\ index = [r \in Rdv |-> {e \in Edge : Lease[e] = r /\ S[e] # {}}]
  /\ opened = session
  /\ seen = [p \in Peer |-> <<>>]
  /\ handling = [p \in Peer |-> {}]
  /\ net = {}
  /\ given = [p \in Peer |-> [id \in Msg |-> 0]]
  /\ lost = 0 /\ calls = 0

Next ==
  \/ \E p \in Peer : \/ \E id \in Msg : Propagate(p, id)
                     \/ \E k \in net : Check(p, k)
                     \/ \E k \in handling[p] : Accept(p, k)
                     \/ \E l \in Listener : p \in Callers /\ (Open(p, l) \/ Close(p, l))
  \/ \E k \in net : Lose(k)

WireSpec == Init /\ [][Next]_wireVars

(***************************************************************************)
(* Properties.                                                             *)
(***************************************************************************)
WireTypeOK ==
  /\ sent \in [Msg -> Peer \union {None}]
  /\ {session, opened} \subseteq [Peer -> [Listener -> Nat]]
  /\ recipient \in [Peer -> BOOLEAN]
  /\ index \in [Rdv -> SUBSET Edge]
  /\ seen \in [Peer -> Seq(Msg)]
  /\ \A k \in net \union UNION {handling[p] : p \in Peer} : k \in Packet
  /\ given \in [Peer -> [Msg -> Nat]]
  /\ lost \in 0..MaxLost /\ calls \in 0..MaxChanges

Quiescent == net = {} /\ \A p \in Peer : handling[p] = {}
Reached(p, id) == sent[id] = p \/ Seen(p, id)

\* The list, one longer than MaxCache at most, has room for what all handlers may enter:
\* nothing is forgotten.
RoomForAll == IsFiniteSet(Msg) /\ Handlers * Cardinality(Msg) <= MaxCache + 1

(* A walk reaches every rendezvous of the view although each drops what it has seen, and
   although one packet is lost on the way: the copy that goes the other way round makes up
   for it (walk with both directions and the size of the view as time to live). *)
WalkReachesAll ==
  Quiescent /\ lost <= 1 /\ RoomForAll =>
    \A id \in Msg, r \in Rdv :
      /\ \E q \in View[r] : Reached(q, id)
      /\ \A q \in View[r] : View[q] = View[r]
      => Reached(r, id)

(* A peer goes through its listeners with a message at most as often as threads handle
   messages at the same time: once, when there is one, whatever ways the copies come
   (wire_msgid_new), unless so many messages came in between that the list forgot it; and
   the sender once however many there are (check_wire_header). *)
GivenOnce ==
  RoomForAll =>
    \A p \in Peer, id \in Msg : given[p][id] <= IF sent[id] = p THEN 1 ELSE Handlers

(* The same although messages are forgotten. *)
GivenOnceEver == \A p \in Peer, id \in Msg : given[p][id] <= Handlers

(* The listeners are given a message once, however many threads handle messages. *)
GivenExactlyOnce == \A p \in Peer, id \in Msg : given[p][id] <= 1

(* The sender's own copy does not come back to its listeners over the network
   (check_wire_header compares the source), even when it forgot or never listed it. *)
NoEcho == \A id \in Msg : sent[id] # None => given[sent[id]][id] <= 1

(* What a peer accepts goes to every listener of its open input pipes. *)
OpenPipesHear == \A p \in Peer, l \in Listener : opened[p][l] > 0 => session[p][l] > 0

(* A listener is in the session for the open input pipes that have it, and for no other. *)
ClosedPipesQuiet == \A p \in Peer, l \in Listener : session[p][l] <= opened[p][l]
============================================================================
