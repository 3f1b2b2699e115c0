------------------------------ MODULE PeerView ------------------------------
(***************************************************************************)
(* The peer views of the rendezvous peers of a group: jxta_peerview.c in   *)
(* src/src.  Every peer of the group has a peer view from the time its     *)
(* rendezvous service is initialised and handles the messages that come    *)
(* for it; a peer that is a rendezvous is in its own view, refreshes its   *)
(* neighbours periodically and probes its seeds while the view is small.   *)
(*                                                                         *)
(* A view has two halves: a hash table of the entries by peer identifier,  *)
(* localView, and the vector of the entries in the order of their          *)
(* identifiers, localViewOrder, which is what everybody else sees.  The    *)
(* neighbours in that order, upPVE and downPVE, are kept and not computed. *)
(* Peer identifiers are numbers and the vector is the set of them.         *)
(*                                                                         *)
(* The own entry of a view should be selfPVE, the object that start adds,  *)
(* and by which addjust_up_down_peers finds the peer's own place.  But a   *)
(* peer hears its own announcements, and an announcement that comes while  *)
(* there is no own entry makes a new one, which is not selfPVE.            *)
(*                                                                         *)
(* Time only matters in that an entry that has not been refreshed becomes  *)
(* stale.  The round of the periodic thread takes its neighbours under the *)
(* lock and uses them after it, so it is two actions; a stop waits for the *)
(* round only after it has sent its notice and removed the own entry, so   *)
(* it is three.                                                            *)
(***************************************************************************)
EXTENDS ViewOrder

CONSTANTS Peer,       \* the peers of the group
          Seeds,      \* the seeds each peer is configured with
          HappySize,  \* happy_size
          MaxProbed,  \* max_probed
          Setups,     \* the groups: their peers, has it a parent group, for the advertising pipe,
                      \* which faults there may be, and how many
          UseOnlySeeds,
          MaxNet      \* bound on the messages under way when a round or a request begins

ASSUME ViewAssumption ==
  /\ Peer \subseteq Nat /\ IsFiniteSet(Peer) /\ None \notin Peer
  /\ Seeds \in [Peer -> SUBSET Peer]
  /\ {HappySize, MaxProbed, MaxNet} \subseteq Nat
  /\ \A s \in Setups : /\ s.peers \subseteq Peer /\ s.pipe \in BOOLEAN /\ s.max \in Nat
                         /\ s.faults \subseteq {"stop", "late", "lose", "crash", "fail"}
  /\ UseOnlySeeds \in BOOLEAN

VARIABLES
  setup,   \* the peers of the group, and is there an advertising pipe (advPipe)?
  role,    \* "off", "edge" (listening only), "rdv" (jxta_peerview_start was called), or
           \* where a stop is: "noticed" (its notice is sent), "removed" (the own entry is)
  hears,   \* how often the peer view's listener is in the session of the advertising pipe
  view,    \* the view of each peer: table, order, is the own entry selfPVE, up and down
  stale,   \* the entries of a peer's table that have expired
  timed,   \* has selfPVE got an expiration, which it is made without?
  round,   \* the neighbours the periodic thread is about to refresh, if it is at that
  net,     \* the messages under way
  faults   \* how many faults there were

viewVars == <<setup, role, hears, view, stale, timed, round, net, faults>>

Views == [table: SUBSET Peer, order: SUBSET Peer, self: BOOLEAN,
          up: Peer \union {None}, down: Peer \union {None}]
EmptyView == [table |-> {}, order |-> {}, self |-> FALSE, up |-> None, down |-> None]
Idle == [up |-> None, down |-> None, at |-> FALSE]

\* A message: whose advertisement it brings, and the elements it has.
Message == [to: Peer, about: Peer, response: BOOLEAN, edge: BOOLEAN, cached: BOOLEAN,
            failure: BOOLEAN, wire: BOOLEAN]

(***************************************************************************)
(* The operations on a view.                                               *)
(***************************************************************************)
\* addjust_up_down_peers, for the peer p whose view v is: it looks for selfPVE.
Adjust(p, v) == [v EXCEPT !.up = IF v.self THEN UpOf(v.order, p) ELSE None,
                          !.down = IF v.self THEN DownOf(v.order, p) ELSE None]

\* jxta_peerview_add_pve of an entry for q: nothing if the table has one.
AddPve(p, v, q, self) ==
  IF q \in v.table THEN v
  ELSE Adjust(p, [v EXCEPT !.table = @ \union {q}, !.order = @ \union {q}, !.self = @ \/ self])

\* jxta_peerview_remove_pve: looks for q in the vector.
RemovePve(p, v, q) ==
  IF q \notin v.order THEN v
  ELSE Adjust(p, [v EXCEPT !.table = @ \ {q}, !.order = @ \ {q}, !.self = @ /\ q # p])

\* Mutant: the neighbours are not adjusted.
RemoveExpiredOnly(p, v, expired) == [v EXCEPT !.order = @ \ expired]
\* Mutant: the expired entries stay.
RemoveNothing(p, v, expired) == v
\* remove_expired_PVEs: takes the expired entries out of the vector.
RemoveExpired(p, v, expired) ==
  IF v.order \intersect expired = {} THEN v
  ELSE Adjust(p, [v EXCEPT !.order = @ \ expired])

\* The periodic thread goes on until the last step of a stop (running).
Running(p) == role[p] \in {"rdv", "noticed", "removed"}

\* The bound on what goes on at a time: a round or a request begins when little is under way.
Quiet == Cardinality(net) + Cardinality({q \in Peer : round[q].at}) <= MaxNet

(***************************************************************************)
(* Sending.  What p sends says that p is an edge unless it is running.     *)
(***************************************************************************)
\* jxta_peerview_send_pvm: p sends q an entry for e.  Any entry but selfPVE is "cached".
Pvm(p, e, cached, q, response) ==
  [to |-> q, about |-> e, response |-> response, edge |-> ~Running(p),
   cached |-> cached, failure |-> FALSE, wire |-> FALSE]
SelfPvm(p, q, response) == Pvm(p, p, FALSE, q, response)

\* jxta_peerview_send_rdv_request: p's own advertisement on the pipe, to the peer q.
RdvRequest(p, q, announce, failure) ==
  [to |-> q, about |-> p, response |-> announce, edge |-> ~Running(p),
   cached |-> FALSE, failure |-> failure, wire |-> TRUE]
\* What the network gets of it.  The peer's own listener is called by the sending thread.
ToOthers(p, announce, failure) ==
  {RdvRequest(p, q, announce, failure) : q \in IF setup.pipe THEN setup.peers \ {p} ELSE {}}
Echoed(p) == setup.pipe /\ hears[p] > 0

(***************************************************************************)
(* Handling a message: process_peerview_message.                           *)
(***************************************************************************)
\* jxta_peerview_get_pve, with the refresh that follows it.  The entry it makes is a new one.
GetPve(p, v, m) == IF m.edge \/ m.cached THEN v ELSE AddPve(p, v, m.about, FALSE)
Refreshed(p, v, m) ==
  /\ stale' = [stale EXCEPT ![p] = @ \ {m.about}]
  /\ timed' = IF m.about = p /\ v.self THEN [timed EXCEPT ![p] = TRUE] ELSE timed

\* Type 1: a probe is answered by a rendezvous.
Answer(p, m) == IF ~m.response /\ ~m.cached /\ role[p] = "rdv"
                THEN {SelfPvm(p, m.about, TRUE)} ELSE {}
\* Mutant: only a referral to a peer that is known is probed.
ProbeKnown(p, m) == IF m.cached /\ m.about \in view[p].table /\ ~UseOnlySeeds
                    THEN {SelfPvm(p, m.about, FALSE)} ELSE {}
\* Type 2: a referral that is news is probed.
Probe(p, m) == IF m.cached /\ m.about \notin view[p].table /\ ~UseOnlySeeds
               THEN {SelfPvm(p, m.about, FALSE)} ELSE {}

\* Type 3: a probe is answered with a referral to another entry of the view v, at random,
\* or with none after too many attempts; with selfPVE if p knows no other.  A listener that
\* is called several times gives several.
Known(p, v, q) == {Pvm(p, e, e # p \/ ~v.self, q, TRUE) : e \in v.order \ {q}}
Referrals(p, v, q, times) ==
  CASE v.order = {} -> {{}}
    [] Cardinality(v.order) > (IF Running(p) THEN 1 ELSE 0) ->
         {R \in SUBSET Known(p, v, q) : Cardinality(R) <= times /\ (R = {} => q \in v.order)}
    [] OTHER -> {{SelfPvm(p, q, TRUE)}}
Refer(p, v, m, times) ==
  IF m.cached \/ m.response THEN {{}} ELSE Referrals(p, v, m.about, times)

Process(p, m, rest, times) ==
  IF m.failure
  THEN /\ view' = [view EXCEPT ![p] = RemovePve(p, @, m.about)]
       /\ net' = rest
       /\ UNCHANGED <<stale, timed>>
  ELSE LET v == GetPve(p, view[p], m) IN
       \E R \in Refer(p, v, m, times) :
         /\ view' = [view EXCEPT ![p] = v]
         /\ Refreshed(p, v, m)
         /\ net' = rest \union Answer(p, m) \union Probe(p, m) \union R

\* peerview_listener, which is once at the endpoint and for every start once in the session.
Receive(p, m) ==
  /\ m \in net /\ m.to = p
  /\ IF role[p] = "off" \/ (m.wire /\ hears[p] = 0)
     THEN net' = net \ {m} /\ UNCHANGED <<view, stale, timed>>
     ELSE Process(p, m, net \ {m}, IF m.wire THEN hears[p] ELSE 1)
  /\ UNCHANGED <<setup, role, hears, round, faults>>

\* jxta_peerview_probe_cached_rdvadv: an advertisement of q found in the local cache.
ProbeCached(p, q) ==
  /\ role[p] = "edge" /\ q # p /\ q \in setup.peers /\ Quiet
  /\ Process(p, [to |-> p, about |-> q, response |-> FALSE, edge |-> FALSE, cached |-> TRUE,
                 failure |-> FALSE, wire |-> FALSE], net, 1)
  /\ UNCHANGED <<setup, role, hears, round, faults>>

\* p sends on the pipe, and its own listener, if it is in the session, is called.
SendOnPipe(p, announce, failure) ==
  LET sent == net \union ToOthers(p, announce, failure) IN
  IF Echoed(p) THEN Process(p, RdvRequest(p, p, announce, failure), sent, hears[p])
               ELSE net' = sent /\ UNCHANGED <<view, stale, timed>>

\* An edge peer asks for rendezvous on the pipe.
EdgeRequest(p) ==
  /\ role[p] = "edge" /\ setup.pipe /\ Quiet
  /\ SendOnPipe(p, FALSE, FALSE)
  /\ UNCHANGED <<setup, role, hears, round, faults>>

\* The bound on faults and stops.
MayFault(kind) == kind \in setup.faults /\ faults < setup.max /\ faults' = faults + 1

(***************************************************************************)
(* The life of a rendezvous.                                               *)
(***************************************************************************)
\* jxta_peerview_start.  selfPVE may have expired since the peer was stopped.
Start(p) ==
  /\ role[p] = "edge"
  /\ role' = [role EXCEPT ![p] = "rdv"]
  /\ hears' = [hears EXCEPT ![p] = IF setup.pipe THEN @ + 1 ELSE @]
  /\ view' = [view EXCEPT ![p] = AddPve(p, @, p, TRUE)]
  /\ stale' \in IF p \in view[p].table THEN {stale}
                ELSE {[stale EXCEPT ![p] = IF late THEN @ \union {p} ELSE @ \ {p}] :
                        late \in {FALSE, timed[p]}}
  /\ UNCHANGED <<setup, timed, round, net, faults>>

\* jxta_peerview_stop: the notice.  The listener stays in the session.
StopNotice(p) ==
  /\ role[p] = "rdv" /\ MayFault("stop")
  /\ role' = [role EXCEPT ![p] = "noticed"]
  /\ SendOnPipe(p, TRUE, TRUE)
  /\ UNCHANGED <<setup, hears, round>>

\* The own entry, if there still is or is again one.
StopRemove(p) ==
  /\ role[p] = "noticed"
  /\ role' = [role EXCEPT ![p] = "removed"]
  /\ view' = [view EXCEPT ![p] = RemovePve(p, @, p)]
  /\ UNCHANGED <<setup, hears, stale, timed, round, net, faults>>

\* The flag, under periodicMutex, which the periodic thread holds during a round.
StopDone(p) ==
  /\ role[p] = "removed" /\ ~round[p].at
  /\ role' = [role EXCEPT ![p] = "edge"]
  /\ UNCHANGED <<setup, hears, view, stale, timed, round, net, faults>>

\* The periodic thread: what it does under the lock.
RoundBegin(p) ==
  /\ Running(p) /\ ~round[p].at /\ Quiet
  /\ view' = [view EXCEPT ![p] = RemoveExpired(p, @, stale[p])]
  /\ round' = [round EXCEPT ![p] = [up |-> view'[p].up, down |-> view'[p].down, at |-> TRUE]]
  /\ UNCHANGED <<setup, role, hears, stale, timed, net, faults>>

\* The seeds a round probes while the view is small: the next MaxProbed of a shuffled list,
\* or what is left of it.
SeedBatches(p, v) ==
  LET n == Cardinality(Seeds[p]) IN
  IF Cardinality(v.order) >= HappySize \/ n = 0 \/ MaxProbed = 0 THEN {{}}
  ELSE {S \in SUBSET Seeds[p] : Cardinality(S) \in {MaxProbed, n % MaxProbed} \ {0}}

\* The refresh of a neighbour, to which the send may fail.  Without a happy view, it is now
\* and then asked for a referral.
Refresh(p, v, q, gone) ==
  IF q \in gone \union {None} THEN {{}}
  ELSE {{SelfPvm(p, q, ~ask)} : ask \in {FALSE, Cardinality(v.order) < HappySize}}
Kept(p, v, q, gone) == IF q \in gone THEN RemovePve(p, v, q) ELSE v

\* The rest of the round: the neighbour down, the one up, seeds, and the announcement, which
\* makes a new own entry if there is none.  It is a fault if a send to a peer that is not
\* off fails.
RoundSend(p) ==
  /\ round[p].at
  /\ \E gone \in SUBSET ({round[p].up, round[p].down} \ {None}) :
       LET v1 == Kept(p, view[p], round[p].down, gone)
           v2 == Kept(p, v1, round[p].up, gone)
           m  == RdvRequest(p, p, TRUE, FALSE)
           v3 == IF Echoed(p) THEN GetPve(p, v2, m) ELSE v2
       IN /\ \E D \in Refresh(p, view[p], round[p].down, gone),
                U \in Refresh(p, v1, round[p].up, gone), seeds \in SeedBatches(p, v2) :
               net' = net \union D \union U \union {SelfPvm(p, q, FALSE) : q \in seeds}
                          \union ToOthers(p, TRUE, FALSE)
          /\ view' = [view EXCEPT ![p] = v3]
          /\ IF Echoed(p) THEN Refreshed(p, v3, m) ELSE UNCHANGED <<stale, timed>>
          /\ IF \A q \in gone : role[q] = "off" THEN UNCHANGED faults ELSE MayFault("fail")
  /\ round' = [round EXCEPT ![p] = Idle]
  /\ UNCHANGED <<setup, role, hears>>

\* jxta_peerview_get_localview: its callers get the vector without the expired entries.
GetLocalView(p) ==
  /\ role[p] # "off" /\ view[p].order \intersect stale[p] # {}
  /\ view' = [view EXCEPT ![p] = RemoveExpired(p, @, stale[p])]
  /\ UNCHANGED <<setup, role, hears, stale, timed, round, net, faults>>

(***************************************************************************)
(* Time and faults.                                                        *)
(***************************************************************************)
\* An entry has an expiration, except for selfPVE as it is made.  It passes unless the peer is
\* a rendezvous, or something about it is under way.
Timed(p, q) == q = p /\ view[p].self => timed[p]
Silent(q) == ~Running(q) /\ \A m \in net : m.about # q
Expire(p, q) ==
  /\ role[p] # "off" /\ q \in view[p].table \ stale[p] /\ Silent(q) /\ Timed(p, q)
  /\ stale' = [stale EXCEPT ![p] = @ \union {q}]
  /\ UNCHANGED <<setup, role, hears, view, timed, round, net, faults>>

\* The refreshing of an entry, the peer's own one included, comes too late.
ExpireLate(p, q) ==
  /\ role[p] # "off" /\ q \in view[p].table \ stale[p] /\ Timed(p, q)
  /\ MayFault("late")
  /\ stale' = [stale EXCEPT ![p] = @ \union {q}]
  /\ UNCHANGED <<setup, role, hears, view, timed, round, net>>

Lose(m) ==
  /\ m \in net /\ MayFault("lose")
  /\ net' = net \ {m}
  /\ UNCHANGED <<setup, role, hears, view, stale, timed, round>>

Crash(p) ==
  /\ role[p] # "off" /\ MayFault("crash")
  /\ role' = [role EXCEPT ![p] = "off"]
  /\ hears' = [hears EXCEPT ![p] = 0]
  /\ view' = [view EXCEPT ![p] = EmptyView]
  /\ stale' = [stale EXCEPT ![p] = {}]
  /\ timed' = [timed EXCEPT ![p] = FALSE]
  /\ round' = [round EXCEPT ![p] = Idle]
  /\ UNCHANGED <<setup, net>>

\* jxta_peerview_init.
Initialise(p) ==
  /\ role[p] = "off" /\ p \in setup.peers
  /\ role' = [role EXCEPT ![p] = "edge"]
  /\ UNCHANGED <<setup, hears, view, stale, timed, round, net, faults>>

Init ==
  /\ setup \in Setups
  /\ role = [p \in Peer |-> IF p \in setup.peers THEN "edge" ELSE "off"]
  /\ hears = [p \in Peer |-> 0]
  /\ view = [p \in Peer |-> EmptyView]
  /\ stale = [p \in Peer |-> {}]
  /\ timed = [p \in Peer |-> FALSE]
  /\ round = [p \in Peer |-> Idle]
  /\ net = {} /\ faults = 0

Next ==
  \/ \E p \in Peer : \/ \E m \in net : Receive(p, m)
                     \/ \E q \in Peer : ProbeCached(p, q) \/ Expire(p, q) \/ ExpireLate(p, q)
                     \/ EdgeRequest(p) \/ Start(p)
                     \/ StopNotice(p) \/ StopRemove(p) \/ StopDone(p)
                     \/ RoundBegin(p) \/ RoundSend(p) \/ GetLocalView(p)
                     \/ Crash(p) \/ Initialise(p)
  \/ \E m \in net : Lose(m)

ViewSpec == Init /\ [][Next]_viewVars

(***************************************************************************)
(* Fairness.  The periodic thread is woken by its timeout; it has to wait  *)
(* for quiet only because of the bound.  Messages arrive, entries that     *)
(* nobody refreshes expire, and rand() does not forever refer the peers    *)
(* that ask to themselves.                                                 *)
(***************************************************************************)
ReceiveKind(p, cached) == \E m \in net : m.cached = cached /\ Receive(p, m)
ReferOther(p) ==
  \E m \in net, e \in Peer : /\ ~m.response /\ ~m.cached /\ Receive(p, m)
                             /\ e \notin {p, m.about} /\ Pvm(p, e, TRUE, m.about, TRUE) \in net'
FairViewSpec ==
  /\ ViewSpec
  /\ \A p \in Peer : /\ SF_viewVars(RoundBegin(p)) /\ WF_viewVars(RoundSend(p))
                     /\ \A c \in BOOLEAN : WF_viewVars(ReceiveKind(p, c))
  /\ \A p, q \in Peer : p # q => WF_viewVars(Expire(p, q))
  /\ SF_viewVars(\E p \in Peer : ReferOther(p))

(***************************************************************************)
(* Properties.                                                             *)
(***************************************************************************)
ViewTypeOK ==
  /\ setup \in Setups
  /\ role \in [Peer -> {"off", "edge", "rdv", "noticed", "removed"}]
  /\ hears \in [Peer -> Nat]
  /\ view \in [Peer -> Views]
  /\ stale \in [Peer -> SUBSET Peer]
  /\ timed \in [Peer -> BOOLEAN]
  /\ round \in [Peer -> [up: Peer \union {None}, down: Peer \union {None}, at: BOOLEAN]]
  /\ net \subseteq Message
  /\ faults \in 0..setup.max

(* The neighbours a view keeps are those in its vector: two peers that have the same
   vector, and selfPVE in it, are each other's up and down peer or neither
   (addjust_up_down_peers after every change of localViewOrder, by rounds, handlers and the
   steps of a stop); a walk goes from neighbour to neighbour. *)
AreNeighbours(p, q) ==
  /\ view[p].up = q <=> view[q].down = p
  /\ Cardinality(view[p].order) = 2 => view[p].up = q
NeighboursMatch ==
  \A p, q \in Peer :
    /\ p # q /\ view[p].self /\ view[q].self
    /\ view[p].order = view[q].order /\ {p, q} \subseteq view[p].order
    => AreNeighbours(p, q)

(* The same of all rendezvous, selfPVE or not: one that shows itself has its neighbours. *)
RendezvousMatch ==
  \A p, q \in Peer :
    /\ p # q /\ role[p] = "rdv" /\ role[q] = "rdv"
    /\ view[p].order = view[q].order /\ {p, q} \subseteq view[p].order
    => AreNeighbours(p, q)

(* What a view shows is in its table, and a neighbour is somebody the view shows: no
   message goes to a peer that was removed (jxta_peerview_remove_pve and
   remove_expired_PVEs against the two halves of the view). *)
HalvesAgree ==
  \A p \in Peer : /\ view[p].order \subseteq view[p].table
                  /\ {view[p].up, view[p].down} \subseteq (view[p].order \ {p}) \union {None}

(* An entry whose expiration was set anew is alive until then, so the view shows it
   (process_peerview_message sets it; the vector is what everybody sees). *)
AliveIsInView == \A p \in Peer : role[p] = "rdv" => view[p].table \ stale[p] \subseteq view[p].order

(* A peer that is gone leaves the views of the rendezvous in the end, whatever messages
   about it are still under way: an unsuccessful refresh or the expiration removes it. *)
LeavesViews(p) == \A q \in Peer : role[q] = "rdv" => p \notin view[q].order
GoneLeavesViews == \A p \in Peer : role[p] = "off" ~> role[p] # "off" \/ LeavesViews(p)

(* The same of a rendezvous that was stopped and goes on as an edge peer: its notice
   removes it (jxta_peerview_stop), unless its probes as an edge keep its entry fresh. *)
StoppedLeavesViews == \A p \in Peer : role[p] = "edge" ~> role[p] # "edge" \/ LeavesViews(p)

(* While all are rendezvous, each gets to know every other one in the end, through its
   seeds, referrals and announcements, whatever was lost before. *)
AllRdv == \A p \in setup.peers : role[p] = "rdv"
KnownInTheEnd == AllRdv ~> ~AllRdv \/ \A p \in setup.peers : setup.peers \subseteq view[p].table
============================================================================
