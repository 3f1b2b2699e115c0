--------------------------- MODULE RdvLeaseProofs ---------------------------
(***************************************************************************)
(* Theorems about the leases of edge peers at rendezvous peers, for any    *)
(* numbers of both and any lease, delays, limits and faults.               *)
(*                                                                         *)
(* An entry is found by one step of a handler and given its lease by       *)
(* another, and others remove entries in between.  EveryLeaseEnds is       *)
(* inductive, given what tables and messages hold: the handler's own mark  *)
(* says whether the entry it works on is still in the table.  The bound on *)
(* the tables follows from what each step may add to them.                 *)
(***************************************************************************)
EXTENDS RdvLease, FiniteSetTheorems, TLAPS

\* What the tables, the handlers' marks and the messages hold.
LeaseType ==
  /\ rdvs \in [Client -> [Rdv -> Absent .. Forever]]
  /\ clients \in [Rdv -> [Client -> Absent .. Forever]]
  /\ answering \in [Client -> [Rdv -> {"no", "linked", "unlinked"}]]
  /\ granting \in [Rdv -> [Client -> {"no", "linked", "unlinked"}]]
  /\ \A m \in net : m.client \in Client /\ (m.kind = "reply" => m.rdv \in Rdv)

LeaseInv == LeaseType /\ EveryLeaseEnds

\* A lease has a length, so that Forever and Absent are no lengths of a lease.
LEMMA LeaseLengths == Lease \in Nat \ {0} /\ Forever = Lease + 1 /\ Absent = -1
BY LeaseAssumption DEF LeaseAssumption, Forever, Absent
----------------------------------------------------------------------------
\* What the messages hold, in the next state.
NetTypeNext == \A m \in net' : m.client \in Client /\ (m.kind = "reply" => m.rdv \in Rdv)

\* A step may change one entry of a client and its mark to any pair that agrees.
LEMMA ClientEntry ==
  ASSUME LeaseInv, NetTypeNext, NEW c \in Client, NEW r \in Rdv,
         NEW left \in Absent .. Forever, NEW mark \in {"no", "linked", "unlinked"},
         left = Forever => mark = "linked", mark = "linked" => left # Absent,
         rdvs' = [rdvs EXCEPT ![c][r] = left],
         answering' = [answering EXCEPT ![c][r] = mark],
         UNCHANGED <<clients, granting>>
  PROVE  LeaseInv'
<1> USE DEF LeaseInv, LeaseType
<1>1. LeaseType'
  BY DEF NetTypeNext
<1>2. \A d \in Client, s \in Rdv :
        /\ rdvs'[d][s] = IF d = c /\ s = r THEN left ELSE rdvs[d][s]
        /\ answering'[d][s] = IF d = c /\ s = r THEN mark ELSE answering[d][s]
  OBVIOUS
<1>3. EveryLeaseEnds'
  BY <1>2 DEF EveryLeaseEnds
<1> QED BY <1>1, <1>3

\* The same for one entry of a server.
LEMMA ServerEntry ==
  ASSUME LeaseInv, NetTypeNext, NEW r \in Rdv, NEW c \in Client,
         NEW left \in Absent .. Forever, NEW mark \in {"no", "linked", "unlinked"},
         left = Forever => mark = "linked", mark = "linked" => left # Absent,
         clients' = [clients EXCEPT ![r][c] = left],
         granting' = [granting EXCEPT ![r][c] = mark],
         UNCHANGED <<rdvs, answering>>
  PROVE  LeaseInv'
<1> USE DEF LeaseInv, LeaseType
<1>1. LeaseType'
  BY DEF NetTypeNext
<1>2. \A s \in Rdv, d \in Client :
        /\ clients'[s][d] = IF s = r /\ d = c THEN left ELSE clients[s][d]
        /\ granting'[s][d] = IF s = r /\ d = c THEN mark ELSE granting[s][d]
  OBVIOUS
<1>3. EveryLeaseEnds'
  BY <1>2 DEF EveryLeaseEnds
<1> QED BY <1>1, <1>3

\* The tables are empty in the beginning.
LEMMA LeaseInvInit == LeaseInit => LeaseInv
BY LeaseLengths DEF LeaseInit, LeaseInv, LeaseType, EveryLeaseEnds

\* The client's periodic thread: an entry it removes is marked for the handler.
LEMMA PeriodicKeepsLease ==
  ASSUME LeaseInv, NEW c \in Client, PeriodicStep(c)
  PROVE  LeaseInv'
<1> USE LeaseLengths DEF LeaseInv, LeaseType, EveryLeaseEnds
<1>1. CASE Wake(c)
  BY <1>1 DEF Wake, serverVars
<1>2. CASE ConnectRound(c)
  <2>1. PICK failed \in SUBSET ToRenew(c) :
          rdvs' = [rdvs EXCEPT ![c] = [r \in Rdv |-> IF r \in failed THEN 0 ELSE @[r]]]
    BY <1>2 DEF ConnectRound
  <2>2. \A r \in failed : rdvs[c][r] # Absent
    BY <2>1 DEF ToRenew, Held
  <2>3. UNCHANGED <<clients, granting, answering>>
    BY <1>2 DEF ConnectRound, serverVars
  <2>4. net' = net \cup {Request(c, r) : r \in ToRenew(c) \cup Candidates(c)}
    BY <1>2 DEF ConnectRound
  <2>5. \A m \in net' : m.client \in Client /\ (m.kind = "reply" => m.rdv \in Rdv)
    BY <2>4 DEF Request
  <2> QED BY <2>1, <2>2, <2>3, <2>5
<1>3. ASSUME NEW r \in Rdv, check_peer_lease(c, r) PROVE LeaseInv'
  BY <1>3 DEF check_peer_lease, serverVars
<1>4. ASSUME NEW r \in Rdv, RemoveRdv(c, r) PROVE LeaseInv'
  BY <1>4 DEF RemoveRdv, serverVars
<1> QED BY <1>1, <1>2, <1>3, <1>4 DEF PeriodicStep

\* The client's message handler.
LEMMA ReplyKeepsLease ==
  ASSUME LeaseInv, NEW c \in Client, ReplyStep(c)
  PROVE  LeaseInv'
<1> USE LeaseLengths DEF LeaseInv, LeaseType, EveryLeaseEnds
<1>1. ASSUME NEW m \in net, TakeReply(c, m) PROVE LeaseInv'
  <2> DEFINE known == rdvs[c][m.rdv] # Absent
             room  == Cardinality(Held(rdvs[c])) < MinConnected
             left  == IF ~ known /\ room THEN Forever ELSE rdvs[c][m.rdv]
             mark  == IF known \/ room THEN "linked" ELSE "no"
  <2>1. m.rdv \in Rdv
    BY <1>1 DEF TakeReply
  <2>2. UNCHANGED <<clients, granting>> /\ NetTypeNext
    BY <1>1 DEF TakeReply, serverVars, NetTypeNext
  <2>3. /\ rdvs' = [rdvs EXCEPT ![c][m.rdv] = left]
        /\ answering' = [answering EXCEPT ![c][m.rdv] = mark]
    <3> HIDE DEF LeaseInv, LeaseType, EveryLeaseEnds
    <3> QED BY <1>1 DEF TakeReply
  <2>4. answering[c][m.rdv] = "no"
    BY <1>1 DEF TakeReply
  <2>5. /\ left \in Absent .. Forever /\ mark \in {"no", "linked", "unlinked"}
        /\ left = Forever => mark = "linked"
        /\ mark = "linked" => left # Absent
    BY <2>1, <2>4
  <2> HIDE DEF left, mark
  <2> QED BY <2>1, <2>2, <2>3, <2>5, ClientEntry
<1>2. ASSUME NEW m \in net, DropReply(c, m) PROVE LeaseInv'
  BY <1>2 DEF DropReply, clientVars, serverVars
<1>3. ASSUME NEW r \in Rdv, process_connected_reply(c, r) PROVE LeaseInv'
  <2> DEFINE left == IF answering[c][r] = "linked" THEN Lease ELSE rdvs[c][r]
  <2>1. UNCHANGED <<clients, granting>> /\ NetTypeNext
    BY <1>3 DEF process_connected_reply, serverVars, NetTypeNext
  <2>2. /\ rdvs' = [rdvs EXCEPT ![c][r] = left]
        /\ answering' = [answering EXCEPT ![c][r] = "no"]
    BY <1>3 DEF process_connected_reply
  <2>3. left \in Absent .. Forever /\ left # Forever
    OBVIOUS
  <2> HIDE DEF left
  <2> QED BY <2>1, <2>2, <2>3, ClientEntry
<1> QED BY <1>1, <1>2, <1>3 DEF ReplyStep

\* Stopping the client.
LEMMA StopKeepsLease ==
  ASSUME LeaseInv, NEW c \in Client, stop(c) \/ StopStep(c)
  PROVE  LeaseInv'
<1> USE LeaseLengths DEF LeaseInv, LeaseType, EveryLeaseEnds
<1>1. CASE stop(c) \/ SignalThread(c)
  BY <1>1 DEF stop, SignalThread, serverVars
<1>2. CASE JoinThread(c)
  BY <1>2 DEF JoinThread, serverVars
<1> QED BY <1>1, <1>2 DEF StopStep

\* The server's handler and its periodic thread.
LEMMA ServerKeepsLease ==
  ASSUME LeaseInv, NEW r \in Rdv, RequestStep(r) \/ ExpireStep(r)
  PROVE  LeaseInv'
<1> USE LeaseLengths DEF LeaseInv, LeaseType, EveryLeaseEnds
<1>1. ASSUME NEW m \in net, TakeRequest(r, m) PROVE LeaseInv'
  <2> DEFINE known == clients[r][m.client] # Absent
             room  == MaxClients[r] > Cardinality(Held(clients[r]))
             left  == IF ~ known /\ room THEN Forever ELSE clients[r][m.client]
             mark  == IF known \/ room THEN "linked" ELSE "no"
  <2>1. m.client \in Client
    OBVIOUS
  <2>2. UNCHANGED <<rdvs, answering>> /\ NetTypeNext
    BY <1>1 DEF TakeRequest, clientVars, NetTypeNext
  <2>3. /\ clients' = [clients EXCEPT ![r][m.client] = left]
        /\ granting' = [granting EXCEPT ![r][m.client] = mark]
    <3> HIDE DEF LeaseInv, LeaseType, EveryLeaseEnds
    <3> QED BY <1>1 DEF TakeRequest
  <2>4. granting[r][m.client] = "no"
    BY <1>1 DEF TakeRequest
  <2>5. /\ left \in Absent .. Forever /\ mark \in {"no", "linked", "unlinked"}
        /\ left = Forever => mark = "linked"
        /\ mark = "linked" => left # Absent
    BY <2>1, <2>4
  <2> HIDE DEF left, mark
  <2> QED BY <2>1, <2>2, <2>3, <2>5, ServerEntry
<1>2. ASSUME NEW c \in Client, send_connect_reply(r, c) PROVE LeaseInv'
  <2> DEFINE left == IF granting[r][c] = "linked" THEN Lease ELSE clients[r][c]
  <2>1. UNCHANGED <<rdvs, answering>> /\ NetTypeNext
    BY <1>2 DEF send_connect_reply, clientVars, NetTypeNext, Reply
  <2>2. /\ clients' = [clients EXCEPT ![r][c] = left]
        /\ granting' = [granting EXCEPT ![r][c] = "no"]
    BY <1>2 DEF send_connect_reply
  <2>3. left \in Absent .. Forever /\ left # Forever
    OBVIOUS
  <2> HIDE DEF left
  <2> QED BY <2>1, <2>2, <2>3, ServerEntry
<1>3. ASSUME NEW c \in Client, CheckClient(r, c) PROVE LeaseInv'
  BY <1>3 DEF CheckClient, clientVars
<1>4. ASSUME NEW c \in Client, RemoveClient(r, c) PROVE LeaseInv'
  BY <1>4 DEF RemoveClient, clientVars
<1> QED BY <1>1, <1>2, <1>3, <1>4 DEF RequestStep, ExpireStep

\* Faults: a restart loses the table and the handlers with it.
LEMMA FaultKeepsLease == LeaseInv /\ Fault => LeaseInv'
<1> SUFFICES ASSUME LeaseInv, Fault PROVE LeaseInv'
  OBVIOUS
<1> USE LeaseLengths DEF LeaseInv, LeaseType, EveryLeaseEnds
<1>1. ASSUME NEW m \in net, Lose(m) PROVE LeaseInv'
  BY <1>1 DEF Lose, clientVars, serverVars
<1>2. ASSUME NEW r \in Rdv, Restart(r) PROVE LeaseInv'
  BY <1>2 DEF Restart, clientVars
<1>3. ASSUME NEW r \in Rdv, NEW c \in Client, jxta_rdv_service_provider_prop_to_peers(r, c)
      PROVE  LeaseInv'
  <2>1. UNCHANGED <<answering, granting, net>>
    BY <1>3 DEF jxta_rdv_service_provider_prop_to_peers
  <2>2. CASE UNCHANGED rdvs /\ clients[r][c] > 0 /\ clients' = [clients EXCEPT ![r][c] = 0]
    BY <2>1, <2>2
  <2>3. CASE UNCHANGED clients /\ rdvs[c][r] > 0 /\ rdvs' = [rdvs EXCEPT ![c][r] = 0]
    BY <2>1, <2>3
  <2> QED BY <1>3, <2>2, <2>3 DEF jxta_rdv_service_provider_prop_to_peers
<1> QED BY <1>1, <1>2, <1>3 DEF Fault

\* Time passes for what has a length only.
LEMMA LaterLength ==
  ASSUME NEW left \in Absent .. Forever
  PROVE  /\ Later(left) \in Absent .. Forever
         /\ Later(left) = Forever <=> left = Forever
         /\ Later(left) = Absent <=> left = Absent
BY LeaseLengths DEF Later

LEMMA TickKeepsLease == LeaseInv /\ Tick => LeaseInv'
<1> SUFFICES ASSUME LeaseInv, Tick PROVE LeaseInv'
  OBVIOUS
<1> USE DEF LeaseInv, LeaseType
<1>1. /\ rdvs' = [c \in Client |-> [r \in Rdv |-> Later(rdvs[c][r])]]
      /\ clients' = [r \in Rdv |-> [c \in Client |-> Later(clients[r][c])]]
      /\ UNCHANGED <<answering, granting>>
  BY DEF Tick
<1>2. \A m \in net' : m.client \in Client /\ (m.kind = "reply" => m.rdv \in Rdv)
  <2>1. SUFFICES ASSUME NEW m \in net
                 PROVE  LET n == [m EXCEPT !.age = Lesser(@ + 1, MaxDelay)]
                        IN  n.client \in Client /\ (n.kind = "reply" => n.rdv \in Rdv)
    BY DEF Tick
  <2> QED OBVIOUS
<1>3. LeaseType'
  BY <1>1, <1>2, LaterLength
<1>4. EveryLeaseEnds'
  BY <1>1, LaterLength DEF EveryLeaseEnds
<1> QED BY <1>3, <1>4

\* Every step keeps the invariant.
LEMMA LeaseInvNext == LeaseInv /\ [LeaseNext]_leaseVars => LeaseInv'
<1>1. LeaseInv /\ UNCHANGED leaseVars => LeaseInv'
  BY DEF leaseVars, clientVars, serverVars, LeaseInv, LeaseType, EveryLeaseEnds
<1> QED
  BY <1>1, PeriodicKeepsLease, ReplyKeepsLease, StopKeepsLease, ServerKeepsLease,
     FaultKeepsLease, TickKeepsLease DEF LeaseNext
----------------------------------------------------------------------------
(***************************************************************************)
(* No entry escapes the periodic threads for good: an entry without an end *)
(* of its lease exists only while a handler is about to give it one, and   *)
(* an entry a handler believes to be in the table is there, whoever        *)
(* removes entries between the two steps of the handlers.                  *)
(***************************************************************************)
THEOREM LeasesEndTheorem == LeaseSpec => []EveryLeaseEnds
<1>1. LeaseInv => EveryLeaseEnds
  BY DEF LeaseInv
<1> QED BY <1>1, LeaseInvInit, LeaseInvNext, PTL DEF LeaseSpec
----------------------------------------------------------------------------
\* What a step may do to a table that is not to hold more than limit entries:
\* enter nothing, or one peer if there is room.
Restrained(Peer, old, new, limit) ==
  \/ \A p \in Peer : new[p] # Absent => old[p] # Absent
  \/ /\ Cardinality(Held(old)) < limit
     /\ \E q \in Peer : \A p \in Peer \ {q} : new[p] # Absent => old[p] # Absent

\* Such a step keeps the bound.
LEMMA RestrainedKeepsBound ==
  ASSUME NEW Peer, IsFiniteSet(Peer), NEW limit \in Nat,
         NEW old \in [Peer -> Absent .. Forever], NEW new \in [Peer -> Absent .. Forever],
         Cardinality(Held(old)) <= limit, Restrained(Peer, old, new, limit)
  PROVE  Cardinality(Held(new)) <= limit
<1>1. Held(old) \subseteq Peer /\ Held(new) \subseteq Peer
  BY DEF Held
<1>2. IsFiniteSet(Held(old)) /\ Cardinality(Held(old)) \in Nat
  BY <1>1, FS_Subset, FS_CardinalityType
<1>3. CASE \A p \in Peer : new[p] # Absent => old[p] # Absent
  <2>1. Held(new) \subseteq Held(old)
    BY <1>3 DEF Held
  <2>2. Cardinality(Held(new)) <= Cardinality(Held(old)) /\ Cardinality(Held(new)) \in Nat
    BY <1>2, <2>1, FS_Subset, FS_CardinalityType
  <2> QED BY <1>2, <2>2
<1>4. ASSUME Cardinality(Held(old)) < limit,
             NEW q \in Peer, \A p \in Peer \ {q} : new[p] # Absent => old[p] # Absent
      PROVE  Cardinality(Held(new)) <= limit
  <2>1. Held(new) \subseteq Held(old) \cup {q}
    BY <1>4 DEF Held
  <2>2. /\ IsFiniteSet(Held(old) \cup {q})
        /\ \/ Cardinality(Held(old) \cup {q}) = Cardinality(Held(old))
           \/ Cardinality(Held(old) \cup {q}) = Cardinality(Held(old)) + 1
    BY <1>2, FS_AddElement
  <2>3. /\ Cardinality(Held(new)) <= Cardinality(Held(old) \cup {q})
        /\ Cardinality(Held(new)) \in Nat
    BY <2>1, <2>2, FS_Subset, FS_CardinalityType
  <2> QED BY <1>2, <1>4, <2>2, <2>3
<1> QED BY <1>3, <1>4 DEF Restrained

\* Only the handler that takes a reply enters rendezvous, and only with room.
LEMMA ClientTablesRestrained ==
  ASSUME LeaseInv, LeaseNext, NEW c \in Client
  PROVE  Restrained(Rdv, rdvs[c], rdvs'[c], MinConnected)
<1> USE LeaseLengths DEF LeaseInv, LeaseType
<1>1. CASE rdvs' = rdvs
  BY <1>1 DEF Restrained
<1>2. CASE \E d \in Client : PeriodicStep(d)
  <2>1. PICK d \in Client : PeriodicStep(d)
    BY <1>2
  <2>2. CASE ConnectRound(d)
    <3>1. PICK failed \in SUBSET ToRenew(d) :
            rdvs' = [rdvs EXCEPT ![d] = [r \in Rdv |-> IF r \in failed THEN 0 ELSE @[r]]]
      BY <2>2 DEF ConnectRound
    <3>2. \A r \in failed : rdvs[d][r] # Absent
      BY <3>1 DEF ToRenew, Held
    <3> QED BY <3>1, <3>2 DEF Restrained
  <2>3. ASSUME NEW r \in Rdv, RemoveRdv(d, r)
        PROVE  Restrained(Rdv, rdvs[c], rdvs'[c], MinConnected)
    BY <2>3 DEF RemoveRdv, Restrained
  <2> QED BY <1>1, <2>1, <2>2, <2>3 DEF PeriodicStep, Wake, check_peer_lease
<1>3. ASSUME NEW d \in Client, NEW m \in net, TakeReply(d, m)
      PROVE  Restrained(Rdv, rdvs[c], rdvs'[c], MinConnected)
  <2>1. m.rdv \in Rdv
    BY <1>3 DEF TakeReply
  <2>2. CASE Cardinality(Held(rdvs[d])) < MinConnected
    <3>1. \A r \in Rdv \ {m.rdv} : rdvs'[d][r] = rdvs[d][r]
      BY <1>3, <2>1 DEF TakeReply
    <3>2. c # d => rdvs'[c] = rdvs[c]
      BY <1>3 DEF TakeReply
    <3> QED BY <2>1, <2>2, <3>1, <3>2 DEF Restrained
  <2>3. CASE ~ (Cardinality(Held(rdvs[d])) < MinConnected)
    <3>1. rdvs' = [rdvs EXCEPT ![d][m.rdv] = @]
      BY <1>3, <2>3 DEF TakeReply
    <3> QED BY <3>1, <2>1, <1>1
  <2> QED BY <2>2, <2>3
<1>4. ASSUME NEW d \in Client, NEW r \in Rdv, process_connected_reply(d, r)
      PROVE  Restrained(Rdv, rdvs[c], rdvs'[c], MinConnected)
  <2>1. CASE answering[d][r] = "linked"
    <3>1. rdvs[d][r] # Absent
      BY <2>1 DEF EveryLeaseEnds
    <3>2. rdvs' = [rdvs EXCEPT ![d][r] = Lease]
      BY <1>4, <2>1 DEF process_connected_reply
    <3> QED BY <3>1, <3>2 DEF Restrained
  <2> QED BY <1>1, <1>4, <2>1 DEF process_connected_reply
<1>5. CASE \E d \in Client : stop(d) \/ StopStep(d)
  <2>1. PICK d \in Client : stop(d) \/ SignalThread(d) \/ JoinThread(d)
    BY <1>5 DEF StopStep
  <2>2. CASE JoinThread(d)
    BY <2>2 DEF JoinThread, Restrained
  <2> QED BY <1>1, <2>1, <2>2 DEF stop, SignalThread
<1>6. CASE \E r \in Rdv : RequestStep(r) \/ ExpireStep(r)
  BY <1>1, <1>6 DEF RequestStep, ExpireStep, TakeRequest, send_connect_reply, CheckClient,
                    RemoveClient, clientVars
<1>7. CASE Fault
  <2>1. ASSUME NEW r \in Rdv, NEW d \in Client, rdvs[d][r] > 0,
               rdvs' = [rdvs EXCEPT ![d][r] = 0]
        PROVE  Restrained(Rdv, rdvs[c], rdvs'[c], MinConnected)
    BY <2>1 DEF Restrained
  <2> QED BY <1>1, <1>7, <2>1
          DEF Fault, Lose, Restart, jxta_rdv_service_provider_prop_to_peers, clientVars
<1>8. CASE Tick
  BY <1>8, LaterLength DEF Tick, Restrained
<1> QED
  BY <1>1, <1>2, <1>3, <1>4, <1>5, <1>6, <1>7, <1>8 DEF LeaseNext, ReplyStep, DropReply, clientVars

\* Only the handler that takes a request enters clients, and only with room.
LEMMA ServerTablesRestrained ==
  ASSUME LeaseInv, LeaseNext, NEW r \in Rdv
  PROVE  Restrained(Client, clients[r], clients'[r], MaxClients[r])
<1> USE LeaseLengths DEF LeaseInv, LeaseType
<1>1. CASE clients' = clients
  BY <1>1 DEF Restrained
<1>2. ASSUME NEW s \in Rdv, NEW m \in net, TakeRequest(s, m)
      PROVE  Restrained(Client, clients[r], clients'[r], MaxClients[r])
  <2>1. m.client \in Client
    OBVIOUS
  <2>2. CASE Cardinality(Held(clients[s])) < MaxClients[s]
    <3>1. \A c \in Client \ {m.client} : clients'[s][c] = clients[s][c]
      BY <1>2, <2>1 DEF TakeRequest
    <3>2. r # s => clients'[r] = clients[r]
      BY <1>2 DEF TakeRequest
    <3> QED BY <2>1, <2>2, <3>1, <3>2 DEF Restrained
  <2>3. CASE ~ (MaxClients[s] > Cardinality(Held(clients[s])))
    <3>1. clients' = [clients EXCEPT ![s][m.client] = @]
      BY <1>2, <2>3 DEF TakeRequest
    <3> QED BY <3>1, <2>1, <1>1
  <2>4. Cardinality(Held(clients[s])) < MaxClients[s] <=> MaxClients[s] > Cardinality(Held(clients[s]))
    OBVIOUS
  <2> QED BY <2>2, <2>3, <2>4
<1>3. ASSUME NEW s \in Rdv, NEW c \in Client, send_connect_reply(s, c)
      PROVE  Restrained(Client, clients[r], clients'[r], MaxClients[r])
  <2>1. CASE granting[s][c] = "linked"
    <3>1. clients[s][c] # Absent
      BY <2>1 DEF EveryLeaseEnds
    <3>2. clients' = [clients EXCEPT ![s][c] = Lease]
      BY <1>3, <2>1 DEF send_connect_reply
    <3> QED BY <3>1, <3>2 DEF Restrained
  <2>2. CASE granting[s][c] # "linked"
    <3>1. clients' = [clients EXCEPT ![s][c] = @]
      BY <1>3, <2>2 DEF send_connect_reply
    <3> QED BY <3>1, <1>1
  <2> QED BY <2>1, <2>2
<1>4. ASSUME NEW s \in Rdv, ExpireStep(s)
      PROVE  Restrained(Client, clients[r], clients'[r], MaxClients[r])
  <2>1. ASSUME NEW c \in Client, RemoveClient(s, c)
        PROVE  Restrained(Client, clients[r], clients'[r], MaxClients[r])
    <3>1. clients' = [clients EXCEPT ![s][c] = Absent]
      BY <2>1 DEF RemoveClient
    <3> QED BY <3>1 DEF Restrained
  <2> QED BY <1>1, <1>4, <2>1 DEF ExpireStep, CheckClient
<1>5. CASE Fault
  <2>1. ASSUME NEW s \in Rdv, NEW c \in Client, clients[s][c] > 0,
               clients' = [clients EXCEPT ![s][c] = 0]
        PROVE  Restrained(Client, clients[r], clients'[r], MaxClients[r])
    BY <2>1 DEF Restrained
  <2>2. ASSUME NEW s \in Rdv, Restart(s)
        PROVE  Restrained(Client, clients[r], clients'[r], MaxClients[r])
    BY <2>2 DEF Restart, Restrained
  <2> QED BY <1>1, <1>5, <2>1, <2>2
          DEF Fault, Lose, jxta_rdv_service_provider_prop_to_peers, serverVars
<1>6. CASE Tick
  BY <1>6, LaterLength DEF Tick, Restrained
<1>7. CASE \E c \in Client : PeriodicStep(c) \/ ReplyStep(c) \/ stop(c) \/ StopStep(c)
  BY <1>1, <1>7 DEF PeriodicStep, Wake, ConnectRound, check_peer_lease, RemoveRdv, ReplyStep,
                    TakeReply, DropReply, process_connected_reply, stop, StopStep, SignalThread,
                    JoinThread, serverVars
<1> QED BY <1>2, <1>3, <1>4, <1>5, <1>6, <1>7 DEF LeaseNext, RequestStep

\* A step keeps the bounds on all tables.
LEMMA BoundedNext ==
  LeaseInv /\ LeaseInv' /\ TablesBounded /\ [LeaseNext]_leaseVars => TablesBounded'
<1> SUFFICES ASSUME LeaseInv, LeaseInv', TablesBounded, LeaseNext PROVE TablesBounded'
  BY DEF TablesBounded, leaseVars, clientVars, serverVars
<1>1. /\ rdvs \in [Client -> [Rdv -> Absent .. Forever]] /\ rdvs' \in [Client -> [Rdv -> Absent .. Forever]]
      /\ clients \in [Rdv -> [Client -> Absent .. Forever]] /\ clients' \in [Rdv -> [Client -> Absent .. Forever]]
  BY DEF LeaseInv, LeaseType
<1>2. /\ IsFiniteSet(Client) /\ IsFiniteSet(Rdv)
      /\ MinConnected \in Nat /\ \A r \in Rdv : MaxClients[r] \in Nat
  BY LeaseAssumption DEF LeaseAssumption
<1>3. ASSUME NEW r \in Rdv PROVE Cardinality(Held(clients'[r])) <= MaxClients[r]
  <2>1. Cardinality(Held(clients[r])) <= MaxClients[r]
    BY DEF TablesBounded
  <2>2. clients[r] \in [Client -> Absent .. Forever] /\ clients'[r] \in [Client -> Absent .. Forever]
    BY <1>1
  <2>3. Restrained(Client, clients[r], clients'[r], MaxClients[r])
    BY ServerTablesRestrained
  <2> QED BY <1>2, <2>1, <2>2, <2>3, RestrainedKeepsBound
<1>4. ASSUME NEW c \in Client PROVE Cardinality(Held(rdvs'[c])) <= MinConnected
  <2>1. Cardinality(Held(rdvs[c])) <= MinConnected
    BY DEF TablesBounded
  <2>2. rdvs[c] \in [Rdv -> Absent .. Forever] /\ rdvs'[c] \in [Rdv -> Absent .. Forever]
    BY <1>1
  <2>3. Restrained(Rdv, rdvs[c], rdvs'[c], MinConnected)
    BY ClientTablesRestrained
  <2> QED BY <1>2, <2>1, <2>2, <2>3, RestrainedKeepsBound
<1> QED BY <1>3, <1>4 DEF TablesBounded
----------------------------------------------------------------------------
(***************************************************************************)
(* get_peer_entry looks at the size of the table and enters the peer under *)
(* the same lock: a rendezvous never has more clients than MAX_CLIENTS, a  *)
(* client never more rendezvous than it wants, although the entries are    *)
(* given their leases, and removed, under other locks or none.             *)
(***************************************************************************)
THEOREM TablesTheorem == LeaseSpec => []TablesBounded
<1>1. LeaseInit => TablesBounded
  <2> SUFFICES ASSUME LeaseInit PROVE TablesBounded
    OBVIOUS
  <2>1. ASSUME NEW r \in Rdv PROVE Cardinality(Held(clients[r])) <= MaxClients[r]
    <3>1. Held(clients[r]) = {}
      BY DEF LeaseInit, Held
    <3>2. Cardinality(Held(clients[r])) = 0
      BY <3>1, FS_EmptySet
    <3> QED BY <3>2, LeaseAssumption DEF LeaseAssumption
  <2>2. ASSUME NEW c \in Client PROVE Cardinality(Held(rdvs[c])) <= MinConnected
    <3>1. Held(rdvs[c]) = {}
      BY DEF LeaseInit, Held
    <3>2. Cardinality(Held(rdvs[c])) = 0
      BY <3>1, FS_EmptySet
    <3> QED BY <3>2, LeaseAssumption DEF LeaseAssumption
  <2> QED BY <2>1, <2>2 DEF TablesBounded
<1> QED BY <1>1, LeaseInvInit, LeaseInvNext, BoundedNext, PTL DEF LeaseSpec
============================================================================
