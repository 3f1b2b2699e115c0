------------------------------ MODULE RdvLease ------------------------------
(***************************************************************************)
(* The leases edge peers hold at rendezvous peers: jxta_rdv_service_client *)
(* .c and jxta_rdv_service_server.c in src/src.  A client's periodic       *)
(* thread drops the rendezvous whose lease has run out, asks for a renewal *)
(* of those about to, and tries a candidate of its peer view; its message  *)
(* handler takes the leases granted.  A server's handler grants leases and *)
(* its periodic thread drops the clients whose lease has run out.          *)
(*                                                                         *)
(* Times are relative: an entry keeps what is left of its lease and of the *)
(* pause before the next request, and Tick lets time pass.  What threads   *)
(* do takes no time, so Tick waits for them, but they interleave freely.   *)
(* A message arrives within MaxDelay or is lost.  Rounds of the server's   *)
(* periodic thread come at any time, so its test of one client is a step   *)
(* of its own and the loop over the table needs no state.                  *)
(***************************************************************************)
EXTENDS Integers, Sequences, FiniteSets

CONSTANTS Client, Rdv,
          View,          \* the order of the rendezvous in the clients' peer views
          Lease,         \* OFFERED_LEASE_DURATION
          RenewalDelay,  \* jxta_RdvConfig_get_lease_renewal_delay
          MinRetry, MaxRetry,  \* ..._get_min_retry_delay, ..._get_max_retry_delay
          Cycle,         \* jxta_RdvConfig_get_connect_cycle_normal
          MinConnected,  \* jxta_RdvConfig_get_min_connected_rendezvous
          MaxClients,    \* MAX_CLIENTS of each rendezvous
          MaxDelay,      \* the time a message takes at most
          MaxFaults,     \* bound on messages lost, restarts and failed sends
          MayStop        \* the clients that may be stopped

ASSUME LeaseAssumption ==
  /\ IsFiniteSet(Client) /\ IsFiniteSet(Rdv) /\ View \in Seq(Rdv)
  /\ {Lease, Cycle} \subseteq Nat \ {0}
  /\ {RenewalDelay, MinRetry, MaxRetry, MinConnected, MaxDelay, MaxFaults} \subseteq Nat
  /\ MinRetry <= MaxRetry /\ RenewalDelay <= Lease
  /\ MaxClients \in [Rdv -> Nat] /\ MayStop \subseteq Client

Forever == Lease + 1  \* JPR_ABSOLUTE_TIME_MAX
Absent  == -1         \* no entry in the table

VARIABLES
  rdvs,        \* what is left of the lease of each entry of a client's table
  interval,    \* connectInterval of each entry
  pause,       \* what is left of lastConnectTry + connectInterval
  candidates,  \* how many of the view the client has not tried
  candidate,   \* what is left before the client gives up its candidate
  thread, nap, \* where the client's periodic thread is, and how long it still sleeps
  todo,        \* the entries its first pass has still to look at
  connected,   \* nbOfConnectedRdvs
  doomed,      \* the entry it is about to remove, if any: at most one
  answering,   \* the client's handler: between get_peer_entry and the new lease?
  stopper,     \* the thread that stops the client
  clients,     \* what is left of the lease of each entry of a server's table
  granting,    \* the server's handler, the same
  expiring,    \* the client the server's periodic thread is about to remove: at most one
  net,         \* the messages under way
  faults,      \* how many messages were lost, sends failed and rendezvous restarted
  revoked      \* history: the clients whose lease the server gave up early

clientVars == <<rdvs, interval, pause, candidates, candidate, thread, nap, todo, connected,
                doomed, answering, stopper>>
serverVars == <<clients, granting, expiring, revoked>>
leaseVars  == <<clientVars, serverVars, faults, net>>

LeaseInit ==
  /\ rdvs = [c \in Client |-> [r \in Rdv |-> Absent]]
  /\ interval = [c \in Client |-> [r \in Rdv |-> 0]]
  /\ pause = [c \in Client |-> [r \in Rdv |-> 0]]
  /\ candidates = [c \in Client |-> 0] /\ candidate = [c \in Client |-> 0]
  /\ thread = [c \in Client |-> "nap"] /\ nap = [c \in Client |-> 0]
  /\ todo = [c \in Client |-> {}] /\ connected = [c \in Client |-> 0]
  /\ doomed = [c \in Client |-> {}]
  /\ answering = [c \in Client |-> [r \in Rdv |-> "no"]]
  /\ stopper = [c \in Client |-> "off"]
  /\ clients = [r \in Rdv |-> [c \in Client |-> Absent]]
  /\ granting = [r \in Rdv |-> [c \in Client |-> "no"]]
  /\ expiring = [r \in Rdv |-> {}]
  /\ net = {} /\ faults = 0
  /\ revoked = [r \in Rdv |-> {}]

Held(table) == {p \in DOMAIN table : table[p] # Absent}

Lesser(a, b) == IF a < b THEN a ELSE b

Request(c, r) == [kind |-> "request", client |-> c, rdv |-> r, age |-> 0]
Reply(r, c)   == [kind |-> "reply", client |-> c, rdv |-> r, age |-> 0]
----------------------------------------------------------------------------
(***************************************************************************)
(* The client's periodic thread, periodic_thread_main.  It holds           *)
(* periodicMutex whenever it does not sleep.                               *)
(***************************************************************************)
Running(c) == stopper[c] \in {"off", "locked"}

\* The provider's lock: stop holds it while it waits for periodicMutex.
ProviderFree(c) == stopper[c] # "locked"

\* Mutant of Wake: the connected rendezvous are counted over all rounds.
WakeKeepsCount(c) ==
  /\ thread[c] = "nap" /\ (nap[c] = 0 \/ ~ Running(c))
  /\ IF Running(c)
     THEN thread' = [thread EXCEPT ![c] = "round"] /\ todo' = [todo EXCEPT ![c] = Held(rdvs[c])]
     ELSE thread' = [thread EXCEPT ![c] = "dead"] /\ UNCHANGED todo
  /\ UNCHANGED <<rdvs, interval, pause, candidates, candidate, nap, connected, doomed, answering,
                 stopper, serverVars, faults, net>>

\* A round begins, or the thread finds that it has to die.
Wake(c) ==
  /\ thread[c] = "nap" /\ (nap[c] = 0 \/ ~ Running(c))
  /\ IF Running(c)
     THEN /\ thread' = [thread EXCEPT ![c] = "round"]
          /\ todo' = [todo EXCEPT ![c] = Held(rdvs[c])]
          /\ connected' = [connected EXCEPT ![c] = 0]
     ELSE thread' = [thread EXCEPT ![c] = "dead"] /\ UNCHANGED <<todo, connected>>
  /\ UNCHANGED <<rdvs, interval, pause, candidates, candidate, nap, doomed, answering, stopper,
                 serverVars, faults, net>>

\* The first pass looks at one entry after the other.
check_peer_lease(c, r) ==
  /\ thread[c] = "round" /\ doomed[c] = {} /\ r \in todo[c]
  /\ todo' = [todo EXCEPT ![c] = @ \ {r}]
  /\ IF rdvs[c][r] > 0
     THEN connected' = [connected EXCEPT ![c] = @ + 1] /\ UNCHANGED doomed
     ELSE doomed' = [doomed EXCEPT ![c] = {r}] /\ UNCHANGED connected
  /\ UNCHANGED <<rdvs, interval, pause, candidates, candidate, thread, nap, answering, stopper,
                 serverVars, faults, net>>

\* "No lease left.  Get rid of this rdv": whatever lease the entry has by now.
RemoveRdv(c, r) ==
  /\ r \in doomed[c] /\ ProviderFree(c)
  /\ doomed' = [doomed EXCEPT ![c] = {}]
  /\ rdvs' = [rdvs EXCEPT ![c][r] = Absent]
  /\ interval' = [interval EXCEPT ![c][r] = 0] /\ pause' = [pause EXCEPT ![c][r] = 0]
  /\ answering' = [answering EXCEPT ![c][r] = IF @ = "linked" THEN "unlinked" ELSE @]
  /\ UNCHANGED <<candidates, candidate, thread, nap, todo, connected, stopper,
                 serverVars, faults, net>>

\* Mutant of ToRenew: a lease is renewed when it has ended.
RenewsEnded(c) == {r \in Held(rdvs[c]) : rdvs[c][r] = 0 /\ pause[c][r] = 0}

\* check_peer_connect, and connect_to_peer unless it is too soon.
ToRenew(c) == {r \in Held(rdvs[c]) : rdvs[c][r] < RenewalDelay /\ pause[c][r] = 0}

NextInterval(c, r) == Lesser(interval[c][r] + MinRetry, MaxRetry)

\* Mutants of Untried: the list is not loaded, or loaded in every round.
UntriedNotLoaded(c) == IF connected[c] < MinConnected THEN candidates[c] ELSE 0
UntriedLoadedAlways(c) == Len(View)

(***************************************************************************)
(* "Final lap -- try to connect to a candidate rdv".  With enough          *)
(* rendezvous connected the list is cleared, which makes it be loaded      *)
(* anew; the lap does not look at the number connected.                    *)
(***************************************************************************)
Untried(c) ==
  LET left == IF connected[c] < MinConnected THEN candidates[c] ELSE 0
  IN  IF left = 0 THEN Len(View) ELSE left

Candidates(c) ==
  IF candidate[c] > 0 \/ Untried(c) = 0 THEN {} ELSE {View[Len(View) - Untried(c) + 1]}

(***************************************************************************)
(* The second and third pass and the wait.  A renewal is reported to fail  *)
(* when the endpoint service has the peer in its negative cache; it is     *)
(* sent all the same, and the entry's lease ends at once.  Without enough  *)
(* rendezvous the thread sleeps less, as long as the backoff says.         *)
(***************************************************************************)
ConnectRound(c) ==
  /\ thread[c] = "round" /\ todo[c] = {} /\ doomed[c] = {}
  /\ \E failed \in SUBSET ToRenew(c) :
       /\ faults + Cardinality(failed) <= MaxFaults
       /\ faults' = faults + Cardinality(failed)
       /\ rdvs' = [rdvs EXCEPT ![c] = [r \in Rdv |-> IF r \in failed THEN 0 ELSE @[r]]]
  /\ interval' = [interval EXCEPT ![c] =
                    [r \in Rdv |-> IF r \in ToRenew(c) THEN NextInterval(c, r) ELSE @[r]]]
  /\ pause' = [pause EXCEPT ![c] =
                 [r \in Rdv |-> IF r \in ToRenew(c) THEN NextInterval(c, r) ELSE @[r]]]
  /\ candidates' = [candidates EXCEPT ![c] = Untried(c) - Cardinality(Candidates(c))]
  /\ candidate' = [candidate EXCEPT ![c] = IF Candidates(c) = {} THEN @ ELSE MinRetry + 1]
  /\ net' = net \cup {Request(c, r) : r \in ToRenew(c) \cup Candidates(c)}
  /\ thread' = [thread EXCEPT ![c] = "nap"]
  /\ \E wait \in IF connected[c] < MinConnected THEN 1 .. Cycle ELSE {Cycle} :
       nap' = [nap EXCEPT ![c] = wait]
  /\ UNCHANGED <<todo, connected, doomed, answering, stopper, serverVars>>
----------------------------------------------------------------------------
(***************************************************************************)
(* The client's message handler, process_connected_reply.                  *)
(***************************************************************************)
\* get_peer_entry: the entry, or a new one if the client wants another.
TakeReply(c, m) ==
  /\ m \in net /\ m.kind = "reply" /\ m.client = c
  /\ stopper[c] # "stopped" /\ ProviderFree(c) /\ answering[c][m.rdv] = "no"
  /\ net' = net \ {m}
  /\ LET known == rdvs[c][m.rdv] # Absent
         room  == Cardinality(Held(rdvs[c])) < MinConnected
     IN  /\ rdvs' = [rdvs EXCEPT ![c][m.rdv] = IF ~ known /\ room THEN Forever ELSE @]
         /\ answering' = [answering EXCEPT ![c][m.rdv] = IF known \/ room THEN "linked" ELSE "no"]
  /\ UNCHANGED <<interval, pause, candidates, candidate, thread, nap, todo, connected, doomed,
                 stopper, serverVars, faults>>

\* Mutant of process_connected_reply: the lease of a new entry is not set.
ReplyKeepsExpires(c, r) ==
  /\ answering[c][r] # "no"
  /\ answering' = [answering EXCEPT ![c][r] = "no"]
  /\ interval' = [interval EXCEPT ![c][r] = 0] /\ pause' = [pause EXCEPT ![c][r] = 0]
  /\ UNCHANGED <<rdvs, candidates, candidate, thread, nap, todo, connected, doomed, stopper,
                 serverVars, faults, net>>

\* The entry, linked or not, gets the lease.
process_connected_reply(c, r) ==
  /\ answering[c][r] # "no"
  /\ answering' = [answering EXCEPT ![c][r] = "no"]
  /\ IF answering[c][r] = "linked"
     THEN /\ rdvs' = [rdvs EXCEPT ![c][r] = Lease]
          /\ interval' = [interval EXCEPT ![c][r] = 0] /\ pause' = [pause EXCEPT ![c][r] = 0]
     ELSE UNCHANGED <<rdvs, interval, pause>>
  /\ UNCHANGED <<candidates, candidate, thread, nap, todo, connected, doomed, stopper,
                 serverVars, faults, net>>

\* stop has removed the recipient: the endpoint service drops the message.
DropReply(c, m) ==
  /\ m \in net /\ m.kind = "reply" /\ m.client = c /\ stopper[c] \in {"join", "stopped"}
  /\ net' = net \ {m}
  /\ UNCHANGED <<clientVars, serverVars, faults>>
----------------------------------------------------------------------------
(***************************************************************************)
(* stop of the client: it takes the provider's lock, ...                   *)
(***************************************************************************)
stop(c) ==
  /\ c \in MayStop /\ stopper[c] = "off"
  /\ stopper' = [stopper EXCEPT ![c] = "locked"]
  /\ UNCHANGED <<rdvs, interval, pause, candidates, candidate, thread, nap, todo, connected,
                 doomed, answering, serverVars, faults, net>>

\* ... periodicMutex, which is free when the thread sleeps, clears running, ...
SignalThread(c) ==
  /\ stopper[c] = "locked" /\ thread[c] = "nap"
  /\ stopper' = [stopper EXCEPT ![c] = "join"]
  /\ UNCHANGED <<rdvs, interval, pause, candidates, candidate, thread, nap, todo, connected,
                 doomed, answering, serverVars, faults, net>>

\* ... and joins the thread; then the rendezvous service releases the provider
\* with its table.
JoinThread(c) ==
  /\ stopper[c] = "join" /\ thread[c] = "dead" /\ \A r \in Rdv : answering[c][r] = "no"
  /\ stopper' = [stopper EXCEPT ![c] = "stopped"]
  /\ rdvs' = [rdvs EXCEPT ![c] = [r \in Rdv |-> Absent]]
  /\ interval' = [interval EXCEPT ![c] = [r \in Rdv |-> 0]]
  /\ pause' = [pause EXCEPT ![c] = [r \in Rdv |-> 0]]
  /\ candidates' = [candidates EXCEPT ![c] = 0] /\ candidate' = [candidate EXCEPT ![c] = 0]
  /\ connected' = [connected EXCEPT ![c] = 0]
  /\ UNCHANGED <<thread, nap, todo, doomed, answering, serverVars, faults, net>>
----------------------------------------------------------------------------
(***************************************************************************)
(* The server's message handler, server_cb.                                *)
(***************************************************************************)
\* Mutants of TakeRequest: the size of the table is not looked at, or the new
\* entry is not put into it.
TakeRequestAlways(r, m) ==
  /\ m \in net /\ m.kind = "request" /\ m.rdv = r /\ granting[r][m.client] = "no"
  /\ clients' = [clients EXCEPT ![r][m.client] = IF @ = Absent THEN Forever ELSE @]
  /\ granting' = [granting EXCEPT ![r][m.client] = "linked"]
  /\ net' = net \ {m}
  /\ UNCHANGED <<clientVars, faults, expiring, revoked>>
TakeRequestUnlisted(r, m) ==
  /\ m \in net /\ m.kind = "request" /\ m.rdv = r /\ granting[r][m.client] = "no"
  /\ granting' = [granting EXCEPT ![r][m.client] =
                    IF clients[r][m.client] # Absent THEN "linked" ELSE "unlinked"]
  /\ net' = net \ {m}
  /\ UNCHANGED <<clientVars, faults, clients, expiring, revoked>>

\* get_peer_entry: the entry, or a new one if there is room; a client that
\* is declined is not told.
TakeRequest(r, m) ==
  /\ m \in net /\ m.kind = "request" /\ m.rdv = r /\ granting[r][m.client] = "no"
  /\ LET known == clients[r][m.client] # Absent
         room  == MaxClients[r] > Cardinality(Held(clients[r]))
     IN  /\ clients' = [clients EXCEPT ![r][m.client] = IF ~ known /\ room THEN Forever ELSE @]
         /\ granting' = [granting EXCEPT ![r][m.client] = IF known \/ room THEN "linked" ELSE "no"]
  /\ net' = net \ {m}
  /\ UNCHANGED <<clientVars, faults, expiring, revoked>>

\* The entry, linked or not, gets the lease, and the client is told.
send_connect_reply(r, c) ==
  /\ granting[r][c] # "no"
  /\ granting' = [granting EXCEPT ![r][c] = "no"]
  /\ clients' = [clients EXCEPT ![r][c] = IF granting[r][c] = "linked" THEN Lease ELSE @]
  /\ revoked' = [revoked EXCEPT ![r] = IF granting[r][c] = "linked" THEN @ \ {c} ELSE @]
  /\ net' = net \cup {Reply(r, c)}
  /\ UNCHANGED <<clientVars, faults, expiring>>
----------------------------------------------------------------------------
\* Mutant of CheckClient: leases end only when the place is needed.
CheckClientWhenFull(r, c) ==
  /\ expiring[r] = {} /\ clients[r][c] = 0 /\ Cardinality(Held(clients[r])) = MaxClients[r]
  /\ expiring' = [expiring EXCEPT ![r] = {c}]
  /\ UNCHANGED <<clientVars, faults, net, clients, granting, revoked>>

\* The server's periodic thread finds a client without a lease, ...
CheckClient(r, c) ==
  /\ expiring[r] = {} /\ clients[r][c] = 0
  /\ expiring' = [expiring EXCEPT ![r] = {c}]
  /\ UNCHANGED <<clientVars, faults, net, clients, granting, revoked>>

\* ... and removes it without a lock, whatever lease it has by now.
RemoveClient(r, c) ==
  /\ c \in expiring[r]
  /\ expiring' = [expiring EXCEPT ![r] = {}]
  /\ clients' = [clients EXCEPT ![r][c] = Absent]
  /\ granting' = [granting EXCEPT ![r][c] = IF @ = "linked" THEN "unlinked" ELSE @]
  /\ revoked' = [revoked EXCEPT ![r] =
                   IF clients[r][c] > 0 \/ granting[r][c] = "linked" THEN @ \cup {c} ELSE @]
  /\ UNCHANGED <<clientVars, faults, net>>
----------------------------------------------------------------------------
(***************************************************************************)
(* The environment: a message is lost, a rendezvous is restarted with an   *)
(* empty table, a propagation to a peer fails and ends its lease.          *)
(***************************************************************************)
Lose(m) ==
  /\ m \in net /\ faults < MaxFaults
  /\ net' = net \ {m} /\ faults' = faults + 1
  /\ UNCHANGED <<clientVars, serverVars>>

Restart(r) ==
  /\ faults < MaxFaults /\ faults' = faults + 1
  /\ revoked' = [revoked EXCEPT ![r] = @ \cup Held(clients[r])]
  /\ clients' = [clients EXCEPT ![r] = [c \in Client |-> Absent]]
  /\ granting' = [granting EXCEPT ![r] = [c \in Client |-> "no"]]
  /\ expiring' = [expiring EXCEPT ![r] = {}]
  /\ UNCHANGED <<clientVars, net>>

jxta_rdv_service_provider_prop_to_peers(r, c) ==
  /\ faults < MaxFaults /\ faults' = faults + 1
  /\ \/ /\ clients[r][c] > 0
        /\ clients' = [clients EXCEPT ![r][c] = 0]
        /\ revoked' = [revoked EXCEPT ![r] = @ \cup {c}]
        /\ UNCHANGED rdvs
     \/ /\ rdvs[c][r] > 0
        /\ rdvs' = [rdvs EXCEPT ![c][r] = 0]
        /\ UNCHANGED <<clients, revoked>>
  /\ UNCHANGED <<interval, pause, candidates, candidate, thread, nap, todo, connected, doomed,
                 answering, stopper, granting, expiring, net>>

\* stop waits for periodicMutex and its holder for the provider's lock.
Deadlocked(c) == stopper[c] = "locked" /\ doomed[c] # {}

\* Nobody has anything to do now.
Quiet ==
  /\ \A m \in net : m.age < MaxDelay \/ (m.kind = "reply" /\ Deadlocked(m.client))
  /\ \A r \in Rdv : expiring[r] = {} /\ \A c \in Client : granting[r][c] = "no"
  /\ \A c \in Client :
       /\ \/ Deadlocked(c)
          \/ stopper[c] = "stopped"
          \/ stopper[c] = "off" /\ thread[c] = "nap" /\ nap[c] > 0
       /\ \A r \in Rdv : answering[c][r] = "no"

Later(left) == IF left \in 1 .. Lease THEN left - 1 ELSE left

Tick ==
  /\ Quiet
  /\ rdvs' = [c \in Client |-> [r \in Rdv |-> Later(rdvs[c][r])]]
  /\ clients' = [r \in Rdv |-> [c \in Client |-> Later(clients[r][c])]]
  /\ pause' = [c \in Client |-> [r \in Rdv |-> IF pause[c][r] > 0 THEN pause[c][r] - 1 ELSE 0]]
  /\ candidate' = [c \in Client |-> IF candidate[c] > 0 THEN candidate[c] - 1 ELSE 0]
  /\ nap' = [c \in Client |-> IF nap[c] > 0 THEN nap[c] - 1 ELSE 0]
  /\ net' = {[m EXCEPT !.age = Lesser(@ + 1, MaxDelay)] : m \in net}
  /\ UNCHANGED <<interval, candidates, thread, todo, connected, doomed, answering, stopper,
                 granting, expiring, revoked, faults>>
----------------------------------------------------------------------------
PeriodicStep(c) ==
  Wake(c) \/ ConnectRound(c) \/ \E r \in Rdv : check_peer_lease(c, r) \/ RemoveRdv(c, r)

ReplyStep(c) ==
  \/ \E m \in net : TakeReply(c, m) \/ DropReply(c, m)
  \/ \E r \in Rdv : process_connected_reply(c, r)

StopStep(c) == SignalThread(c) \/ JoinThread(c)

RequestStep(r) ==
  \/ \E m \in net : TakeRequest(r, m)
  \/ \E c \in Client : send_connect_reply(r, c)

ExpireStep(r) == \E c \in Client : CheckClient(r, c) \/ RemoveClient(r, c)

Fault ==
  \/ \E m \in net : Lose(m)
  \/ \E r \in Rdv : Restart(r) \/ \E c \in Client : jxta_rdv_service_provider_prop_to_peers(r, c)

LeaseNext ==
  \/ \E c \in Client : PeriodicStep(c) \/ ReplyStep(c) \/ stop(c) \/ StopStep(c)
  \/ \E r \in Rdv : RequestStep(r) \/ ExpireStep(r)
  \/ Fault
  \/ Tick

LeaseSpec == LeaseInit /\ [][LeaseNext]_leaseVars

(***************************************************************************)
(* Threads run and time passes.  Nothing makes a message be lost, a peer   *)
(* fail or a client be stopped.                                            *)
(***************************************************************************)
FairLeaseSpec ==
  /\ LeaseSpec
  /\ \A c \in Client : WF_leaseVars(PeriodicStep(c)) /\ WF_leaseVars(ReplyStep(c))
                       /\ WF_leaseVars(StopStep(c))
  /\ \A r \in Rdv : WF_leaseVars(RequestStep(r)) /\ WF_leaseVars(ExpireStep(r))
  /\ WF_leaseVars(Tick)
----------------------------------------------------------------------------
\* What is left of a time is never more than the time, and never negative.
LeaseTypeOK ==
  /\ rdvs \in [Client -> [Rdv -> Absent .. Forever]]
  /\ interval \in [Client -> [Rdv -> 0 .. MaxRetry]] /\ pause \in [Client -> [Rdv -> 0 .. MaxRetry]]
  /\ candidates \in [Client -> 0 .. Len(View)] /\ candidate \in [Client -> 0 .. MinRetry + 1]
  /\ thread \in [Client -> {"nap", "round", "dead"}] /\ nap \in [Client -> 0 .. Cycle]
  /\ todo \in [Client -> SUBSET Rdv] /\ connected \in [Client -> 0 .. Cardinality(Rdv)]
  /\ doomed \in [Client -> SUBSET Rdv]
  /\ answering \in [Client -> [Rdv -> {"no", "linked", "unlinked"}]]
  /\ stopper \in [Client -> {"off", "locked", "join", "stopped"}]
  /\ clients \in [Rdv -> [Client -> Absent .. Forever]]
  /\ granting \in [Rdv -> [Client -> {"no", "linked", "unlinked"}]]
  /\ expiring \in [Rdv -> SUBSET Client] /\ revoked \in [Rdv -> SUBSET Client]
  /\ net \subseteq [kind : {"request", "reply"}, client : Client, rdv : Rdv, age : 0 .. MaxDelay]
  /\ faults \in 0 .. MaxFaults

(***************************************************************************)
(* A server has at most MAX_CLIENTS clients and a client at most as many   *)
(* rendezvous as it wants, whoever removes entries between the handlers'   *)
(* lookups and what they do with the entry.                                *)
(***************************************************************************)
TablesBounded ==
  /\ \A r \in Rdv : Cardinality(Held(clients[r])) <= MaxClients[r]
  /\ \A c \in Client : Cardinality(Held(rdvs[c])) <= MinConnected

(***************************************************************************)
(* An entry without an end of its lease exists only while a handler is     *)
(* about to give it one, and an entry a handler works on is in the table:  *)
(* no entry escapes the periodic threads for good.                         *)
(***************************************************************************)
EveryLeaseEnds ==
  \A c \in Client, r \in Rdv :
    /\ rdvs[c][r] = Forever => answering[c][r] = "linked"
    /\ clients[r][c] = Forever => granting[r][c] = "linked"
    /\ answering[c][r] = "linked" => rdvs[c][r] # Absent
    /\ granting[r][c] = "linked" => clients[r][c] # Absent

Connected(c, r) == rdvs[c][r] \in 1 .. Lease
Serves(r, c) == clients[r][c] > 0

(***************************************************************************)
(* LEASE_RENEWAL_DELAY: "Renewal of the leases must be done before the     *)
(* lease expires."  A client that counts a rendezvous as connected is a    *)
(* client of it, unless the rendezvous itself gave it up.                  *)
(***************************************************************************)
ClientIsServed ==
  \A c \in Client, r \in Rdv : stopper[c] = "off" /\ Connected(c, r) => Serves(r, c) \/ c \in revoked[r]

(***************************************************************************)
(* A client that counts on a rendezvous that does not serve it, because it *)
(* was restarted or gave the client up, finds out or is accepted again.    *)
(***************************************************************************)
UnservedFindsOut ==
  \A c \in Client, r \in Rdv :
    Connected(c, r) /\ ~ Serves(r, c) ~> ~ Connected(c, r) \/ Serves(r, c)

(***************************************************************************)
(* A running client is connected to a rendezvous that serves it, again and *)
(* again, provided that some rendezvous has a place for everybody: clients *)
(* keep places they do not use (see NoNeedlessRequest).                    *)
(***************************************************************************)
ConnectedAgain ==
  \A c \in Client : []<>(stopper[c] # "off" \/ \E r \in Rdv : Connected(c, r) /\ Serves(r, c))

\* The rendezvous forget a client that has stopped, for good.
StoppedIsForgotten ==
  \A c \in Client : stopper[c] = "stopped" ~> [](\A r \in Rdv : clients[r][c] = Absent)

(***************************************************************************)
(* "We need to tell the background thread that it has to die": stop        *)
(* returns.                                                                *)
(***************************************************************************)
StopReturns == \A c \in Client : stopper[c] = "locked" ~> stopper[c] = "stopped"

(***************************************************************************)
(* "No lease left.  Get rid of this peer": a server removes no client that *)
(* has a lease.                                                            *)
(***************************************************************************)
OnlyExpiredRemoved ==
  [][\A r \in Rdv, c \in Client : RemoveClient(r, c) => ~ Serves(r, c)]_leaseVars

(***************************************************************************)
(* "Don't need any more candidate rdvs": a client with enough rendezvous   *)
(* asks no others for a lease.                                             *)
(***************************************************************************)
NoNeedlessRequest ==
  [][\A c \in Client, r \in Rdv :
       Request(c, r) \in net' \ net /\ connected[c] >= MinConnected => rdvs[c][r] # Absent]_leaseVars
============================================================================
