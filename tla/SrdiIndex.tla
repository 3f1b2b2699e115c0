------------------------------ MODULE SrdiIndex -----------------------------
(***************************************************************************)
(* The shared resource distributed index: what an edge peer tells its      *)
(* rendezvous of the advertisements it publishes, and what a rendezvous    *)
(* tells the one that keeps the replica.  jxta_cm.c (tables and sequence   *)
(* numbers), jxta_srdi_service_ref.c (pushing and replicating) and         *)
(* jxta_discovery_service_ref.c (when to push, what to do with a push).    *)
(*                                                                         *)
(* An entry (advertisement, value, lifetime) goes out in full once.  The   *)
(* sender records its sequence number in the table SRDI_DELTA, and the     *)
(* next time sends the number and the lifetime only; the receiver finds    *)
(* the entry by the number in its table SRDI_INDEX, and asks for it again  *)
(* if it does not.  A lifetime of 0 deletes an entry.                      *)
(*                                                                         *)
(* An advertisement has one indexed attribute, there is one folder and one *)
(* handler, and rendezvous peers publish nothing themselves.  Lifetimes    *)
(* are abstracted to "runs" or "has run out".  The leases are RdvLease's,  *)
(* the peer view does not change.                                          *)
(***************************************************************************)
EXTENDS Integers, Sequences, SequencesExt, FiniteSets, Bags, BagsExt

CONSTANTS Edge, Rdv, None,
          Adv, Val,
          ReplicaOf,  \* the rendezvous that getReplicaPeer names for a value, None below the threshold
          Bound,      \* how often each of Kinds may happen
          MaxFaults,  \* how often all of them but publish and lapse, which needs a leave
          MaxLoad     \* how many messages and save tasks there may be when an edge sends more

Peer  == Edge \union Rdv
\* What is bounded: publish and flush calls, lost connections, restarts of an edge and of a
\* rendezvous, leases that run out before the rendezvous looks, lost messages.
Kinds == {"publish", "flush", "leave", "restart", "crash", "lapse", "lose"}

ASSUME SrdiAssumption ==
  /\ Edge \intersect Rdv = {} /\ None \notin Peer \union Adv \union Val
  /\ ReplicaOf \in [Val -> Rdv \union {None}]
  /\ Bound \in [Kinds -> Nat] /\ {MaxFaults, MaxLoad} \subseteq Nat

VARIABLES
  pub,      \* the value an edge has published an advertisement with (ELEM_ATTRIBUTES)
  pend,     \* srdi_delta, the entries of an edge that the next cycle pushes
  count,    \* delta_seq_number
  delta,    \* table SRDI_DELTA
  index,    \* table SRDI_INDEX of a rendezvous, in the order of insertion
  rows,     \* its tables SRDI and REPLICA
  conn,     \* the rendezvous an edge is connected to
  clients,  \* the edges a rendezvous holds a lease of
  net,      \* the SRDI messages under way
  saving,   \* the save tasks of the rendezvous peers' thread pools
  flushed,  \* what was ever flushed
  restarted,\* who lost its sequence numbers
  used      \* how often each of Kinds happened

srdiVars == <<pub, pend, count, delta, index, rows, conn, clients, net, saving, flushed, restarted, used>>

Spend(k) ==
  /\ used[k] < Bound[k]
  /\ k \in {"publish", "lapse"} \/ MapThenSumSet(LAMBDA x : used[x], Kinds \ {"publish", "lapse"}) < MaxFaults
  /\ used' = [used EXCEPT ![k] = @ + 1]

Entry == [adv: Adv \union {None}, val: Val \union {None}, seq: Nat, live: BOOLEAN]
Update(s, Sel(_), New(_)) == [i \in DOMAIN s |-> IF Sel(s[i]) THEN New(s[i]) ELSE s[i]]

(***************************************************************************)
(* Sending: record_delta_entry and cm_save_delta_entry.                    *)
(***************************************************************************)
\* cm_sql_create_delta_where_clause: the rows for the peer and the entry.
Recorded(table, to, e) == {d \in table : d.to = to /\ d.adv = e.adv /\ d.val = e.val}
DeltaRow(to, e, seq) == [to |-> to, adv |-> e.adv, val |-> e.val, seq |-> seq, live |-> e.live]

\* One turn of the loop over the entries of a message for the peer "to" (None: NoPeer).  An
\* entry whose row exists is stripped to the row's number and its own lifetime.  One whose
\* number the message has already is taken out, and the loop steps over its successor.
RecordOne(to, acc, e) ==
  LET found == Recorded(acc.rows, to, e)
      old   == CHOOSE d \in found : TRUE
      seq   == IF e.seq = 0 THEN acc.count + 1 ELSE e.seq
  IN CASE acc.skip -> [acc EXCEPT !.skip = FALSE, !.out = Append(@, e)]
       [] ~acc.skip /\ found = {} ->
            [acc EXCEPT !.count = IF e.seq = 0 THEN @ + 1 ELSE @,
                        !.rows = @ \union {DeltaRow(to, e, seq)},
                        !.seen = @ \union {seq},
                        !.out = Append(@, [e EXCEPT !.seq = seq])]
       [] ~acc.skip /\ found # {} /\ old.seq \in acc.seen -> [acc EXCEPT !.skip = TRUE]
       [] OTHER ->
            [acc EXCEPT !.seen = @ \union {old.seq},
                        !.out = Append(@, [adv |-> None, val |-> None, seq |-> old.seq, live |-> e.live])]

Record(to, table, n, entries) ==
  FoldLeft(LAMBDA acc, e : RecordOne(to, acc, e),
           [rows |-> table, count |-> n, seen |-> {}, skip |-> FALSE, out |-> <<>>], entries)

Message(p, q, entries, resend) == [from |-> p, to |-> q, entries |-> entries, resend |-> resend]
Post(bag, S) == FoldSet(LAMBDA m, b : BagAdd(b, m), bag, {m \in S : m.to # None /\ (m.entries # <<>> \/ m.resend # <<>>)})

\* jxta_discovery_send_srdi: the edge records the entries for NoPeer, and the walk takes the
\* message to the rendezvous r, if it has one.
Send(e, r, n, entries) ==
  LET recorded == Record(None, delta[e], n, entries)
  IN /\ BagCardinality(net) + BagCardinality(saving) < MaxLoad
     /\ delta' = [delta EXCEPT ![e] = recorded.rows]
     /\ count' = [count EXCEPT ![e] = recorded.count]
     /\ net' = Post(net, {Message(e, r, recorded.out, <<>>)})

(***************************************************************************)
(* What an edge peer does.                                                 *)
(***************************************************************************)
\* secondary_indexing: the next number, and cm_srdi_delta_add.
IndexEntry(e, a, v, live) == [adv |-> a, val |-> v, seq |-> count[e] + 1, live |-> live]
DeltaAdd(e, x) == pend' = [pend EXCEPT ![e] = Append(@, x)]

\* Mutant: the entry gets the number of the one before.
PublishSameNumber(e, a, v) ==
  /\ Spend("publish")
  /\ pub' = [pub EXCEPT ![e][a] = v]
  /\ count' = [count EXCEPT ![e] = IF @ = 0 THEN 1 ELSE @]
  /\ pend' = [pend EXCEPT ![e] = Append(@, [adv |-> a, val |-> v, seq |-> count'[e], live |-> TRUE])]
  /\ UNCHANGED <<delta, index, rows, conn, clients, net, saving, flushed, restarted>>
\* publish_priv: cm_save and secondary_indexing.
Publish(e, a, v) ==
  /\ Spend("publish")
  /\ pub' = [pub EXCEPT ![e][a] = v]
  /\ count' = [count EXCEPT ![e] = @ + 1]
  /\ DeltaAdd(e, IndexEntry(e, a, v, TRUE))
  /\ UNCHANGED <<delta, index, rows, conn, clients, net, saving, flushed, restarted>>

\* flush: cm_remove_advertisement.
Flush(e, a) ==
  /\ pub[e][a] # None /\ Spend("flush")
  /\ pub' = [pub EXCEPT ![e][a] = None]
  /\ count' = [count EXCEPT ![e] = @ + 1]
  /\ DeltaAdd(e, IndexEntry(e, a, pub[e][a], FALSE))
  /\ flushed' = flushed \union {<<e, a>>}
  /\ UNCHANGED <<delta, index, rows, conn, clients, net, saving, restarted>>

\* advertisement_handling_func: jxta_discovery_push_srdi of what is pending, connected or not.
PushDelta(e) ==
  /\ pend[e] # <<>>
  /\ pend' = [pend EXCEPT ![e] = <<>>]
  /\ Send(e, conn[e], count[e], pend[e])
  /\ UNCHANGED <<pub, index, rows, conn, clients, saving, flushed, restarted, used>>

\* cm_get_srdi_entries: everything that is published, each with a new number, in any order.
AllEntries(e) ==
  {[i \in DOMAIN advs |-> [adv |-> advs[i], val |-> pub[e][advs[i]], seq |-> count[e] + i, live |-> TRUE]] :
     advs \in SetToSeqs({a \in Adv : pub[e][a] # None})}

\* cm_update_srdi_times: what the client's entries are about lasts as long as its lease,
\* provided the entry was to last longer when it came.
UpdateTimes(r, e) ==
  LET advs == {index[r][i].adv : i \in {j \in DOMAIN index[r] : index[r][j].from = e /\ index[r][j].long}}
  IN Update(rows[r], LAMBDA x : x.adv \in advs /\ ~x.replica, LAMBDA x : [x EXCEPT !.live = TRUE])

\* A new connection: CLIENT_CONNECTED at the rendezvous, RDV_CONNECTED at the edge, which
\* pushes all it has.
Connect(e, r) ==
  /\ conn[e] = None
  /\ conn' = [conn EXCEPT ![e] = r]
  /\ clients' = [clients EXCEPT ![r] = @ \union {e}]
  /\ rows' = [rows EXCEPT ![r] = UpdateTimes(r, e)]
  /\ \E all \in AllEntries(e) : Send(e, r, count[e] + Len(all), all)
  /\ UNCHANGED <<pub, pend, index, saving, flushed, restarted, used>>

\* A renewed lease: CLIENT_RECONNECTED at the rendezvous (CLIENT_CONNECTED if it has restarted),
\* RDV_RECONNECTED at the edge, which pushes what is pending.
Renew(e) ==
  /\ conn[e] # None
  /\ clients' = [clients EXCEPT ![conn[e]] = @ \union {e}]
  /\ rows' = [rows EXCEPT ![conn[e]] = UpdateTimes(conn[e], e)]
  /\ pend' = [pend EXCEPT ![e] = <<>>]
  /\ Send(e, conn[e], count[e], pend[e])
  /\ UNCHANGED <<pub, index, conn, saving, flushed, restarted, used>>

\* RDV_FAILED or RDV_DISCONNECTED.
Leave(e) ==
  /\ conn[e] # None /\ Spend("leave")
  /\ conn' = [conn EXCEPT ![e] = None]
  /\ delta' = [delta EXCEPT ![e] = {d \in @ : d.to # conn[e]}]
  /\ UNCHANGED <<pub, pend, count, index, rows, clients, net, saving, flushed, restarted>>

\* The tables and numbers are new after a start, the advertisements are not.
Restart(e) ==
  /\ Spend("restart")
  /\ pend' = [pend EXCEPT ![e] = <<>>] /\ count' = [count EXCEPT ![e] = 0] /\ delta' = [delta EXCEPT ![e] = {}]
  /\ conn' = [conn EXCEPT ![e] = None]
  /\ restarted' = restarted \union {e}
  /\ UNCHANGED <<pub, index, rows, clients, net, saving, flushed>>

(***************************************************************************)
(* What is done with a message: discovery_service_srdi_listener.           *)
(***************************************************************************)
\* cm_get_resend_delta_entries: the rows with the numbers asked for, as they were recorded.
ResendEntries(p, seqs) ==
  FoldLeft(LAMBDA out, s : LET found == {d \in delta[p] : d.seq = s}
                               d == CHOOSE x \in found : TRUE
                           IN IF found = {} THEN out
                              ELSE Append(out, [adv |-> d.adv, val |-> d.val, seq |-> s, live |-> d.live]),
           <<>>, seqs)

\* cm_remove_srdi_delta_entries: "Peerid = q AND SeqNumber = s1 OR SeqNumber = s2 OR ...".
WithoutResent(p, q, entries) ==
  {d \in delta[p] : ~ \/ entries # <<>> /\ d.to = q /\ d.seq = entries[1].seq
                      \/ \E i \in 2..Len(entries) : d.seq = entries[i].seq}

\* Mutant: the sender is not compared.
IndexGetAny(r, q, s) ==
  LET found == SelectSeq(index[r], LAMBDA x : x.seq = s)
  IN IF found = <<>> THEN <<>> ELSE <<found[1]>>
\* cm_srdi_index_get: the first row of the index with the sender and the number, as a sequence
\* of at most one.
IndexGet(r, q, s) ==
  LET found == SelectSeq(index[r], LAMBDA x : x.from = q /\ x.seq = s)
  IN IF found = <<>> THEN <<>> ELSE <<found[1]>>

\* cm_get_srdi_with_seq_number: the entry that a number stands for, with the lifetime that came.
Resolve(r, q, e) ==
  IF e.val # None THEN <<e>>
  ELSE LET i == IndexGet(r, q, e.seq)
           found == SelectSeq(rows[r], LAMBDA x : i # <<>> /\ x.from = q /\ x.adv = i[1].adv /\ ~x.replica)
       IN IF found = <<>> THEN <<>> ELSE <<[e EXCEPT !.adv = i[1].adv, !.val = found[1].val]>>

\* Mutant: only the first entry is passed on.
ReplicaFirst(r, q, m) ==
  LET all == FlattenSeq([i \in DOMAIN m.entries |-> Resolve(r, m.from, m.entries[i])])
      mine == SelectSeq(all, LAMBDA e : ReplicaOf[e.val] = q)
  IN IF mine = <<>> THEN <<>> ELSE <<[mine[1] EXCEPT !.seq = 0]>>
\* replicateEntries and forwardSrdiEntries: what goes to each other rendezvous, without a number.
ReplicaEntries(r, q, m) ==
  LET all == FlattenSeq([i \in DOMAIN m.entries |-> Resolve(r, m.from, m.entries[i])])
      mine == SelectSeq(all, LAMBDA e : ReplicaOf[e.val] = q)
  IN [i \in DOMAIN mine |-> [mine[i] EXCEPT !.seq = 0]]

Replicate(r, m, table) ==
  FoldLeft(LAMBDA acc, q : LET recorded == Record(q, acc.rows, acc.count, ReplicaEntries(r, q, m))
                           IN [rows |-> recorded.rows, count |-> recorded.count,
                               out |-> acc.out \union {Message(r, q, recorded.out, <<>>)}],
           [rows |-> table, count |-> count[r], out |-> {}], SetToSeq(Rdv \ {r}))

\* cm_srdi_seq_number_update, for every entry that is only a number.
SeqUpdate(r, table, q, e) ==
  LET i == IndexGet(r, q, e.seq)
  IN Update(table, LAMBDA x : i # <<>> /\ x.from = q /\ x.adv = i[1].adv /\ x.replica = i[1].replica,
                   LAMBDA x : [x EXCEPT !.live = e.live])

\* resolver_service_srdi_cb.
Arrived(m, p) == m \in BagToSet(net) /\ m.to = p

\* cm_srdi_elements_save_priv: what came as a number, and what of it is to be asked for.
IsNumber(e) == e.adv = None /\ e.seq > 0
Unknown(r, m) == SelectSeq(m.entries, LAMBDA e : IsNumber(e) /\ IndexGet(r, m.from, e.seq) = <<>>)
\* discovery_send_srdi_msg, with the numbers.
ResendRequest(r, m) == Message(r, m.from, <<>>, [i \in DOMAIN Unknown(r, m) |-> Unknown(r, m)[i].seq])
\* cm_save_srdi_transaction_start.
SaveTask(r, m, entries) == [rdv |-> r, from |-> m.from, entries |-> entries, replica |-> m.from \in Rdv]

\* The listener at a rendezvous: it answers the numbers it is asked for, passes the entries of
\* a client on to their replicas, updates what came as a number, asks for the numbers it does
\* not know, and leaves the rest to a save task (cm_srdi_elements_save_priv).
ReceiveRdv(r, m) ==
  LET answer  == ResendEntries(r, m.resend)
      client  == m.from \notin Rdv
      table   == WithoutResent(r, m.from, answer)
      replica == IF client THEN Replicate(r, m, table) ELSE [rows |-> table, count |-> count[r], out |-> {}]
      numbers == SelectSeq(m.entries, IsNumber)
      full    == SelectSeq(m.entries, LAMBDA e : ~IsNumber(e))
  IN /\ Arrived(m, r) /\ r \in Rdv
     /\ delta' = [delta EXCEPT ![r] = replica.rows]
     /\ count' = [count EXCEPT ![r] = replica.count]
     /\ rows' = [rows EXCEPT ![r] = FoldLeft(LAMBDA t, e : SeqUpdate(r, t, m.from, e), @, numbers)]
     /\ net' = Post(BagRemove(net, m),
                    replica.out \union {Message(r, m.from, answer, <<>>), ResendRequest(r, m)})
     /\ saving' = IF full = <<>> THEN saving
                  ELSE BagAdd(saving, SaveTask(r, m, full))
     /\ UNCHANGED <<pub, pend, index, conn, clients, flushed, restarted, used>>

\* The listener at an edge, which only answers.
ReceiveEdge(e, m) ==
  LET answer == ResendEntries(e, m.resend)
  IN /\ Arrived(m, e) /\ e \in Edge
     /\ delta' = [delta EXCEPT ![e] = WithoutResent(e, m.from, answer)]
     /\ net' = Post(BagRemove(net, m), {Message(e, m.from, answer, <<>>)})
     /\ UNCHANGED <<pub, pend, count, index, rows, conn, clients, saving, flushed, restarted, used>>

\* cm_srdi_item_found: the entry is there and has not run out.
SameItem(t, e, x) == x.from = t.from /\ x.adv = e.adv /\ x.replica = t.replica
ItemFound(t, table, e) == \E i \in DOMAIN table : SameItem(t, e, table[i]) /\ table[i].live
\* cm_srdi_item_update.
ItemUpdate(t, table, e) ==
  Update(table, LAMBDA x : SameItem(t, e, x), LAMBDA x : [x EXCEPT !.val = e.val, !.live = e.live])
\* cm_srdi_index_save.
IndexRow(t, e) == [from |-> t.from, adv |-> e.adv, seq |-> e.seq, replica |-> t.replica, long |-> e.live]

\* cm_srdi_element_save: what is there is updated, the rest is inserted, and its number too.
SaveOne(t, acc, e) ==
  IF ItemFound(t, acc.rows, e) THEN [acc EXCEPT !.rows = ItemUpdate(t, @, e)]
  ELSE [rows  |-> Append(acc.rows, [from |-> t.from, adv |-> e.adv, val |-> e.val, live |-> e.live,
                                    replica |-> t.replica]),
        index |-> Append(acc.index, IndexRow(t, e))]

\* srdi_save_transaction_thread: cm_srdi_transaction_save.
Save(t) ==
  LET saved == FoldLeft(LAMBDA acc, e : SaveOne(t, acc, e),
                        [rows |-> rows[t.rdv], index |-> index[t.rdv]], t.entries)
  IN /\ t \in BagToSet(saving)
     /\ saving' = BagRemove(saving, t)
     /\ rows' = [rows EXCEPT ![t.rdv] = saved.rows]
     /\ index' = [index EXCEPT ![t.rdv] = saved.index]
     /\ UNCHANGED <<pub, pend, count, delta, conn, clients, net, flushed, restarted, used>>

(***************************************************************************)
(* The rest of what happens at a rendezvous.                               *)
(***************************************************************************)
\* The client's lease has run out, and with it what cm_update_srdi_times had bound to it.
Lapse(r, e) ==
  /\ e \in clients[r] /\ conn[e] # r /\ Spend("lapse")
  /\ LET advs == {index[r][i].adv : i \in {j \in DOMAIN index[r] : index[r][j].from = e /\ index[r][j].long}}
     IN rows' = [rows EXCEPT ![r] = Update(@, LAMBDA x : x.adv \in advs /\ ~x.replica,
                                              LAMBDA x : [x EXCEPT !.live = FALSE])]
  /\ UNCHANGED <<pub, pend, count, delta, index, conn, clients, net, saving, flushed, restarted>>

\* CLIENT_DISCONNECTED: cm_remove_srdi_entries.
ClientGone(r, e) ==
  /\ e \in clients[r] /\ conn[e] # r
  /\ clients' = [clients EXCEPT ![r] = @ \ {e}]
  /\ delta' = [delta EXCEPT ![r] = {d \in @ : d.to # e}]
  /\ index' = [index EXCEPT ![r] = SelectSeq(@, LAMBDA x : x.from # e)]
  /\ rows' = [rows EXCEPT ![r] = SelectSeq(@, LAMBDA x : x.from # e)]
  /\ UNCHANGED <<pub, pend, count, conn, net, saving, flushed, restarted, used>>

\* cm_expired_records_remove.
Unexpired(table) == SelectSeq(table, LAMBDA x : x.live)
\* cm_remove_expired_records: SRDI and REPLICA, not SRDI_INDEX.
Purge(r) ==
  /\ \E i \in DOMAIN rows[r] : ~rows[r][i].live
  /\ rows' = [rows EXCEPT ![r] = Unexpired(@)]
  /\ UNCHANGED <<pub, pend, count, delta, index, conn, clients, net, saving, flushed, restarted, used>>

Crash(r) ==
  /\ Spend("crash")
  /\ rows' = [rows EXCEPT ![r] = <<>>] /\ index' = [index EXCEPT ![r] = <<>>]
  /\ delta' = [delta EXCEPT ![r] = {}] /\ count' = [count EXCEPT ![r] = 0]
  /\ clients' = [clients EXCEPT ![r] = {}]
  /\ saving' = FoldSet(LAMBDA t, b : [x \in DOMAIN b \ {t} |-> b[x]], saving, {t \in DOMAIN saving : t.rdv = r})
  /\ restarted' = restarted \union {r}
  /\ UNCHANGED <<pub, pend, conn, net, flushed>>

Lose(m) ==
  /\ m \in BagToSet(net) /\ Spend("lose")
  /\ net' = BagRemove(net, m)
  /\ UNCHANGED <<pub, pend, count, delta, index, rows, conn, clients, saving, flushed, restarted>>

Init ==
  /\ pub = [e \in Edge |-> [a \in Adv |-> None]]
  /\ pend = [e \in Edge |-> <<>>]
  /\ count = [p \in Peer |-> 0]
  /\ delta = [p \in Peer |-> {}]
  /\ index = [r \in Rdv |-> <<>>] /\ rows = [r \in Rdv |-> <<>>]
  /\ conn = [e \in Edge |-> None] /\ clients = [r \in Rdv |-> {}]
  /\ net = EmptyBag /\ saving = EmptyBag
  /\ flushed = {} /\ restarted = {}
  /\ used = [k \in Kinds |-> 0]

Receive == \E m \in BagToSet(net) : ReceiveRdv(m.to, m) \/ ReceiveEdge(m.to, m)

Next ==
  \/ \E e \in Edge :
       \/ \E a \in Adv : Flush(e, a) \/ \E v \in Val : Publish(e, a, v)
       \/ \E r \in Rdv : Connect(e, r) \/ Lapse(r, e) \/ ClientGone(r, e)
       \/ PushDelta(e) \/ Renew(e) \/ Leave(e) \/ Restart(e)
  \/ \E r \in Rdv : Purge(r) \/ Crash(r)
  \/ \E m \in BagToSet(net) : ReceiveRdv(m.to, m) \/ ReceiveEdge(m.to, m) \/ Lose(m)
  \/ \E t \in BagToSet(saving) : Save(t)

SrdiSpec == Init /\ [][Next]_srdiVars

\* Messages are handled and save tasks run, the cycle of advertisement_handling_func comes
\* round, and an edge without a rendezvous looks for one.
FairSrdiSpec ==
  /\ SrdiSpec
  /\ WF_srdiVars(Receive)
  /\ WF_srdiVars(\E t \in BagToSet(saving) : Save(t))
  /\ \A e \in Edge : WF_srdiVars(PushDelta(e)) /\ WF_srdiVars(\E r \in Rdv : Connect(e, r))

(***************************************************************************)
(* Properties.                                                             *)
(***************************************************************************)
SrdiTypeOK ==
  /\ pub \in [Edge -> [Adv -> Val \union {None}]]
  /\ pend \in [Edge -> Seq(Entry)] /\ count \in [Peer -> Nat]
  /\ \A p \in Peer : delta[p] \subseteq [to: Peer \union {None}, adv: Adv, val: Val, seq: Nat, live: BOOLEAN]
  /\ index \in [Rdv -> Seq([from: Peer, adv: Adv, seq: Nat, replica: BOOLEAN, long: BOOLEAN])]
  /\ rows \in [Rdv -> Seq([from: Peer, adv: Adv, val: Val, live: BOOLEAN, replica: BOOLEAN])]
  /\ conn \in [Edge -> Rdv \union {None}] /\ clients \in [Rdv -> SUBSET Edge]
  /\ \A m \in BagToSet(net) : m \in [from: Peer, to: Peer, entries: Seq(Entry), resend: Seq(Nat)]
  /\ \A t \in BagToSet(saving) : t \in [rdv: Rdv, from: Peer, entries: Seq(Entry), replica: BOOLEAN]
  /\ flushed \subseteq Edge \X Adv /\ restarted \subseteq Peer /\ used \in [Kinds -> Nat]

\* The receiver takes the numbers of q for the entries that q sends them for.
NumbersAgree(q) ==
  \A r \in Rdv : \A i \in DOMAIN index[r] : \A d \in delta[q] :
    index[r][i].from = q /\ index[r][i].seq = d.seq => index[r][i].adv = d.adv

(* A number means the same entry to the peer that sends it and to the peer that finds it in
   its index, however often the entries are sent, asked for again, recorded anew and
   replicated (record_delta_entry, cm_srdi_index_get), as long as the sender keeps running. *)
IndexAgrees == \A q \in Peer \ restarted : NumbersAgree(q)

(* The same, over restarts of the sender. *)
IndexAgreesAlways == \A q \in Peer : NumbersAgree(q)

HasRow(r, q, a, replica) ==
  r \in Rdv /\ \E i \in DOMAIN rows[r] : rows[r][i].from = q /\ rows[r][i].adv = a /\ rows[r][i].replica = replica /\ rows[r][i].live

\* Nothing is under way, nothing is left to do, and every edge is connected.
Settled == net = EmptyBag /\ saving = EmptyBag /\ \A e \in Edge : pend[e] = <<>> /\ conn[e] # None
\* No message was lost, no lease ran out unnoticed, nobody restarted, and what an edge that
\* changed its rendezvous has published fits in one entry.  (A push that is lost is not
\* repeated; see IndexedAgain for the others.)
Undisturbed ==
  /\ used["lose"] = 0 /\ used["lapse"] = 0 /\ restarted = {}
  /\ used["leave"] = 0 \/ \A e \in Edge : Cardinality({a \in Adv : pub[e][a] # None}) <= 1

(* What an edge has published, and never flushed, its rendezvous has in its index once the
   messages are handled, after whatever changes of the rendezvous: a rendezvous that is sent
   a number it does not know asks for the entry (cm_srdi_elements_save_priv), and the answer
   comes from SRDI_DELTA. *)
IndexedWhenSettled ==
  Settled /\ Undisturbed =>
    \A e \in Edge, a \in Adv : pub[e][a] # None /\ <<e, a>> \notin flushed => HasRow(conn[e], e, a, FALSE)

(* And the rendezvous that keeps the replica of the value has it from the edge's rendezvous
   (replicateEntries), although it may have been sent numbers only. *)
ReplicatedWhenSettled ==
  Settled /\ Undisturbed =>
    \A e \in Edge, a \in Adv : pub[e][a] # None /\ <<e, a>> \notin flushed =>
      LET q == ReplicaOf[pub[e][a]] IN q \in {None, conn[e]} \/ HasRow(q, conn[e], a, TRUE)

(* Asking and answering comes to an end. *)
QuietInTheEnd == <>[](net = EmptyBag /\ saving = EmptyBag)

(* What an edge has flushed its rendezvous forgets. *)
FlushedIsForgotten ==
  Settled => \A e \in Edge, a \in Adv : pub[e][a] = None => ~HasRow(conn[e], e, a, FALSE)

(* What an edge has published its rendezvous has in its index, whatever happened before. *)
IndexedAgain ==
  Settled => \A e \in Edge, a \in Adv : pub[e][a] # None => HasRow(conn[e], e, a, FALSE)

(* What the index holds is the value that was published last. *)
ValueIsCurrent ==
  Settled => \A e \in Edge : \A i \in DOMAIN rows[conn[e]] :
    LET x == rows[conn[e]][i]
    IN x.from = e /\ x.live /\ ~x.replica /\ pub[e][x.adv] # None => x.val = pub[e][x.adv]
=============================================================================
