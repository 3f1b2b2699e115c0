------------------------- MODULE EndpointPollProofs -------------------------
(***************************************************************************)
(* Theorems about the polling of the endpoint service, for any number of   *)
(* workers, sockets and tasks and any size of the pollset.                 *)
(*                                                                         *)
(* That a registered socket is polled is not inductive: what keeps do_poll *)
(* going is pollfd_cnt, which it reads without a lock.  So the invariant   *)
(* says that a positive count keeps a do_poll going, and that the count    *)
(* covers the registered sockets.                                          *)
(***************************************************************************)
EXTENDS EndpointPoll, FiniteSetTheorems, TLAPS

\* A do_poll waits in the pool, or is at a place from where it can come back.
Polling ==
  \/ pending \cap Poll # {}
  \/ \E w \in Worker : step[w] \in {"enter", "dispatch", "count", "push"}

PollingType ==
  /\ pollfd_cnt \in Nat
  /\ registered \subseteq Socket
  /\ step \in [Worker -> {"idle", "enter", "dispatch", "count", "push", "done"}]

CountedArePolled == state = "STARTED" /\ pollfd_cnt > 0 => Polling

PollingInv == PollingType /\ CountCoversSockets /\ CountedArePolled
----------------------------------------------------------------------------
\* Cardinality of the registered sockets when one is added or removed.
LEMMA CountSockets ==
  ASSUME NEW S \in SUBSET Socket, NEW s \in Socket
  PROVE  /\ Cardinality(S) \in Nat
         /\ Cardinality(S \cup {s}) <= Cardinality(S) + 1
         /\ s \in S => Cardinality(S \ {s}) = Cardinality(S) - 1
         /\ S # {} => Cardinality(S) > 0
<1>1. IsFiniteSet(S)
  BY EndpointAssumption, FS_Subset DEF EndpointAssumption
<1>2. Cardinality(S) \in Nat
  BY <1>1, FS_CardinalityType
<1>3. Cardinality(S \cup {s}) <= Cardinality(S) + 1
  <2>1. CASE s \in S
    <3>1. S \cup {s} = S
      BY <2>1
    <3>2. Cardinality(S \cup {s}) = Cardinality(S)
      BY <3>1
    <3> QED BY <1>2, <3>2
  <2>2. CASE s \notin S
    <3>1. Cardinality(S \cup {s}) = Cardinality(S) + 1
      BY <1>1, <2>2, FS_AddElement
    <3> QED BY <1>2, <3>1
  <2> QED BY <2>1, <2>2
<1>4. s \in S => Cardinality(S \ {s}) = Cardinality(S) - 1
  BY <1>1, FS_RemoveElement
<1>5. S # {} => Cardinality(S) > 0
  BY <1>1, <1>2, FS_EmptySet
<1> QED BY <1>2, <1>3, <1>4, <1>5

\* No socket is registered in the beginning.
LEMMA PollingInit == EndpointInit => PollingInv
<1> SUFFICES ASSUME EndpointInit PROVE PollingInv
  OBVIOUS
<1>1. Cardinality(registered) = 0
  BY FS_EmptySet DEF EndpointInit
<1> QED
  BY <1>1 DEF EndpointInit, PollingInv, PollingType, CountCoversSockets, CountedArePolled

\* A submitted do_poll waits in the pool.
LEMMA PushPolls == PushPoll => (pending \cap Poll)' # {}
BY DEF PushPoll, Submit

\* Registering a socket.
LEMMA AddKeepsPolling ==
  ASSUME PollingInv, NEW s \in Socket, jxta_endpoint_service_add_poll(s)
  PROVE  PollingInv'
<1> USE DEF PollingInv, jxta_endpoint_service_add_poll
<1>1. PollingType'
  BY DEF PollingType
<1>2. CountCoversSockets'
  <2>1. registered' = registered \/ registered' = registered \cup {s}
    OBVIOUS
  <2>2. Cardinality(registered') <= Cardinality(registered) + 1
        /\ Cardinality(registered) \in Nat /\ Cardinality(registered') \in Nat
    <3>1. registered \in SUBSET Socket /\ registered' \in SUBSET Socket
      BY <1>1 DEF PollingType
    <3>2. Cardinality(registered) \in Nat /\ Cardinality(registered') \in Nat
          /\ Cardinality(registered \cup {s}) <= Cardinality(registered) + 1
      BY <3>1, CountSockets
    <3> QED BY <2>1, <3>2
  <2> QED BY <2>2 DEF PollingType, CountCoversSockets
<1>3. CountedArePolled'
  <2>1. CASE pollfd_cnt = 0 /\ state = "STARTED"
    BY <2>1, PushPolls DEF CountedArePolled, Polling
  <2>2. CASE ~ (pollfd_cnt = 0 /\ state = "STARTED")
    BY <2>2 DEF CountedArePolled, Polling, PollingType, taskServiceVars
  <2> QED BY <2>1, <2>2
<1> QED BY <1>1, <1>2, <1>3

\* Removing one.
LEMMA RemoveKeepsPolling ==
  ASSUME PollingInv, NEW s \in Socket, jxta_endpoint_service_remove_poll(s)
  PROVE  PollingInv'
<1> USE DEF PollingInv, jxta_endpoint_service_remove_poll
<1>1. Cardinality(registered') = Cardinality(registered) - 1 /\ Cardinality(registered) > 0
      /\ Cardinality(registered) \in Nat
  BY CountSockets DEF PollingType
<1>2. PollingType' /\ CountCoversSockets'
  BY <1>1 DEF PollingType, CountCoversSockets
<1>3. CountedArePolled'
  BY DEF CountedArePolled, Polling, PollingType, taskServiceVars
<1> QED BY <1>2, <1>3

\* A worker that picks a task.
LEMMA PickKeepsPolling ==
  ASSUME PollingInv, NEW w \in Worker, Pick(w)
  PROVE  PollingInv'
<1> USE DEF PollingInv
<1>1. ASSUME NEW t \in Poll, PickPoll(w, t) PROVE PollingInv'
  BY <1>1 DEF PickPoll, PollingType, CountCoversSockets, CountedArePolled, Polling
<1>2. ASSUME NEW t \in Message \cup Data, PickOther(w, t) PROVE PollingInv'
  <2>1. t \notin Poll
    BY EndpointAssumption DEF EndpointAssumption
  <2>2. (pending \cap Poll)' = pending \cap Poll
    BY <1>2, <2>1 DEF PickOther, Begin
  <2> QED
    BY <1>2, <2>2 DEF PickOther, PollingType, CountCoversSockets, CountedArePolled, Polling
<1> QED BY <1>1, <1>2 DEF Pick

\* A worker's step in do_poll: it leaves only when it has read that the service does
\* not run or that there is nothing to poll, or has submitted the task again.
LEMMA PollStepKeepsPolling ==
  ASSUME PollingInv, NEW w \in Worker, PollStep(w)
  PROVE  PollingInv'
<1> USE DEF PollingInv
<1>1. UNCHANGED <<state, pollfd_cnt, registered>>
  BY DEF PollStep, endpoint_service_poll, Callback, ReadState, ReadCount, PushAgain, Finish
<1>2. PollingType'
  BY <1>1 DEF PollStep, endpoint_service_poll, Callback, ReadState, ReadCount, PushAgain,
              Finish, PollingType
<1>3. CountCoversSockets'
  BY <1>1 DEF CountCoversSockets
<1>4. CASE endpoint_service_poll(w)
  BY <1>1, <1>2, <1>3, <1>4
  DEF endpoint_service_poll, CountedArePolled, Polling, PollingType, taskServiceVars
<1>5. ASSUME NEW s \in Socket, Callback(w, s) PROVE PollingInv'
  <2>1. pending \cap Poll # {} => (pending \cap Poll)' # {}
    BY <1>5 DEF Callback, Submit, taskServiceVars
  <2> QED BY <1>1, <1>2, <1>3, <1>5, <2>1 DEF Callback, CountedArePolled, Polling
<1>6. CASE ReadState(w)
  BY <1>1, <1>2, <1>3, <1>6 DEF ReadState, CountedArePolled, Polling, PollingType, taskServiceVars
<1>7. CASE ReadCount(w)
  BY <1>1, <1>2, <1>3, <1>7 DEF ReadCount, CountedArePolled, Polling, PollingType, taskServiceVars
<1>8. CASE PushAgain(w)
  BY <1>2, <1>3, <1>8, PushPolls DEF PushAgain, CountedArePolled, Polling
<1>9. CASE Finish(w)
  BY <1>1, <1>2, <1>3, <1>9 DEF Finish, End, CountedArePolled, Polling, PollingType
<1> QED BY <1>4, <1>5, <1>6, <1>7, <1>8, <1>9 DEF PollStep

\* Every step keeps the invariant.
LEMMA PollingNext == PollingInv /\ [EndpointNext]_pollVars => PollingInv'
<1> SUFFICES ASSUME PollingInv, [EndpointNext]_pollVars PROVE PollingInv'
  OBVIOUS
<1>1. CASE endpoint_start
  <2> USE <1>1 DEF endpoint_start, PollingInv
  <2>1. PollingType' /\ CountCoversSockets'
    BY DEF PollingType, CountCoversSockets
  <2>2. CountedArePolled'
    BY PushPolls DEF CountedArePolled, Polling, PollingType
  <2> QED BY <2>1, <2>2
<1>2. ASSUME NEW s \in Socket,
             jxta_endpoint_service_add_poll(s) \/ jxta_endpoint_service_remove_poll(s)
      PROVE  PollingInv'
  BY <1>2, AddKeepsPolling, RemoveKeepsPolling
<1>3. ASSUME NEW m \in Message, jxta_endpoint_service_send_ex(m) PROVE PollingInv'
  <2>1. pending \cap Poll # {} => (pending \cap Poll)' # {}
    BY <1>3 DEF jxta_endpoint_service_send_ex, Submit
  <2> QED
    BY <1>3, <2>1 DEF jxta_endpoint_service_send_ex, endpointVars, PollingInv, PollingType,
                      CountCoversSockets, CountedArePolled, Polling
<1>4. ASSUME NEW w \in Worker, Pick(w) \/ PollStep(w) PROVE PollingInv'
  BY <1>4, PickKeepsPolling, PollStepKeepsPolling
<1>5. CASE jxta_module_stop \/ endpoint_stop \/ Stopped
  BY <1>5 DEF jxta_module_stop, endpoint_stop, Stopped, PollingInv, PollingType,
              CountCoversSockets, CountedArePolled
<1>6. CASE UNCHANGED pollVars
  BY <1>6 DEF pollVars, endpointVars, taskServiceVars, PollingInv, PollingType,
              CountCoversSockets, CountedArePolled, Polling
<1> QED BY <1>1, <1>2, <1>3, <1>4, <1>5, <1>6 DEF EndpointNext

\* Counted sockets are polled, so registered ones are.
LEMMA CountedCoversRegistered == PollingInv => SocketsArePolled
<1> SUFFICES ASSUME PollingInv, state = "STARTED", registered # {} PROVE Polling
  BY DEF SocketsArePolled, Polling
<1>1. pollfd_cnt > 0
  <2>1. Cardinality(registered) > 0 /\ Cardinality(registered) \in Nat
    BY CountSockets DEF PollingInv, PollingType
  <2> QED BY <2>1 DEF PollingInv, PollingType, CountCoversSockets
<1> QED BY <1>1 DEF PollingInv, CountedArePolled
----------------------------------------------------------------------------
(***************************************************************************)
(* However add_poll, remove_poll and the unlocked reads of do_poll         *)
(* interleave, a running service with a registered socket has a do_poll    *)
(* under way.                                                              *)
(***************************************************************************)
THEOREM PolledTheorem == EndpointSpec => []SocketsArePolled
BY PollingInit, PollingNext, CountedCoversRegistered, PTL DEF EndpointSpec

(***************************************************************************)
(* pollfd_cnt never falls below the number of sockets in the pollset,      *)
(* although a socket that does not fit is counted as well.                 *)
(***************************************************************************)
THEOREM CoverTheorem == EndpointSpec => []CountCoversSockets
<1>1. PollingInv => CountCoversSockets
  BY DEF PollingInv
<1> QED BY <1>1, PollingInit, PollingNext, PTL DEF EndpointSpec
============================================================================
