# TLA+ models of jxta-c

jxta-c is the C implementation of the JXTA peer-to-peer protocols. A peer joins
groups; in each group it runs services (endpoint, rendezvous, resolver,
discovery, pipes) that exchange messages over transports (TCP, HTTP, TLS, relay,
router). All the work of a peer runs on the threads of one pool, on the
periodic threads some services have of their own, and in callbacks from one
layer into another. There is little that is hard in any single function and a
lot that is hard in how they interleave. The models are about that.

Paths below are relative to `src/src/`. `PROJECT.json` maps every definition of
a model to the lines it stands for, and lists the runs, the hazards and the
theorems.

## 1. Inventory

| Component | State | Operations | Talks to | Hard about it |
|---|---|---|---|---|
| Thread pool (`jpr/apr_thread_pool.c`) | ring of tasks with a pointer per priority segment, scheduled tasks, idle and busy threads, counters | push, top, schedule, cancel of an owner's tasks, idle_max_set, destroy | every service submits tasks | two mutexes around one condition variable; counters that decide on new threads; cancel against running tasks |
| Endpoint service (`jxta_endpoint_service.c`) | pollset and `pollfd_cnt`; messenger table; negative cache with rings of messages; listeners, filters, transports | add/remove_poll, do_poll, send, propagate, demux, events | transports call in with data and events; services send | `do_poll` without locks; look-up and update of the cache in different critical sections |
| TCP transport and connection (`jxta_transport_tcp*.c`) | connection state, brigade of buckets, `dispatched`, reading context; lists of connections | start, read_cb, process_data, send, close, periodic check | polled by the endpoint service; emits messenger events | pollers, pool threads and closers on one connection |
| Relay transport (`jxta_relay.c`) | server: leases with an archive of messages each; client: the relay with the end of its lease and the time of the next request | forward, store, send on, expire; request, renew, drop | endpoint, router | a sending thread against handlers; two clocks for one lease |
| Other transports (HTTP, TLS, multicast) | connections, retransmission | send, receive, retransmit | endpoint | acknowledgements and timeouts (TLS) |
| Router (`jxta_router_client.c`) | route table | learn, use and drop routes | endpoint | stale routes |
| Rendezvous client and server (`jxta_rdv_service_*.c`) | table of leases with expiry; back-off per rendezvous; candidates | request, grant, renew, expire, propagate, walk, stop | endpoint, peer view, discovery | two peers with one lease and lossy messages; a periodic thread against a message handler; stop |
| Peer view (`jxta_peerview.c`) and walk | table of entries with expiry, vector in order, up/down neighbours | probe, answer, refer, announce, expire, walk | rendezvous, endpoint | table, vector and neighbours kept apart; lost, late and overtaken messages; unsigned arithmetic |
| Discovery, SRDI, cache manager: the index (`jxta_discovery_service_ref.c`, `jxta_srdi_service_ref.c`, `jxta_cm.c`) | advertisements, deltas to be sent, delta table and index with sequence numbers, replicas | publish, flush, push, save, resolve, ask again, replicate, purge | rendezvous events, resolver | a number stands for an entry at both ends, over losses, moves and republication |
| Discovery and resolver: queries (`jxta_discovery_service_ref.c`, `jxta_resolver_service_ref.c`) | handlers, listeners, peers that were sent a route | query, answer, forward, walk on | index, rendezvous, endpoint | a hop count and a time to live in one message; listeners of queries that failed to be sent |
| Wire pipes (`jxta_wire_service.c`) | seen messages, sessions with listeners | propagate, accept, open, close | rendezvous walk, endpoint | several ways to one peer; a bounded list of seen messages |
| Pipes, bidirectional pipes, sockets (`jxta_*pipe*.c`, `jxta_socket_tunnel.c`) | pending requests, bindings | connect, accept, time out | resolver, endpoint | a timeout racing a late answer |
| Listeners, objects, collections (`jxta_listener.c`, `jxta_object.c`, `jxta_vector.c`, `jxta_hashtable.c`) | queue and threads; reference counts | schedule, share, release | everything | reference counts under threads |
| Peer groups and modules (`jxta_peergroup.c`, `jxta_netpg.c`, `jxta_stdpg.c`, `jxta_module.c`) | module state INITED .. STOPPED | init, start, stop | all services | order of stops |
| Messages, documents, identifiers, logging | data | parse, print, compare | everything | data without concurrency |

What makes the modelled parts correct, in a sentence each:

* pool: a submitted task is run once, in priority order; a cancelled one never
  runs after the cancel has returned; the counters are exact and bound the threads;
* polling: a registered socket is polled as long as the service runs, and
  nothing runs after a stop;
* housekeeping: rounds do not overlap, go on while the service is started, and end;
* sending: a message that could not be sent is sent later, in order, or given up as
  the retransmission policy says, and released exactly once;
* reading: one parser per connection, no data forgotten, messages in order;
* leases: a client that believes it has a lease is a client of that rendezvous or
  finds out that it is not; tables stay within their limits; a stopped client is forgotten;
* peer view: the parts of a view agree, who crashed leaves it, whoever stays is known to all;
* wire pipes: a walk reaches the whole view, and a thread does not give a message again that another gave before;
* index: a sequence number means the same to sender and receiver, and the index has in
  the end what its clients publish;
* queries: what somebody has is found, and no query travels for ever;
* relay: messages are sent once, none but the head of an archive waits until it has expired, and a
  client is served again and again.

The hazards behind these sentences are listed under `hazards` in
`PROJECT.json`, each at its line.

## 2. Modules

| Module | Stands for | Checked by |
|---|---|---|
| `TaskQueue` | the ring of tasks and `task_idx[]` | `MCTaskQueue` |
| `TaskService` | what the pool promises its users (abstract) | as a property of `ThreadPool` |
| `ThreadPool`, EXTENDS `TaskQueue` | the whole pool; implements `TaskService` | `MCThreadPool` |
| `ThreadPoolProofs` | theorems about `TaskQueue` and `ThreadPool`, the refinement among them | TLAPS |
| `TransportProofs` | theorems about `TcpConnection` and `RelayTransport` | TLAPS |
| `DiscoveryProofs` | theorems about `PeriodicTask` and `QueryFlow` | TLAPS |
| `EndpointPollProofs`, `NegativeCacheProofs`, `RdvLeaseProofs`, `PeerViewProofs`, `WireServiceProofs` | theorems about the module they are named for | TLAPS |
| `EndpointPoll`, EXTENDS `TaskService` | polling of the endpoint service on the pool | `MCEndpointPoll` |
| `PeriodicTask`, EXTENDS `TaskService` | discovery's and TCP's periodic tasks on the pool | `MCPeriodicTask` |
| `NegativeCache` | sending, negative cache, retransmission | `MCNegativeCache` |
| `TcpConnection` | one connection's reading, events and close | `MCTcpConnection` |
| `RdvLease` | leases of clients at rendezvous | `MCRdvLease` |
| `ViewOrder` | the neighbours in the order of a view | in `PeerView` and `RdvWalk` |
| `PeerView`, EXTENDS `ViewOrder` | the peer views of rendezvous and edge peers | `MCPeerView` |
| `RdvWalk`, EXTENDS `ViewOrder` | the walk of a message along the views | in `WireService` and `QueryFlow` |
| `WireService`, EXTENDS `RdvWalk` | propagated pipe messages | `MCWireService` |
| `SrdiIndex` | the index of published entries, its numbers, deltas and replicas | `MCSrdiIndex` |
| `QueryFlow`, EXTENDS `RdvWalk` | discovery queries and their answers | `MCQueryFlow` |
| `RelayTransport` | relay leases and stored messages | `MCRelayTransport` |

The services are composed with the pool through its abstract specification:
`ThreadPool` is shown to implement `TaskService` with the refinement mapping
`Service` of `ThreadPool.tla` (pending tasks are those of the ring, of the
schedule and those a worker has picked and not begun), and `EndpointPoll` and
`PeriodicTask` take their steps together with steps of `TaskService`.

### How state and steps correspond to the code

* **TaskQueue.** `tasks` is the APR ring from `me->tasks`, `task_idx[seg]` the
  pointer of a segment of 64 priorities. Insertion follows `add_task` and
  `add_if_empty`: where the walk starts, where it stops, and when the new task
  becomes the segment's pointer. Each operation holds `me->lock` and is one step.
* **ThreadPool.** One value of `pc` per place a worker can be while others run:
  running a task, between the unlock of `me->lock` and the wait (`parking`),
  waiting, woken, leaving. `add_task` and `schedule_task` link the task and then
  `Signal` in a second step, because the signal is sent under another mutex.
  `apr_thread_pool_tasks_cancel` removes and then waits for busy threads.
  `idle_max_set` and `thread_pool_cleanup` share `trim_threads`, the broadcast
  and the join. Time is abstract: `ComeDue` makes the first scheduled task due.
* **EndpointPoll.** `add_poll` and `remove_poll` hold `me->mutex`; `do_poll` takes
  no lock and is split at each read of shared state: poll, callbacks one by
  one, read of the module state, read of `pollfd_cnt`, push.
* **PeriodicTask.** The handler's test of running/started, its work and its
  scheduling of the next round are separate steps, and so are the two halves of
  the services' stop.
* **NegativeCache.** The ring `rq` with `rq_head` and `rq_tail` (-1 when empty)
  is kept as it is, and so is what overwriting a full ring does to it: the new message is
  written behind the tail, where nothing will find it (`stray`). Look-up, send and `nc_add_peer` are separate steps, because
  no lock spans them. `cnt` and `msg_task_cnt` drive `nc_review_all`;
  `msg_task_cnt` wraps modulo `CountModulus`, which stands for 2^32.
* **TcpConnection.** `reading_lock` has an owner, since it is held over several
  steps. The stream is a sequence of pieces: welcome, header block and body of
  each message, end of file; `unread` counts what was read from the socket, by a poller
  (`drain_socket`) or by the parser when the brigade is empty (`split_brigade`). After a body that
  cannot be read the parser stays where it is. `close` is split where it gives up locks.
* **RdvLease.** Times are relative and `Tick` ages them; what a thread does takes no
  time, so `Tick` waits for all of them while they interleave freely. An entry
  is handled in two steps on each side (look-up under the provider's lock, then
  the new expiry), and removed in two (test, then delete). A message is lost or
  arrives within `MaxDelay`. The client's peer view is a constant.

* **PeerView.** `view[p]` has the parts the code keeps: `table` (`pves`), `order`
  (`localViewOrder`), the neighbours `up` and `down`, and `self`: is the own entry the object
  `selfPVE`, which `addjust_up_down_peers` looks for by its address? `stale` are the entries whose
  expiration has passed; `timed` says whether `selfPVE` has one, which it is made without. A round of the periodic
  thread takes two steps, because it gives up the lock before it sends. A stop takes three: the notice, the removal of
  the own entry, and the flag; only the last waits for the round, since `periodicMutex` is taken for it. `hears` counts
  the peer view's listener in the session of the advertising pipe: each start adds it, no stop removes it. While it is there, an
  announcement or notice comes back to the peer that sends it, in the sending thread
  (`Echoed`), so that sending and echo are one step. A message says who it
  is about, which flags it carries, and whether it goes over the pipe of a parent
  group; `process_peerview_message` is `Process`, made of its types of answer. A listener that is in the session
  twice handles a message twice in one step. A send to a peer that is off fails or gets lost; that it fails to
  another peer is a fault.
* **RdvWalk, WireService.** A copy carries the direction and time to live of the walk. `Check`
  is the test for a seen message and `Accept` its remembering and delivery, apart because another
  thread may come in between; the modules share `Hops`, the copies that one `walk` sends.
  `session` has how often each listener is in the vector of the session, `opened` for how many open input
  pipes; `recipient` says whether the session is registered as the recipient of its address. There are two kinds of listeners: that
  of the user, which stays in the session when its pipe is closed, and the pipe's own, for a pipe that waits with
  `timed_receive`, whose close takes the session out of the table, with whatever else is in it. `given` counts how often a peer went through
  the listeners with a message; one that is in the session n times is called n times. The code goes through them by
  position and without a lock, so that one removed meanwhile can make it miss another, and one added can make it
  call another again: not modelled.
* **SrdiIndex.** `Publish`, `Flush` and the periodic push follow the tables of the
  cache manager: the delta in memory, the delta table with the number of each entry, the
  index rows, the table of numbers. Messages hold entries or bare numbers; a receiver
  resolves, asks again, saves in tasks of the pool, and replicates. Values, names and
  SQL are abstracted to members of small sets; the one SQL condition whose shape matters
  (`WithoutResent`) is kept.
* **QueryFlow.** One step per handler of a query. A handler works on a record (hop count, route,
  peers sent a route, what is sent, status) that each call in it transforms, in the
  order of the code. How the tables come about is the subject of `SrdiIndex`: here they are
  given by `Init`, and do not change while queries travel.
* **RelayTransport.** `leases` is the server's vector with the archive of each lease,
  `thread` the place of the sending thread, which takes one step per lease of a pass and
  between its critical sections; `old` is the vector that the sweep replaces. `client` holds what a client
  believes. A unit of time is ten minutes.

Definitions whose comment says *mutant* are not part of a specification: each is a
plausible bug that, put in place of the definition it names, makes one property fail.

## 3. Runs

Every passing run finishes exhaustively. State counts are of distinct states.

| Run | Instance | Shows |
|---|---|---|
| `pool_safety` | 3 worker slots for 2 threads, 3 tasks of 2 owners, one scheduled, tasks that submit tasks, failing thread creation, `idle_max` set to 0, destruction; symmetric workers; 527k states | segment pointers never dangle, counters exact, threads bounded, trimmed threads never take a task, a cancelled owner stays quiet, the pool implements `TaskService` |
| `pool_live` | no initial threads, at most two, `idle_wait` set; 11k states | every task is run and every cancel returns |
| `polling` | 2 sockets, a pollset for one, 2 workers, 4 `do_poll` tasks, a message, received data; 70k states | no registered socket is left without a `do_poll`; polling goes on; it dies out after a stop |
| `rounds` | both services, 2 workers, 2 rounds each; 3k states | rounds do not overlap, go on, and never block a stop |
| `sending` | 1 sender, 4 messages for 2 peers, rings of 2, two doublings of the timeout; 339k states | references exact but for messages that come to a full ring, messages in order, none lost other than by the policy |
| `reading` | 2 pollers, 2 workers, a closer, 3 messages, of which the second may be malformed, end of file; 43k states | one parser, no drained data forgotten, order kept, everything delivered if nobody closes |
| `leases` | 1 client, 2 rendezvous, messages delayed by up to 1, one fault; 195k states | every entry's lease ends; a connected client is served unless given up, finds that out, is connected again; a stopped client is forgotten |
| `views` | a top group of three that loses a message; groups of two below it with one fault of any kind (a stop that interleaves with a round and with the own announcement, a late expiration, a loss, a crash, a failing send) or two crashes; 25k states | equal views, with `selfPVE` in them, give mutual neighbours; table, order and neighbours agree; who crashed leaves the views; who stays is known to all |
| `wire` | 3 rendezvous, an edge peer that opens and closes pipes, 2 messages, listeners of both kinds, two threads per peer, a list of seen messages with room for four entries, one loss; 4.2M states | the walk reaches the view although a copy is lost; a peer goes through its listeners at most once for each thread, and once with what it sent itself, whatever ways the copies come |
| `index` | 1 edge peer, 2 rendezvous, 2 advertisements, two publish calls, and one of: a flush, a loss, a restart of either side, a move to the other rendezvous, with or without a lease that lapses after it; 1.1M states | numbers mean the same at both ends; index and replica are complete once all is quiet |
| `relay` | 1 client, 3 messages, an archive for one and one more, one fault; 1.1M states | messages are sent at most once; as long as the client can be reached only the head of an archive may wait until it has expired; the client is served again and again |
| `queries` | 3 rendezvous, 2 edge peers, one query of an edge peer or of a rendezvous, 418 fillings of the tables; 596k states | a query is answered if anybody has an answer and the tables are settled; every hop brings a query closer to its end |

Each type invariant (`QueueTypeOK` ... `QueryTypeOK`), `CountCoversSockets` of `EndpointPoll` and
`RoundsDieOut` of `PeriodicTask` hold on these instances as well; they are not in the
configurations because no fault of the code but one of the model breaks them, or another property
says the same.

Some questions have instances of their own, which pass:

* `MCTaskQueueLevels`: the task queue alone, seven tasks, one priority per segment:
  `IndexPointsIntoRing`, `OrderedFromPointers`, `BehindItsEquals`, and `PriorityOrdered` in place of the second. The
  three hold as well with two priorities in one segment (`Task <- Five`, `OwnerOf <- OwnersOfFive`,
  `Priority <- BytePriorities`); `PriorityOrdered` does not.
* `MCRdvLeaseTables`: two clients compete for the places of two rendezvous: `TablesBounded`.
* `MCNegativeCacheRace` with `Message = {m1, m2, m3}`: two senders: `HeldWhileNeeded`, `NeverSentAgain` and
  `LeavesByPolicyOrReplaced`.
* `MCWireServiceTwice` with `Rdv = {1, 2, 3, 4}`, `Edge = {5}` and `Callers = {5}`: `WalkReachesAll`, `GivenOnce`
  and `NoEcho` in a view of four.
* `MCSrdiIndexFlush` with `FairSrdiSpec` and `Bound <- Leaving`: asking and answering ends
  (`QuietInTheEnd`).

### Violations

The properties below state what the code, its header or a comment says, or what its users
rely on, and TLC finds each violated by what the code does. They are kept for whoever changes
that code. A row names the configuration to check the property with, and in
parentheses the values to change in it first; properties of the configuration other than
the row's are taken out.

| Configuration | Property | What happens |
|---|---|---|
| `MCTaskQueueLevels` (`Task <- Five`, `OwnerOf <- OwnersOfFive`, `Priority <- BytePriorities`) | `PriorityOrdered` | with two priorities in one segment (task_priority of the endpoint service produces them), `task_idx` is the oldest and not the highest task of the segment, and a push of the higher priority lands behind the lower |
| `MCTaskQueueLevels` (the same) | `PutOnTopOfEquals` | the same for `apr_thread_pool_top` |
| `MCThreadPoolLostSignal` | `TasksAreServed` | a task submitted between a worker's unlock and its wait is not run until the next one is submitted, while the header says that an idle thread handles it |
| `MCThreadPoolLostSignal` | `CleanupReturns` | the broadcast of the destruction is missed between unlock and wait, and the join never returns |
| `MCThreadPoolLostSignal` (`PoolSpec`) | `NoThreadInsideWhenDestroyed` | `thd_cnt` is 0 before the last thread has released the lock that is then destroyed |
| `MCThreadPoolLostSignal` (`PoolSpec`, `Scheduled = {t1}`) | `IdleThreadsComeBack` | a scheduled task comes due before the wait is computed; a negative timeout means none |
| `MCEndpointPollFreed` | `NoCallbackAfterRemove` | `remove_poll` frees a poll element that `endpoint_service_poll` still has in the array it walks |
| `MCEndpointPollFreed` | `PollsSomething` | the last socket goes away under `do_poll`, the assertion on `pollfd_cnt` fails |
| `MCEndpointPollFreed` (`Data = {d1}`) | `StoppedIsQuiet` | `do_poll` pushes itself after the stop has cancelled its tasks |
| `MCEndpointPollPolling` (`Data = {}`, `PollsetSize = 2`) | `MessagesAreSent` | as many `do_poll` tasks as workers, all of the highest priority |
| `MCPeriodicTaskRounds` (`PeriodicSpec`) | `NoRoundAfterStop` | a handler schedules its next round after the cancel |
| `MCNegativeCacheRace` | `LeavesOnlyByPolicy` | two senders find no entry for a peer; the second entry replaces the first and drops its message |
| `MCNegativeCacheSending` | `OldestIsDropped` | a full ring is overwritten ("drop oldest message" in the log): head and tail coincide, the head moves past the tail, and the new message stands behind the tail, is never sent and never released |
| `MCNegativeCacheRace` (`FairCacheSpec`, `Sender = {s1}`) | `RetriedAfterTimeout` | no timer leads to a retry; only later traffic does |
| `MCTcpConnectionBrigade` | `NobodyReadsWhenClosed` | `close` empties the brigade after it gave up `reading_lock` |
| `MCTcpConnectionBrigade` (`Poller = {p1, p2}`) | `SocketToDrain` | `read_cb` of a connection that was closed since the poll |
| `MCTcpConnectionBrigade` (`Poller = {p1, p2}`, `Closer = {}`, `RemoteCloses = TRUE`) | `EventHasMessenger` | closed between CONNECTED and the event that says so |
| `MCTcpConnectionBrigade` (`Closer = {}`, `Messages <- MCTwo`, `RemoteCloses = TRUE`) | `ReadBeforeClose` | an end of file closes before drained messages are parsed |
| `MCRdvLeaseStop` | `StopReturns` | `stop` of the client holds the provider's lock and waits for `periodicMutex`, whose holder waits for the provider's lock to remove an expired rendezvous |
| `MCRdvLeaseStop` (`LeaseSpec`) | `OnlyExpiredRemoved` | a client whose lease ended and is granted anew is removed by the test made before |
| `MCRdvLeaseRenewal` (`LeaseSpec`) | `NoNeedlessRequest` | the cleared candidates are loaded again in the same round and asked for a lease |
| `MCRdvLeaseTables` (`MaxClients <- OnePlace`, `MayStop = {}`) | `ConnectedAgain` | such a client keeps a place it does not use, and with one place per rendezvous another client is never connected |
| `MCPeerViewMixed` (`ViewSpec`, `Setups <- Late`) | `AliveIsInView` | an expired entry leaves the vector and stays in the table; its peer comes back and is never in the vector again |
| `MCPeerViewMixed` (`Setups <- Stopped`) | `StoppedLeavesViews` | the probes of the former rendezvous, now an edge peer, and what it hears of itself keep its entry alive, although its notice arrived |
| `MCPeerViewMixed` (`ViewSpec`, `Setups <- Stopped`) | `RendezvousMatch` | the announcement of a round goes out while a stop has removed the own entry, and its echo makes a new one, which is not `selfPVE`; started again, the peer is in its own vector and has no neighbours |
| `MCWireServiceTwice` | `GivenExactlyOnce` | two threads both find a message new |
| `MCWireServiceWalk` (`MaxCache = 0`, `Handlers = 1`) | `GivenOnceEver` | more messages came than the list of seen ones holds, and a copy of a forgotten one that was still under way is taken for new |
| `MCWireServiceTwice` | `OpenPipesHear` | the close of a pipe that waits takes the whole session out of the table: the other listeners never hear again, and new ones are refused, because the recipient is still registered |
| `MCWireServiceTwice` | `ClosedPipesQuiet` | the user's listener stays in the session after its pipe was closed, and is still called (a FIXME at `jxta_wire_service.c:1072` says so) |
| `MCSrdiIndexFlush` | `FlushedIsForgotten` | published and flushed between two pushes: two entries with one number, and the second, which deletes, is dropped |
| `MCSrdiIndexFlush` | `IndexedAgain` | published, flushed and published between two pushes |
| `MCSrdiIndexFlush` (`Adv = {a1, a2}`, `Bound <- Leaving`) | `IndexedAgain` | `cm_remove_srdi_delta_entries` deletes the entries of other peers: `AND` binds before `OR` |
| `MCSrdiIndexFlush` (`Bound <- Lapsing`) | `IndexedAgain` | a purge removes rows and leaves their numbers, which then resolve to nothing |
| `MCSrdiIndexFlush` (`Bound <- Crashing`) | `IndexedAgain` | a restarted rendezvous is sent deltas only |
| `MCSrdiIndexFlush` (`Adv = {a1, a2}`, `Bound <- Restarting`) | `IndexedAgain` | a restarted edge peer counts its numbers anew, and the rendezvous resolves them with its old rows |
| `MCSrdiIndexFlush` (the same, `MaxFaults = 2`) | `IndexAgreesAlways` | the same, seen in the index |
| `MCSrdiIndexFlush` (`Val = {u, v}`, `Bound <- Calls`, `MaxFaults = 0`) | `ValueIsCurrent` | two tasks save two values of one entry in the other order |
| `MCRelayTransportRelaying` (`RelaySpec`) | `SentInTime` | a pass leaves the head of an archive out while there is another message, so messages that keep coming starve it until it has expired |
| `MCRelayTransportShort` | `ConnectedIsServed` | the server's lease is shorter than the one it tells the client |
| `MCRelayTransportShort` (`Msg = {m1, m2, m3}`, `MaxStored = 2`, `MaxFaults = 1`) | `KeptUntilSent` | after one message of a pass was sent, those that fail are deleted too |
| `MCRelayTransportShort` | `PassEmpties` | a pass ends after it has removed the head |
| `MCRelayTransportShort` | `OneLeaseEach` | a lease is added to the new vector while the sweep has still to move the client's old one |
| `MCRelayTransportShort` | `NothingWaits` | the signal of a message comes between the test and the wait |
| `MCQueryFlowHeard` | `AnswersAreHeard` | the query is queued for an unreachable peer, reported as failed, and its listener removed before the answer comes |
| `MCQueryFlowHeard` (`Asker = {3}`, `Suspect = {}`) | `FoundWhenHeld` | an index entry that is out of date hides the peers that have an answer |
| `MCQueryFlowHeard` (`Rdv = {1, 2, 3, 6}`, `Elem = {"name", "key"}`, `ReplicaPeer <- Apart`, `Target = {}`, `Suspect = {}`) | `FoundWhenSettled` | a query of two elements: each replica peer it is sent to counts as a hop, and the second one may not forward it |

### Further hazards

Places of the code that the models reach or leave out without a property that holds:

* `jpr/apr_thread_pool.c:441`, `:316`, `:343`, `:350`, `jxta_endpoint_service.c:426`, `:969`, `:984`, `:658`, `:345`,
  `jxta_transport_tcp_connection.c:951`, `:871`, `:775`, `jxta_rdv_service_client.c:1241`,
  `jxta_wire_service.c:881`, `:853`, `:1072`, `jxta_peerview.c:613`, `jxta_cm.c:1386`, `:5566`, `:2589`, `jxta_discovery_service_ref.c:2088`, `:562`,
  `jxta_relay.c:3424`, `:2561`: the steps are in the models, and the table above shows what they lead to.
* `jxta_endpoint_service.c:1711`: the task is pushed before `msg_task_cnt` is incremented, and a faster
  thread lowers an unsigned zero. `NegativeCache` wraps, which delays the next review.
* `jxta_endpoint_service.c:260`: with a configured queue size of 1 the ring's tail starts past its
  end. `CacheAssumption` excludes the value.
* `jxta_transport_tcp_connection.c:1066`, `:1132`: the sending side tests the state without a lock, and
  blocks on a slow peer; `jxta_transport_tcp.c:556` frees a connection, which waits for its
  `process_data`, under the transport's mutex; `jxta_endpoint_service.c:1839` removes a messenger that may
  be a newer one. Not modelled yet.
* `jxta_peerview.c:969`: the listener counts itself in and not out when the view is shut down,
  while the destructor waits for the count; `:1592`: the periodic thread sets `running` itself when
  it gets to run, which a stop may have cleared before. `PeerView` starts the thread with the view.
* `jxta_wire_service.c:826`: an error path returns with the mutex held. It is taken when the recipient is still
  registered (`Open` has that branch); the mutex is nested, so the thread itself does not notice, while others wait. The
  model leaves the waiting out.
* `jxta_relay.c:2489`: a lease is used without a reference while the sweep may release it;
  `:2009`: the remaining time to sleep may be negative. Freed memory and negative times are not modelled.
* `jxta_resolver_service_ref.c:665`: a query without the route of its source goes to peers that were
  sent it lately; `QueryFlow` keeps that list, and lets a peer know a route or not.
* `jxta_discovery_service_ref.c:1657`: a local-only advertisement found first leaves a hole in the list
  of keys. `QueryFlow` has one advertisement per peer.
* `jxta_rdv_service.c:909`, `:437`: `set_auto_interval` waits for `auto_interval_lock` holding a mutex its
  release needs, and `stop` uses the provider without the lock under which it is replaced;
  `jxta_router_client.c:605` reads the table of failed addresses without the lock. Not modelled yet.

### Bounds, and why they are enough

* Tasks and workers: a lost or repeated task needs one task, priority inversions
  need three tasks of one segment, a cancel against a running task needs two
  owners; a third worker slot lets a thread be started while one is exiting.
* `Poll` bounds the `do_poll` tasks alive at once: one per worker and one per
  socket that is registered meanwhile.
* `Capacity = 2` is the smallest ring that wraps; three messages for one peer
  overflow it. `TimeoutMax = 3` lets the timeout double twice before the queue is dropped.
  `RetryCount = 2` lets `nc_review_all` come due and not come due.
* Three messages with a second one that may be malformed: a message can be behind, before and
  at the failure.
* Leases: `Lease = 6`, `RenewalDelay = 5`, `MaxDelay = 1`, `MinRetry = 1`: a request, its
  loss, a second request and its answer fit into the renewal time, as they do with
  the defaults (20 minutes, renewal 5 minutes before the end, retries 15 to 45 seconds
  apart). With `Lease = 5` and
  `RenewalDelay = 4` they do not, and `ClientIsServed` fails: the margin matters.
  `MaxFaults = 1`: one lost message, restart or failed send in a behaviour; `ClientIsServed`
  and `ConnectedAgain` can hold only if faults are rare compared to a lease.
  `MCRdvLeaseTables` has `MaxDelay = 0`, so that two clients fit; delays are in `leases`.
* Views: neighbours differ from each other first with three peers; every fault kind, a stop and a failing
  send included, occurs with two, and `Setups` combines the ones that a run of its own would repeat. `MaxNet = 0`:
  a round or a request begins only when no more than that many messages are under way, as the
  intervals of the code (minutes) let them.
* Wire: with three rendezvous and a copy in each direction a walk meets itself; one loss is
  what the second direction can make up for; `MaxCache = 3` keeps four entries, one
  more than the limit as in the code: two threads with two messages, so nothing is forgotten. What follows when something is, is
  in the table of violations. Two calls on pipes, at a peer whose rendezvous keeps a record of them (`Callers`): the sessions of the others
  affect nobody else, and a loss counts as one of the two (`MaxChanges`), since the run asks for either. A view of four is in the instance with four rendezvous above.
* Index: an entry needs a number, an update and a second number; a disturbance is
  a loss, a move, a flush or a restart (`Bound`, `MaxFaults`); `MaxLoad` bounds the messages and
  save tasks in flight. `IndexAgrees` is checked over all of them; of `IndexedWhenSettled` and
  `ReplicatedWhenSettled` `Undisturbed` excludes losses, restarts and lapses, after which they do not
  hold (the table of violations).
* Relay: a message that starves at the head needs two that come after it; leases of two units, an archive of one message and one more (the test is `>`),
  one place at the server; a grant of six units is the longer lease that the client is
  told of. `Naps` is the least number of naps of the sending thread that end in a unit of time.
* Queries: three rendezvous and a leaf at each end make the longest way there is: rendezvous, replica
  peer, rendezvous that publishes, edge peer. The tables are those of settled index and
  replicas, or name everybody.
* `pool_safety`, `wire` and `index` use symmetry, and check no liveness property.

Deadlock checking is off where the modelled part really may come to rest: the pool and
the services when nobody calls them, a connection that is closed, messages all sent.
It is on for `leases`, `views`, `relay`, `MCTaskQueueLevels` and `MCRdvLeaseTables`.

### Fairness

* Pool: weak fairness of each worker, of a caller inside a call, of the trimming
  thread and of time. The operating system schedules every runnable thread and
  task functions return. Nothing makes a client call the pool.
* Polling: weak fairness of the steps inside `do_poll` (a poll returns after its
  timeout), strong fairness of a worker's picking some task: the worker may be busy in between.
* Periodic tasks: handlers run, a scheduled round that is due again and again is picked, and a
  stop once begun goes on.
* Connection: strong fairness of the threads that use `reading_lock`, since the lock may be
  taken again and again by another thread before they get it; the remote's pieces arrive.
  Nobody is made to close.
* Leases: weak fairness of the periodic threads, the handlers, a stop once begun and time.
  No fairness of losses, failures or of a decision to stop.
* Views: weak fairness of a round once begun, of the receipt of referrals and of the other messages, and of
  the expiration of an entry that nobody sets anew; strong fairness of a round's beginning, which messages
  under way hold up (`MaxNet`), and of one thing that depends on `rand()`: peers that ask are not for ever referred to
  themselves or to the one they ask (`ReferOther`). Nothing makes a peer stop or start.
* Relay: weak fairness of the sending thread, the handlers and the client's thread; strong fairness of
  time, which waits for each of them and is enabled again when they rest.
* Wire, index and queries check safety in their runs (`FairSrdiSpec` is for `QuietInTheEnd`): "reached when nothing is under way any more"
  and "smaller at every hop" say without fairness what matters of their progress.

## 4. Proofs

TLAPS checks the theorems below for every value of the constants that the modules' assumptions
allow: any number of threads, tasks, peers, sockets and messages, any limits, delays and
faults. Each safety property is shown from an inductive invariant, with a lemma for every step or
group of steps, and one that puts them together (`...Next`).

| Module | Theorem | States |
|---|---|---|
| `ThreadPoolProofs` | `CountsTheorem` | `CountsAreExact`: the counters that decide on new threads are what they count |
| | `TrimmedTheorem` | `TrimmedAreJoinable`: a trimmed thread never takes a task again |
| | `BoundTheorem` | `ThreadsBounded` |
| | `QueueTheorem` | `QueueSpec`: what the pool does to its ring are steps of `TaskQueue` |
| | `ServiceTheorem` | `ImplementsTaskService`: every step of the pool is one of `TaskService`, or a stutter |
| | `QuietTheorem` | `CancelledStaysQuiet`: after a cancel no task of the owner runs, until one is submitted |
| | `PointersTheorem` | `IndexPointsIntoRing`, whatever the priorities are |
| | `OrderTheorem` | `OrderedFromPointers`, whatever the priorities are: from a segment's pointer on, no task of a higher segment, and none of the segment behind one of a lower priority |
| | `EqualsTheorem` | `BehindItsEquals`, whatever the priorities are: a pushed task comes behind those of its priority |
| `EndpointPollProofs` | `PolledTheorem` | `SocketsArePolled`: no registered socket is left without a `do_poll` |
| | `CoverTheorem` | `CountCoversSockets`: `pollfd_cnt` is never too low |
| `DiscoveryProofs` | `RoundsTheorem` | `RoundsDoNotOverlap` |
| | `QueryTypeTheorem` | `QueryTypeOK`: among others, the hop count of a query stays between 0 and 3 |
| | `HopsTheorem` | `EveryHopCounts`: what a peer sends on has less far to go than the query it received, so every query comes to an end |
| `NegativeCacheProofs` | `HeldTheorem` | `HeldWhileNeeded`, however many senders there are: what is in a ring, or came to a full one, is still held |
| | `SentTheorem` | `NeverSentAgain`: a message is given to a messenger once at most, and then waits in no ring |
| | `PolicyTheorem` | `LeavesByPolicyOrReplaced`: the race of two senders is the only way in which a message leaves its ring against the policy |
| `TransportProofs` | `OneProcessorTheorem` | `OneProcessor`: one parser for a connection |
| | `NothingStrandedTheorem` | `NothingStranded`: drained data has somebody who will parse it |
| | `DeliveredTheorem` | `DeliveredInOrder`: the endpoint is given a prefix of what was sent |
| | `SentTheorem` | `SentOnce`: the relay sends a stored message at most once |
| `RdvLeaseProofs` | `LeasesEndTheorem` | `EveryLeaseEnds` |
| | `TablesTheorem` | `TablesBounded` |
| `PeerViewProofs` | `HalvesTheorem` | `HalvesAgree` |
| | `RingTheorem` | `NeighboursMatch`: peers with the same view, each with its `selfPVE` in it, are neighbours of each other |
| `WireServiceProofs` | `GivenOnceTheorem` | `GivenOnce`: a peer goes through its listeners with a message at most as often as threads handle messages at a time, and the sender once, while the list of seen ones has room |
| | `NoEchoTheorem` | `NoEcho`: what a peer sent does not come back to its listeners, whatever the list forgot |

### The inductive invariants, and why they are needed

* **Pool, threads** (`ThreadsInv`). That `trim_threads` takes the right number off `idle_cnt`, and
  that a thread that comes back was counted as idle, depends on where the listed threads are:
  on `idle_thds` only parked threads that are not marked to stop; trimmed ones marked, off
  the list and headed for the join (`ThreadsPlaced`).
* **Pool, tasks** (`TasksInv`). The refinement needs that a task waits in one place, in the ring
  or in the schedule, and that a worker has a task exactly while it runs one. Each step is
  then classified by what it does to the tasks (`Effect`), and the theorems on the refinement and
  on cancelled owners follow from the class alone. `CleanInv` says why a cancel works: an
  owner is clean from the section that unlinks its tasks, so nothing of it waits, and quiet once
  the scan of the busy threads has found none of its tasks.
* **Task ring** (`QueueInv`, `OrderInv`). A pointer is to a task of its segment. Where `add_if_empty` puts a task depends on what it
  meets from the pointer on, and there the order is right whatever the priorities are (`OrderedFromPointers`). Before the
  pointer it is right only if the tasks of a segment have one priority, which the endpoint
  service breaks: the table of violations shows what then happens to the whole order.
* **Polling** (`PollingInv`). `do_poll` decides by an unlocked read of `pollfd_cnt`. The invariant has two
  halves: the count covers the registered sockets, and a positive count keeps a `do_poll` going.
* **Periodic tasks** (`RoundsInv`). A service has one token: the round that waits, or the worker
  that has not scheduled the next one. One that was never started has none.
* **Connection** (`ReadingInv`). `dispatched` stands for one task: in the pool, on its way there, or
  with a worker. What was parsed, what is in the brigade and what was not read make up the
  stream until close empties the brigade (`StreamInv`). A closed connection does not come back, which a
  worker past the welcome could otherwise do (`StaysClosed`).
* **Sending** (`CacheInv`). What was sent to a peer, followed by what waits in its ring, is a sequence
  without repetitions (`Flows`), whichever part of the ring was sent. The message
  in a sender's hands is in none of these sequences and in no other sender's hands (`Senders`), so it may be appended, or
  become the only one of a new entry. A lemma for each of
  the ring's operations says what it does to the sequence; only they look at `rq_head` and
  `rq_tail`. Nothing is said about the order of the messages: with two senders the order of
  the steps is not theirs.
* **Queries** (`QueryInv`). Nothing is said about the tables or the query's history: that a copy has less far to
  go follows from its shape, which is what the invariant keeps. A lemma for each way to forward says which hop
  counts leave the peer (`Nearer`), and what the record's hop count may be when the walk goes on
  (`MayWalk`): at the third hop the handler says "done", so a query at its limit is not walked. The hops left weigh more
  than any walk (`HopsAndSteps`), and a walk never has more steps than there are rendezvous, whatever the view (`WalkGoesOn`).
* **Leases** (`LeaseInv`). `EveryLeaseEnds` is inductive once the handlers' marks are part of it: the
  mark says whether the entry that a handler works on is still in the table. The bounds of
  the tables need only the limit tests, since removals may come in at any point.
* **Peer views** (`ViewInv`). `up` and `down` are what `addjust_up_down_peers` computes from the vector, and nobody
  while the own entry is not `selfPVE` (`ViewOK`). Then the ring is a fact about finite sets of numbers (`UpFollows`, `DownFollows`).
* **Relay** (`SentInv`). A client may have two leases, and a pass may end early or miss a lease, so
  nothing about the passes helps. A message is in one archive, once, only while it was not
  sent; a new one is in none. Leases move between the two vectors of the sweep without a
  copy being left.
* **Wire** (`CountedInv`). The bound on what a listener is given is not inductive: a thread may have found
  the message new and not entered it. The invariant adds the entries of a message in the list to the
  handlers that have it, and bounds the sum; a peer went through its listeners at most as often as the message is in its list. That the list forgets nothing
  is a count too (`ListIsShort`): each message is in it `Handlers` times at most, and the one about to be entered less
  often, so there is room. The sender's own copy needs only the comparison with the source (`SentOnceInv`).

Induction over lists and sets (the n-th kept element of a list, the greatest element of a set)
is done by taking a least counterexample, which needs no induction theorem with an operator
as its parameter.

### What the proofs changed

* `DeliveredInOrder` held in an earlier model of the connection only because the run had no message
  behind a malformed one: the parser began anew with the next piece. The code's parser keeps its
  half-read message, and so does the model now (`ctx_msg = "spoiled"`); the run has a
  message behind the malformed one.
* The neighbours of a peer that is not in its own vector were defined by a `CASE` with arms that
  overlap, so that nothing about them followed. They are an `IF` in the order of the code now.
* The relay was said to send every message before it expires. That was true of two messages. With
  three, TLC finds the head of an archive starving (the table of violations); what the code does see to is
  `OnlyHeadExpires`, and the run has three messages.
* `HeldExactly` said that the cache holds the messages in its rings and no others, and an earlier model of the ring
  made it so. The lemma about overwriting a full ring could not be proved: the code leaves the new message
  behind the tail. The model has the code's ring arithmetic now, and the property the exception (`stray`).
* `QueryFlow` computed what a handler sends with folds over the destinations, about which nothing can be
  proved. The copies are a set now, one for each destination, and the route they carry depends on whether
  a destination up to it was sent the news; TLC finds the same states as before.
* The order of the queue and of the messages were proved for one priority per segment and for one sender, which
  the code does not promise. What is left of them without these conditions is what the theorems say now.
* "Room for all" in the list of seen messages is a bound on the number of messages, and says something
  only if there are finitely many of them (`RoomForAll`).

### Only model-checked

* Liveness and everything else under fairness.
* `HeldExactly`, `SentInOrder` and `LeavesOnlyByPolicy` of `NegativeCache`: with one sender, as in the run; with two the
  table of violations has an instance. `PriorityOrdered`: with one priority per segment.
* `WalkReachesAll` of `WireService`: about the way of a walk along the ring, an induction over its length.
* The properties of `SrdiIndex`: they are about sequences built by folds over sets, whose values for
  every input are induction over data.
* `FoundWhenSettled` of `QueryFlow`: about the whole way of a query, and false for queries of two elements
  (the table of violations), so a theorem would have to restrict the replica tables as the run does.
* `ClientIsServed`: true for the lengths of leases, delays and retries of the run and false for others
  (the bounds above), so a theorem would have to assume a margin that the code nowhere states.
* `OnlyHeadExpires`: about one client. With several, a lease that is removed while a pass goes
  over the vector moves the next one under the pass, which then misses it.

## 5. Not modelled

* `thread_max_set`, `threshold_set`, `idle_wait_set` and `trim_busy_threads` of the pool: its
  limits are constants.
* The choice of a messenger and of a route: the outcome of `send_message`.
* The sending side of a TCP connection, and the transport's lists of connections.
* Of the peer view its event listeners and the search for advertisements of rendezvous; of the
  rendezvous service the automatic switch between client and server.
* Of the relay disconnect requests, a client's disconnecting for want of a relay address (`check_relay_lease`,
  `jxta_relay.c:2058`, beside the end of the lease that `Expire` models), stop and the choice between several relays; of the index
  address spaces, local queries and the building of SQL.
* Unicast and secure pipes, bidirectional pipes, TLS, the router and the peer groups: see the plan.
* XML documents, addresses, identifiers, the wire format of messages, logging:
  data handling without interleaving. Sockets, SQL and cryptography are libraries.

## 6. Plan

In this order.

1. `TaskQueue`, `ThreadPool`, `TaskService`, refinement and first theorems (done).
2. `EndpointPoll`, `PeriodicTask` on `TaskService` (done).
3. `NegativeCache`, `TcpConnection` (done, reading side).
4. `RdvLease` (done).
5. `PeerView`, `RdvWalk` and `WireService` (done).
6. `SrdiIndex` and `QueryFlow` (done); `RelayTransport` (done).
7. `Messengers`: messenger table of several connections, events and the
   replacement of a messenger; the sending side of the connection; the lists of
   connections and the lock they are checked under. Composed with `NegativeCache`.
8. The router's tables of routes and failed addresses; pipe binding and the bidirectional
   pipe's handshake with its timeout; TLS acknowledgements and retransmission.
9. The automatic rendezvous; listener queues, reference counts, order of stops of a group's services.

Theorems next: `PoolTypeOK` and the other type invariants as a whole; `RelayTypeOK` and the bound on
archives; `OnlyHeadExpires` of one client of the relay; `IndexAgrees` of `SrdiIndex`, once what it builds
by folds is stated as sets.
