# TLA+ specifications of asyncua

asyncua is an OPC UA client and server on Python's asyncio. These modules
specify the parts of it where several tasks, two ends of a connection, or time
meet, check them with TLC on small instances, and prove the central results
with TLAPS for all sizes.

A step of a model is the code between two points where a coroutine really
suspends: everything runs on one event loop, so nothing else can run in
between, and anything can run at a suspension. Where an `await` cannot suspend
(`publish_results` of a client subscription, `start()`), the step goes on.

## Inventory

| Part | State | Operations | Meets others through |
|---|---|---|---|
| Subscriptions (`server/internal_subscription.py`) | queues per monitored item, keep-alive and cycle counters, sequence number, retransmission store, loop task | publish cycle, enqueue, publish (acknowledge), republish, expire, stop | `get_publish_request` and `forward_publish_response` of the connection's processor |
| Subscription service (`server/subscription_service.py`) | the subscriptions by id | create, modify, delete, publish, items, republish | sessions call it; an expiry calls back |
| Monitored items (`server/monitored_item_service.py`) | items by id, by event node, last values | create, modify, delete, data change and event callbacks | callbacks of the address space; queues of the subscription |
| Processor of a connection (`server/uaprocessor.py`) | session, stored publish requests, waiting subscriptions, watchdog | one branch per request, close, watchdog | owns a SecureConnection; calls the session |
| Session (`server/internal_session.py`) | Created, Activated, Closed; common count of connections | create, activate, close, services | subscription service, address space |
| Binary server (`server/binary_server_asyncio.py`) | buffer, message queue, task, closing tasks | connection made/lost, data received | creates processors, cancels their handlers |
| Secure channel (`common/connection.py`, keys in `crypto/security_policies.py`) | current, next and previous token, nonces, two keys, sequence numbers, parts of a message | open, set_channel, revolve, check, receive | used by both ends |
| Client protocol (`client/ua_client.py`) | pending requests, exchange of the channel | send, receive, time out, open channel | the socket; tasks that await futures |
| Publish loop and handlers (`client/ua_client.py`, `common/subscription.py`) | callbacks by subscription, items by client handle | publish loop, create/delete items | requests of the client protocol |
| Client (`client/client.py`) | renewal and monitor tasks | connect, renew, monitor, disconnect | client protocol |
| HA client (`client/ha/`) | ideal and real map of subscriptions, clients' status | reconcile, reset, keep-alive, reconnect | several clients |
| Address space (`server/address_space.py`) | nodes, attributes, callbacks | read, write, add, delete, browse, call | callbacks to monitored items |
| History (`server/history.py`, `history_sql.py`) | values and events per node | save, read by pages | internal subscriptions |

What is hard here: publish requests and notifications meet in either order and
are matched through two queues; a subscription can be deleted, can expire or
lose its connection at every suspension; tokens and keys change at both ends
while messages are under way; timeouts on the client race late answers; a
cancelled handler leaves the steps it has not done. PROJECT.json lists these
hazards one by one, with the line and the property that covers each.

## Modules

### Publishing

One client connection with its subscriptions.

| Model | Code |
|---|---|
| `sub[s]` | an `InternalSubscription`: `data` are `_triggered_datachanges` and `_triggered_events`, `status` the length of `_triggered_statuschanges`, `cycles`, `keepAlive`, `startup`, `seq`, `unacked` its counters and `_not_acknowledged_results`; `registered` is membership in `SubscriptionService.subscriptions` |
| `reqs`, `waiting` | `UaProcessor._publish_requests`, `_publish_results_subs` |
| `wire` | the responses written so far; `produced` counts the notifications triggered |
| `PublishCycle`, `PublishResults` | `_subscription_loop`, `publish_results` with all its exits |
| `PublishRequest` | the PublishRequest branch of `_process_message`, with the loop over the waiting subscriptions |
| `Notify`, `CreateMonitoredItem`, `ModifyMonitoredItem`, `DeleteMonitoredItem` | `enqueue_datachange_event`, `enqueue_event` and the item services |
| `DeleteSubscriptions`, `StopSubscription` | the two halves of `delete_subscriptions` around its `gather` |
| `Republish`, `RequestTimesOut`, `CreateSubscription` | as named |

A notification is its number, a queue the numbers it holds. A request's
TimeoutHint is `none`, `fresh` or `late`. A subscription with publishing
interval 0 has no loop and publishes when something is enqueued; its expiry
calls itself until Python stops it (`RecursionDepth`). Internal subscriptions
with a callback instead of publish requests (history) are not modelled, nor is
the callback service that item creation notifies. MCPublishing bounds the run
`publishing` to a busy subscription beside a quiet one (`BusyAndQuiet`).

### SecureChannel

The client's and the server's `SecureConnection` and the two directions of
the socket between them. A key is named by the exchange of nonces it is
derived from, so that equal token ids with different keys can be told apart.
`Renew`, `RenewReturns`, `RenewTimesOut`, `ReadTimesOut` are
`_renew_channel_loop` with `open_secure_channel`; `ClientRequest` is any other
task's request, `ServerPublishes` a publish response. `Accepts` are the tests
of `receive_from_header_and_body` in their order. The client closes the
socket on a message it rejects, the server drops the message and goes on.
Time is in ticks; `Tick` waits for whatever is due within the tick, and a
message takes at most `MaxDelay`. Both ends share one clock. The channel is
open in the initial state, mode SignAndEncrypt, one chunk per message (chunks
are the subject of Transport).

### Sessions

Connections with their processors, sessions and subscriptions. The handlers of
CreateSession (which awaits the certificate validator) and CloseSession (which
awaits `stop()` of the subscriptions) are two steps; `ConnectionLost` may come
between them and cancels the handler and the `stop()` tasks that have not
begun (`lost`). A subscription is created only in a session that is activated.
`CloserRuns` is the task for `UaProcessor.close()`. A CreateSession starts a
watchdog, which tests `_closing` before it sleeps and not after:
`WatchdogCloses` is one that wakes up, also after the close, and finds its
session without activity, `WatchdogReturns` one that leaves its loop. A session
that was in use when CreateSession put another in its place is in `replaced`:
the processor has no reference to it any more. Subscriptions in `Immediate` have
publishing interval 0 and no loop. Requests answered with a fault change
nothing and are no steps.

### Delivery and NotificationStream

Delivery EXTENDS Publishing with the client at the other end of a FIFO
connection: `toServer` and `toClient` are the two directions of the socket,
`callbacks` is `UaClient._subscription_callbacks`, `monitored[s]` the
`_monitored_items` of a `Subscription`, `loop` the `_publish_task`. `Serve*`
are the branches of `_process_message`, each with the action of Publishing it
calls; `ServeDelete` and `ServeDeleted` are before and after the `gather` of
`delete_subscriptions`; no other request of the connection is taken between. `Create`, `Subscribe`, `Unsubscribe`, `Delete` are calls of the user up
to their `await`, `Created`, `Subscribed`, ... what follows the answer.
`Receive` resolves a future; `PublishLoop` and `Resume` are the tasks that run
then, in either order, because `wait_for` with a timeout takes one turn of the
event loop more than without one. `PublishLoop` delivers, acknowledges and
sends the next request. `timely` is chosen once, in the initial state: messages
of such a behaviour take at most `RoundTrip` publishing cycles from the server
to the client and back. `since[s]` counts the cycles in which subscription `s`
found no request since the last one arrived; while anything is under way a
timely behaviour allows `RoundTrip` of them. The cycles that a subscription
spends waiting while requests come and go to others are not limited by it.
Handlers of the user return: one that raises ends the loop over the values of
the message (`subscription.py:198`), and those after it are not delivered.

NotificationStream is what the user of a subscription relies on: per item the
notifications arrive in order, none twice, none missing while the user is
subscribed, and the client throws one away only when he is not.
`StreamsKeepPromise` states that Delivery implements it, with a stream per
subscription and item, `made` the notifications the server triggered, `wanted`
what the user is subscribed to.

### ClientConnection

`Client.connect`, `disconnect`, the watchdog (`monitor`), the renewal loop
(`renew`), the publish loop (`publish`), two tasks of the user, and
`UASocketProtocol` below them.

| Model | Code |
|---|---|
| `phase` | where `connect()` or `disconnect()` is |
| `conn`, `closed` | the transport; `UASocketProtocol.closed` and `UaClient._closing` |
| `hook` | `pre_request_hook` is `check_connection` |
| `bg[t]` | the three tasks: none, active, failed, being cancelled, cancelled, ended |
| `wait`, `inflight` | tasks that await a future; requests the server may still answer, with the state of their future |
| `LateAnswer`, `ReceiveError`, `ConnectionLost` | `data_received` for an answer nobody waits for, an error message, `connection_lost` |
| `MonitorTurn`, `MonitorAnswered`, `MonitorTimeout`, and so for the others | `_monitor_server_loop`, `_renew_channel_loop`, `_publish_loop` |
| `CancelMonitor`, `CancelRenew`, `CloseSession`, `Off`, `CancelledEnds` | `close_session` and `disconnect`, one await each |

A request is known by its task, since a task waits for one answer at a time;
the states are finite without a bound. The user connects again only when the
tasks of the connection before have had their turn.

### MonitoredItems

The attributes of the address space with their data change callbacks, and the
`MonitoredItemService` of each subscription. `Write` is
`write_attribute_value` up to the first callback that suspends, `Resume` the
rest of its loop over the live dictionary. `CreateItem`, `DeleteItem`,
`StopSubscription` (`delete_all_monitored_items`, which a KeyError can cut
short) and `DeleteNode` are atomic, as in the code. A callback really suspends
only in a subscription of the server itself that publishes at once to a
coroutine (`Suspending`); client subscriptions never do. Filters are `Passes`:
the absolute deadband compares with the value before, as
`_is_deadband_exceeded` does.

### History

`HistoryDict` and `Node.read_raw_history`. The values are numbers in the order
they were saved, `saved` has their source timestamps, which may be out of
order, `first` the oldest still held. `Save` appends, pops what is older than
`Period` and then at most one more for `Count`. `Page` is one request of the
client's loop with the server's answer; the server keeps nothing of a read, so
one is enough. Histories of events are not modelled: `read_event_history` makes
one request and never follows the continuation point (`node.py:736`).

### Transport

`ServerHello` and `ClientAck` negotiate (`SelectLimit`, `Acknowledged` are
`TransportLimits`), `Send` splits a message (`Padding`, `MaxBodySize`,
`ChunkCount` are the arithmetic of `MessageChunk`), `Receive` is the path of
`receive_from_header_and_body`, `_receive` and its error paths at both ends,
`SendAborted` a peer of another make. The first chunk an end takes may have any
sequence number, `peer[e]` is 0 before. Messages are numbers with a length, a
chunk its place in the message and its size in bytes. Cutting the byte stream
at the size in the header is taken for granted. MCTransport has the limits and
the kinds of cryptography of the run.

### HaClient

`HaClient`, `HaManager`, `KeepAlive` and `Reconciliator` in warm mode, the only
one the code supports. The maps keep the names of the code (`ideal_map`,
`real_map`, `name_to_subscription`, `node_to_handle`, `url_to_reset`).
`CreateSubscription`, `SubscribeDataChange`, `Unsubscribe`,
`DeleteSubscription` are the user's calls; `KeepAlive`, `UpdateState`,
`FailoverWarm`, `ReconnectWarm` with `Disconnect` and `Connect` the manager;
`RoundBegins`, `NextPhase` and one action per kind of request (`AddSub`,
`DelSub`, `AddItems`, `DelItems`, `ChangeMode`) the three phases of a round
under `_ideal_map_lock`. A request is one step from the server to its callback,
may fail (`MaxFaults`), and runs in any order with the others of its phase. A
session may end on the server at any time (`SessionLost`), which loses its
subscriptions there and not in the maps. `Stop` is in three steps. MCHaClient
has the constants of the runs. `BATCH_MI_SIZE` is larger than any request here.
Items fail one by one: a node the server does not know is no longer wanted, one
it refuses for another reason leaves the real map and stays wanted. A KeyError in
`update_nodes` ends the reconciliator, while the tasks it created before go on
and change the maps (`Abandon`).

### The proof modules

`PublishingProofs`, `DeliveryProofs`, `SecureChannelProofs`, `SessionsProofs`,
`MonitoredItemsProofs`, `HistoryProofs`, `TransportProofs` and
`HaClientProofs` EXTEND the module they are named after and hold its theorems,
see Proofs. `DeliveryProofs` also extends `PublishingProofs`: a step of the
composition is a step of the server or leaves it alone, so the server's
invariants hold there as they are.

## Runs

| Run | Shows |
|---|---|
| `publishing` | two subscriptions with loops, a queue whose limit is set, lowered and lifted while it holds notifications: order, numbering, what overflow may lose, retransmission store, deletion, fairness between subscriptions |
| `publishing_live` | one subscription with a loop, one immediate, data and event items without queue limit: pending notifications leave or the subscription ends; requests are used; loops end |
| `channel` | two renewals: nothing rejected, server never revolves first, each round completes at both ends and before the token expires |
| `sessions` | two connections, up to two sessions each, late watchdogs: exact count; `close()` leaves only sessions behind that CreateSession replaced in use; subscriptions of a lost connection end, except those without a loop whose `stop()` was cancelled or whose session was replaced |
| `delivery` | server and client composed: the refinement of NotificationStream, one publish request open at a time, which is enough to keep every subscription when the lifetime is a round trip for each of them; every notification arrives, however long messages take |
| `client` | connects, disconnects, losses and late answers in any order: every request, `connect()` and `disconnect()` end, a loss is noticed, no background task survives a disconnect, late answers are harmless |
| `items` | writes, items, subscriptions and nodes in any order: items have seen the value of their attribute; what a deleted subscription may leave behind |
| `history` | for values saved in the order of their times, which are different: retention by age and number is exact; a read by pages with a start repeats nothing, misses nothing that stays stored if it asks for all values, and ends |
| `transport` | negotiated limits agree and every chunk of a message other than OPN fits them; messages within them arrive, whole and in order, aborts and refusals between them |
| `ha` | rounds with failures: no lookup of the reconciliator fails, after a round without failure the maps agree, up to the attributes of nodes; in the end they agree in the session there is, if no round comes between a reset and the end of the old session |
| `ha_failover` | two servers: what is wanted follows the active client, a healthy client becomes active |
| `ha_shared` | expects a violation: a node that moves between two subscriptions shares one entry of `node_to_handle`, and the KeyError of a later unsubscription ends the reconciliator (finding in PROJECT.json) |

### Further configurations

Configurations beside the runs, each of which TLC answers with a
counterexample: the code deviates from what it, or OPC UA, says of itself.

| Configuration | Property | The code |
|---|---|---|
| `publishing_reset` | `RequestResetsCycleCount` | `publish()` does not reset the cycle count (`internal_subscription.py:214`): a subscription expires on the request it waited for |
| `publishing_store` | `StoredUntilAcknowledged` | `republish` removes the result from the store without an acknowledgement (`internal_subscription.py:18`) |
| `publishing_queue` | `QueueWithinSize` | a queue longer than a size lowered later stays longer at each enqueue (`internal_subscription.py:235`) |
| `publishing_expiry` | `ExpiredLeavesService` | an immediate subscription never completes its expiry (`internal_subscription.py:39`) |
| `channel_keys` | `NothingRejected` | four of five policies delete a key before the 125 % of the lifetime are over (`connection.py:355`) |
| `channel_reuse` | `NothingRejected` | two renewals in a row issue one token id for two sets of keys |
| `channel_exchange` | `ExchangeIsUnderWay` | a renewal that timed out blocks every later one (`ua_client.py:230`) |
| `delivery_late` | `TheLivingAreKnown` | with a lifetime one cycle shorter than a round trip for each subscription, one open publish request is not enough, as the comment at `ua_client.py:516` warns |
| `ha_reset` | `ConvergesAnyway` | a round between `url_to_reset.add` and the end of the session creates subscriptions in the session that ends (`ha_client.py:275`), and they are never created again |
| `sessions_orphan` | `NothingLeftInService` | a second CreateSession leaves the first session activated for ever (`uaprocessor.py:517`) |
| `client_hook` | `FailuresPropagate` | `disconnect()` drops `pre_request_hook`, only the constructor sets it (`client.py:77`, `client.py:696`): after a second `connect()` the failure of a background task is not raised by requests, as `ua_client.py:163` says it is |

### Bounds

- `publishing`: lifetime count 1 and keep-alive count 0 make a subscription
  expire after two cycles without a request and send a keep-alive every second
  cycle, so starvation, keep-alives and expiry all happen with three requests.
  Queues are unlimited or hold two; four changes are enough to fill a queue
  beyond a limit that is set afterwards and to overflow it again. The second
  subscription has one change and no limit, and each has at most two changes
  with the second request and one with the third (`BusyAndQuiet`): the properties of a queue need one
  busy item, those of the order two subscriptions. The retransmission
  store of one result is full after one message. `publishing_live` gives up
  timeouts and acknowledgement limits for an immediate subscription, event
  items and unlimited queues.
- `channel`: the lifetime of 20 ticks with a delay of one leaves the slack
  that the 75 % and 125 % of the code need (a token is in use for at most
  15 + 5 ticks after its creation, its messages arrive at most 22 after). Two
  renewals are enough for the previous token of one to be that of another;
  sequence numbers wrap at 4 and start just below the wrap.
- `sessions`: two connections with up to two sessions each and three in all, so
  that one connection replaces a session while another uses its own; two
  subscriptions, the second without a loop.
- `delivery`: two subscriptions, the first immediate; two items without queue
  limit, two changes, three calls at a time or in turn, five requests. Calls
  of the user overlap with a publish response on its way, a first notification
  that overtakes the answer with the item's id, and a last subscription that
  is deleted while another is created. A round trip is one cycle and the
  lifetime two, the least that two subscriptions need.
- `client` has no bound.
- `items`: one node with two attributes, two items, two subscriptions one of
  which suspends, two writers: two writes overlap, and callbacks come and go
  in a suspended one. Values and deadbands 0 and 1.
- `history`: two values or two units of time are kept, three are saved, pages
  of one: values are evicted and added between the pages of a read, in both
  directions; timestamps are late by up to one and may be equal. Five pages
  bound a read that repeats values; one that does not never meets the bound.
- `transport`: lengths of 36 and 100 bytes, one above what a chunk of 80 holds
  when encrypted and exactly what it holds when signed; chunk limits of none,
  two and three, so that messages within and over the limit are sent; OPN
  messages within and over the buffer. Two messages per side and one abort
  show what a refusal does to the message after it.
- `ha`: one server, one subscription, two nodes, one of which the server does
  not have, two attributes, so that a node can be subscribed again with the
  other one; two faults: one in a round and one in the round that repairs it.
  `ha_failover`: two servers without nodes and faults, levels NO_DATA and
  HEALTHY. `ha_shared`: one server, two subscriptions, one node.
- Deadlock is not checked where the bounds end all activity, or where a user
  who does nothing more is legal.

### Fairness

Only what asyncio guarantees: a task that is ready runs, a timer fires. In
Publishing the loops go on cycling and the `stop()` tasks run; in Sessions the
closing tasks and `stop()` tasks do, and a subscription that has a loop and
whose connection is lost reaches its lifetime count, since no request comes any
more; watchdogs need not find anything. Delivery adds that a message on the
connection arrives and is processed, and has only cycles with pending
notifications go on: requests are bounded, and fair cycles of an idle
subscription would spend them on keep-alives before anything is to be delivered.
Transport assumes that messages arrive, History that a page is answered. In ClientConnection the server may never
answer: requests end by their timers, and a transport that is closing reports
`connection_lost`. In HaClient a request ends, by its answer or its timeout, a
session that is lost is noticed by the keep-alive, and the failover gets the
lock in the end because `asyncio.Lock` serves in order of arrival (strong
fairness, as rounds of the reconciliator take the lock again and again). No
client, request, call or value change is assumed.

### What the models show of the code

Behaviour that reading and the models brought up, beyond the configurations
above; the properties are stated so as to hold with it.

- HA: subscribing a node again with other attributes is never reconciled, so that
  the maps are not equal after a reconciliation as `reconciliator.py:50` says;
  `unsubscribe` finds the subscription in the map of the first url only;
  `stop()` during a
  reconnection may leave a client connected; a create whose answer is lost is
  repeated, so that the server has the subscription twice.
- Client: `_subscription_callbacks` survives a reconnection; publish requests
  wait without a limit; a request that timed out and is never answered stays
  in `_callbackmap`; a data change handler that raises drops the values after it
  in the message, which is acknowledged all the same.
- Monitored items: deleting an item on an attribute other than Value of a
  deleted node raises KeyError, which ends `delete_all_monitored_items` before
  the other items; a subscription deleted in the middle of
  `create_monitored_items` keeps the items created after; `delete_nodes` calls
  callbacks without awaiting them; two writes that overlap may leave an item
  with the older value, and a callback removed while one is suspended ends
  the write with a RuntimeError; `_modify_monitored_item` calls
  `result.StatusCode(...)` for an unknown id, a TypeError; `delete_subscriptions`
  tests `res` instead of `stop_result`.
- History: a read without a start that needs a second page turns around and
  repeats or misses values, and ignores `end`; more values with one timestamp
  than fit a page make a read without end; `numvalues` above the page size
  yields one page; `read_event_history` never reads more than one page; values
  out of order of their times are kept beyond the period until those before
  them go; a node cannot be historized again after it was dehistorized;
  `update_history` appends results to the list it iterates.
- Transport: after a refused message the rest of its chunks is taken for a
  message of its own; `max_message_size` is negotiated and never enforced, and
  `create_hello_limits` copies the chunk count into it; the sender does not
  test the number of chunks; an abort counts as a chunk; an OPN chunk that is
  too large leaves the sequence number behind, so that what follows is refused,
  unless it was the first chunk of the connection.

## Proofs

The theorems hold for every value of the constants that the named assumption
of a module allows: any number of subscriptions, items, sessions, servers,
messages, and any setting of limits, periods and lifetimes. Where a theorem
needs more than that, the hypothesis is part of its statement and listed here.

### PublishingProofs

From `PublishingAssumption` alone:

- `TypeCorrect`: `TypeOK`.
- `QueuesMatch`, `NoRequestIsIdle`: `NoIdleRequest` and `AnsweredInOrder`. The
  inductive invariant is `NoIdleRequest` with `OrderInv`, which adds that no
  response or stored request has a number the counter has not reached.
  `NoIdleRequest` is needed for the order: a request is answered on arrival only
  when somebody waits, and then no older one is stored.
- `Lifetime`, `ExpiryStaysSilent`: `StarvedIsWaiting` and `ExpiryIsSilent`.
  `LifeInv` says of each subscription that a positive cycle count means it has
  results to publish, and that a queued status change means it is over its
  limit. The first is why the count of a subscription that the request loop
  passes by cannot be left positive; the second why a BadTimeout is never sent.
- `ServedInOrder`: the action property `NoOvertaking`, from `NoIdleRequest`.
- `StoppedForGood`: the action property `SilentWhenStopped`.
- `NumbersHaveNoGaps`, `StoreIsSound`, `NothingIsLost`: `NumberedWithoutGaps`,
  `RetransmissionStore`, `NothingLostButOverflow`. They share the invariant
  `SentInvariant`: for each subscription the numbers count the messages on the
  wire, the store holds numbers of such messages, and for each item what was
  sent and what is queued are in order, without overlap, and up to the last
  notification produced, and a gap comes only before what is as long as a queue
  size the client asked for (`FollowsOn`). It adds to the properties that
  nothing beyond `produced` is sent, that the sizes of queues are among those
  asked for, and that ids not given away yet are untouched (`Unused`). `StoryStep` reduces every
  action to one of a few things it can do to one subscription (`Story`), so
  that the argument about the wire is made once and not per action; it works
  because a step writes at most one response.

### DeliveryProofs

From `PublishingAssumption` and `DeliveryAssumption` (the client's publish
requests carry no TimeoutHint):

- `DTypeCorrect`; `ServerIsPublishing`: a behaviour of the composition is one of
  Publishing.
- `OneRequestIsOpen`: `OneOpenRequest`. `OpenInv` adds that no stored request
  can time out, that a response on its way is the last one written, and that
  the loop has ended only after a fault. The lemmas count publish messages in
  a queue and the answers a step of the server gives.
- `TheLivingStay`: `NoExpiryOfTheLiving`. `FreshInv` says that a new id is
  announced once and unknown to the client before that; `AliveInv` that a
  subscription is in the service from its creation until the server has the
  call that deletes it. The property itself says that `LifetimeCount` is at
  least `MaxSubs * RoundTrip`; `delivery_late` is a counterexample one cycle
  below. That no cycle count exceeds the lifetime is `Punctual`: a
  subscription that starves is in the waiting list, and its count and
  `RoundTrip` cycles for each place up to its own are at most `MaxSubs` round
  trips and the cycles of the present one. A cycle without a request adds one
  to both sides, a request moves the waiting ones up by a place and begins a
  new round trip. `OpenInv` and `NoIdleRequest` are needed for the first: a
  cycle that starves while nothing is under way would need the open request to
  be nowhere.
- `StreamsAreKept`: the refinement, Delivery implements NotificationStream.
  `HandedInv` links what a handler was called with to the part of the wire the
  publish task has dealt with; with `SentInvariant` every step is a step of
  the streams or a stutter.

### SecureChannelProofs

- `TypeCorrect`, `ServerFollows`: `ClientRevolvesFirst` with any number of
  renewals by the loop and the application, time-outs and rejections included.
  `IdInv` orders the token ids of both ends and of everything under way, at most
  one apart, and says that one exchange is under way at a time.
- `NothingIsRejected`, `RenewalsComplete`, `TokensAreRenewed`:
  `NothingRejected`, `RenewalIsComplete` and `RenewedBeforeExpiry`.
  Hypotheses: `LoopRenews`, the client's `_renew_channel_loop` is the only one
  that renews; `FastNetwork`, a message takes at most a twentieth of the
  lifetime, and a key is kept for three quarters of it and 6 delays. Without
  the first the configuration `channel_reuse`, without the second
  `channel_keys` is a counterexample. For the four policies that keep a key
  for the lifetime alone the second comes to a delay of at most a 24th of it.
  The run `channel` satisfies both (20 ticks, delay 1, keys for 25). The
  invariant `SafeInv` has seven parts. `Timely`: queues keep the order of
  sending and no message is late. `Chains`: the sequence numbers under way
  lead from the last received to the last sent, through the wrap. `Level` or
  `Ahead`: either both ends use the same token, and what the server has sent
  under the previous one comes first and is in its `Window`; or the client has
  revolved, a message under the new token is on its way, and everything from
  the server is still under the old one. `Tasks`, `Completion` and `Renewal`
  tie these phases to the loop and the exchange, and `Clock` bounds when the
  token was made, the loop slept and asked. `Margins` is the arithmetic of the
  75 % after which the loop renews and the 125 % for which the old token is
  good.

### SessionsProofs

- `CountExact`: `CountIsExact`, from the types: a session is counted up and down
  by the same test of its state, whoever closes it.
- `OnlyReplacedRemain`: `OnlyReplacedAreLeft`, for any number of connections,
  sessions and watchdogs, without a hypothesis on the clients. `LeftInv` adds
  that a connection without a socket takes no request, that connections share no
  session, that subscriptions belong to sessions that exist, and that a session
  that was not in use when it was replaced is not active and owns nothing for
  good: activation and creation are only for the session the processor has.
  `sessions_orphan` is the counterexample for the sessions replaced in use.

### MonitoredItemsProofs

- `ItemsUpToDate`: `ItemsAreUpToDate`. `Progress` describes a suspended write: at
  a place that nothing disturbed there is one, and the items up to the
  suspended callback have seen its value. `Placed`, `Known` and `DeadNodes`
  relate items, handles and callbacks.
- `LeftoversExplained`: `LeftoversNeedDeletedNode`, from the same invariant: the
  KeyError that ends `delete_all_monitored_items` needs a handle of a deleted
  node, which only an attribute other than Value keeps.

### HistoryProofs

- `Retention`: `RetentionIsExact`. Popping at most one value for `Count` is
  enough because every save restores the limit; values in order of their times
  make the ones that are too old a prefix.
- `CompleteReads`: `ReadIsComplete`. `ReadInv` says that everything that comes
  before the continuation point, in the direction of the read, has been read
  as far as it stays stored, and nothing after it. The property is about reads
  with a start and values saved in the order of their times, which are
  different; completeness about reads without `numvalues`. The code has no more
  to offer, see above.

### TransportProofs

- `LimitsAreKept`: `LimitsHold`, about the size of chunks of messages other than
  OPN; the number of chunks of a message is not tested by the sender. The lemmas are about the padding and the
  largest body of a chunk: the padded chunk never exceeds the limit, for every
  block size, signature and buffer, and one byte more would need another block.
- `MessagesAreWhole`: `DeliveredWhole`. `Linked` says, per direction, that what
  is on its way are whole messages in order (`Chained`), what the receiver has
  is the beginning of the one that comes next (`PartsFit`, `Expected`), or any
  if it has taken no chunk yet, and that nothing is in sequence any more once it
  has refused an OPN chunk after one it took (`OutOfSequence`). Messages over
  the limits are excepted: what is left of one after the refusal is delivered.

### HaClientProofs

- `IdealIsActive`: `IdealFollowsActive`.
- `LookupsAlwaysSucceed`: `LookupsSucceed`. Hypothesis `NodesApart`: a node is in
  one subscription only; `ha_shared` is the counterexample without it.
- `RoundsAchieve`: `RoundAchieves`, for rounds in which no request failed and no
  node was refused. `Agree` leaves out the attributes of nodes: `_nodes_to_add`
  does not see that an attribute changed.

The invariant says what each phase of a round may assume (`TasksFit`), that
what is not wanted goes in the first phase (`Unwanted`), and that what is left
to do is what the remaining requests will do (`Covered`), while the user's
calls and the failover wait for the lock.

### Only model-checked

Liveness (`PendingLeavesOrSubscriptionEnds`, `RequestsAreUsed`, `LoopEnds`,
`LostConnectionEndsSubscriptions`, `EveryNotificationArrives`, `RequestsEnd`,
`LossIsNoticed`, `BackgroundEnds`, `ReadEnds`, `SentArrives`, `Converges`,
`FailsOver`), since neither fairness nor ENABLED is in the prover's reach.
`LateAnswersAreHarmless` of ClientConnection, whose state space has no bound to
generalise: the run covers every behaviour of the model. What does not hold
(`ha_shared` and the further configurations) is shown by counterexamples.

## Plan

Every invariant and every safety property of an action that the runs check is
proved, except the one of ClientConnection. What is left:

1. Steps that several liveness arguments rest on and that are plain safety: a
   subscription over its lifetime leaves the service at its next cycle, and a
   page of a history read gets nearer to its end.
2. `NothingIsRejected` for servers and clients whose clocks differ by a bound,
   which needs two clocks in SecureChannel.

## Not modelled

Encoding, XML import and export, nodes and their creation, tools and file
transfer keep no state that several tasks change. Users, permissions, trust
store and certificates are decisions over data. Cryptography is a library: a
key either fits or does not. The synchronous wrapper hands calls to the event
loop of a thread. Browsing, references and methods of the address space are
sequential operations on one dictionary; where clauses of event filters are
evaluation of data; the SQL history is I/O.

Nine tenths of the lines of the implementation are generated tables
(`standard_address_space_services.py` with 224057 lines, `object_ids.py`,
`uaprotocol_auto.py`, `event_objects.py`): data, without behaviour to model.
The modules cover what runs over them.
