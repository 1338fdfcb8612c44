----------------------------- MODULE Publishing -----------------------------
(***************************************************************************)
(* The publishing half of the server for one client connection: the        *)
(* InternalSubscription objects of the session, the SubscriptionService    *)
(* that registers them, and the two queues of the UaProcessor that match   *)
(* publish requests with subscriptions that have something to say.         *)
(*                                                                         *)
(* Everything runs on one asyncio event loop, so a step of the model is    *)
(* the code between two points where a coroutine really suspends.          *)
(* publish_results suspends nowhere for a client subscription, therefore a *)
(* cycle of the subscription loop and the handling of a PublishRequest are *)
(* one step each.  delete_subscriptions is two kinds of steps: the ids are *)
(* popped at once, each sub.stop() runs later as a task of its own.        *)
(***************************************************************************)
EXTENDS Naturals, Sequences, SequencesExt, FiniteSets

CONSTANTS
    MaxSubs,           \* bound: subscriptions ever created
    DataItems,         \* monitored items for data changes, per subscription
    EventItems,        \* monitored items for events, per subscription
    QueueSizes,        \* the queue sizes a client asks for, 0 = no limit
    Immediate,         \* subscriptions whose RevisedPublishingInterval is <= 0
    LifetimeCount,     \* RevisedLifetimeCount
    MaxKeepAliveCount, \* RevisedMaxKeepAliveCount
    NoAcksLimit,       \* _no_acks_limit (500 in the code)
    RecursionDepth,    \* nested calls after which Python raises RecursionError
    Hints,             \* "fresh" for a TimeoutHint # 0, "none" for 0
    MaxRequests,       \* bound: publish requests received
    MaxChanges         \* bound: notifications triggered per item

Subs == 1 .. MaxSubs
Items == DataItems \cup EventItems

ASSUME PublishingAssumption ==
    /\ MaxSubs \in Nat /\ Immediate \subseteq Subs
    /\ DataItems \cap EventItems = {}
    /\ QueueSizes \subseteq Nat
    /\ LifetimeCount \in Nat /\ MaxKeepAliveCount \in Nat
    /\ NoAcksLimit \in Nat \ {0} /\ RecursionDepth \in Nat \ {0}
    /\ Hints \subseteq {"none", "fresh"}
    /\ MaxRequests \in Nat /\ MaxChanges \in Nat

VARIABLES
    sub,          \* sub[s]: the InternalSubscription with id s
    subCounter,   \* SubscriptionService._sub_id_counter, less its start value
    reqs,         \* UaProcessor._publish_requests
    waiting,      \* UaProcessor._publish_results_subs, in insertion order
    reqCounter,   \* publish requests received so far
    wire,         \* responses to publish requests, as written to the transport
    produced      \* produced[s][m]: notifications triggered so far for item m

vars == <<sub, subCounter, reqs, waiting, reqCounter, wire, produced>>

-----------------------------------------------------------------------------
(* Data.                                                                   *)

\* PublishRequestData: a request without TimeoutHint, one whose hint has not
\* run out, one whose hint has.
Request == [id : Nat, hint : {"none", "fresh", "late"}]

NoData == [m \in Items |-> << >>]

\* task: is _task set; loop: is the task of _subscription_loop running, has
\* it ended, or was there never one.  items are the keys of the monitored
\* item service, size their queue_size.  data[m] is _triggered_datachanges
\* (or _triggered_events) at m, << >> when m is not a key; status is the
\* length of _triggered_statuschanges; unacked holds the keys of
\* _not_acknowledged_results (they are inserted in increasing order).
Subscription ==
    [registered : BOOLEAN, task : BOOLEAN, closing : BOOLEAN,
     loop : {"none", "active", "done"},
     items : SUBSET Items, size : [Items -> Nat],
     startup : BOOLEAN, keepAlive : Nat, cycles : Nat, seq : Nat,
     unacked : SUBSET Nat, data : [Items -> Seq(Nat)], status : Nat]

\* The state InternalSubscription.__init__ leaves, before start().
Unborn ==
    [registered |-> FALSE, task |-> FALSE, closing |-> FALSE,
     loop |-> "none", items |-> {}, size |-> [m \in Items |-> 0],
     startup |-> TRUE, keepAlive |-> 0, cycles |-> 0, seq |-> 1,
     unacked |-> {}, data |-> NoData, status |-> 0]

\* A PublishResponse (fault = FALSE) or a ServiceFault, for request req.
Response ==
    [req : Nat, fault : BOOLEAN, sub : Nat, seq : Nat,
     data : [Items -> Seq(Nat)], status : BOOLEAN, available : SUBSET Nat]

-----------------------------------------------------------------------------
(* InternalSubscription.publish_results, by parts.                         *)

Expired(x) == x.cycles > LifetimeCount

\* has_published_results: the part that decides.  Status changes alone are
\* no reason to publish.
HasResults(x) ==
    \/ x.startup
    \/ x.data # NoData
    \/ x.keepAlive > MaxKeepAliveCount

\* Mutation of CountIdle: idle cycles are not counted.
CountIdle_Never(x) == x

\* has_published_results: the part that counts an idle cycle.
CountIdle(x) == [x EXCEPT !.keepAlive = @ + 1]

\* The lifetime of the subscription is over: queue BadTimeout, end the loop,
\* leave the service, delete the monitored items.
Expire(x) ==
    [x EXCEPT !.status = @ + 1, !.closing = x.closing \/ x.task,
              !.task = FALSE, !.registered = FALSE, !.items = {}]

\* The same for a subscription without a loop: enqueue_statuschange calls
\* _trigger_publish, that calls publish_results, which finds the count still
\* over the limit and queues the next BadTimeout, until Python gives up.
ExpireRecursively(x) == [x EXCEPT !.status = @ + RecursionDepth]

\* Mutation of CountCycle: cycles without a request are not counted.
CountCycle_Never(x) == x

\* No publish request at hand: try again next cycle.
CountCycle(x) == [x EXCEPT !.cycles = @ + 1]

HasNotifications(x) == x.data # NoData \/ x.status > 0

\* Mutation of Remember: no limit.
Remember_Unlimited(unacked, n) == unacked \cup {n}

\* _not_acknowledged_results[seq] = result; popitem() when there are too
\* many takes the entry inserted last.
Remember(unacked, n) ==
    IF Cardinality(unacked) + 1 > NoAcksLimit THEN unacked
                                              ELSE unacked \cup {n}

\* Mutation of Popped: a keep-alive uses up a sequence number.
Popped_NumbersKeepAlives(x) ==
    [x EXCEPT !.data = NoData, !.status = IF @ > 0 THEN @ - 1 ELSE 0,
              !.keepAlive = 0, !.cycles = 0, !.startup = FALSE,
              !.seq = @ + 1, !.unacked = Remember(@, x.seq)]

\* Mutation of Popped: pops a status change although there is none.
Popped_Unguarded(x) ==
    [x EXCEPT !.data = NoData, !.status = @ - 1,
              !.keepAlive = 0, !.cycles = 0, !.startup = FALSE]

\* _pop_publish_result: the subscription after everything queued went out.
Popped(x) ==
    [x EXCEPT !.data = NoData,
              !.status = IF @ > 0 THEN @ - 1 ELSE 0,
              !.keepAlive = 0, !.cycles = 0, !.startup = FALSE,
              !.seq = IF HasNotifications(x) THEN @ + 1 ELSE @,
              !.unacked = IF HasNotifications(x) THEN Remember(@, x.seq)
                                                 ELSE @]

\* The PublishResult of _pop_publish_result, as forward_publish_response
\* sends it in answer to request r.
Result(s, x, r) ==
    [req |-> r.id, fault |-> FALSE, sub |-> s, seq |-> x.seq,
     data |-> x.data, status |-> x.status # 0,
     available |-> Popped(x).unacked]

\* The answer process_message gives when the handler raised.
Fault(r) ==
    [req |-> r.id, fault |-> TRUE, sub |-> 0, seq |-> 0,
     data |-> NoData, status |-> FALSE, available |-> {}]

-----------------------------------------------------------------------------
(* publish_results() as the loop and _trigger_publish call it.             *)

\* get_publish_request drops requests from the front until one is usable.
UsableIndexes == {i \in 1 .. Len(reqs) : reqs[i].hint # "late"}

\* Mutation of Enlist: the subscription is not called back.
Enlist_Forgets(s) == waiting

\* No usable request: only one callback is stored per subscription.
Enlist(s) == IF s \in ToSet(waiting) THEN waiting ELSE Append(waiting, s)

\* The test of _closing after each call in _subscription_loop.
LoopTest(x) ==
    [x EXCEPT !.loop = IF @ = "active" /\ x.closing THEN "done" ELSE @]

\* publish_results() for subscription s in state x.
PublishResults(s, x) ==
    \/ /\ Expired(x)
       /\ sub' = [sub EXCEPT ![s] =
              LoopTest(IF s \in Immediate THEN ExpireRecursively(x)
                                          ELSE Expire(x))]
       /\ UNCHANGED <<reqs, waiting, wire>>
    \/ /\ ~Expired(x) /\ ~HasResults(x)
       /\ sub' = [sub EXCEPT ![s] = LoopTest(CountIdle(x))]
       /\ UNCHANGED <<reqs, waiting, wire>>
    \/ /\ ~Expired(x) /\ HasResults(x)
       /\ UsableIndexes = {}
       /\ reqs' = << >>
       /\ waiting' = Enlist(s)
       /\ sub' = [sub EXCEPT ![s] = LoopTest(CountCycle(x))]
       /\ UNCHANGED wire
    \/ /\ ~Expired(x) /\ HasResults(x)
       /\ \E k \in UsableIndexes :
             /\ \A i \in UsableIndexes : k <= i
             /\ reqs' = SubSeq(reqs, k + 1, Len(reqs))
             /\ wire' = Append(wire, Result(s, x, reqs[k]))
       /\ sub' = [sub EXCEPT ![s] = LoopTest(Popped(x))]
       /\ UNCHANGED waiting

-----------------------------------------------------------------------------
(* Operations.                                                             *)

Init ==
    /\ sub = [s \in Subs |-> Unborn]
    /\ subCounter = 0
    /\ reqs = << >> /\ waiting = << >>
    /\ reqCounter = 0
    /\ wire = << >>
    /\ produced = [s \in Subs |-> [m \in Items |-> 0]]

\* A new subscription, after start(): its loop runs unless it publishes
\* immediately.
Started(loops) ==
    [Unborn EXCEPT !.registered = TRUE, !.task = loops,
                   !.loop = IF loops THEN "active" ELSE "none"]

\* SubscriptionService.create_subscription.
CreateSubscription ==
    /\ subCounter < MaxSubs
    /\ subCounter' = subCounter + 1
    /\ sub' = [sub EXCEPT ![subCounter + 1] =
          Started(subCounter + 1 \notin Immediate)]
    /\ UNCHANGED <<reqs, waiting, reqCounter, wire, produced>>

\* Mutation of Enqueued: a full queue refuses the notification.
Enqueued_Refuses(q, size, n) ==
    IF q # << >> /\ size # 0 /\ Len(q) >= size THEN q ELSE Append(q, n)

\* _enqueue_event: the queue q of an item, limited to size, after n.
Enqueued(q, size, n) ==
    IF q # << >> /\ size # 0 /\ Len(q) >= size
    THEN Append(Tail(q), n)
    ELSE Append(q, n)

Queued(x, m, n) == [x EXCEPT !.data[m] = Enqueued(@, x.size[m], n)]

\* enqueue_datachange_event or enqueue_event for item m of subscription s in
\* state x.  Only the first notification of an item calls _trigger_publish,
\* and that publishes only if there is no loop.
Enqueue(s, x, m) ==
    /\ produced[s][m] < MaxChanges
    /\ produced' = [produced EXCEPT ![s][m] = @ + 1]
    /\ LET y == Queued(x, m, produced[s][m] + 1)
       IN \/ /\ x.data[m] = << >> /\ s \in Immediate
             /\ PublishResults(s, y)
          \/ /\ ~(x.data[m] = << >> /\ s \in Immediate)
             /\ sub' = [sub EXCEPT ![s] = y]
             /\ UNCHANGED <<reqs, waiting, wire>>

\* A data change passes the filter of item m, or an event its where clause.
Notify(s, m) ==
    /\ m \in sub[s].items
    /\ Enqueue(s, sub[s], m)
    /\ UNCHANGED <<subCounter, reqCounter>>

\* _commit_monitored_item, and the queue_size that items are modified to.
WithItem(x, m, size) ==
    [x EXCEPT !.items = @ \cup {m}, !.size[m] = size]

\* create_monitored_items.  The ids are never used twice.  An item for data
\* changes is notified of the current value at once.
CreateMonitoredItem(s, m, size) ==
    /\ sub[s].registered
    /\ m \notin sub[s].items /\ produced[s][m] = 0
    /\ LET x == WithItem(sub[s], m, size)
       IN \/ /\ m \in DataItems
             /\ Enqueue(s, x, m)
          \/ /\ m \in EventItems
             /\ sub' = [sub EXCEPT ![s] = x]
             /\ UNCHANGED <<reqs, waiting, wire, produced>>
    /\ UNCHANGED <<subCounter, reqCounter>>

\* modify_monitored_items: what is queued is left as it is.
ModifyMonitoredItem(s, m, size) ==
    /\ sub[s].registered /\ m \in sub[s].items
    /\ sub' = [sub EXCEPT ![s] = WithItem(sub[s], m, size)]
    /\ UNCHANGED <<subCounter, reqs, waiting, reqCounter, wire, produced>>

WithoutItem(x, m) == [x EXCEPT !.items = @ \ {m}]

\* delete_monitored_items: what is queued is left and will be published.
DeleteMonitoredItem(s, m) ==
    /\ sub[s].registered /\ m \in sub[s].items
    /\ sub' = [sub EXCEPT ![s] = WithoutItem(sub[s], m)]
    /\ UNCHANGED <<subCounter, reqs, waiting, reqCounter, wire, produced>>

\* Mutation of PublishCycle: a closing loop waits for another round.
PublishCycle_Hangs(s) ==
    /\ sub[s].loop = "active" /\ ~sub[s].closing
    /\ PublishResults(s, sub[s])
    /\ UNCHANGED <<subCounter, reqCounter, produced>>

\* One round of _subscription_loop.
PublishCycle(s) ==
    /\ sub[s].loop = "active"
    /\ PublishResults(s, sub[s])
    /\ UNCHANGED <<subCounter, reqCounter, produced>>

\* A stored publish request grows older than its TimeoutHint.
RequestTimesOut ==
    /\ \E i \in 1 .. Len(reqs) :
          /\ reqs[i].hint = "fresh"
          /\ reqs' = [reqs EXCEPT ![i].hint = "late"]
    /\ UNCHANGED <<sub, subCounter, waiting, reqCounter, wire, produced>>

-----------------------------------------------------------------------------
(* The PublishRequest branch of _process_message.                          *)

\* The acknowledgements that have an effect; publish() ignores the others.
Acks == UNION {{s} \X sub[s].unacked :
                   s \in {t \in Subs : sub[t].registered}}

\* InternalSubscription.publish.
Acknowledged(x, acks) ==
    [x EXCEPT !.unacked = @ \ acks]

\* SubscriptionService.publish: every registered subscription is told the
\* acknowledgements that carry its id.
AfterAcks(acks) ==
    [s \in Subs |->
        IF sub[s].registered
        THEN Acknowledged(sub[s], {a[2] : a \in {b \in acks : b[1] = s}})
        ELSE sub[s]]

\* Mutation of Publishes: the subscription need not be in the service.
Publishes_Unregistered(x) == ~Expired(x) /\ HasResults(x)

\* The loop over _publish_results_subs ends at a subscription that publishes
\* and at one whose expiry raises RecursionError.
Publishes(x) == x.registered /\ ~Expired(x) /\ HasResults(x)
Raises(s, x) == x.registered /\ Expired(x) /\ s \in Immediate

Stops(after) ==
    {i \in 1 .. Len(waiting) :
        \/ Publishes(after[waiting[i]])
        \/ Raises(waiting[i], after[waiting[i]])}

\* It goes on after one that is gone, that expires or that has no results.
PassedBy(x) ==
    IF x.registered THEN IF Expired(x) THEN Expire(x) ELSE CountIdle(x)
                    ELSE x

\* The subscriptions after the loop has passed the first n that waited.
AfterPassing(after, n) ==
    [s \in Subs |-> IF s \in {waiting[i] : i \in 1 .. n} THEN PassedBy(after[s])
                                                         ELSE after[s]]

\* Mutation of PublishRequest: only one waiting subscription is tried.
PublishRequest_TriesOne(acks, hint) ==
    /\ reqCounter < MaxRequests
    /\ reqCounter' = reqCounter + 1
    /\ LET r == [id |-> reqCounter + 1, hint |-> hint]
           after == AfterAcks(acks)
       IN \/ /\ 1 \notin Stops(after)
             /\ sub' = AfterPassing(after, IF waiting = << >> THEN 0 ELSE 1)
             /\ waiting' = SubSeq(waiting, 2, Len(waiting))
             /\ reqs' = Append(reqs, r)
             /\ UNCHANGED wire
          \/ /\ 1 \in Stops(after)
             /\ Publishes(after[waiting[1]])
             /\ sub' = [after EXCEPT ![waiting[1]] = Popped(@)]
             /\ wire' = Append(wire, Result(waiting[1], after[waiting[1]], r))
             /\ waiting' = Tail(waiting)
             /\ UNCHANGED reqs
    /\ UNCHANGED <<subCounter, produced>>

\* The request goes to the first waiting subscription that publishes; when
\* there is none it is stored.  A RecursionError is answered with a fault.
PublishRequest(acks, hint) ==
    /\ reqCounter < MaxRequests
    /\ reqCounter' = reqCounter + 1
    /\ LET r == [id |-> reqCounter + 1, hint |-> hint]
           after == AfterAcks(acks)
       IN \/ /\ Stops(after) = {}
             /\ sub' = AfterPassing(after, Len(waiting))
             /\ waiting' = << >>
             /\ reqs' = Append(reqs, r)
             /\ UNCHANGED wire
          \/ \E k \in Stops(after) :
             /\ \A i \in Stops(after) : k <= i
             /\ LET t == waiting[k]
                IN \/ /\ Publishes(after[t])
                      /\ sub' = [AfterPassing(after, k - 1) EXCEPT
                                    ![t] = Popped(after[t])]
                      /\ wire' = Append(wire, Result(t, after[t], r))
                   \/ /\ Raises(t, after[t])
                      /\ sub' = [AfterPassing(after, k - 1) EXCEPT
                                    ![t] = ExpireRecursively(after[t])]
                      /\ wire' = Append(wire, Fault(r))
             /\ waiting' = SubSeq(waiting, k + 1, Len(waiting))
             /\ UNCHANGED reqs
    /\ UNCHANGED <<subCounter, produced>>

-----------------------------------------------------------------------------

\* SubscriptionService.republish, InternalSubscription.republish: the stored
\* result is popped from the store and sent.
Republish(s, n) ==
    /\ sub[s].registered
    /\ sub' = [sub EXCEPT ![s] = Acknowledged(sub[s], {n})]
    /\ UNCHANGED <<subCounter, reqs, waiting, reqCounter, wire, produced>>

\* The first half of delete_subscriptions: the ids leave the service.  The
\* request may come from any session of the server.
DeleteSubscriptions(ids) ==
    /\ ids # {} /\ \A s \in ids : sub[s].registered
    /\ sub' = [s \in Subs |-> IF s \in ids
                              THEN [sub[s] EXCEPT !.registered = FALSE]
                              ELSE sub[s]]
    /\ UNCHANGED <<subCounter, reqs, waiting, reqCounter, wire, produced>>

\* InternalSubscription.stop.  After an expiry _task is None, and the loop
\* is left to end by itself.
Halted(x) ==
    [x EXCEPT !.closing = x.closing \/ x.task,
              !.loop = IF x.task THEN "done" ELSE @,
              !.task = FALSE, !.items = {}]

\* The second half, a task per subscription.
StopSubscription(s) ==
    /\ s <= subCounter /\ ~sub[s].registered
    /\ sub[s].task \/ sub[s].items # {}
    /\ sub' = [sub EXCEPT ![s] = Halted(sub[s])]
    /\ UNCHANGED <<subCounter, reqs, waiting, reqCounter, wire, produced>>

Next ==
    \/ CreateSubscription
    \/ \E s \in Subs, m \in Items :
          \/ Notify(s, m)
          \/ \E size \in QueueSizes : CreateMonitoredItem(s, m, size)
          \/ \E size \in QueueSizes : ModifyMonitoredItem(s, m, size)
          \/ DeleteMonitoredItem(s, m)
    \/ \E s \in Subs : PublishCycle(s)
    \/ RequestTimesOut
    \/ \E acks \in SUBSET Acks, hint \in Hints : PublishRequest(acks, hint)
    \/ \E s \in Subs : \E n \in sub[s].unacked : Republish(s, n)
    \/ \E ids \in SUBSET Subs : DeleteSubscriptions(ids)
    \/ \E s \in Subs : StopSubscription(s)

Spec == Init /\ [][Next]_vars

\* Every asyncio task that is ready runs: the loops go on cycling and the
\* stop tasks of delete_subscriptions are executed.  Nothing is assumed of the
\* client or of the values it monitors.
Fairness ==
    /\ \A s \in Subs : WF_vars(PublishCycle(s))
    /\ \A s \in Subs : WF_vars(StopSubscription(s))

FairSpec == Spec /\ Fairness

-----------------------------------------------------------------------------
(* Properties.                                                             *)

\* Every variable has the shape the code gives it.
TypeOK ==
    /\ sub \in [Subs -> Subscription]
    /\ subCounter \in 0 .. MaxSubs
    /\ reqs \in Seq(Request)
    /\ waiting \in Seq(Subs)
    /\ reqCounter \in 0 .. MaxRequests
    /\ wire \in Seq(Response)
    /\ produced \in [Subs -> [Items -> Nat]]

\* The two queues of UaProcessor are never both in use: no publish request
\* is kept while a subscription waits for one.  Otherwise each side would
\* wait for the other until a timeout.
NoIdleRequest == waiting # << >> => reqs = << >>

\* A subscription that counts cycles towards its expiry, because it found no
\* publish request, is in _publish_results_subs, so that the next request
\* reaches it.
StarvedIsWaiting ==
    \A s \in Subs :
        sub[s].registered /\ sub[s].cycles > 0 /\ ~Expired(sub[s])
            => s \in ToSet(waiting)

\* A publish request is answered at most once, and responses leave in the
\* order of their requests, although a request may be answered on arrival,
\* by a later loop cycle of any subscription, or be dropped by its hint.
AnsweredInOrder ==
    /\ \A i, j \in DOMAIN wire : i < j => wire[i].req < wire[j].req
    /\ \A i, j \in DOMAIN reqs : i < j => reqs[i].id < reqs[j].id
    /\ \A i \in DOMAIN wire, j \in DOMAIN reqs : wire[i].req < reqs[j].id

Carries(w) == w.data # NoData \/ w.status

\* The responses of subscription s, by their place on the wire.
SentBy(s) == {i \in DOMAIN wire : ~wire[i].fault /\ wire[i].sub = s}

\* How many of the first n responses are notification messages of s.
Carried(s, n) == Cardinality({i \in 1 .. n : i \in SentBy(s) /\ Carries(wire[i])})

\* SequenceNumber: the notification messages of a subscription are numbered
\* 1, 2, 3, ... without a gap, and a keep-alive carries the number of the
\* notification message that follows it.
NumberedWithoutGaps ==
    \A s \in Subs :
        /\ \A i \in SentBy(s) : wire[i].seq = 1 + Carried(s, i - 1)
        /\ sub[s].seq = 1 + Carried(s, Len(wire))

\* Notifications of item m that were sent.
Gone(s, m) == UNION {ToSet(wire[i].data[m]) : i \in SentBy(s)}

Consecutive(q) == \A i \in 2 .. Len(q) : q[i] = q[i - 1] + 1

\* The notifications q of an item, a message's or the queue's, where those in G
\* were sent: q starts where another message ends, unless it is as long as one
\* of the queue sizes.
FollowsOn(q, G) ==
    q # << >> => \/ q[1] = 1 \/ q[1] - 1 \in G
                 \/ \E size \in QueueSizes \ {0} : Len(q) >= size

\* Nothing is published twice or out of order, and the newest notification was
\* sent or is queued.  Only a full queue loses any: whatever is sent or queued
\* after a gap fills a queue size the client has asked for.  So nothing is lost
\* by an expiry, by waiting for a request, by deleting the item, nor by a queue
\* without a limit, before and after its size is modified.
NothingLostButOverflow ==
    \A s \in Subs, m \in Items :
        LET q == sub[s].data[m]
        IN /\ \A i \in SentBy(s) : Consecutive(wire[i].data[m])
           /\ \A i, j \in SentBy(s) : i < j =>
                 \A a \in ToSet(wire[i].data[m]), b \in ToSet(wire[j].data[m]) : a < b
           /\ \A a \in Gone(s, m), b \in ToSet(q) : a < b
           /\ Consecutive(q) /\ (q # << >> => q[Len(q)] = produced[s][m])
           /\ produced[s][m] \in {0} \cup Gone(s, m) \cup ToSet(q)
           /\ FollowsOn(q, Gone(s, m))
           /\ \A i \in SentBy(s) : FollowsOn(wire[i].data[m], Gone(s, m))

\* AvailableSequenceNumbers: only numbers of notification messages that were
\* sent on this subscription, and never more than _no_acks_limit.
RetransmissionStore ==
    \A s \in Subs :
        /\ Cardinality(sub[s].unacked) <= NoAcksLimit
        /\ \A n \in sub[s].unacked : \E i \in SentBy(s) :
               wire[i].seq = n /\ Carries(wire[i])

\* internal_subscription.py:133, "this will never be send": a subscription
\* that expires cannot tell its client.
ExpiryIsSilent == \A i \in DOMAIN wire : ~wire[i].status

Stopped(s) ==
    /\ s <= subCounter /\ ~sub[s].registered
    /\ sub[s].loop # "active" /\ sub[s].items = {}

\* Once a deleted or expired subscription has stopped it publishes nothing,
\* even if its id is still in _publish_results_subs, and it stays stopped.
SilentWhenStopped ==
    [][\A s \in Subs : Stopped(s) =>
          /\ Stopped(s)'
          /\ Len(wire') > Len(wire) => Last(wire').sub # s]_vars

\* A subscription in _publish_results_subs is not overtaken: as long as it
\* could publish, the responses go to it or to those enlisted before it.
NoOvertaking ==
    [][\A i \in DOMAIN waiting :
          Publishes(sub[waiting[i]]) /\ Len(wire') > Len(wire) =>
              \/ Last(wire').fault
              \/ \E j \in 1 .. i : waiting[j] = Last(wire').sub]_vars

\* Notifications of a subscription with a loop are published, or the
\* subscription is gone: the cycles without a request are counted.
PendingLeavesOrSubscriptionEnds ==
    \A s \in Subs \ Immediate :
        sub[s].registered /\ sub[s].data # NoData
            ~> sub[s].data = NoData \/ ~sub[s].registered

\* A publish request without a TimeoutHint does not stay in the queue as
\* long as there is a subscription whose keep-alives can use it.
RequestsAreUsed ==
    \A r \in 1 .. MaxRequests :
        /\ \E i \in DOMAIN reqs : reqs[i].id = r
        /\ \E s \in Subs \ Immediate : sub[s].registered
        ~> \/ \A i \in DOMAIN reqs : reqs[i].id # r
           \/ \A s \in Subs \ Immediate : ~sub[s].registered

\* The loop of a subscription that was deleted or has expired ends.
LoopEnds ==
    \A s \in Subs :
        s <= subCounter /\ ~sub[s].registered ~> sub[s].loop # "active"

-----------------------------------------------------------------------------
(* Statements of the code's own documentation that the code does not keep. *)

\* InternalSubscription.publish, "Reset publish cycle count": a client that
\* sends a publish request has shown that it lives, the request does not
\* make a subscription expire.
RequestResetsCycleCount ==
    [][reqCounter' # reqCounter =>
          \A s \in Subs : sub[s].registered => sub'[s].registered]_vars

\* InternalSubscription, "stores the Publication Results until they are
\* acknowledged": only a publish request removes results from the store.
StoredUntilAcknowledged ==
    [][reqCounter' = reqCounter =>
          \A s \in Subs : sub[s].unacked \subseteq sub'[s].unacked]_vars

\* enqueue_datachange_event, "Max queue size (0: No limit)": it leaves the
\* queue of the item no longer than the size.
QueueWithinSize ==
    [][\A s \in Subs, m \in Items :
          produced'[s][m] # produced[s][m] /\ sub'[s].size[m] # 0
              => Len(sub'[s].data[m]) <= sub'[s].size[m]]_vars

\* InternalSubscription, delete_callback is called "when the subscription is
\* stopped due to the publish count exceeding the RevisedLifetimeCount": a
\* subscription over the limit leaves the service when it next publishes.
ExpiredLeavesService ==
    [][\A s \in Subs : sub'[s].status > sub[s].status
          => ~sub'[s].registered]_vars

=============================================================================
