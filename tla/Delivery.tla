------------------------------ MODULE Delivery ------------------------------
(***************************************************************************)
(* The publishing server of module Publishing together with the client it  *)
(* publishes to: UaClient with its publish loop and its callbacks, and the *)
(* Subscription objects with their maps of monitored items.  One TCP       *)
(* connection carries requests and answers, in order in each direction.    *)
(*                                                                         *)
(* An answer that arrives resolves a future.  The task that awaits it runs *)
(* later, and the task of the user may run before or after the publish     *)
(* task: wait_for with a timeout takes one turn of the event loop more     *)
(* than wait_for without one.                                              *)
(***************************************************************************)
EXTENDS Publishing

CONSTANTS
    RoundTrip,     \* publishing cycles that an answer on its way to the client
                   \* and the next request on its way back take together
    MaxCalls       \* bound: calls of the user, any number at a time

\* publish() sends no TimeoutHint.
ASSUME DeliveryAssumption ==
    /\ RoundTrip \in Nat \ {0} /\ MaxCalls \in Nat \ {0}
    /\ "none" \in Hints

VARIABLES
    toServer,   \* requests written by the client, not yet processed
    toClient,   \* answers written by the server, not yet received
    stopping,   \* subscriptions whose stop() the server awaits before it
                \* answers a DeleteSubscriptionsRequest
    nCalls,     \* calls the user has made
    calls,      \* calls of the user that wait for their answer
    answers,    \* answers that have resolved the future of such a call
    callbacks,  \* UaClient._subscription_callbacks
    monitored,  \* monitored[s]: Subscription._monitored_items
    loop,       \* UaClient._publish_task: none, waiting for a response, done
    inbox,      \* the response that has resolved the future of publish()
    delivered,  \* delivered[s][m]: what publish_callback called the handler with
    dropped,    \* dropped[s][m]: how many notifications were thrown away
    timely,     \* a round trip takes no more than RoundTrip cycles (chosen
                \* once); otherwise any number of them
    since       \* since[s], if timely: the cycles in which s has had no
                \* request since the last one reached the server

clientVars == <<nCalls, calls, answers, callbacks, monitored, loop,
                inbox, delivered, dropped>>
dVars == <<vars, toServer, toClient, stopping, clientVars, timely, since>>

-----------------------------------------------------------------------------
(* Messages.                                                               *)

\* A call of the user: on which subscription, with which monitored items.
Call == [op : {"create"}, sub : {0}, items : {{}}] \cup
        [op : {"subscribe", "unsubscribe"}, sub : Subs, items : SUBSET Items] \cup
        [op : {"delete"}, sub : Subs, items : {{}}]

CreateCall == [op |-> "create", sub |-> 0, items |-> {}]
SubscribeCall(s, m) == [op |-> "subscribe", sub |-> s, items |-> {m}]
UnsubscribeCall(s, m) == [op |-> "unsubscribe", sub |-> s, items |-> {m}]
DeleteCall(s) == [op |-> "delete", sub |-> s, items |-> {}]

\* A PublishRequest with its acknowledgements.
Publish(acks) == [op |-> "publish", acks |-> acks]

\* Answer to a call: id is that of the subscription, for "create" the new one.
Answer(c, id, good) == [op |-> c.op, call |-> c, id |-> id, good |-> good]

PublishAnswer(w) == [op |-> "publish", msg |-> w]

CallAnswer ==
    {a \in [op : {"create", "subscribe", "unsubscribe", "delete"},
            call : Call, id : Subs, good : BOOLEAN] :
        a.op = a.call.op /\ (a.op # "create" => a.id = a.call.sub)}

ServerMessage == Call \cup [op : {"publish"}, acks : SUBSET (Nat \X Nat)]
ClientMessage == CallAnswer \cup [op : {"publish"}, msg : Response]

\* What the step of the server wrote for publish requests.
Written ==
    [i \in 1 .. Len(wire') - Len(wire) |-> PublishAnswer(wire'[Len(wire) + i])]

DInit ==
    /\ Init
    /\ toServer = << >> /\ toClient = << >> /\ stopping = {}
    /\ nCalls = 0 /\ calls = {} /\ answers = {}
    /\ callbacks = {} /\ monitored = [s \in Subs |-> {}]
    /\ loop = "none" /\ inbox = << >>
    /\ delivered = [s \in Subs |-> [m \in Items |-> << >>]]
    /\ dropped = [s \in Subs |-> [m \in Items |-> 0]]
    /\ timely \in BOOLEAN /\ since = [s \in Subs |-> 0]

-----------------------------------------------------------------------------
(* The server: its own steps, and one request after the other.             *)

\* Nothing is on its way between the client and the server, or arrived and
\* not dealt with.
Quiet == /\ toServer = << >> /\ toClient = << >> /\ stopping = {}
         /\ inbox = << >> /\ answers = {}

\* Subscription s finds no request in this cycle.
Starves(s) == sub'[s].cycles > sub[s].cycles

\* One round of the loop of s.  Messages that are under way arrive within
\* RoundTrip such rounds if the connection is timely.
Cycle(s) ==
    /\ PublishCycle(s)
    /\ timely => since[s] < RoundTrip \/ Quiet
    /\ since' = IF timely /\ Starves(s) THEN [since EXCEPT ![s] = @ + 1]
                                       ELSE since
    /\ toClient' = toClient \o Written
    /\ UNCHANGED <<toServer, stopping, clientVars, timely>>

Change(s, m) ==
    /\ Notify(s, m)
    /\ toClient' = toClient \o Written
    /\ UNCHANGED <<toServer, stopping, clientVars, timely, since>>

\* _process_received_message_loop takes the next request.
Takes(op) ==
    /\ stopping = {} /\ toServer # << >> /\ Head(toServer).op = op
    /\ toServer' = Tail(toServer)

ServeCreate ==
    /\ Takes("create")
    /\ CreateSubscription
    /\ toClient' = Append(toClient, Answer(Head(toServer), subCounter', TRUE))
    /\ UNCHANGED <<stopping, clientVars, timely, since>>

\* create_monitored_items: BadSubscriptionIdInvalid when the subscription is
\* gone, else the first value may be published before the answer is written.
ServeSubscribe ==
    /\ Takes("subscribe")
    /\ LET c == Head(toServer)
       IN \/ /\ sub[c.sub].registered
             /\ \E m \in c.items, size \in QueueSizes :
                   CreateMonitoredItem(c.sub, m, size)
             /\ toClient' = Append(toClient \o Written, Answer(c, c.sub, TRUE))
          \/ /\ ~sub[c.sub].registered
             /\ toClient' = Append(toClient, Answer(c, c.sub, FALSE))
             /\ UNCHANGED vars
    /\ UNCHANGED <<stopping, clientVars, timely, since>>

ServeUnsubscribe ==
    /\ Takes("unsubscribe")
    /\ LET c == Head(toServer)
       IN \/ /\ sub[c.sub].registered
             /\ \E m \in c.items : DeleteMonitoredItem(c.sub, m)
             /\ toClient' = Append(toClient, Answer(c, c.sub, TRUE))
          \/ /\ ~sub[c.sub].registered
             /\ toClient' = Append(toClient, Answer(c, c.sub, FALSE))
             /\ UNCHANGED vars
    /\ UNCHANGED <<stopping, clientVars, timely, since>>

\* delete_subscriptions awaits stop() of a subscription that exists.
ServeDelete ==
    /\ Takes("delete")
    /\ LET c == Head(toServer)
       IN \/ /\ sub[c.sub].registered
             /\ DeleteSubscriptions({c.sub})
             /\ stopping' = {c.sub}
             /\ UNCHANGED toClient
          \/ /\ ~sub[c.sub].registered
             /\ toClient' = Append(toClient, Answer(c, c.sub, FALSE))
             /\ UNCHANGED <<vars, stopping>>
    /\ UNCHANGED <<clientVars, timely, since>>

ServeDeleted ==
    /\ \E s \in stopping :
          /\ \/ StopSubscription(s)
             \/ ~sub[s].task /\ sub[s].items = {} /\ UNCHANGED vars
          /\ toClient' = Append(toClient, Answer(DeleteCall(s), s, TRUE))
    /\ stopping' = {}
    /\ UNCHANGED <<toServer, clientVars, timely, since>>

\* publish() sends no TimeoutHint.
ServePublish ==
    /\ Takes("publish")
    /\ PublishRequest(Head(toServer).acks \cap Acks, "none")
    /\ toClient' = toClient \o Written
    /\ since' = [s \in Subs |-> 0]
    /\ UNCHANGED <<stopping, clientVars, timely>>

-----------------------------------------------------------------------------
(* The user of the client, in any number of tasks.                         *)

Sends(c) ==
    /\ nCalls < MaxCalls /\ c \notin calls
    /\ nCalls' = nCalls + 1
    /\ calls' = calls \cup {c}
    /\ toServer' = Append(toServer, c)
    /\ UNCHANGED <<vars, toClient, stopping, answers, callbacks, loop, inbox,
                   delivered, dropped, timely, since>>

\* No call for item m of subscription s is in progress.
Free(s, m) == \A c \in calls : c.sub = s => m \notin c.items

\* Client.create_subscription.
Create ==
    /\ subCounter < MaxSubs
    /\ Sends(CreateCall)
    /\ UNCHANGED monitored

\* Subscription.create_monitored_items enters the item in the map, then
\* sends the request.  m is a new client handle: nothing was produced for it.
Subscribe(s, m) ==
    /\ s \in callbacks
    /\ m \notin monitored[s] /\ produced[s][m] = 0 /\ Free(s, m)
    /\ Sends(SubscribeCall(s, m))
    /\ monitored' = [monitored EXCEPT ![s] = @ \cup {m}]

\* Subscription.unsubscribe, with the handle that subscribing returned.
Unsubscribe(s, m) ==
    /\ s \in callbacks
    /\ m \in monitored[s] /\ Free(s, m)
    /\ Sends(UnsubscribeCall(s, m))
    /\ UNCHANGED monitored

\* Subscription.delete.
Delete(s) ==
    /\ s \in callbacks
    /\ Sends(DeleteCall(s))
    /\ UNCHANGED monitored

-----------------------------------------------------------------------------
(* The client.                                                             *)

\* data_received: _call_callback resolves the future of the request.
Receive ==
    /\ toClient # << >>
    /\ toClient' = Tail(toClient)
    /\ LET a == Head(toClient)
       IN \/ /\ a.op = "publish"
             /\ inbox' = Append(inbox, a.msg)
             /\ UNCHANGED answers
          \/ /\ a.op # "publish"
             /\ answers' = answers \cup {a}
             /\ UNCHANGED inbox
    /\ UNCHANGED <<vars, toServer, stopping, nCalls, calls, callbacks, monitored, loop,
                   delivered, dropped, timely, since>>

\* The task of the user goes on with its answer.
Resumes(a) ==
    /\ answers' = answers \ {a}
    /\ calls' = calls \ {a.call}
    /\ UNCHANGED <<vars, toClient, stopping, nCalls, inbox, delivered, dropped,
                   timely, since>>

\* Mutation of StartsLoop: a loop for each subscription.
StartsLoop_Always ==
    /\ loop' = "waiting"
    /\ toServer' = Append(toServer, Publish({}))

\* The publish task is started unless it runs; it sends its first request.
StartsLoop ==
    \/ /\ loop \in {"none", "done"}
       /\ loop' = "waiting"
       /\ toServer' = Append(toServer, Publish({}))
    \/ /\ loop = "waiting"
       /\ UNCHANGED <<loop, toServer>>

\* UaClient.create_subscription after its answer.
Created(a) ==
    /\ a.op = "create"
    /\ callbacks' = callbacks \cup {a.id}
    /\ StartsLoop
    /\ Resumes(a)
    /\ UNCHANGED monitored

\* Subscription.create_monitored_items after its answer.
Subscribed(a) ==
    /\ a.op = "subscribe"
    /\ monitored' = [monitored EXCEPT
          ![a.id] = IF a.good THEN @ ELSE @ \ a.call.items]
    /\ Resumes(a)
    /\ UNCHANGED <<toServer, callbacks, loop>>

\* Subscription.unsubscribe after its answer; results[0].check() raises when
\* the subscription is gone.
Unsubscribed(a) ==
    /\ a.op = "unsubscribe"
    /\ monitored' = [monitored EXCEPT
          ![a.id] = IF a.good THEN @ \ a.call.items ELSE @]
    /\ Resumes(a)
    /\ UNCHANGED <<toServer, callbacks, loop>>

\* UaClient.delete_subscriptions after its answer, whatever the result says.
Deleted(a) ==
    /\ a.op = "delete"
    /\ callbacks' = callbacks \ {a.id}
    /\ Resumes(a)
    /\ UNCHANGED <<toServer, monitored, loop>>

\* Mutation of Knows: the map is filled in when the answer is there.
Knows_Later(s, m) ==
    s \in callbacks /\ m \in monitored[s] /\ SubscribeCall(s, m) \notin calls

\* publish_callback of subscription s: notifications of unknown handles are
\* skipped.  Without a callback (KeyError) the whole response is.
Knows(s, m) == s \in callbacks /\ m \in monitored[s]

\* The handler of the user does not raise here: when a synchronous handler
\* of data changes does, _call_datachange makes none of the calls that are
\* still to come for the same message.
Delivers(w) ==
    /\ delivered' = [delivered EXCEPT ![w.sub] =
          [m \in Items |-> IF Knows(w.sub, m) THEN @[m] \o w.data[m] ELSE @[m]]]
    /\ dropped' = [dropped EXCEPT ![w.sub] =
          [m \in Items |-> IF Knows(w.sub, m) THEN @[m]
                                              ELSE @[m] + Len(w.data[m])]]

\* The acknowledgement that goes with the next request.
AckOf(w) == IF Carries(w) THEN {<<w.sub, w.seq>>} ELSE {}

\* Mutation of PublishLoop: a keep-alive for an unknown subscription ends it.
PublishLoop_Ends ==
    /\ inbox # << >>
    /\ inbox' = Tail(inbox)
    /\ LET w == Head(inbox)
       IN \/ /\ ~w.fault /\ w.sub \in callbacks
             /\ Delivers(w)
             /\ toServer' = Append(toServer, Publish(AckOf(w)))
             /\ UNCHANGED loop
          \/ /\ w.fault
             /\ loop' = "done"
             /\ UNCHANGED <<toServer, delivered, dropped>>
          \/ /\ ~w.fault /\ w.sub \notin callbacks
             /\ Delivers(w)
             /\ UNCHANGED <<toServer, loop>>
    /\ UNCHANGED <<vars, toClient, stopping, nCalls, calls, answers, callbacks,
                   monitored, timely, since>>

\* A turn of _publish_loop: call the handler, send the next request.  A
\* ServiceFault is raised by send_request and ends the task.
PublishLoop ==
    /\ inbox # << >>
    /\ inbox' = Tail(inbox)
    /\ LET w == Head(inbox)
       IN \/ /\ ~w.fault
             /\ Delivers(w)
             /\ toServer' = Append(toServer, Publish(AckOf(w)))
             /\ UNCHANGED loop
          \/ /\ w.fault
             /\ loop' = "done"
             /\ UNCHANGED <<toServer, delivered, dropped>>
    /\ UNCHANGED <<vars, toClient, stopping, nCalls, calls, answers, callbacks,
                   monitored, timely, since>>

Serve == \/ ServeCreate \/ ServeSubscribe \/ ServeUnsubscribe
         \/ ServeDelete \/ ServeDeleted \/ ServePublish

Resume(a) == Created(a) \/ Subscribed(a) \/ Unsubscribed(a) \/ Deleted(a)

DNext ==
    \/ \E s \in Subs : Cycle(s) \/ Delete(s)
    \/ \E s \in Subs, m \in Items :
          Change(s, m) \/ Subscribe(s, m) \/ Unsubscribe(s, m)
    \/ Serve \/ Create \/ Receive \/ PublishLoop
    \/ \E a \in answers : Resume(a)

DSpec == DInit /\ [][DNext]_dVars

\* Messages arrive, the server processes them, tasks that can run do, and
\* the loop of a subscription with something to say goes on cycling.  Nothing
\* is assumed of the user or of the values that are monitored; and since the
\* number of requests is bounded, an idle subscription need not spend them on
\* keep-alives.
DFairness ==
    /\ WF_dVars(Serve) /\ WF_dVars(Receive) /\ WF_dVars(PublishLoop)
    /\ WF_dVars(\E a \in answers : Resume(a))
    /\ \A s \in Subs : WF_dVars(sub[s].data # NoData /\ Cycle(s))

FairDSpec == DSpec /\ DFairness

-----------------------------------------------------------------------------
(* Properties.                                                             *)

\* Every variable of the composition has its shape.
DTypeOK ==
    /\ TypeOK
    /\ toServer \in Seq(ServerMessage) /\ toClient \in Seq(ClientMessage)
    /\ stopping \subseteq Subs /\ nCalls \in 0 .. MaxCalls
    /\ calls \subseteq Call /\ answers \subseteq CallAnswer
    /\ callbacks \subseteq Subs /\ monitored \in [Subs -> SUBSET Items]
    /\ loop \in {"none", "waiting", "done"} /\ inbox \in Seq(Response)
    /\ delivered \in [Subs -> [Items -> Seq(Nat)]]
    /\ dropped \in [Subs -> [Items -> Nat]]
    /\ timely \in BOOLEAN /\ since \in [Subs -> Nat]

\* The user is subscribed: the item is in the map, and no call that would
\* end the subscription is in progress.
Wanted(s, m) ==
    /\ s \in callbacks /\ m \in monitored[s]
    /\ DeleteCall(s) \notin calls /\ UnsubscribeCall(s, m) \notin calls

Stream == INSTANCE NotificationStream WITH
    Streams <- Subs \X Items,
    Lossless <- QueueSizes = {0},
    wanted <- [k \in Subs \X Items |-> Wanted(k[1], k[2])],
    made <- [k \in Subs \X Items |-> produced[k[1]][k[2]]],
    delivered <- [k \in Subs \X Items |-> delivered[k[1]][k[2]]],
    dropped <- [k \in Subs \X Items |-> dropped[k[1]][k[2]]]

\* End to end, the server, the connection and the client keep the promise of
\* NotificationStream: the handler gets the notifications of each item in
\* order, once and without a gap, and the client throws nothing away of an
\* item the user is subscribed to, although the first notification may
\* overtake the answer that carries the id of the item.
StreamsKeepPromise == Stream!Spec

\* How many messages of q belong to the publish task.
PublishCount(q) == Cardinality({i \in DOMAIN q : q[i].op = "publish"})

InTransit == PublishCount(toServer) + Len(reqs) + PublishCount(toClient) + Len(inbox)

\* ua_client.py, "only one open publish request per UaClient": while the
\* publish task runs there is exactly one request or response on its way,
\* stored in the server or waiting for the task; none is ever lost.
OneOpenRequest == InTransit = (IF loop = "waiting" THEN 1 ELSE 0)

Faults == Cardinality({i \in DOMAIN wire : wire[i].fault})

\* What the client knows and does not delete is in the service.
TheLivingAreKnown ==
    timely /\ Faults = 0 =>
        \A s \in callbacks : DeleteCall(s) \notin calls => sub[s].registered

\* ua_client.py: one open publish request "might not be enough in high latency
\* networks or in case many subscriptions are created".  It is enough, however
\* the cycles of the subscriptions interleave, when the lifetime is at least
\* one round trip for each of them: a subscription the client knows and does
\* not delete then never expires, unless a fault has ended the publish task.
NoExpiryOfTheLiving ==
    LifetimeCount >= MaxSubs * RoundTrip => TheLivingAreKnown

\* Every notification of an item the user is subscribed to reaches the
\* handler, however long messages take, unless the subscription has expired, a
\* fault has ended the publish task or the bound on requests is reached.
EveryNotificationArrives ==
    \A s \in Subs, m \in Items : \A n \in 1 .. MaxChanges :
        Wanted(s, m) /\ produced[s][m] >= n
            ~> \/ Len(delivered[s][m]) >= n
               \/ ~Wanted(s, m) \/ ~sub[s].registered \/ Expired(sub[s])
               \/ Faults > 0 \/ reqCounter = MaxRequests

=============================================================================
