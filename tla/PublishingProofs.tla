-------------------------- MODULE PublishingProofs --------------------------
(***************************************************************************)
(* Proofs about Publishing, for every number of subscriptions, items and   *)
(* requests and for every setting of the limits.                           *)
(***************************************************************************)
EXTENDS Publishing, SequenceTheorems, FiniteSetTheorems, TLAPS

-----------------------------------------------------------------------------
(* The operators on subscriptions keep their shape.                        *)

\* What a subscription's fields are.
LEMMA FieldTypes ==
    ASSUME NEW x \in Subscription
    PROVE  /\ x.registered \in BOOLEAN /\ x.task \in BOOLEAN
           /\ x.closing \in BOOLEAN /\ x.startup \in BOOLEAN
           /\ x.loop \in {"none", "active", "done"}
           /\ x.items \in SUBSET Items /\ x.size \in [Items -> Nat]
           /\ x.keepAlive \in Nat /\ x.cycles \in Nat /\ x.seq \in Nat
           /\ x.unacked \in SUBSET Nat
           /\ x.data \in [Items -> Seq(Nat)] /\ x.status \in Nat
  BY DEF Subscription

\* No queue of any item holds anything: the type of the empty data.
LEMMA NoDataType == NoData \in [Items -> Seq(Nat)]
  BY DEF NoData

\* InternalSubscription.__init__ leaves a subscription.
LEMMA UnbornType == Unborn \in Subscription
  BY NoDataType DEF Unborn, Subscription

\* So does start().
LEMMA StartedType ==
    ASSUME NEW loops \in BOOLEAN
    PROVE  Started(loops) \in Subscription
  <1>1. ASSUME NEW l \in {"none", "active", "done"}
        PROVE  [Unborn EXCEPT !.registered = TRUE, !.task = loops, !.loop = l]
                   \in Subscription
    BY UnbornType, Zenon DEF Subscription
  <1> QED
    BY <1>1 DEF Started

\* An expiry leaves a subscription, whether it recurses or not.
LEMMA ExpireType ==
    ASSUME NEW x \in Subscription
    PROVE  /\ Expire(x) \in Subscription
           /\ ExpireRecursively(x) \in Subscription
  <1>1. ASSUME NEW n \in Nat, NEW b \in BOOLEAN
        PROVE  /\ [x EXCEPT !.status = n, !.closing = b, !.task = FALSE,
                            !.registered = FALSE, !.items = {}] \in Subscription
               /\ [x EXCEPT !.status = n] \in Subscription
    BY Zenon DEF Subscription
  <1>2. (x.closing \/ x.task) \in BOOLEAN
    BY Zenon
  <1>3. x.status + 1 \in Nat /\ x.status + RecursionDepth \in Nat
    BY FieldTypes, PublishingAssumption
  <1> QED
    BY <1>1, <1>2, <1>3 DEF Expire, ExpireRecursively

\* So do the two counters of publish_results().
LEMMA CountType ==
    ASSUME NEW x \in Subscription
    PROVE  /\ CountIdle(x) \in Subscription
           /\ CountCycle(x) \in Subscription
  <1>1. ASSUME NEW n \in Nat
        PROVE  /\ [x EXCEPT !.keepAlive = n] \in Subscription
               /\ [x EXCEPT !.cycles = n] \in Subscription
    BY Zenon DEF Subscription
  <1>2. x.keepAlive + 1 \in Nat /\ x.cycles + 1 \in Nat
    BY FieldTypes
  <1> QED
    BY <1>1, <1>2 DEF CountIdle, CountCycle

\* So does _pop_publish_result.
LEMMA PoppedType ==
    ASSUME NEW x \in Subscription
    PROVE  Popped(x) \in Subscription
  <1>1. ASSUME NEW i \in Nat, NEW n \in Nat, NEW u \in SUBSET Nat
        PROVE  [x EXCEPT !.data = NoData, !.status = i,
                         !.keepAlive = 0, !.cycles = 0, !.startup = FALSE,
                         !.seq = n, !.unacked = u] \in Subscription
    BY NoDataType, 0 \in Nat, Zenon DEF Subscription
  <1>2. Remember(x.unacked, x.seq) \in SUBSET Nat
    BY FieldTypes DEF Remember
  <1>3. (IF x.status > 0 THEN x.status - 1 ELSE 0) \in Nat
    BY FieldTypes
  <1>4. (IF HasNotifications(x) THEN x.seq + 1 ELSE x.seq) \in Nat
    BY FieldTypes
  <1>5. (IF HasNotifications(x) THEN Remember(x.unacked, x.seq)
                                ELSE x.unacked) \in SUBSET Nat
    BY <1>2, FieldTypes
  <1> QED
    BY <1>1, <1>3, <1>4, <1>5, Zenon DEF Popped

\* So does the test that ends the loop.
LEMMA LoopTestType ==
    ASSUME NEW x \in Subscription
    PROVE  LoopTest(x) \in Subscription
  <1>1. ASSUME NEW l \in {"none", "active", "done"}
        PROVE  [x EXCEPT !.loop = l] \in Subscription
    BY Zenon DEF Subscription
  <1>2. (IF x.loop = "active" /\ x.closing THEN "done" ELSE x.loop)
            \in {"none", "active", "done"}
    BY FieldTypes
  <1> QED
    BY <1>1, <1>2, Zenon DEF LoopTest

\* So does enqueueing a notification, at a full queue too.
LEMMA QueuedType ==
    ASSUME NEW x \in Subscription, NEW m \in Items, NEW n \in Nat
    PROVE  Queued(x, m, n) \in Subscription
  <1>1. ASSUME NEW d \in [Items -> Seq(Nat)]
        PROVE  [x EXCEPT !.data = d] \in Subscription
    BY Zenon DEF Subscription
  <1>2. Enqueued(x.data[m], x.size[m], n) \in Seq(Nat)
    BY FieldTypes DEF Enqueued
  <1>3. [x.data EXCEPT ![m] = Enqueued(x.data[m], x.size[m], n)]
            \in [Items -> Seq(Nat)]
    BY <1>2, FieldTypes
  <1> QED
    BY <1>1, <1>3, Zenon DEF Queued

\* So does committing or modifying a monitored item.
LEMMA WithItemType ==
    ASSUME NEW x \in Subscription, NEW m \in Items, NEW n \in Nat
    PROVE  WithItem(x, m, n) \in Subscription
  <1>1. ASSUME NEW i \in SUBSET Items, NEW z \in [Items -> Nat]
        PROVE  [x EXCEPT !.items = i, !.size = z] \in Subscription
    BY Zenon DEF Subscription
  <1>2. x.items \cup {m} \in SUBSET Items /\ [x.size EXCEPT ![m] = n] \in [Items -> Nat]
    BY FieldTypes
  <1> QED
    BY <1>1, <1>2, Zenon DEF WithItem

\* So does deleting one.
LEMMA WithoutItemType ==
    ASSUME NEW x \in Subscription, NEW m
    PROVE  WithoutItem(x, m) \in Subscription
  <1>1. ASSUME NEW i \in SUBSET Items
        PROVE  [x EXCEPT !.items = i] \in Subscription
    BY Zenon DEF Subscription
  <1>2. x.items \ {m} \in SUBSET Items
    BY FieldTypes
  <1> QED
    BY <1>1, <1>2, Zenon DEF WithoutItem

\* So does dropping acknowledged results from the store.
LEMMA AcknowledgedType ==
    ASSUME NEW x \in Subscription, NEW acks
    PROVE  Acknowledged(x, acks) \in Subscription
  <1>1. ASSUME NEW u \in SUBSET Nat
        PROVE  [x EXCEPT !.unacked = u] \in Subscription
    BY Zenon DEF Subscription
  <1>2. x.unacked \ acks \in SUBSET Nat
    BY FieldTypes
  <1> QED
    BY <1>1, <1>2, Zenon DEF Acknowledged

\* So does leaving the service.
LEMMA UnregisterType ==
    ASSUME NEW x \in Subscription
    PROVE  [x EXCEPT !.registered = FALSE] \in Subscription
  BY Zenon DEF Subscription

\* So does stop().
LEMMA HaltedType ==
    ASSUME NEW x \in Subscription
    PROVE  Halted(x) \in Subscription
  <1>1. ASSUME NEW b \in BOOLEAN, NEW l \in {"none", "active", "done"}
        PROVE  [x EXCEPT !.closing = b, !.loop = l, !.task = FALSE, !.items = {}]
                   \in Subscription
    BY Zenon DEF Subscription
  <1>2. (x.closing \/ x.task) \in BOOLEAN
    BY Zenon
  <1>3. (IF x.task THEN "done" ELSE x.loop) \in {"none", "active", "done"}
    BY FieldTypes
  <1> QED
    BY <1>1, <1>2, <1>3, Zenon DEF Halted

\* So does being passed by in the loop over _publish_results_subs.
LEMMA PassedByType ==
    ASSUME NEW x \in Subscription
    PROVE  PassedBy(x) \in Subscription
  BY ExpireType, CountType DEF PassedBy

\* What forward_publish_response writes is a response.
LEMMA ResultType ==
    ASSUME NEW s \in Subs, NEW x \in Subscription, NEW r \in Request
    PROVE  Result(s, x, r) \in Response
  <1>1. s \in Nat
    BY PublishingAssumption DEF Subs
  <1>2. r.id \in Nat
    BY DEF Request
  <1>3. Popped(x).unacked \in SUBSET Nat
    BY PoppedType, FieldTypes
  <1>4. (x.status # 0) \in BOOLEAN
    BY Zenon
  <1>5. x.seq \in Nat /\ x.data \in [Items -> Seq(Nat)]
    BY FieldTypes
  <1> QED
    BY <1>1, <1>2, <1>3, <1>4, <1>5, Zenon DEF Result, Response

\* So is the ServiceFault of process_message.
LEMMA FaultType ==
    ASSUME NEW r \in Request
    PROVE  Fault(r) \in Response
  <1>1. r.id \in Nat
    BY DEF Request
  <1> QED
    BY <1>1, NoDataType DEF Fault, Response

-----------------------------------------------------------------------------
(* The subscriptions during the loop over _publish_results_subs.           *)

\* SubscriptionService.publish leaves subscriptions.
LEMMA AfterAcksType ==
    ASSUME TypeOK, NEW acks
    PROVE  AfterAcks(acks) \in [Subs -> Subscription]
  BY AcknowledgedType DEF AfterAcks, TypeOK

\* So does the loop, whichever number of them it has passed.
LEMMA AfterPassingType ==
    ASSUME NEW after \in [Subs -> Subscription], NEW n
    PROVE  AfterPassing(after, n) \in [Subs -> Subscription]
  BY PassedByType DEF AfterPassing

-----------------------------------------------------------------------------
(* Type correctness.                                                       *)

\* publish_results() of a loop, or of an immediate subscription.
LEMMA PublishResultsType ==
    ASSUME TypeOK, NEW s \in Subs, NEW x \in Subscription, PublishResults(s, x)
    PROVE  /\ sub' \in [Subs -> Subscription]
           /\ reqs' \in Seq(Request)
           /\ waiting' \in Seq(Subs)
           /\ wire' \in Seq(Response)
  <1> USE DEF TypeOK
  <1>1. ASSUME NEW y \in Subscription, sub' = [sub EXCEPT ![s] = LoopTest(y)]
        PROVE  sub' \in [Subs -> Subscription]
    BY <1>1, LoopTestType
  <1>2. CASE /\ sub' = [sub EXCEPT ![s] =
                  LoopTest(IF s \in Immediate THEN ExpireRecursively(x)
                                              ELSE Expire(x))]
             /\ UNCHANGED <<reqs, waiting, wire>>
    BY <1>1, <1>2, ExpireType
  <1>3. CASE /\ sub' = [sub EXCEPT ![s] = LoopTest(CountIdle(x))]
             /\ UNCHANGED <<reqs, waiting, wire>>
    BY <1>1, <1>3, CountType
  <1>4. CASE /\ reqs' = << >>
             /\ waiting' = Enlist(s)
             /\ sub' = [sub EXCEPT ![s] = LoopTest(CountCycle(x))]
             /\ UNCHANGED wire
    <2>1. waiting' \in Seq(Subs)
      BY <1>4 DEF Enlist
    <2>2. sub' \in [Subs -> Subscription]
      BY <1>1, <1>4, CountType
    <2>3. reqs' \in Seq(Request)
      BY <1>4
    <2> QED
      BY <1>4, <2>1, <2>2, <2>3
  <1>5. CASE /\ \E k \in UsableIndexes :
                   /\ reqs' = SubSeq(reqs, k + 1, Len(reqs))
                   /\ wire' = Append(wire, Result(s, x, reqs[k]))
             /\ sub' = [sub EXCEPT ![s] = LoopTest(Popped(x))]
             /\ UNCHANGED waiting
    <2>1. PICK k \in UsableIndexes :
                   /\ reqs' = SubSeq(reqs, k + 1, Len(reqs))
                   /\ wire' = Append(wire, Result(s, x, reqs[k]))
      BY <1>5
    <2>2. k \in 1 .. Len(reqs) /\ reqs[k] \in Request
      BY DEF UsableIndexes
    <2>3. wire' \in Seq(Response)
      BY <2>1, <2>2, ResultType
    <2>4. reqs' \in Seq(Request)
      BY <2>1, <2>2
    <2> QED
      BY <1>1, <1>5, <2>3, <2>4, PoppedType
  <1> QED
    BY <1>2, <1>3, <1>4, <1>5 DEF PublishResults

\* enqueue_datachange_event and enqueue_event keep the shape of the state.
LEMMA EnqueueType ==
    ASSUME TypeOK, NEW s \in Subs, NEW x \in Subscription, NEW m \in Items,
           Enqueue(s, x, m)
    PROVE  /\ sub' \in [Subs -> Subscription]
           /\ reqs' \in Seq(Request)
           /\ waiting' \in Seq(Subs)
           /\ wire' \in Seq(Response)
           /\ produced' \in [Subs -> [Items -> Nat]]
  <1>1. produced[s][m] + 1 \in Nat
    BY DEF TypeOK
  <1>2. produced' \in [Subs -> [Items -> Nat]]
    BY <1>1 DEF TypeOK, Enqueue
  <1>3. Queued(x, m, produced[s][m] + 1) \in Subscription
    BY <1>1, QueuedType
  <1>4. CASE PublishResults(s, Queued(x, m, produced[s][m] + 1))
    BY <1>2, <1>3, <1>4, PublishResultsType
  <1>5. CASE /\ sub' = [sub EXCEPT ![s] = Queued(x, m, produced[s][m] + 1)]
             /\ UNCHANGED <<reqs, waiting, wire>>
    BY <1>2, <1>3, <1>5 DEF TypeOK
  <1> QED
    BY <1>4, <1>5 DEF Enqueue

\* The loop over _publish_results_subs for a new publish request.
LEMMA PublishRequestType ==
    ASSUME TypeOK, NEW acks, NEW hint \in Hints, PublishRequest(acks, hint)
    PROVE  TypeOK'
  <1> DEFINE r == [id |-> reqCounter + 1, hint |-> hint]
             after == AfterAcks(acks)
  <1>1. r \in Request
    BY PublishingAssumption DEF TypeOK, Request
  <1>2. after \in [Subs -> Subscription]
    BY AfterAcksType
  <1>3. /\ reqCounter' \in 0 .. MaxRequests
        /\ UNCHANGED <<subCounter, produced>>
    BY PublishingAssumption DEF TypeOK, PublishRequest
  <1>4. CASE /\ sub' = AfterPassing(after, Len(waiting))
             /\ waiting' = << >>
             /\ reqs' = Append(reqs, r)
             /\ UNCHANGED wire
    <2>1. sub' \in [Subs -> Subscription]
      BY <1>2, <1>4, AfterPassingType
    <2>2. reqs' \in Seq(Request) /\ waiting' \in Seq(Subs)
      BY <1>1, <1>4 DEF TypeOK
    <2> QED
      BY <1>3, <1>4, <2>1, <2>2 DEF TypeOK
  <1>5. ASSUME NEW k \in Stops(after), NEW t, t = waiting[k],
               \/ /\ sub' = [AfterPassing(after, k - 1) EXCEPT
                                 ![t] = Popped(after[t])]
                  /\ wire' = Append(wire, Result(t, after[t], r))
               \/ /\ sub' = [AfterPassing(after, k - 1) EXCEPT
                                 ![t] = ExpireRecursively(after[t])]
                  /\ wire' = Append(wire, Fault(r)),
               waiting' = SubSeq(waiting, k + 1, Len(waiting)),
               UNCHANGED reqs
        PROVE  TypeOK'
    <2>1. k \in 1 .. Len(waiting) /\ t \in Subs
      BY <1>5 DEF TypeOK, Stops
    <2>2. /\ Popped(after[t]) \in Subscription
          /\ ExpireRecursively(after[t]) \in Subscription
          /\ Result(t, after[t], r) \in Response
          /\ Fault(r) \in Response
      BY <1>1, <1>2, <2>1, PoppedType, ExpireType, ResultType, FaultType
    <2>3. AfterPassing(after, k - 1) \in [Subs -> Subscription]
      BY <1>2, AfterPassingType
    <2>4. sub' \in [Subs -> Subscription]
      BY <1>5, <2>2, <2>3
    <2>5. wire' \in Seq(Response)
      <3>1. \E w \in Response : wire' = Append(wire, w)
        BY <1>5, <2>2, Zenon
      <3> QED
        BY <3>1 DEF TypeOK
    <2>6. waiting' \in Seq(Subs)
      BY <1>5, <2>1 DEF TypeOK
    <2> QED
      BY <1>3, <1>5, <2>4, <2>5, <2>6 DEF TypeOK
  <1> QED
    BY <1>4, <1>5 DEF PublishRequest

\* A step that changes one subscription and nothing else.
LEMMA SubUpdateType ==
    ASSUME TypeOK, NEW s \in Subs, NEW y \in Subscription,
           sub' = [sub EXCEPT ![s] = y],
           UNCHANGED <<subCounter, reqs, waiting, reqCounter, wire, produced>>
    PROVE  TypeOK'
  BY DEF TypeOK

\* So does every step.
LEMMA TypeStep == TypeOK /\ [Next]_vars => TypeOK'
  <1> SUFFICES ASSUME TypeOK, [Next]_vars
               PROVE  TypeOK'
    OBVIOUS
  <1>0. \A s \in Subs : sub[s] \in Subscription
    BY DEF TypeOK
  <1>1. CASE CreateSubscription
    <2>1. (subCounter + 1 \notin Immediate) \in BOOLEAN
      BY Zenon
    <2>2. Started(subCounter + 1 \notin Immediate) \in Subscription
      BY <2>1, StartedType
    <2>3. subCounter' \in 0 .. MaxSubs
      BY <1>1, PublishingAssumption DEF CreateSubscription, TypeOK
    <2> QED
      BY <1>1, <2>2, <2>3 DEF CreateSubscription, TypeOK
  <1>2. ASSUME NEW s \in Subs, NEW m \in Items, Notify(s, m)
        PROVE  TypeOK'
    <2>1. Enqueue(s, sub[s], m)
      BY <1>2 DEF Notify
    <2>2. UNCHANGED <<subCounter, reqCounter>>
      BY <1>2 DEF Notify
    <2> QED
      BY <1>0, <2>1, <2>2, EnqueueType DEF TypeOK
  <1>3. ASSUME NEW s \in Subs, NEW m \in Items, NEW size \in QueueSizes,
               CreateMonitoredItem(s, m, size)
        PROVE  TypeOK'
    <2>1. WithItem(sub[s], m, size) \in Subscription
      BY <1>0, WithItemType, PublishingAssumption
    <2>2. UNCHANGED <<subCounter, reqCounter>>
      BY <1>3 DEF CreateMonitoredItem
    <2>3. CASE Enqueue(s, WithItem(sub[s], m, size), m)
      BY <2>1, <2>2, <2>3, EnqueueType DEF TypeOK
    <2>4. CASE /\ sub' = [sub EXCEPT ![s] = WithItem(sub[s], m, size)]
               /\ UNCHANGED <<reqs, waiting, wire, produced>>
      BY <2>1, <2>2, <2>4, SubUpdateType
    <2> QED
      BY <1>3, <2>3, <2>4 DEF CreateMonitoredItem
  <1>4. ASSUME NEW s \in Subs, NEW m \in Items, NEW size \in QueueSizes,
               ModifyMonitoredItem(s, m, size)
        PROVE  TypeOK'
    <2>1. WithItem(sub[s], m, size) \in Subscription
      BY <1>0, WithItemType, PublishingAssumption
    <2> QED
      BY <1>4, <2>1, SubUpdateType DEF ModifyMonitoredItem
  <1>5. ASSUME NEW s \in Subs, NEW m \in Items, DeleteMonitoredItem(s, m)
        PROVE  TypeOK'
    <2>1. WithoutItem(sub[s], m) \in Subscription
      BY <1>0, WithoutItemType
    <2> QED
      BY <1>5, <2>1, SubUpdateType DEF DeleteMonitoredItem
  <1>6. ASSUME NEW s \in Subs, PublishCycle(s)
        PROVE  TypeOK'
    <2>1. PublishResults(s, sub[s]) /\ UNCHANGED <<subCounter, reqCounter, produced>>
      BY <1>6 DEF PublishCycle
    <2> QED
      BY <1>0, <2>1, PublishResultsType DEF TypeOK
  <1>7. CASE RequestTimesOut
    <2>1. PICK i \in 1 .. Len(reqs) : reqs' = [reqs EXCEPT ![i].hint = "late"]
      BY <1>7 DEF RequestTimesOut
    <2>2. reqs \in Seq(Request) /\ reqs[i] \in Request
      BY DEF TypeOK
    <2>3. [reqs[i] EXCEPT !.hint = "late"] \in Request
      BY <2>2 DEF Request
    <2>4. reqs' \in Seq(Request)
      BY <2>1, <2>2, <2>3
    <2> QED
      BY <1>7, <2>4 DEF RequestTimesOut, TypeOK
  <1>8. ASSUME NEW acks, NEW hint \in Hints, PublishRequest(acks, hint)
        PROVE  TypeOK'
    BY <1>8, PublishRequestType
  <1>9. ASSUME NEW s \in Subs, NEW n, Republish(s, n)
        PROVE  TypeOK'
    <2>1. Acknowledged(sub[s], {n}) \in Subscription
      BY <1>0, AcknowledgedType
    <2> QED
      BY <1>9, <2>1, SubUpdateType DEF Republish
  <1>10. ASSUME NEW ids \in SUBSET Subs, DeleteSubscriptions(ids)
         PROVE  TypeOK'
    <2>1. sub' \in [Subs -> Subscription]
      BY <1>0, <1>10, UnregisterType DEF DeleteSubscriptions
    <2> QED
      BY <1>10, <2>1 DEF DeleteSubscriptions, TypeOK
  <1>11. ASSUME NEW s \in Subs, StopSubscription(s)
         PROVE  TypeOK'
    <2>1. Halted(sub[s]) \in Subscription
      BY <1>0, HaltedType
    <2> QED
      BY <1>11, <2>1, SubUpdateType DEF StopSubscription
  <1>12. CASE UNCHANGED vars
    BY <1>12 DEF vars, TypeOK
  <1> QED
    BY <1>1, <1>2, <1>3, <1>4, <1>5, <1>6, <1>7, <1>8, <1>9, <1>10, <1>11,
       <1>12 DEF Next

\* __init__ of the processor leaves a state of the right shape.
LEMMA TypeInit == Init => TypeOK
  BY UnbornType, PublishingAssumption DEF Init, TypeOK

\* Publishing keeps the shape of its state.
THEOREM TypeCorrect == Spec => []TypeOK
  BY TypeInit, TypeStep, PTL DEF Spec

-----------------------------------------------------------------------------
(* The two queues of UaProcessor.                                          *)

\* What a call of publish_results() does to the queues and to the wire.
QueueEffect ==
    \/ UNCHANGED <<reqs, waiting, wire>>
    \/ /\ reqs' = << >>
       /\ UNCHANGED wire
    \/ /\ \E k \in UsableIndexes, s \in Subs, x \in Subscription :
             /\ reqs' = SubSeq(reqs, k + 1, Len(reqs))
             /\ wire' = Append(wire, Result(s, x, reqs[k]))
       /\ UNCHANGED waiting

\* publish_results() in any state has such an effect.
LEMMA PublishResultsEffect ==
    ASSUME NEW s \in Subs, NEW x \in Subscription, PublishResults(s, x)
    PROVE  QueueEffect
  BY Zenon DEF PublishResults, QueueEffect

\* The steps that touch the queues: a call of publish_results(), a request
\* that gets too old, a new request.
LEMMA QueueSteps ==
    ASSUME TypeOK, [Next]_vars
    PROVE  \/ QueueEffect /\ UNCHANGED reqCounter
           \/ RequestTimesOut
           \/ \E acks : \E hint \in Hints : PublishRequest(acks, hint)
  <1>0. \A s \in Subs : sub[s] \in Subscription
    BY DEF TypeOK
  <1>1. ASSUME NEW s \in Subs, NEW x \in Subscription, NEW m \in Items,
               Enqueue(s, x, m)
        PROVE  QueueEffect
    <2>1. Queued(x, m, produced[s][m] + 1) \in Subscription
      BY QueuedType DEF TypeOK
    <2>2. CASE PublishResults(s, Queued(x, m, produced[s][m] + 1))
      BY <2>1, <2>2, PublishResultsEffect
    <2>3. CASE UNCHANGED <<reqs, waiting, wire>>
      BY <2>3 DEF QueueEffect
    <2> QED
      BY <1>1, <2>2, <2>3, Zenon DEF Enqueue
  <1>2. ASSUME NEW s \in Subs, NEW m \in Items, Notify(s, m)
        PROVE  QueueEffect /\ UNCHANGED reqCounter
    BY <1>0, <1>1, <1>2, Zenon DEF Notify
  <1>3. ASSUME NEW s \in Subs, NEW m \in Items, NEW size \in QueueSizes,
               CreateMonitoredItem(s, m, size)
        PROVE  QueueEffect /\ UNCHANGED reqCounter
    <2>1. WithItem(sub[s], m, size) \in Subscription
      BY <1>0, WithItemType, PublishingAssumption
    <2> QED
      BY <1>1, <1>3, <2>1, Zenon DEF CreateMonitoredItem, QueueEffect
  <1>4. ASSUME NEW s \in Subs, PublishCycle(s)
        PROVE  QueueEffect /\ UNCHANGED reqCounter
    BY <1>0, <1>4, PublishResultsEffect, Zenon DEF PublishCycle
  <1>5. CASE UNCHANGED <<reqs, waiting, reqCounter, wire>>
    BY <1>5 DEF QueueEffect
  <1>6. CASE CreateSubscription
    BY <1>5, <1>6 DEF CreateSubscription
  <1>7. ASSUME NEW s \in Subs, NEW m \in Items,
               \/ DeleteMonitoredItem(s, m)
               \/ \E size \in QueueSizes : ModifyMonitoredItem(s, m, size)
        PROVE  UNCHANGED <<reqs, waiting, reqCounter, wire>>
    BY <1>7, Zenon DEF DeleteMonitoredItem, ModifyMonitoredItem
  <1>8. ASSUME NEW s \in Subs,
               StopSubscription(s) \/ \E n : Republish(s, n)
        PROVE  UNCHANGED <<reqs, waiting, reqCounter, wire>>
    BY <1>8, Zenon DEF StopSubscription, Republish
  <1>9. ASSUME NEW ids \in SUBSET Subs, DeleteSubscriptions(ids)
        PROVE  UNCHANGED <<reqs, waiting, reqCounter, wire>>
    BY <1>9, Zenon DEF DeleteSubscriptions
  <1>10. CASE UNCHANGED vars
    BY <1>5, <1>10 DEF vars
  <1> QED
    BY <1>2, <1>3, <1>4, <1>5, <1>6, <1>7, <1>8, <1>9, <1>10, Zenon DEF Next

\* What a new publish request does to the queues and to the wire.
LEMMA RequestEffect ==
    ASSUME TypeOK, NEW acks, NEW hint \in Hints, PublishRequest(acks, hint)
    PROVE  /\ reqCounter' = reqCounter + 1
           /\ \E r \in Request :
                 /\ r.id = reqCounter + 1
                 /\ \/ /\ waiting' = << >>
                       /\ reqs' = Append(reqs, r)
                       /\ UNCHANGED wire
                    \/ /\ waiting # << >>
                       /\ \E w \in Response : /\ w.req = r.id
                                              /\ wire' = Append(wire, w)
                       /\ UNCHANGED reqs
  <1> DEFINE r == [id |-> reqCounter + 1, hint |-> hint]
             after == AfterAcks(acks)
  <1>1. r \in Request /\ r.id = reqCounter + 1
    BY PublishingAssumption DEF TypeOK, Request
  <1>2. after \in [Subs -> Subscription]
    BY AfterAcksType
  <1>3. reqCounter' = reqCounter + 1
    BY DEF PublishRequest
  <1>4. ASSUME NEW k \in Stops(after), NEW t, t = waiting[k],
               \/ wire' = Append(wire, Result(t, after[t], r))
               \/ wire' = Append(wire, Fault(r)),
               UNCHANGED reqs
        PROVE  /\ waiting # << >>
               /\ \E w \in Response : w.req = r.id /\ wire' = Append(wire, w)
    <2>1. k \in 1 .. Len(waiting) /\ t \in Subs
      BY <1>4 DEF TypeOK, Stops
    <2>2. Result(t, after[t], r) \in Response /\ Fault(r) \in Response
      BY <1>1, <1>2, <2>1, ResultType, FaultType
    <2>3. Result(t, after[t], r).req = r.id /\ Fault(r).req = r.id
      BY DEF Result, Fault
    <2>4. waiting # << >>
      BY <2>1
    <2> HIDE DEF r, after
    <2> QED
      BY <1>4, <2>2, <2>3, <2>4, Zenon
  <1>5. \/ /\ waiting' = << >>
           /\ reqs' = Append(reqs, r)
           /\ UNCHANGED wire
        \/ /\ \E k \in Stops(after) :
                 \/ wire' = Append(wire, Result(waiting[k], after[waiting[k]], r))
                 \/ wire' = Append(wire, Fault(r))
           /\ UNCHANGED reqs
    BY Zenon DEF PublishRequest
  <1> HIDE DEF r, after
  <1> QED
    BY <1>1, <1>3, <1>4, <1>5, Zenon

\* The step of NoIdleRequest.  A request is only taken from a queue that has
\* one, then nobody waits; a request is only kept when nobody waits any more.
LEMMA NoIdleStep ==
    ASSUME TypeOK, NoIdleRequest, [Next]_vars
    PROVE  NoIdleRequest'
  <1>1. CASE QueueEffect
    <2>1. ASSUME NEW k \in UsableIndexes PROVE reqs # << >>
      BY DEF UsableIndexes
    <2> QED
      BY <1>1, <2>1, Zenon DEF QueueEffect, NoIdleRequest
  <1>2. CASE RequestTimesOut
    <2>1. reqs # << >>
      BY <1>2 DEF RequestTimesOut
    <2> QED
      BY <1>2, <2>1 DEF RequestTimesOut, NoIdleRequest
  <1>3. ASSUME NEW acks, NEW hint \in Hints, PublishRequest(acks, hint)
        PROVE  NoIdleRequest'
    BY <1>3, RequestEffect, Zenon DEF NoIdleRequest
  <1> QED
    BY <1>1, <1>2, <1>3, QueueSteps

\* AnsweredInOrder is not inductive: it needs that a new request's id is
\* larger than all before it.
OrderInv ==
    /\ AnsweredInOrder
    /\ \A i \in DOMAIN wire : wire[i].req <= reqCounter
    /\ \A i \in DOMAIN reqs : reqs[i].id <= reqCounter

\* The step of OrderInv.  A response on arrival of a request is possible only
\* when somebody waits; by NoIdleRequest no older request is stored then.
LEMMA OrderStep ==
    ASSUME TypeOK, NoIdleRequest, OrderInv, [Next]_vars
    PROVE  OrderInv'
  <1>0. /\ wire \in Seq(Response) /\ DOMAIN wire = 1 .. Len(wire)
        /\ reqs \in Seq(Request) /\ DOMAIN reqs = 1 .. Len(reqs)
        /\ reqCounter \in Nat
        /\ \A i \in 1 .. Len(wire) : wire[i].req \in Nat
        /\ \A i \in 1 .. Len(reqs) : reqs[i].id \in Nat
    <2>1. wire \in Seq(Response) /\ reqs \in Seq(Request) /\ reqCounter \in Nat
      BY PublishingAssumption DEF TypeOK
    <2>2. \A w \in Response : w.req \in Nat
      BY DEF Response
    <2>3. \A r \in Request : r.id \in Nat
      BY DEF Request
    <2> QED
      BY <2>1, <2>2, <2>3
  <1>1. CASE UNCHANGED <<reqs, wire, reqCounter>>
    BY <1>1, Zenon DEF OrderInv, AnsweredInOrder
  <1>2. CASE reqs' = << >> /\ UNCHANGED <<wire, reqCounter>>
    BY <1>0, <1>2 DEF OrderInv, AnsweredInOrder
  <1>3. ASSUME NEW k \in UsableIndexes, NEW w \in Response,
               w.req = reqs[k].id,
               reqs' = SubSeq(reqs, k + 1, Len(reqs)),
               wire' = Append(wire, w),
               UNCHANGED reqCounter
        PROVE  OrderInv'
    <2>1. k \in 1 .. Len(reqs)
      BY DEF UsableIndexes
    <2>2. /\ DOMAIN wire' = 1 .. Len(wire) + 1
          /\ \A i \in 1 .. Len(wire) : wire'[i] = wire[i]
          /\ wire'[Len(wire) + 1] = w
      BY <1>0, <1>3
    <2>3. /\ DOMAIN reqs' = 1 .. Len(reqs) - k
          /\ \A i \in 1 .. Len(reqs) - k : reqs'[i] = reqs[i + k]
      BY <1>0, <1>3, <2>1
    <2>4. \A i, j \in DOMAIN wire' : i < j => wire'[i].req < wire'[j].req
      BY <1>0, <1>3, <2>1, <2>2 DEF OrderInv, AnsweredInOrder
    <2>5. \A i, j \in DOMAIN reqs' : i < j => reqs'[i].id < reqs'[j].id
      <3> SUFFICES ASSUME NEW i \in DOMAIN reqs', NEW j \in DOMAIN reqs', i < j
                   PROVE  reqs'[i].id < reqs'[j].id
        OBVIOUS
      <3>1. i + k \in DOMAIN reqs /\ j + k \in DOMAIN reqs /\ i + k < j + k
        BY <1>0, <2>1, <2>3
      <3>2. reqs[i + k].id < reqs[j + k].id
        BY <3>1 DEF OrderInv, AnsweredInOrder
      <3> QED
        BY <2>3, <3>2
    <2>6. \A i \in DOMAIN wire', j \in DOMAIN reqs' : wire'[i].req < reqs'[j].id
      <3> SUFFICES ASSUME NEW i \in DOMAIN wire', NEW j \in DOMAIN reqs'
                   PROVE  wire'[i].req < reqs'[j].id
        OBVIOUS
      <3>1. k \in DOMAIN reqs /\ j + k \in DOMAIN reqs /\ k < j + k
        BY <1>0, <2>1, <2>3
      <3>2. reqs[k].id < reqs[j + k].id
        BY <3>1 DEF OrderInv, AnsweredInOrder
      <3>3. CASE i = Len(wire) + 1
        BY <1>3, <2>2, <2>3, <3>2, <3>3
      <3>4. CASE i \in DOMAIN wire
        BY <1>0, <2>2, <2>3, <3>1, <3>4 DEF OrderInv, AnsweredInOrder
      <3> QED
        BY <1>0, <2>2, <3>3, <3>4
    <2>7. /\ \A i \in DOMAIN wire' : wire'[i].req <= reqCounter'
          /\ \A i \in DOMAIN reqs' : reqs'[i].id <= reqCounter'
      BY <1>0, <1>3, <2>1, <2>2, <2>3 DEF OrderInv
    <2> QED
      BY <2>4, <2>5, <2>6, <2>7 DEF OrderInv, AnsweredInOrder
  <1>4. CASE RequestTimesOut
    <2>1. PICK i \in 1 .. Len(reqs) : reqs' = [reqs EXCEPT ![i].hint = "late"]
      BY <1>4 DEF RequestTimesOut
    <2>2. /\ DOMAIN reqs' = DOMAIN reqs
          /\ \A j \in 1 .. Len(reqs) : reqs'[j].id = reqs[j].id
      BY <1>0, <2>1 DEF Request
    <2>3. UNCHANGED <<wire, reqCounter>>
      BY <1>4 DEF RequestTimesOut
    <2> QED
      BY <1>0, <2>2, <2>3 DEF OrderInv, AnsweredInOrder
  <1>5. ASSUME NEW acks, NEW hint \in Hints, PublishRequest(acks, hint)
        PROVE  OrderInv'
    <2>1. PICK r \in Request :
                 /\ r.id = reqCounter + 1
                 /\ \/ /\ waiting' = << >>
                       /\ reqs' = Append(reqs, r)
                       /\ UNCHANGED wire
                    \/ /\ waiting # << >>
                       /\ \E w \in Response : /\ w.req = r.id
                                              /\ wire' = Append(wire, w)
                       /\ UNCHANGED reqs
      BY <1>5, RequestEffect
    <2>2. reqCounter' = reqCounter + 1
      BY <1>5, RequestEffect
    <2>3. CASE reqs' = Append(reqs, r) /\ UNCHANGED wire
      <3>1. /\ DOMAIN reqs' = 1 .. Len(reqs) + 1
            /\ \A i \in 1 .. Len(reqs) : reqs'[i] = reqs[i]
            /\ reqs'[Len(reqs) + 1] = r
        BY <1>0, <2>3
      <3>2. \A i, j \in DOMAIN reqs' : i < j => reqs'[i].id < reqs'[j].id
        <4> SUFFICES ASSUME NEW i \in DOMAIN reqs', NEW j \in DOMAIN reqs', i < j
                     PROVE  reqs'[i].id < reqs'[j].id
          OBVIOUS
        <4>1. i \in DOMAIN reqs /\ reqs'[i] = reqs[i]
          BY <1>0, <3>1
        <4>2. CASE j = Len(reqs) + 1
          BY <1>0, <2>1, <3>1, <4>1, <4>2 DEF OrderInv
        <4>3. CASE j \in DOMAIN reqs
          BY <1>0, <3>1, <4>1, <4>3 DEF OrderInv, AnsweredInOrder
        <4> QED
          BY <1>0, <3>1, <4>2, <4>3
      <3>3. \A i \in DOMAIN wire, j \in DOMAIN reqs' : wire[i].req < reqs'[j].id
        BY <1>0, <2>1, <3>1 DEF OrderInv, AnsweredInOrder
      <3>4. /\ \A i \in DOMAIN wire : wire[i].req <= reqCounter + 1
            /\ \A i \in DOMAIN reqs' : reqs'[i].id <= reqCounter + 1
        BY <1>0, <2>1, <3>1 DEF OrderInv
      <3>5. \A i, j \in DOMAIN wire : i < j => wire[i].req < wire[j].req
        BY DEF OrderInv, AnsweredInOrder
      <3>6. wire' = wire /\ reqCounter' = reqCounter + 1
        BY <2>2, <2>3
      <3> QED
        BY <3>2, <3>3, <3>4, <3>5, <3>6, Zenon DEF OrderInv, AnsweredInOrder
    <2>4. ASSUME NEW w \in Response, w.req = r.id, wire' = Append(wire, w),
                 waiting # << >>, UNCHANGED reqs
          PROVE  OrderInv'
      <3>1. /\ DOMAIN wire' = 1 .. Len(wire) + 1
            /\ \A i \in 1 .. Len(wire) : wire'[i] = wire[i]
            /\ wire'[Len(wire) + 1] = w
        BY <1>0, <2>4
      <3>2. DOMAIN reqs' = {}
        BY <1>0, <2>4 DEF NoIdleRequest
      <3> QED
        BY <1>0, <2>1, <2>2, <2>4, <3>1, <3>2 DEF OrderInv, AnsweredInOrder
    <2> QED
      BY <2>1, <2>3, <2>4
  <1>6. ASSUME QueueEffect, UNCHANGED reqCounter
        PROVE  OrderInv'
    <2>1. ASSUME NEW k \in UsableIndexes, NEW s \in Subs, NEW x \in Subscription,
                 reqs' = SubSeq(reqs, k + 1, Len(reqs)),
                 wire' = Append(wire, Result(s, x, reqs[k]))
          PROVE  OrderInv'
      <3>1. reqs[k] \in Request
        BY <1>0 DEF UsableIndexes
      <3>2. Result(s, x, reqs[k]) \in Response
        BY <3>1, ResultType
      <3>3. Result(s, x, reqs[k]).req = reqs[k].id
        BY DEF Result
      <3> QED
        BY <1>3, <1>6, <2>1, <3>2, <3>3
    <2> QED
      BY <1>1, <1>2, <1>6, <2>1, Zenon DEF QueueEffect
  <1> QED
    BY <1>4, <1>5, <1>6, QueueSteps

\* No publish request is kept while a subscription waits for one, and
\* responses leave in the order of the requests: the two queues of
\* UaProcessor match them without waiting for each other.
THEOREM QueuesMatch == Spec => [](NoIdleRequest /\ AnsweredInOrder)
  <1>1. Init => TypeOK /\ NoIdleRequest /\ OrderInv
    <2>1. Init => TypeOK
      BY TypeInit
    <2>2. Init => NoIdleRequest /\ OrderInv
      BY DEF Init, NoIdleRequest, OrderInv, AnsweredInOrder
    <2> QED
      BY <2>1, <2>2
  <1>2. TypeOK /\ NoIdleRequest /\ OrderInv /\ [Next]_vars
            => (TypeOK /\ NoIdleRequest /\ OrderInv)'
    BY TypeStep, NoIdleStep, OrderStep
  <1>3. OrderInv => AnsweredInOrder
    BY DEF OrderInv
  <1> QED
    BY <1>1, <1>2, <1>3, PTL DEF Spec

-----------------------------------------------------------------------------
(* Lifetime of a subscription.                                             *)

\* A subscription that counts cycles has something to publish, and one that
\* has queued a status change is over its lifetime.
SubInv(x) ==
    /\ x.registered /\ x.cycles > 0 => HasResults(x)
    /\ x.status > 0 => Expired(x)

\* What the steps of a subscription leave alone.
SameLife(x, y) ==
    /\ y.registered = x.registered /\ y.cycles = x.cycles
    /\ y.startup = x.startup /\ y.keepAlive = x.keepAlive
    /\ y.status = x.status

\* The operators that leave counters and flags of a subscription alone.
LEMMA SameLifeFields ==
    ASSUME NEW x \in Subscription, NEW m, NEW n
    PROVE  /\ SameLife(x, LoopTest(x)) /\ LoopTest(x).data = x.data
           /\ SameLife(x, WithItem(x, m, n)) /\ WithItem(x, m, n).data = x.data
           /\ SameLife(x, WithoutItem(x, m)) /\ WithoutItem(x, m).data = x.data
           /\ SameLife(x, Acknowledged(x, n)) /\ Acknowledged(x, n).data = x.data
           /\ SameLife(x, Halted(x)) /\ Halted(x).data = x.data
           /\ SameLife(x, Queued(x, m, n))
  <1> USE DEF SameLife, Subscription
  <1>1. SameLife(x, LoopTest(x)) /\ LoopTest(x).data = x.data
    BY DEF LoopTest
  <1>2. SameLife(x, WithItem(x, m, n)) /\ WithItem(x, m, n).data = x.data
    BY DEF WithItem
  <1>3. SameLife(x, WithoutItem(x, m)) /\ WithoutItem(x, m).data = x.data
    BY DEF WithoutItem
  <1>4. SameLife(x, Acknowledged(x, n)) /\ Acknowledged(x, n).data = x.data
    BY DEF Acknowledged
  <1>5. SameLife(x, Halted(x)) /\ Halted(x).data = x.data
    BY DEF Halted
  <1>6. SameLife(x, Queued(x, m, n))
    BY DEF Queued
  <1> QED
    BY <1>1, <1>2, <1>3, <1>4, <1>5, <1>6

\* What the operators that count, expire and publish do to these fields.
LEMMA LifeFields ==
    ASSUME NEW x \in Subscription
    PROVE  /\ Expire(x).registered = FALSE /\ Expire(x).cycles = x.cycles
           /\ ExpireRecursively(x).cycles = x.cycles
           /\ ExpireRecursively(x).registered = x.registered
           /\ ExpireRecursively(x).startup = x.startup
           /\ ExpireRecursively(x).keepAlive = x.keepAlive
           /\ ExpireRecursively(x).data = x.data
           /\ CountIdle(x).registered = x.registered
           /\ CountIdle(x).cycles = x.cycles /\ CountIdle(x).status = x.status
           /\ CountCycle(x).registered = x.registered
           /\ CountCycle(x).cycles = x.cycles + 1
           /\ CountCycle(x).status = x.status
           /\ CountCycle(x).startup = x.startup
           /\ CountCycle(x).keepAlive = x.keepAlive
           /\ CountCycle(x).data = x.data
           /\ Popped(x).cycles = 0
           /\ x.status = 0 => Popped(x).status = 0
           /\ Popped(x).registered = x.registered
  <1> USE DEF Subscription
  <1>1. Expire(x).registered = FALSE /\ Expire(x).cycles = x.cycles
    BY DEF Expire
  <1>2. /\ ExpireRecursively(x).cycles = x.cycles
        /\ ExpireRecursively(x).registered = x.registered
        /\ ExpireRecursively(x).startup = x.startup
        /\ ExpireRecursively(x).keepAlive = x.keepAlive
        /\ ExpireRecursively(x).data = x.data
    BY DEF ExpireRecursively
  <1>3. /\ CountIdle(x).registered = x.registered
        /\ CountIdle(x).cycles = x.cycles /\ CountIdle(x).status = x.status
    BY DEF CountIdle
  <1>4. /\ CountCycle(x).registered = x.registered
        /\ CountCycle(x).cycles = x.cycles + 1
        /\ CountCycle(x).status = x.status
        /\ CountCycle(x).startup = x.startup
        /\ CountCycle(x).keepAlive = x.keepAlive
        /\ CountCycle(x).data = x.data
    BY DEF CountCycle
  <1>5. /\ Popped(x).cycles = 0
        /\ x.status = 0 => Popped(x).status = 0
        /\ Popped(x).registered = x.registered
    BY DEF Popped
  <1> QED
    BY <1>1, <1>2, <1>3, <1>4, <1>5

\* SubInv is kept by every step a subscription takes.
LEMMA SubInvOps ==
    ASSUME NEW x \in Subscription, SubInv(x)
    PROVE  /\ Expired(x) => SubInv(Expire(x)) /\ SubInv(ExpireRecursively(x))
           /\ ~HasResults(x) => SubInv(CountIdle(x))
           /\ ~Expired(x) /\ HasResults(x) => SubInv(CountCycle(x))
           /\ ~Expired(x) => SubInv(Popped(x)) /\ x.status = 0
  <1> USE DEF SubInv, Expired
  <1>0. x.cycles \in Nat /\ x.status \in Nat
    BY FieldTypes
  <1>1. Expired(x) => SubInv(Expire(x)) /\ SubInv(ExpireRecursively(x))
    BY LifeFields DEF HasResults
  <1>2. ~HasResults(x) => SubInv(CountIdle(x))
    BY LifeFields
  <1>3. ~Expired(x) => x.status = 0
    BY <1>0
  <1>4. ~Expired(x) /\ HasResults(x) => SubInv(CountCycle(x))
    BY <1>0, <1>3, LifeFields DEF HasResults
  <1>5. ~Expired(x) => SubInv(Popped(x))
    BY <1>3, LifeFields
  <1> QED
    BY <1>1, <1>2, <1>3, <1>4, <1>5

\* So is it by the steps that change neither counters nor queues, or only
\* fill a queue.
LEMMA SubInvSame ==
    ASSUME NEW x \in Subscription, NEW y, SubInv(x), SameLife(x, y),
           y.data = x.data \/ y.data # NoData
    PROVE  SubInv(y)
  BY DEF SubInv, SameLife, HasResults, Expired

\* Filling a queue keeps SubInv: the subscription then has results.
LEMMA QueuedSubInv ==
    ASSUME NEW x \in Subscription, SubInv(x), NEW m \in Items, NEW n \in Nat
    PROVE  SubInv(Queued(x, m, n))
  <1>1. Queued(x, m, n).data[m] # << >>
    <2>1. x.data \in [Items -> Seq(Nat)]
      BY FieldTypes
    <2>2. Queued(x, m, n).data[m] = Enqueued(x.data[m], x.size[m], n)
      BY <2>1 DEF Queued, Subscription
    <2>3. x.data[m] \in Seq(Nat)
      BY <2>1
    <2>4. \A q \in Seq(Nat) : Append(q, n) # << >>
      <3> SUFFICES ASSUME NEW q \in Seq(Nat) PROVE Append(q, n) # << >>
        OBVIOUS
      <3>1. Len(Append(q, n)) = Len(q) + 1 /\ Len(q) \in Nat /\ Len(<< >>) = 0
        OBVIOUS
      <3> QED
        BY <3>1
    <2>5. x.data[m] # << >> => Tail(x.data[m]) \in Seq(Nat)
      BY <2>3
    <2>6. Enqueued(x.data[m], x.size[m], n) # << >>
      BY <2>3, <2>4, <2>5 DEF Enqueued
    <2> QED
      BY <2>2, <2>6
  <1>2. Queued(x, m, n).data # NoData
    BY <1>1 DEF NoData
  <1>3. SameLife(x, Queued(x, m, n))
    BY SameLifeFields
  <1> QED
    BY <1>2, <1>3, SubInvSame

LifeInv == \A s \in Subs : SubInv(sub[s])

\* The subscriptions that the next request must reach.
Starving(x) == x.registered /\ x.cycles > 0 /\ ~Expired(x)

\* A response without a status change keeps the wire silent.
LEMMA SilentAppend ==
    ASSUME TypeOK, ExpiryIsSilent, NEW w, w.status = FALSE,
           wire' = Append(wire, w)
    PROVE  ExpiryIsSilent'
  <1>1. /\ DOMAIN wire' = 1 .. Len(wire) + 1
        /\ \A i \in 1 .. Len(wire) : wire'[i] = wire[i]
        /\ wire'[Len(wire) + 1] = w
    BY DEF TypeOK
  <1>2. DOMAIN wire = 1 .. Len(wire) /\ Len(wire) \in Nat
    BY DEF TypeOK
  <1>3. ASSUME NEW i \in DOMAIN wire' PROVE ~wire'[i].status
    <2>1. CASE i \in DOMAIN wire
      BY <1>1, <1>2, <2>1 DEF ExpiryIsSilent
    <2>2. CASE i = Len(wire) + 1
      BY <1>1, <2>2
    <2> QED
      BY <1>1, <1>2, <2>1, <2>2
  <1> QED
    BY <1>3 DEF ExpiryIsSilent

\* publish_results() keeps LifeInv and StarvedIsWaiting, and sends no status
\* change.
LEMMA PublishResultsLife ==
    ASSUME TypeOK, LifeInv, StarvedIsWaiting, ExpiryIsSilent,
           NEW s \in Subs, NEW x \in Subscription, SubInv(x),
           x.registered = sub[s].registered, x.cycles = sub[s].cycles,
           PublishResults(s, x)
    PROVE  LifeInv' /\ StarvedIsWaiting' /\ ExpiryIsSilent'
  <1>0. sub \in [Subs -> Subscription] /\ waiting \in Seq(Subs)
    BY DEF TypeOK
  <1>1. ASSUME NEW y \in Subscription, SubInv(y),
               sub' = [sub EXCEPT ![s] = LoopTest(y)],
               Starving(y) => s \in ToSet(waiting'),
               ToSet(waiting) \subseteq ToSet(waiting'),
               ExpiryIsSilent'
        PROVE  LifeInv' /\ StarvedIsWaiting' /\ ExpiryIsSilent'
    <2>1. SameLife(y, LoopTest(y)) /\ SubInv(LoopTest(y))
      BY <1>1, SameLifeFields, SubInvSame
    <2>2. sub'[s] = LoopTest(y) /\ \A t \in Subs \ {s} : sub'[t] = sub[t]
      BY <1>0, <1>1
    <2>3. LifeInv'
      BY <2>1, <2>2 DEF LifeInv
    <2>4. \A t \in Subs : Starving(sub'[t]) => t \in ToSet(waiting')
      BY <1>1, <2>1, <2>2 DEF Starving, SameLife, Expired, StarvedIsWaiting
    <2> QED
      BY <1>1, <2>3, <2>4 DEF StarvedIsWaiting, Starving
  <1>2. ASSUME UNCHANGED wire PROVE ExpiryIsSilent'
    BY <1>2, Zenon DEF ExpiryIsSilent
  <1>3. Starving(x) => s \in ToSet(waiting)
    BY DEF Starving, StarvedIsWaiting, Expired
  <1>4. CASE /\ Expired(x)
             /\ sub' = [sub EXCEPT ![s] =
                    LoopTest(IF s \in Immediate THEN ExpireRecursively(x)
                                                ELSE Expire(x))]
             /\ UNCHANGED <<reqs, waiting, wire>>
    <2> DEFINE y == IF s \in Immediate THEN ExpireRecursively(x) ELSE Expire(x)
    <2>1. y \in Subscription /\ SubInv(y)
      BY <1>4, ExpireType, SubInvOps
    <2>2. ~Starving(y)
      BY <1>4, LifeFields DEF Starving, Expired
    <2> QED
      BY <1>1, <1>2, <1>4, <2>1, <2>2
  <1>5. CASE /\ ~Expired(x) /\ ~HasResults(x)
             /\ sub' = [sub EXCEPT ![s] = LoopTest(CountIdle(x))]
             /\ UNCHANGED <<reqs, waiting, wire>>
    <2>1. CountIdle(x) \in Subscription /\ SubInv(CountIdle(x))
      BY <1>5, CountType, SubInvOps
    <2>2. Starving(CountIdle(x)) => s \in ToSet(waiting)
      BY <1>3, LifeFields DEF Starving, Expired
    <2> QED
      BY <1>1, <1>2, <1>5, <2>1, <2>2
  <1>6. CASE /\ ~Expired(x) /\ HasResults(x)
             /\ waiting' = Enlist(s)
             /\ sub' = [sub EXCEPT ![s] = LoopTest(CountCycle(x))]
             /\ UNCHANGED wire
    <2>1. CountCycle(x) \in Subscription /\ SubInv(CountCycle(x))
      BY <1>6, CountType, SubInvOps
    <2>2. s \in ToSet(waiting') /\ ToSet(waiting) \subseteq ToSet(waiting')
      BY <1>0, <1>6 DEF Enlist, ToSet
    <2> QED
      BY <1>1, <1>2, <1>6, <2>1, <2>2
  <1>7. CASE /\ ~Expired(x) /\ HasResults(x)
             /\ \E k \in UsableIndexes : wire' = Append(wire, Result(s, x, reqs[k]))
             /\ sub' = [sub EXCEPT ![s] = LoopTest(Popped(x))]
             /\ UNCHANGED waiting
    <2>1. Popped(x) \in Subscription /\ SubInv(Popped(x)) /\ x.status = 0
      BY <1>7, PoppedType, SubInvOps
    <2>2. ~Starving(Popped(x))
      <3>1. Popped(x).cycles = 0
        BY LifeFields
      <3> QED
        BY <3>1 DEF Starving
    <2>3. PICK k \in UsableIndexes : wire' = Append(wire, Result(s, x, reqs[k]))
      BY <1>7
    <2>4. Result(s, x, reqs[k]).status = FALSE
      BY <2>1 DEF Result
    <2>5. ExpiryIsSilent'
      BY <2>3, <2>4, SilentAppend
    <2> QED
      BY <1>1, <1>7, <2>1, <2>2, <2>5
  <1> QED
    BY <1>4, <1>5, <1>6, <1>7, Zenon DEF PublishResults

\* A subscription the loop over _publish_results_subs passes by does not
\* need a request.
LEMMA PassedLife ==
    ASSUME NEW x \in Subscription, SubInv(x), ~Publishes(x)
    PROVE  SubInv(PassedBy(x)) /\ ~Starving(PassedBy(x))
  <1>1. CASE ~x.registered
    BY <1>1 DEF PassedBy, Starving
  <1>2. CASE x.registered /\ Expired(x)
    <2>1. PassedBy(x) = Expire(x)
      BY <1>2 DEF PassedBy
    <2>2. Expire(x).registered = FALSE /\ SubInv(Expire(x))
      BY <1>2, LifeFields, SubInvOps
    <2> QED
      BY <2>1, <2>2 DEF Starving
  <1>3. CASE x.registered /\ ~Expired(x)
    <2>1. PassedBy(x) = CountIdle(x)
      BY <1>3 DEF PassedBy
    <2>2. ~HasResults(x)
      BY <1>3 DEF Publishes
    <2>3. SubInv(CountIdle(x)) /\ CountIdle(x).cycles = x.cycles
      BY <2>2, SubInvOps, LifeFields
    <2>4. ~(x.cycles > 0)
      BY <1>3, <2>2 DEF SubInv
    <2> QED
      BY <2>1, <2>3, <2>4 DEF Starving
  <1> QED
    BY <1>1, <1>2, <1>3

\* Acknowledgements change neither counters nor queues.
LEMMA AckLife ==
    ASSUME TypeOK, NEW acks, NEW s \in Subs
    PROVE  /\ SameLife(sub[s], AfterAcks(acks)[s])
           /\ AfterAcks(acks)[s].data = sub[s].data
           /\ SubInv(sub[s]) => SubInv(AfterAcks(acks)[s])
           /\ Starving(AfterAcks(acks)[s]) => Starving(sub[s])
           /\ Publishes(AfterAcks(acks)[s]) <=> Publishes(sub[s])
  <1>1. sub[s] \in Subscription
    BY DEF TypeOK
  <1>2. CASE ~sub[s].registered
    <2>1. AfterAcks(acks)[s] = sub[s]
      BY <1>2 DEF AfterAcks
    <2> QED
      BY <2>1 DEF SameLife
  <1>3. CASE sub[s].registered
    <2> DEFINE a == {c[2] : c \in {b \in acks : b[1] = s}}
    <2>1. AfterAcks(acks)[s] = Acknowledged(sub[s], a)
      BY <1>3 DEF AfterAcks
    <2> HIDE DEF a
    <2>2. /\ SameLife(sub[s], Acknowledged(sub[s], a))
          /\ Acknowledged(sub[s], a).data = sub[s].data
      BY <1>1, SameLifeFields
    <2>3. SubInv(sub[s]) => SubInv(Acknowledged(sub[s], a))
      BY <1>1, <2>2, SubInvSame
    <2>4. Starving(Acknowledged(sub[s], a)) => Starving(sub[s])
      BY <2>2 DEF Starving, SameLife, Expired
    <2>5. Publishes(Acknowledged(sub[s], a)) <=> Publishes(sub[s])
      BY <2>2 DEF Publishes, SameLife, Expired, HasResults
    <2> QED
      BY <2>1, <2>2, <2>3, <2>4, <2>5
  <1> QED
    BY <1>2, <1>3

\* A new publish request keeps LifeInv and StarvedIsWaiting: whoever the loop
\* passes either resets its count, expires or had none.
LEMMA PublishRequestLife ==
    ASSUME TypeOK, LifeInv, StarvedIsWaiting, ExpiryIsSilent,
           NEW acks, NEW hint \in Hints, PublishRequest(acks, hint)
    PROVE  LifeInv' /\ StarvedIsWaiting' /\ ExpiryIsSilent'
  <1> DEFINE r == [id |-> reqCounter + 1, hint |-> hint]
             after == AfterAcks(acks)
  <1>0. waiting \in Seq(Subs) /\ Len(waiting) \in Nat
    BY DEF TypeOK
  <1>1. after \in [Subs -> Subscription] /\ \A s \in Subs : SubInv(after[s])
    BY AfterAcksType, AckLife DEF LifeInv
  <1>2. \A s \in Subs : Starving(after[s]) =>
            \E i \in 1 .. Len(waiting) : waiting[i] = s
    <2>1. \A s \in Subs : Starving(after[s]) => s \in ToSet(waiting)
      BY AckLife DEF StarvedIsWaiting, Starving
    <2> QED
      BY <1>0, <2>1 DEF ToSet
  <1>3. ASSUME NEW n \in 0 .. Len(waiting), NEW s \in Subs,
               \A i \in 1 .. n : i \notin Stops(after)
        PROVE  /\ SubInv(AfterPassing(after, n)[s])
               /\ Starving(AfterPassing(after, n)[s]) =>
                      \E i \in n + 1 .. Len(waiting) : waiting[i] = s
    <2>1. CASE s \in {waiting[i] : i \in 1 .. n}
      <3>1. PICK i \in 1 .. n : waiting[i] = s
        BY <2>1
      <3>2. ~Publishes(after[s])
        BY <1>0, <1>3, <3>1 DEF Stops
      <3>3. AfterPassing(after, n)[s] = PassedBy(after[s])
        BY <2>1 DEF AfterPassing
      <3> HIDE DEF after
      <3> QED
        BY <1>1, <3>2, <3>3, PassedLife
    <2>2. CASE s \notin {waiting[i] : i \in 1 .. n}
      <3>1. AfterPassing(after, n)[s] = after[s]
        BY <2>2 DEF AfterPassing
      <3> HIDE DEF after
      <3>2. ASSUME Starving(after[s])
            PROVE  \E i \in n + 1 .. Len(waiting) : waiting[i] = s
        <4>1. PICK i \in 1 .. Len(waiting) : waiting[i] = s
          BY <1>2, <3>2
        <4>2. i \in n + 1 .. Len(waiting)
          BY <1>0, <2>2, <4>1
        <4> QED
          BY <4>1, <4>2
      <3> QED
        BY <1>1, <3>1, <3>2
    <2> QED
      BY <2>1, <2>2
  <1>4. CASE /\ Stops(after) = {}
             /\ sub' = AfterPassing(after, Len(waiting))
             /\ waiting' = << >>
             /\ UNCHANGED wire
    <2> HIDE DEF after
    <2>1. \A s \in Subs : SubInv(sub'[s]) /\ ~Starving(sub'[s])
      BY <1>0, <1>3, <1>4
    <2>2. ExpiryIsSilent'
      BY <1>4, Zenon DEF ExpiryIsSilent
    <2> QED
      BY <2>1, <2>2 DEF LifeInv, StarvedIsWaiting, Starving
  <1>5. ASSUME NEW k \in Stops(after), \A i \in Stops(after) : k <= i,
               NEW t, t = waiting[k],
               waiting' = SubSeq(waiting, k + 1, Len(waiting)),
               NEW y, SubInv(y), ~Starving(y),
               sub' = [AfterPassing(after, k - 1) EXCEPT ![t] = y]
        PROVE  LifeInv' /\ StarvedIsWaiting'
    <2> HIDE DEF after
    <2>1. k \in 1 .. Len(waiting) /\ t \in Subs /\ k - 1 \in 0 .. Len(waiting)
      BY <1>0, <1>5 DEF Stops
    <2>2. \A i \in 1 .. k - 1 : i \notin Stops(after)
      BY <1>5, <2>1
    <2>3. AfterPassing(after, k - 1) \in [Subs -> Subscription]
      BY <1>1, AfterPassingType
    <2>4. sub'[t] = y /\ \A s \in Subs \ {t} : sub'[s] = AfterPassing(after, k - 1)[s]
      BY <1>5, <2>1, <2>3
    <2>5. ASSUME NEW s \in Subs, Starving(sub'[s])
          PROVE  s \in ToSet(waiting')
      <3>1. s # t /\ Starving(AfterPassing(after, k - 1)[s])
        BY <1>5, <2>4, <2>5
      <3>2. PICK i \in k .. Len(waiting) : waiting[i] = s
        BY <1>3, <2>1, <2>2, <3>1
      <3>3. i - k \in 1 .. Len(waiting) - k
        BY <1>5, <2>1, <3>1, <3>2
      <3>4. /\ DOMAIN waiting' = 1 .. Len(waiting) - k
            /\ waiting'[i - k] = waiting[i]
        BY <1>0, <1>5, <2>1, <3>2, <3>3
      <3> QED
        BY <3>2, <3>3, <3>4 DEF ToSet
    <2>6. \A s \in Subs : SubInv(sub'[s])
      BY <1>3, <1>5, <2>1, <2>2, <2>4
    <2> QED
      BY <2>5, <2>6 DEF LifeInv, StarvedIsWaiting, Starving
  <1>6. ASSUME NEW k \in Stops(after), NEW t, t = waiting[k],
               Publishes(after[t])
        PROVE  /\ SubInv(Popped(after[t])) /\ ~Starving(Popped(after[t]))
               /\ Result(t, after[t], r).status = FALSE
    <2>1. t \in Subs
      BY <1>0, <1>6 DEF Stops
    <2>2. after[t] \in Subscription /\ SubInv(after[t])
      BY <1>1, <2>1
    <2> HIDE DEF after, r
    <2>3. SubInv(Popped(after[t])) /\ after[t].status = 0
      BY <1>6, <2>2, SubInvOps DEF Publishes
    <2>4. Popped(after[t]).cycles = 0
      BY <2>2, LifeFields
    <2>5. ~Starving(Popped(after[t]))
      BY <2>4 DEF Starving
    <2>6. Result(t, after[t], r).status = FALSE
      BY <2>3 DEF Result
    <2> QED
      BY <2>3, <2>5, <2>6
  <1>7. ASSUME NEW k \in Stops(after), NEW t, t = waiting[k],
               Raises(t, after[t])
        PROVE  /\ SubInv(ExpireRecursively(after[t]))
               /\ ~Starving(ExpireRecursively(after[t]))
               /\ Fault(r).status = FALSE
    <2>1. t \in Subs
      BY <1>0, <1>7 DEF Stops
    <2>2. after[t] \in Subscription /\ SubInv(after[t])
      BY <1>1, <2>1
    <2> HIDE DEF after, r
    <2>3. SubInv(ExpireRecursively(after[t])) /\ Expired(after[t])
      BY <1>7, <2>2, SubInvOps DEF Raises
    <2>4. ExpireRecursively(after[t]).cycles = after[t].cycles
      BY <2>2, LifeFields
    <2> QED
      BY <2>3, <2>4 DEF Starving, Fault, Expired
  <1>8. \/ /\ Stops(after) = {}
           /\ sub' = AfterPassing(after, Len(waiting))
           /\ waiting' = << >>
           /\ UNCHANGED wire
        \/ \E k \in Stops(after) :
              /\ \A i \in Stops(after) : k <= i
              /\ \/ /\ Publishes(after[waiting[k]])
                    /\ sub' = [AfterPassing(after, k - 1) EXCEPT
                                  ![waiting[k]] = Popped(after[waiting[k]])]
                    /\ wire' = Append(wire, Result(waiting[k], after[waiting[k]], r))
                 \/ /\ Raises(waiting[k], after[waiting[k]])
                    /\ sub' = [AfterPassing(after, k - 1) EXCEPT
                                  ![waiting[k]] = ExpireRecursively(after[waiting[k]])]
                    /\ wire' = Append(wire, Fault(r))
              /\ waiting' = SubSeq(waiting, k + 1, Len(waiting))
    BY Zenon DEF PublishRequest
  <1> HIDE DEF after, r
  <1> QED
    BY <1>4, <1>5, <1>6, <1>7, <1>8, SilentAppend, Zenon

\* A step that keeps the counters of every subscription, or unregisters it.
LEMMA QuietLife ==
    ASSUME TypeOK, LifeInv, StarvedIsWaiting, ExpiryIsSilent,
           NEW s \in Subs, NEW y, SubInv(y),
           Starving(y) => Starving(sub[s]),
           sub' = [sub EXCEPT ![s] = y],
           UNCHANGED <<waiting, wire>>
    PROVE  LifeInv' /\ StarvedIsWaiting' /\ ExpiryIsSilent'
  <1>1. sub'[s] = y /\ \A t \in Subs \ {s} : sub'[t] = sub[t]
    BY DEF TypeOK
  <1>2. ExpiryIsSilent'
    BY Zenon DEF ExpiryIsSilent
  <1>3. LifeInv'
    BY <1>1 DEF LifeInv
  <1>4. \A t \in Subs : Starving(sub'[t]) => Starving(sub[t])
    BY <1>1
  <1> QED
    BY <1>2, <1>3, <1>4 DEF StarvedIsWaiting, Starving

\* A step that only changes other fields of one subscription keeps both.
LEMMA SameLifeQuiet ==
    ASSUME NEW x \in Subscription, NEW y, SubInv(x), SameLife(x, y),
           y.data = x.data
    PROVE  SubInv(y) /\ (Starving(y) => Starving(x))
  <1>1. SubInv(y)
    BY SubInvSame
  <1>2. Starving(y) => Starving(x)
    BY DEF Starving, SameLife, Expired
  <1> QED
    BY <1>1, <1>2

\* Enqueueing keeps both, with or without the publishing it triggers.
LEMMA EnqueueLife ==
    ASSUME TypeOK, LifeInv, StarvedIsWaiting, ExpiryIsSilent,
           NEW s \in Subs, NEW x \in Subscription, SubInv(x),
           x.registered = sub[s].registered, x.cycles = sub[s].cycles,
           NEW m \in Items, Enqueue(s, x, m)
    PROVE  LifeInv' /\ StarvedIsWaiting' /\ ExpiryIsSilent'
  <1> DEFINE y == Queued(x, m, produced[s][m] + 1)
  <1>1. produced[s][m] + 1 \in Nat
    BY DEF TypeOK
  <1>2. y \in Subscription /\ SubInv(y)
    BY <1>1, QueuedType, QueuedSubInv
  <1>3. SameLife(x, y)
    BY SameLifeFields
  <1>4. y.registered = sub[s].registered /\ y.cycles = sub[s].cycles
    BY <1>3 DEF SameLife
  <1>5. \/ PublishResults(s, y)
        \/ sub' = [sub EXCEPT ![s] = y] /\ UNCHANGED <<waiting, wire>>
    BY Zenon DEF Enqueue
  <1> HIDE DEF y
  <1>6. Starving(y) => Starving(sub[s])
    BY <1>4 DEF Starving, Expired
  <1>7. CASE PublishResults(s, y)
    BY <1>2, <1>4, <1>7, PublishResultsLife
  <1>8. CASE sub' = [sub EXCEPT ![s] = y] /\ UNCHANGED <<waiting, wire>>
    BY <1>2, <1>6, <1>8, QuietLife
  <1> QED
    BY <1>5, <1>7, <1>8

\* The step of the lifetime invariants.
LEMMA LifeStep ==
    ASSUME TypeOK, LifeInv, StarvedIsWaiting, ExpiryIsSilent, [Next]_vars
    PROVE  LifeInv' /\ StarvedIsWaiting' /\ ExpiryIsSilent'
  <1> DEFINE Goal == LifeInv' /\ StarvedIsWaiting' /\ ExpiryIsSilent'
  <1>0. \A s \in Subs : sub[s] \in Subscription /\ SubInv(sub[s])
    BY DEF TypeOK, LifeInv
  <1>1. CASE CreateSubscription
    <2>1. subCounter + 1 \in Subs
      BY <1>1, PublishingAssumption DEF CreateSubscription, TypeOK, Subs
    <2>2. ASSUME NEW b \in BOOLEAN
          PROVE  SubInv(Started(b)) /\ ~Starving(Started(b))
      <3>1. Started(b).cycles = 0 /\ Started(b).status = 0
        BY DEF Started, Unborn
      <3> QED
        BY <3>1 DEF SubInv, Starving
    <2>3. (subCounter + 1 \notin Immediate) \in BOOLEAN
      BY Zenon
    <2> QED
      BY <1>1, <2>1, <2>2, <2>3, QuietLife DEF CreateSubscription
  <1>2. ASSUME NEW s \in Subs, NEW m \in Items, Notify(s, m)
        PROVE  Goal
    BY <1>0, <1>2, EnqueueLife DEF Notify
  <1>3. ASSUME NEW s \in Subs, NEW m \in Items, NEW size \in QueueSizes,
               CreateMonitoredItem(s, m, size)
        PROVE  Goal
    <2> DEFINE x == WithItem(sub[s], m, size)
    <2>1. x \in Subscription /\ SameLife(sub[s], x) /\ x.data = sub[s].data
      BY <1>0, WithItemType, SameLifeFields, PublishingAssumption
    <2>2. SubInv(x) /\ (Starving(x) => Starving(sub[s]))
      BY <1>0, <2>1, SameLifeQuiet
    <2>3. x.registered = sub[s].registered /\ x.cycles = sub[s].cycles
      BY <2>1 DEF SameLife
    <2>4. \/ Enqueue(s, x, m)
          \/ sub' = [sub EXCEPT ![s] = x] /\ UNCHANGED <<waiting, wire>>
      BY <1>3, Zenon DEF CreateMonitoredItem
    <2> HIDE DEF x
    <2> QED
      BY <2>1, <2>2, <2>3, <2>4, EnqueueLife, QuietLife
  <1>4. ASSUME NEW s \in Subs, NEW m \in Items, NEW size \in QueueSizes,
               ModifyMonitoredItem(s, m, size)
        PROVE  Goal
    <2>1. SameLife(sub[s], WithItem(sub[s], m, size))
      BY <1>0, SameLifeFields
    <2>2. WithItem(sub[s], m, size).data = sub[s].data
      BY <1>0, SameLifeFields
    <2> QED
      BY <1>0, <1>4, <2>1, <2>2, SameLifeQuiet, QuietLife DEF ModifyMonitoredItem
  <1>5. ASSUME NEW s \in Subs, NEW m \in Items, DeleteMonitoredItem(s, m)
        PROVE  Goal
    <2>1. SameLife(sub[s], WithoutItem(sub[s], m))
      BY <1>0, SameLifeFields
    <2>2. WithoutItem(sub[s], m).data = sub[s].data
      BY <1>0, SameLifeFields
    <2> QED
      BY <1>0, <1>5, <2>1, <2>2, SameLifeQuiet, QuietLife DEF DeleteMonitoredItem
  <1>6. ASSUME NEW s \in Subs, PublishCycle(s)
        PROVE  Goal
    BY <1>0, <1>6, PublishResultsLife DEF PublishCycle
  <1>7. CASE RequestTimesOut \/ UNCHANGED vars
    <2>1. UNCHANGED <<sub, waiting, wire>>
      BY <1>7, Zenon DEF RequestTimesOut, vars
    <2> QED
      BY <2>1, Zenon DEF LifeInv, StarvedIsWaiting, ExpiryIsSilent
  <1>8. ASSUME NEW acks, NEW hint \in Hints, PublishRequest(acks, hint)
        PROVE  Goal
    BY <1>8, PublishRequestLife
  <1>9. ASSUME NEW s \in Subs, NEW n, Republish(s, n)
        PROVE  Goal
    <2>1. SameLife(sub[s], Acknowledged(sub[s], {n}))
      BY <1>0, SameLifeFields
    <2>2. Acknowledged(sub[s], {n}).data = sub[s].data
      BY <1>0, SameLifeFields
    <2> QED
      BY <1>0, <1>9, <2>1, <2>2, SameLifeQuiet, QuietLife DEF Republish
  <1>10. ASSUME NEW ids \in SUBSET Subs, DeleteSubscriptions(ids)
         PROVE  Goal
    <2>1. ASSUME NEW x \in Subscription, SubInv(x)
          PROVE  /\ SubInv([x EXCEPT !.registered = FALSE])
                 /\ ~Starving([x EXCEPT !.registered = FALSE])
      <3> DEFINE y == [x EXCEPT !.registered = FALSE]
      <3>1. y.registered = FALSE /\ y.status = x.status /\ y.cycles = x.cycles
        BY DEF Subscription
      <3> HIDE DEF y
      <3> QED
        BY <2>1, <3>1 DEF SubInv, Starving, Expired
    <2>2. \A s \in Subs : /\ SubInv(sub'[s])
                          /\ Starving(sub'[s]) => Starving(sub[s])
      BY <1>0, <1>10, <2>1 DEF DeleteSubscriptions
    <2>3. UNCHANGED <<waiting, wire>>
      BY <1>10 DEF DeleteSubscriptions
    <2>4. ExpiryIsSilent'
      BY <2>3, Zenon DEF ExpiryIsSilent
    <2> QED
      BY <2>2, <2>3, <2>4 DEF LifeInv, StarvedIsWaiting, Starving
  <1>11. ASSUME NEW s \in Subs, StopSubscription(s)
         PROVE  Goal
    <2>1. SameLife(sub[s], Halted(sub[s])) /\ Halted(sub[s]).data = sub[s].data
      BY <1>0, SameLifeFields
    <2> QED
      BY <1>0, <1>11, <2>1, SameLifeQuiet, QuietLife DEF StopSubscription
  <1> QED
    BY <1>1, <1>2, <1>3, <1>4, <1>5, <1>6, <1>7, <1>8, <1>9, <1>10, <1>11, Zenon
       DEF Next

\* The initial state has the lifetime invariants.
LEMMA LifeInit == Init => LifeInv /\ StarvedIsWaiting /\ ExpiryIsSilent
  <1>1. Unborn.cycles = 0 /\ Unborn.status = 0
    BY DEF Unborn
  <1>2. SubInv(Unborn) /\ ~Starving(Unborn)
    BY <1>1 DEF SubInv, Starving
  <1>3. Init => LifeInv /\ StarvedIsWaiting
    BY <1>2 DEF Init, LifeInv, StarvedIsWaiting, Starving
  <1>4. Init => ExpiryIsSilent
    BY DEF Init, ExpiryIsSilent
  <1> QED
    BY <1>3, <1>4

\* A subscription that counts cycles towards its expiry is in the list that
\* the next publish request serves, and no subscription that has expired
\* ever tells its client so.
THEOREM Lifetime == Spec => [](StarvedIsWaiting /\ ExpiryIsSilent)
  <1>1. Init => TypeOK /\ LifeInv /\ StarvedIsWaiting /\ ExpiryIsSilent
    BY TypeInit, LifeInit
  <1>2. /\ TypeOK /\ LifeInv /\ StarvedIsWaiting /\ ExpiryIsSilent
        /\ [Next]_vars
        => (TypeOK /\ LifeInv /\ StarvedIsWaiting /\ ExpiryIsSilent)'
    BY TypeStep, LifeStep
  <1> QED
    BY <1>1, <1>2, PTL DEF Spec

-----------------------------------------------------------------------------
(* What a step may never do.                                               *)

\* The response just written is the last one.
LEMMA LastOfAppend ==
    ASSUME NEW S, NEW q \in Seq(S), NEW e \in S
    PROVE  Last(Append(q, e)) = e
  BY DEF Last

\* The responses a step can send: one to an old request, then nobody waits;
\* or one to the new request, for the first waiting subscription that stops
\* the loop over _publish_results_subs.
LEMMA ResponseSteps ==
    ASSUME TypeOK, [Next]_vars, wire' # wire
    PROVE  \/ reqs # << >>
           \/ \E k \in 1 .. Len(waiting) :
                 /\ \A i \in 1 .. Len(waiting) :
                        Publishes(sub[waiting[i]]) => k <= i
                 /\ \/ Last(wire').fault
                    \/ Last(wire').sub = waiting[k]
  <1>1. CASE QueueEffect
    <2>1. PICK k \in UsableIndexes : TRUE
      BY <1>1, Zenon DEF QueueEffect
    <2> QED
      BY <2>1 DEF UsableIndexes
  <1>2. CASE RequestTimesOut
    BY <1>2 DEF RequestTimesOut
  <1>3. ASSUME NEW acks, NEW hint \in Hints, PublishRequest(acks, hint)
        PROVE  \E k \in 1 .. Len(waiting) :
                 /\ \A i \in 1 .. Len(waiting) :
                        Publishes(sub[waiting[i]]) => k <= i
                 /\ \/ Last(wire').fault
                    \/ Last(wire').sub = waiting[k]
    <2> DEFINE r == [id |-> reqCounter + 1, hint |-> hint]
               after == AfterAcks(acks)
    <2>1. PICK k \in Stops(after) :
             /\ \A i \in Stops(after) : k <= i
             /\ \/ wire' = Append(wire, Result(waiting[k], after[waiting[k]], r))
                \/ wire' = Append(wire, Fault(r))
      BY <1>3, Zenon DEF PublishRequest
    <2>2. k \in 1 .. Len(waiting) /\ waiting[k] \in Subs
      BY DEF Stops, TypeOK
    <2>3. ASSUME NEW i \in 1 .. Len(waiting), Publishes(sub[waiting[i]])
          PROVE  k <= i
      <3>1. waiting[i] \in Subs
        BY DEF TypeOK
      <3>2. Publishes(after[waiting[i]])
        BY <2>3, <3>1, AckLife
      <3> QED
        BY <2>1, <3>2 DEF Stops
    <2>4. r \in Request
      BY PublishingAssumption DEF TypeOK, Request
    <2>5. after[waiting[k]] \in Subscription
      BY <2>2, AfterAcksType
    <2>6. /\ Result(waiting[k], after[waiting[k]], r) \in Response
          /\ Fault(r) \in Response
      BY <2>2, <2>4, <2>5, ResultType, FaultType
    <2>7. /\ Result(waiting[k], after[waiting[k]], r).sub = waiting[k]
          /\ Fault(r).fault
      BY DEF Result, Fault
    <2> HIDE DEF r, after
    <2>8. Last(wire').fault \/ Last(wire').sub = waiting[k]
      <3> DEFINE w == Result(waiting[k], after[waiting[k]], r)
      <3>1. wire \in Seq(Response)
        BY DEF TypeOK
      <3>2. Last(Append(wire, w)) = w /\ Last(Append(wire, Fault(r))) = Fault(r)
        BY <2>6, <3>1, LastOfAppend
      <3> QED
        BY <2>1, <2>7, <3>2, Zenon
    <2> QED
      BY <2>2, <2>3, <2>8
  <1> QED
    BY <1>1, <1>2, <1>3, QueueSteps

\* The list _publish_results_subs is served in its order: no response
\* overtakes a subscription that waits for one and could publish.
THEOREM ServedInOrder == Spec => NoOvertaking
  <1>1. Init => TypeOK /\ NoIdleRequest
    <2>1. Init => TypeOK
      BY TypeInit
    <2> QED
      BY <2>1 DEF Init, NoIdleRequest
  <1>2. TypeOK /\ NoIdleRequest /\ [Next]_vars => (TypeOK /\ NoIdleRequest)'
    BY TypeStep, NoIdleStep
  <1>3. TypeOK /\ NoIdleRequest /\ [Next]_vars =>
          [\A i \in DOMAIN waiting :
              Publishes(sub[waiting[i]]) /\ Len(wire') > Len(wire) =>
                  \/ Last(wire').fault
                  \/ \E j \in 1 .. i : waiting[j] = Last(wire').sub]_vars
    <2> SUFFICES ASSUME TypeOK, NoIdleRequest, [Next]_vars,
                        NEW i \in DOMAIN waiting, Publishes(sub[waiting[i]]),
                        Len(wire') > Len(wire)
                 PROVE  \/ Last(wire').fault
                        \/ \E j \in 1 .. i : waiting[j] = Last(wire').sub
      OBVIOUS
    <2>1. wire' # wire
      BY DEF TypeOK
    <2>2. DOMAIN waiting = 1 .. Len(waiting) /\ waiting # << >>
      BY DEF TypeOK
    <2>3. reqs = << >>
      BY <2>2 DEF NoIdleRequest
    <2>4. PICK k \in 1 .. Len(waiting) :
                 /\ Publishes(sub[waiting[i]]) => k <= i
                 /\ \/ Last(wire').fault
                    \/ Last(wire').sub = waiting[k]
      BY <2>1, <2>2, <2>3, ResponseSteps
    <2> QED
      BY <2>2, <2>4
  <1> QED
    BY <1>1, <1>2, <1>3, PTL DEF Spec, NoOvertaking

\* Halting or expiring ends a subscription for good.
LEMMA StoppedFields ==
    ASSUME NEW x \in Subscription
    PROVE  /\ LoopTest(x).registered = x.registered
           /\ LoopTest(x).items = x.items
           /\ Halted(x).registered = x.registered /\ Halted(x).items = {}
           /\ x.loop # "active" => Halted(x).loop # "active"
  BY DEF LoopTest, Halted, Subscription

\* SilentWhenStopped, for one subscription: its loop does not run, it has no
\* items that could notify it, and the handler of a publish request finds it
\* no longer in the service.
LEMMA StoppedStep ==
    ASSUME TypeOK, [Next]_vars, NEW s \in Subs, Stopped(s)
    PROVE  /\ Stopped(s)'
           /\ Len(wire') > Len(wire) => Last(wire').sub # s
  <1> DEFINE Goal == /\ Stopped(s)'
                     /\ Len(wire') > Len(wire) => Last(wire').sub # s
  <1>0. /\ ~sub[s].registered /\ sub[s].items = {} /\ sub[s].loop # "active"
        /\ sub \in [Subs -> Subscription]
        /\ wire \in Seq(Response) /\ waiting \in Seq(Subs)
        /\ subCounter \in Nat /\ s \in Nat /\ s <= subCounter
    BY PublishingAssumption DEF Stopped, TypeOK, Subs
  <1>1. ASSUME sub'[s] = sub[s], UNCHANGED subCounter
        PROVE  Stopped(s)'
    BY <1>0, <1>1 DEF Stopped
  <1>2. ASSUME NEW t \in Subs \ {s}, NEW x \in Subscription, PublishResults(t, x),
               UNCHANGED subCounter
        PROVE  Goal
    <2>1. sub'[s] = sub[s]
      BY <1>0, <1>2 DEF PublishResults
    <2>2. CASE UNCHANGED wire
      BY <1>0, <1>1, <1>2, <2>1, <2>2
    <2>3. ASSUME NEW k \in UsableIndexes,
                 wire' = Append(wire, Result(t, x, reqs[k]))
          PROVE  Last(wire').sub # s
      <3>1. reqs[k] \in Request
        BY DEF UsableIndexes, TypeOK
      <3>2. Last(wire') = Result(t, x, reqs[k])
        BY <1>0, <2>3, <3>1, ResultType, LastOfAppend
      <3> QED
        BY <3>2 DEF Result
    <2>4. UNCHANGED wire \/ \E k \in UsableIndexes :
              wire' = Append(wire, Result(t, x, reqs[k]))
      BY <1>2, Zenon DEF PublishResults
    <2> QED
      BY <1>1, <1>2, <2>1, <2>2, <2>3, <2>4
  <1>3. ASSUME NEW t \in Subs \ {s}, NEW x \in Subscription, NEW m \in Items,
               Enqueue(t, x, m), UNCHANGED subCounter
        PROVE  Goal
    <2>1. Queued(x, m, produced[t][m] + 1) \in Subscription
      BY QueuedType DEF TypeOK
    <2>2. CASE PublishResults(t, Queued(x, m, produced[t][m] + 1))
      BY <1>2, <1>3, <2>1, <2>2
    <2>3. CASE /\ sub' = [sub EXCEPT ![t] = Queued(x, m, produced[t][m] + 1)]
               /\ UNCHANGED wire
      BY <1>0, <1>1, <1>3, <2>3
    <2> QED
      BY <1>3, <2>2, <2>3, Zenon DEF Enqueue
  <1>4. ASSUME NEW t \in Subs, t # s, NEW y, sub' = [sub EXCEPT ![t] = y],
               UNCHANGED <<wire, subCounter>>
        PROVE  Goal
    <2>1. sub'[s] = sub[s]
      BY <1>0, <1>4
    <2> QED
      BY <1>0, <1>1, <1>4, <2>1
  <1>5. CASE CreateSubscription
    <2>1. subCounter + 1 \in Subs /\ subCounter + 1 # s
      BY <1>0, <1>5, PublishingAssumption DEF CreateSubscription, TypeOK, Subs
    <2>2. /\ sub'[s] = sub[s] /\ UNCHANGED wire
          /\ subCounter' \in Nat /\ s <= subCounter'
      BY <1>0, <1>5, <2>1 DEF CreateSubscription
    <2> QED
      BY <1>0, <2>2 DEF Stopped
  <1>6. ASSUME NEW t \in Subs, NEW m \in Items, Notify(t, m)
        PROVE  Goal
    <2>1. t # s /\ Enqueue(t, sub[t], m) /\ UNCHANGED subCounter
      BY <1>0, <1>6 DEF Notify
    <2> QED
      BY <1>0, <1>3, <2>1
  <1>7. ASSUME NEW t \in Subs, NEW m \in Items, NEW size \in QueueSizes,
               CreateMonitoredItem(t, m, size)
        PROVE  Goal
    <2> DEFINE x == WithItem(sub[t], m, size)
    <2>1. t # s /\ UNCHANGED subCounter
      BY <1>0, <1>7 DEF CreateMonitoredItem
    <2>2. x \in Subscription
      BY <1>0, WithItemType, PublishingAssumption
    <2>3. Enqueue(t, x, m) \/ (sub' = [sub EXCEPT ![t] = x] /\ UNCHANGED wire)
      BY <1>7, Zenon DEF CreateMonitoredItem
    <2> HIDE DEF x
    <2> QED
      BY <1>3, <1>4, <2>1, <2>2, <2>3, Zenon
  <1>8. ASSUME NEW t \in Subs, NEW m \in Items,
               \/ DeleteMonitoredItem(t, m)
               \/ \E size \in QueueSizes : ModifyMonitoredItem(t, m, size)
        PROVE  Goal
    <2>1. t # s
      BY <1>0, <1>8 DEF DeleteMonitoredItem, ModifyMonitoredItem
    <2>2. CASE DeleteMonitoredItem(t, m)
      <3>1. /\ sub' = [sub EXCEPT ![t] = WithoutItem(sub[t], m)]
            /\ UNCHANGED <<wire, subCounter>>
        BY <2>2, Zenon DEF DeleteMonitoredItem
      <3> QED
        BY <1>4, <2>1, <3>1, Zenon
    <2>3. ASSUME NEW size \in QueueSizes, ModifyMonitoredItem(t, m, size)
          PROVE  Goal
      <3>1. /\ sub' = [sub EXCEPT ![t] = WithItem(sub[t], m, size)]
            /\ UNCHANGED <<wire, subCounter>>
        BY <2>3, Zenon DEF ModifyMonitoredItem
      <3> QED
        BY <1>4, <2>1, <3>1, Zenon
    <2> QED
      BY <1>8, <2>2, <2>3
  <1>9. ASSUME NEW t \in Subs, PublishCycle(t)
        PROVE  Goal
    <2>1. t # s /\ PublishResults(t, sub[t]) /\ UNCHANGED subCounter
      BY <1>0, <1>9 DEF PublishCycle
    <2> QED
      BY <1>0, <1>2, <2>1
  <1>10. CASE RequestTimesOut \/ UNCHANGED vars
    <2>1. UNCHANGED <<sub, wire, subCounter>>
      BY <1>10, Zenon DEF RequestTimesOut, vars
    <2> QED
      BY <1>0, <1>1, <2>1
  <1>11. ASSUME NEW t \in Subs, NEW n, Republish(t, n)
         PROVE  Goal
    <2>1. t # s
      BY <1>0, <1>11 DEF Republish
    <2>2. /\ sub' = [sub EXCEPT ![t] = Acknowledged(sub[t], {n})]
          /\ UNCHANGED <<wire, subCounter>>
      BY <1>11, Zenon DEF Republish
    <2> QED
      BY <1>4, <2>1, <2>2, Zenon
  <1>12. ASSUME NEW ids \in SUBSET Subs, DeleteSubscriptions(ids)
         PROVE  Goal
    <2>1. sub'[s] = sub[s] /\ UNCHANGED <<wire, subCounter>>
      BY <1>0, <1>12 DEF DeleteSubscriptions
    <2> QED
      BY <1>0, <1>1, <2>1
  <1>13. ASSUME NEW t \in Subs, StopSubscription(t)
         PROVE  Goal
    <2>1. CASE t # s
      <3>1. /\ sub' = [sub EXCEPT ![t] = Halted(sub[t])]
            /\ UNCHANGED <<wire, subCounter>>
        BY <1>13, Zenon DEF StopSubscription
      <3> QED
        BY <1>4, <2>1, <3>1, Zenon
    <2>2. CASE t = s
      <3>1. sub'[s] = Halted(sub[s]) /\ UNCHANGED <<wire, subCounter>>
        BY <1>0, <1>13, <2>2 DEF StopSubscription
      <3> QED
        BY <1>0, <3>1, StoppedFields DEF Stopped
    <2> QED
      BY <2>1, <2>2
  <1>14. ASSUME NEW acks, NEW hint \in Hints, PublishRequest(acks, hint)
         PROVE  Goal
    <2> DEFINE r == [id |-> reqCounter + 1, hint |-> hint]
               after == AfterAcks(acks)
    <2>1. after[s] = sub[s] /\ after \in [Subs -> Subscription]
      BY <1>0, AfterAcksType DEF AfterAcks
    <2>2. ASSUME NEW n PROVE AfterPassing(after, n)[s] = sub[s]
      BY <1>0, <2>1 DEF AfterPassing, PassedBy
    <2>3. UNCHANGED subCounter
      BY <1>14 DEF PublishRequest
    <2>4. ASSUME NEW k \in Stops(after)
          PROVE  waiting[k] \in Subs \ {s}
      BY <1>0, <2>1 DEF Stops, Publishes, Raises
    <2>5. \/ sub' = AfterPassing(after, Len(waiting)) /\ UNCHANGED wire
          \/ \E k \in Stops(after) : \E y :
                /\ sub' = [AfterPassing(after, k - 1) EXCEPT ![waiting[k]] = y]
                /\ \/ wire' = Append(wire, Result(waiting[k], after[waiting[k]], r))
                   \/ wire' = Append(wire, Fault(r))
      BY <1>14, Zenon DEF PublishRequest
    <2>6. r \in Request
      BY PublishingAssumption DEF TypeOK, Request
    <2> HIDE DEF r, after
    <2>7. CASE sub' = AfterPassing(after, Len(waiting)) /\ UNCHANGED wire
      BY <1>0, <1>1, <2>2, <2>3, <2>7
    <2>8. ASSUME NEW k \in Stops(after), NEW y,
                 sub' = [AfterPassing(after, k - 1) EXCEPT ![waiting[k]] = y],
                 \/ wire' = Append(wire, Result(waiting[k], after[waiting[k]], r))
                 \/ wire' = Append(wire, Fault(r))
          PROVE  Goal
      <3> DEFINE w == Result(waiting[k], after[waiting[k]], r)
      <3>1. AfterPassing(after, k - 1) \in [Subs -> Subscription]
        BY <2>1, AfterPassingType
      <3>2. sub'[s] = sub[s]
        BY <2>2, <2>4, <2>8, <3>1
      <3>3. w \in Response /\ Fault(r) \in Response
        BY <2>1, <2>4, <2>6, ResultType, FaultType
      <3>4. Last(Append(wire, w)) = w /\ Last(Append(wire, Fault(r))) = Fault(r)
        BY <1>0, <3>3, LastOfAppend
      <3>5. w.sub = waiting[k] /\ Fault(r).sub = 0
        BY DEF Result, Fault
      <3>6. w.sub # s /\ Fault(r).sub # s
        BY <2>4, <3>5 DEF Subs
      <3> HIDE DEF w
      <3>7. Last(wire').sub # s
        BY <2>8, <3>4, <3>6, Zenon DEF w
      <3> QED
        BY <1>1, <2>3, <3>2, <3>7
    <2> QED
      BY <2>5, <2>7, <2>8
  <1> QED
    BY <1>5, <1>6, <1>7, <1>8, <1>9, <1>10, <1>11, <1>12, <1>13, <1>14, Zenon
       DEF Next

\* A subscription that has stopped, by deletion or by expiry, stays stopped
\* and is silent, wherever its id is still found.
THEOREM StoppedForGood == Spec => SilentWhenStopped
  <1>1. Init => TypeOK
    BY TypeInit
  <1>2. TypeOK /\ [Next]_vars => TypeOK'
    BY TypeStep
  <1>3. TypeOK /\ [Next]_vars =>
          [\A s \in Subs : Stopped(s) =>
              /\ Stopped(s)'
              /\ Len(wire') > Len(wire) => Last(wire').sub # s]_vars
    BY StoppedStep
  <1> QED
    BY <1>1, <1>2, <1>3, PTL DEF Spec, SilentWhenStopped

-----------------------------------------------------------------------------
(* The story of one subscription: what a step does to its queues, its      *)
(* numbers and its responses.                                              *)

\* Nothing is queued or published; acknowledged results may leave the store.
Keeps(x, y) ==
    /\ y.seq = x.seq /\ y.data = x.data /\ y.size = x.size
    /\ y.unacked \subseteq x.unacked

\* The step answers no request for subscription s.
Unheard(s) ==
    \/ UNCHANGED wire
    \/ \E w \in Response : wire' = Append(wire, w) /\ (w.fault \/ w.sub # s)

\* The step answers request r with everything subscription s, in state x, has.
Heard(s, x) ==
    \E r \in Request : wire' = Append(wire, Result(s, x, r)) /\ Keeps(Popped(x), sub'[s])

Outcome(s, x) == (Keeps(x, sub'[s]) /\ Unheard(s)) \/ Heard(s, x)

\* Subscription s is in state x after the step has queued a notification, or
\* nothing.
Prepared(s, x) ==
    /\ x \in Subscription
    /\ x.seq = sub[s].seq /\ x.unacked \subseteq sub[s].unacked
    /\ \A m \in Items : x.size[m] \in {sub[s].size[m]} \cup QueueSizes
    /\ \/ x.data = sub[s].data /\ produced'[s] = produced[s]
       \/ \E m \in Items :
             /\ x.data = [sub[s].data EXCEPT ![m] =
                             Enqueued(sub[s].data[m], x.size[m], produced[s][m] + 1)]
             /\ produced'[s] = [produced[s] EXCEPT ![m] = produced[s][m] + 1]

Story(s) == \E x : Prepared(s, x) /\ Outcome(s, x)

\* The operators that neither queue nor publish.
LEMMA QuietFields ==
    ASSUME NEW x \in Subscription, NEW m, NEW n
    PROVE  /\ Keeps(x, x) /\ Keeps(x, LoopTest(x)) /\ Keeps(x, Expire(x))
           /\ Keeps(x, ExpireRecursively(x)) /\ Keeps(x, CountIdle(x))
           /\ Keeps(x, CountCycle(x)) /\ Keeps(x, WithoutItem(x, m))
           /\ Keeps(x, Acknowledged(x, n)) /\ Keeps(x, Halted(x))
           /\ Keeps(x, [x EXCEPT !.registered = FALSE])
  <1> USE DEF Keeps, Subscription
  <1>1. Keeps(x, x)
    OBVIOUS
  <1>2. Keeps(x, LoopTest(x))
    BY DEF LoopTest
  <1>3. Keeps(x, Expire(x)) /\ Keeps(x, ExpireRecursively(x))
    BY DEF Expire, ExpireRecursively
  <1>4. Keeps(x, CountIdle(x)) /\ Keeps(x, CountCycle(x))
    BY DEF CountIdle, CountCycle
  <1>5. Keeps(x, WithoutItem(x, m))
    BY DEF WithoutItem
  <1>6. Keeps(x, Acknowledged(x, n))
    BY DEF Acknowledged
  <1>7. Keeps(x, Halted(x))
    BY DEF Halted
  <1>8. Keeps(x, [x EXCEPT !.registered = FALSE])
    OBVIOUS
  <1> QED
    BY <1>1, <1>2, <1>3, <1>4, <1>5, <1>6, <1>7, <1>8

\* Keeps is transitive.
LEMMA QuietTransitive ==
    ASSUME NEW x, NEW y, NEW z, Keeps(x, y), Keeps(y, z)
    PROVE  Keeps(x, z)
  BY DEF Keeps

\* A new item changes its queue size alone.
LEMMA WithItemFields ==
    ASSUME NEW x \in Subscription, NEW m \in Items, NEW size \in QueueSizes
    PROVE  /\ WithItem(x, m, size).seq = x.seq /\ WithItem(x, m, size).unacked = x.unacked
           /\ WithItem(x, m, size).data = x.data
           /\ \A i \in Items : WithItem(x, m, size).size[i] \in {x.size[i]} \cup QueueSizes
  <1>1. x.size \in [Items -> Nat]
    BY FieldTypes
  <1>2. /\ WithItem(x, m, size).seq = x.seq /\ WithItem(x, m, size).unacked = x.unacked
        /\ WithItem(x, m, size).data = x.data
        /\ WithItem(x, m, size).size = [x.size EXCEPT ![m] = size]
    BY DEF WithItem, Subscription
  <1> QED
    BY <1>1, <1>2

\* Enqueueing changes the queue of the item alone.
LEMMA QueuedFields ==
    ASSUME NEW x \in Subscription, NEW m \in Items, NEW n \in Nat
    PROVE  /\ Queued(x, m, n).seq = x.seq /\ Queued(x, m, n).unacked = x.unacked
           /\ Queued(x, m, n).size = x.size
           /\ Queued(x, m, n).data = [x.data EXCEPT ![m] = Enqueued(x.data[m], x.size[m], n)]
  BY DEF Queued, Subscription

\* A step that touches neither the wire nor what subscription s keeps.
LEMMA QuietStory ==
    ASSUME TypeOK, NEW s \in Subs, Keeps(sub[s], sub'[s]), Unheard(s),
           produced'[s] = produced[s]
    PROVE  Story(s)
  <1>1. sub[s] \in Subscription
    BY DEF TypeOK
  <1>2. Prepared(s, sub[s])
    BY <1>1 DEF Prepared
  <1> QED
    BY <1>2 DEF Story, Outcome

\* publish_results() of subscription t.
LEMMA PublishResultsStory ==
    ASSUME TypeOK, NEW t \in Subs, NEW x \in Subscription, PublishResults(t, x)
    PROVE  /\ Outcome(t, x)
           /\ \A s \in Subs \ {t} : sub'[s] = sub[s] /\ Unheard(s)
  <1>0. sub \in [Subs -> Subscription]
    BY DEF TypeOK
  <1>1. ASSUME NEW y \in Subscription, Keeps(x, y), sub' = [sub EXCEPT ![t] = LoopTest(y)],
               UNCHANGED wire
        PROVE  /\ Outcome(t, x)
               /\ \A s \in Subs \ {t} : sub'[s] = sub[s] /\ Unheard(s)
    <2>1. Keeps(y, LoopTest(y))
      BY QuietFields
    <2>2. sub'[t] = LoopTest(y) /\ \A s \in Subs \ {t} : sub'[s] = sub[s]
      BY <1>0, <1>1
    <2>3. Keeps(x, sub'[t])
      BY <1>1, <2>1, <2>2, QuietTransitive
    <2> QED
      BY <1>1, <2>2, <2>3 DEF Outcome, Unheard
  <1>2. CASE /\ sub' = [sub EXCEPT ![t] =
                    LoopTest(IF t \in Immediate THEN ExpireRecursively(x) ELSE Expire(x))]
             /\ UNCHANGED wire
    <2> DEFINE y == IF t \in Immediate THEN ExpireRecursively(x) ELSE Expire(x)
    <2>1. y \in Subscription /\ Keeps(x, y)
      BY ExpireType, QuietFields
    <2> HIDE DEF y
    <2>2. sub' = [sub EXCEPT ![t] = LoopTest(y)]
      BY <1>2 DEF y
    <2> QED
      BY <1>1, <1>2, <2>1, <2>2
  <1>3. CASE /\ sub' = [sub EXCEPT ![t] = LoopTest(CountIdle(x))]
             /\ UNCHANGED wire
    BY <1>1, <1>3, CountType, QuietFields
  <1>4. CASE /\ sub' = [sub EXCEPT ![t] = LoopTest(CountCycle(x))]
             /\ UNCHANGED wire
    BY <1>1, <1>4, CountType, QuietFields
  <1>5. ASSUME NEW k \in UsableIndexes, wire' = Append(wire, Result(t, x, reqs[k])),
               sub' = [sub EXCEPT ![t] = LoopTest(Popped(x))]
        PROVE  /\ Outcome(t, x)
               /\ \A s \in Subs \ {t} : sub'[s] = sub[s] /\ Unheard(s)
    <2>1. reqs[k] \in Request
      BY DEF UsableIndexes, TypeOK
    <2>2. Result(t, x, reqs[k]) \in Response /\ Result(t, x, reqs[k]).sub = t
      BY <2>1, ResultType DEF Result
    <2>3. Popped(x) \in Subscription
      BY PoppedType
    <2>4. Keeps(Popped(x), LoopTest(Popped(x)))
      BY <2>3, QuietFields
    <2>5. sub'[t] = LoopTest(Popped(x)) /\ \A s \in Subs \ {t} : sub'[s] = sub[s]
      BY <1>0, <1>5
    <2>6. Heard(t, x)
      BY <1>5, <2>1, <2>4, <2>5 DEF Heard
    <2>7. \A s \in Subs \ {t} : Unheard(s)
      BY <1>5, <2>2 DEF Unheard
    <2> QED
      BY <2>5, <2>6, <2>7 DEF Outcome
  <1> QED
    BY <1>2, <1>3, <1>4, <1>5, Zenon DEF PublishResults

\* A notification of item m of subscription t, whose state is x.
LEMMA EnqueueStory ==
    ASSUME TypeOK, NEW t \in Subs, NEW x \in Subscription, NEW m \in Items, Enqueue(t, x, m),
           x.seq = sub[t].seq, x.unacked \subseteq sub[t].unacked, x.data = sub[t].data,
           \A i \in Items : x.size[i] \in {sub[t].size[i]} \cup QueueSizes
    PROVE  \A s \in Subs : Story(s)
  <1> DEFINE n == produced[t][m] + 1
             y == Queued(x, m, n)
  <1>0. /\ sub \in [Subs -> Subscription] /\ produced \in [Subs -> [Items -> Nat]] /\ n \in Nat
    BY DEF TypeOK
  <1>1. y \in Subscription
    BY <1>0, QueuedType
  <1>2. produced' = [produced EXCEPT ![t] = [produced[t] EXCEPT ![m] = n]]
    BY DEF Enqueue
  <1>3. /\ produced'[t] = [produced[t] EXCEPT ![m] = n]
        /\ \A s \in Subs \ {t} : produced'[s] = produced[s]
    BY <1>0, <1>2
  <1>4. /\ y.seq = x.seq /\ y.unacked = x.unacked /\ y.size = x.size
        /\ y.data = [x.data EXCEPT ![m] = Enqueued(x.data[m], x.size[m], n)]
    BY <1>0, QueuedFields
  <1>5. PublishResults(t, y) \/ (sub' = [sub EXCEPT ![t] = y] /\ UNCHANGED wire)
    BY Zenon DEF Enqueue
  <1> HIDE DEF y
  <1>6. Prepared(t, y)
    BY <1>1, <1>3, <1>4 DEF Prepared, n
  <1> HIDE DEF n
  <1>7. /\ Outcome(t, y)
        /\ \A s \in Subs \ {t} : sub'[s] = sub[s] /\ Unheard(s)
    <2>1. CASE PublishResults(t, y)
      BY <1>1, <2>1, PublishResultsStory
    <2>2. CASE sub' = [sub EXCEPT ![t] = y] /\ UNCHANGED wire
      <3>1. sub'[t] = y /\ \A s \in Subs \ {t} : sub'[s] = sub[s]
        BY <1>0, <2>2
      <3>2. Keeps(y, sub'[t])
        BY <3>1 DEF Keeps
      <3> QED
        BY <2>2, <3>1, <3>2 DEF Outcome, Unheard
    <2> QED
      BY <1>5, <2>1, <2>2
  <1>8. \A s \in Subs \ {t} : Story(s)
    <2> SUFFICES ASSUME NEW s \in Subs \ {t} PROVE Story(s)
      OBVIOUS
    <2>1. Keeps(sub[s], sub'[s])
      BY <1>7 DEF Keeps
    <2> QED
      BY <1>3, <1>7, <2>1, QuietStory
  <1>9. Story(t)
    BY <1>6, <1>7 DEF Story
  <1> QED
    BY <1>8, <1>9

\* A publish request: one subscription at most is heard.
LEMMA RequestStory ==
    ASSUME TypeOK, NEW acks, NEW hint \in Hints, PublishRequest(acks, hint)
    PROVE  \A s \in Subs : Story(s)
  <1> DEFINE r == [id |-> reqCounter + 1, hint |-> hint]
             after == AfterAcks(acks)
  <1>0. /\ sub \in [Subs -> Subscription] /\ waiting \in Seq(Subs) /\ produced' = produced
    BY DEF TypeOK, PublishRequest
  <1>1. r \in Request
    BY PublishingAssumption DEF TypeOK, Request
  <1>2. after \in [Subs -> Subscription] /\ \A s \in Subs : Keeps(sub[s], after[s])
    <2>1. after \in [Subs -> Subscription]
      BY AfterAcksType
    <2>2. ASSUME NEW s \in Subs PROVE Keeps(sub[s], after[s])
      <3>1. \/ after[s] = sub[s]
            \/ \E a : after[s] = Acknowledged(sub[s], a)
        BY <2>2, Zenon DEF AfterAcks
      <3> QED
        BY <1>0, <3>1, QuietFields
    <2> QED
      BY <2>1, <2>2
  <1>3. \/ sub' = AfterPassing(after, Len(waiting)) /\ UNCHANGED wire
        \/ \E k \in Stops(after) :
              \/ /\ sub' = [AfterPassing(after, k - 1) EXCEPT ![waiting[k]] =
                               Popped(after[waiting[k]])]
                 /\ wire' = Append(wire, Result(waiting[k], after[waiting[k]], r))
              \/ /\ sub' = [AfterPassing(after, k - 1) EXCEPT ![waiting[k]] =
                               ExpireRecursively(after[waiting[k]])]
                 /\ wire' = Append(wire, Fault(r))
    BY Zenon DEF PublishRequest
  <1> HIDE DEF r, after
  <1>4. ASSUME NEW n
        PROVE  /\ AfterPassing(after, n) \in [Subs -> Subscription]
               /\ \A s \in Subs : Keeps(sub[s], AfterPassing(after, n)[s])
    <2>1. AfterPassing(after, n) \in [Subs -> Subscription]
      BY <1>2, AfterPassingType
    <2>2. ASSUME NEW s \in Subs PROVE Keeps(sub[s], AfterPassing(after, n)[s])
      <3>1. AfterPassing(after, n)[s] \in {after[s], Expire(after[s]), CountIdle(after[s])}
        BY <2>2 DEF AfterPassing, PassedBy
      <3>2. Keeps(after[s], AfterPassing(after, n)[s])
        BY <1>2, <3>1, QuietFields
      <3> QED
        BY <1>2, <3>2, QuietTransitive
    <2> QED
      BY <2>1, <2>2
  <1>5. CASE sub' = AfterPassing(after, Len(waiting)) /\ UNCHANGED wire
    BY <1>0, <1>4, <1>5, QuietStory DEF Unheard
  <1>6. ASSUME NEW k \in Stops(after),
               sub' = [AfterPassing(after, k - 1) EXCEPT ![waiting[k]] =
                               Popped(after[waiting[k]])],
               wire' = Append(wire, Result(waiting[k], after[waiting[k]], r))
        PROVE  \A s \in Subs : Story(s)
    <2> DEFINE t == waiting[k]
    <2>1. t \in Subs
      BY <1>0 DEF Stops
    <2> HIDE DEF t
    <2>2. sub'[t] = Popped(after[t]) /\ \A s \in Subs \ {t} : sub'[s] = AfterPassing(after, k - 1)[s]
      BY <1>4, <1>6, <2>1 DEF t
    <2>3. after[t] \in Subscription /\ Popped(after[t]) \in Subscription
      BY <1>2, <2>1, PoppedType
    <2>4. Heard(t, after[t])
      <3>1. Keeps(Popped(after[t]), sub'[t])
        BY <2>2, <2>3, QuietFields
      <3> QED
        BY <1>1, <1>6, <3>1 DEF Heard, t
    <2>5. Prepared(t, after[t])
      BY <1>0, <1>2, <2>1, <2>3 DEF Prepared, Keeps
    <2>6. Result(t, after[t], r) \in Response /\ Result(t, after[t], r).sub = t
      BY <1>1, <2>1, <2>3, ResultType DEF Result
    <2>7. ASSUME NEW s \in Subs \ {t} PROVE Story(s)
      <3>1. Unheard(s)
        BY <1>6, <2>6 DEF Unheard, t
      <3>2. Keeps(sub[s], sub'[s])
        BY <1>4, <2>2
      <3> QED
        BY <1>0, <3>1, <3>2, QuietStory
    <2> QED
      BY <2>4, <2>5, <2>7 DEF Story, Outcome
  <1>7. ASSUME NEW k \in Stops(after),
               sub' = [AfterPassing(after, k - 1) EXCEPT ![waiting[k]] =
                               ExpireRecursively(after[waiting[k]])],
               wire' = Append(wire, Fault(r))
        PROVE  \A s \in Subs : Story(s)
    <2> DEFINE t == waiting[k]
    <2>1. t \in Subs
      BY <1>0 DEF Stops
    <2> HIDE DEF t
    <2>2. /\ sub'[t] = ExpireRecursively(after[t])
          /\ \A s \in Subs \ {t} : sub'[s] = AfterPassing(after, k - 1)[s]
      BY <1>4, <1>7, <2>1 DEF t
    <2>3. Keeps(sub[t], sub'[t])
      BY <1>2, <2>1, <2>2, QuietFields, QuietTransitive
    <2>4. Fault(r) \in Response /\ Fault(r).fault
      BY <1>1, FaultType DEF Fault
    <2>5. ASSUME NEW s \in Subs PROVE Story(s)
      <3>1. Unheard(s)
        BY <1>7, <2>4 DEF Unheard
      <3>2. Keeps(sub[s], sub'[s])
        BY <1>4, <2>2, <2>3
      <3> QED
        BY <1>0, <3>1, <3>2, QuietStory
    <2> QED
      BY <2>5
  <1> QED
    BY <1>3, <1>5, <1>6, <1>7

\* A subscription that was not created is as __init__ leaves it.
Unused == \A s \in Subs : s > subCounter => sub[s] = Unborn

\* What a step may do to the queues, the numbers and the store of a subscription.
LEMMA StoryStep ==
    ASSUME TypeOK, Unused, [Next]_vars, NEW s \in Subs
    PROVE  Story(s)
  <1>0. /\ sub \in [Subs -> Subscription] /\ produced \in [Subs -> [Items -> Nat]]
        /\ subCounter \in Nat
    BY DEF TypeOK
  <1>1. ASSUME NEW t \in Subs, NEW y, Keeps(sub[t], y), sub' = [sub EXCEPT ![t] = y],
               UNCHANGED <<wire, produced>>
        PROVE  Story(s)
    <2>1. sub'[s] = IF s = t THEN y ELSE sub[s]
      BY <1>0, <1>1
    <2>2. Keeps(sub[s], sub'[s])
      BY <1>0, <1>1, <2>1, QuietFields
    <2> QED
      BY <1>1, <2>2, QuietStory DEF Unheard
  <1>2. CASE CreateSubscription
    <2> DEFINE t == subCounter + 1
    <2>1. t \in Subs /\ t > subCounter
      BY <1>0, <1>2, PublishingAssumption DEF CreateSubscription, Subs
    <2>2. sub[t] = Unborn
      BY <2>1 DEF Unused
    <2>3. Keeps(Unborn, Started(t \notin Immediate))
      BY UnbornType DEF Keeps, Started, Subscription
    <2>4. sub' = [sub EXCEPT ![t] = Started(t \notin Immediate)] /\ UNCHANGED <<wire, produced>>
      BY <1>2 DEF CreateSubscription
    <2> HIDE DEF t
    <2> QED
      BY <1>1, <2>1, <2>2, <2>3, <2>4
  <1>3. ASSUME NEW t \in Subs, NEW m \in Items, Notify(t, m)
        PROVE  Story(s)
    <2>1. Enqueue(t, sub[t], m)
      BY <1>3 DEF Notify
    <2> QED
      BY <1>0, <2>1, EnqueueStory
  <1>4. ASSUME NEW t \in Subs, NEW m \in Items, NEW size \in QueueSizes,
               CreateMonitoredItem(t, m, size)
        PROVE  Story(s)
    <2> DEFINE x == WithItem(sub[t], m, size)
    <2>1. x \in Subscription
      BY <1>0, WithItemType, PublishingAssumption
    <2>2. /\ x.seq = sub[t].seq /\ x.unacked = sub[t].unacked /\ x.data = sub[t].data
          /\ \A i \in Items : x.size[i] \in {sub[t].size[i]} \cup QueueSizes
      BY <1>0, WithItemFields
    <2>3. Enqueue(t, x, m) \/ (sub' = [sub EXCEPT ![t] = x] /\ UNCHANGED <<wire, produced>>)
      BY <1>4, Zenon DEF CreateMonitoredItem
    <2> HIDE DEF x
    <2>4. CASE Enqueue(t, x, m)
      BY <2>1, <2>2, <2>4, EnqueueStory
    <2>5. CASE sub' = [sub EXCEPT ![t] = x] /\ UNCHANGED <<wire, produced>>
      <3>1. sub'[s] = IF s = t THEN x ELSE sub[s]
        BY <1>0, <2>5
      <3>2. s # t => Keeps(sub[s], sub'[s])
        BY <3>1 DEF Keeps
      <3>3. s = t => Prepared(s, x) /\ Outcome(s, x)
        BY <2>1, <2>2, <2>5, <3>1 DEF Prepared, Outcome, Keeps, Unheard
      <3> QED
        BY <2>5, <3>2, <3>3, QuietStory DEF Story, Unheard
    <2> QED
      BY <2>3, <2>4, <2>5
  <1>5. ASSUME NEW t \in Subs, NEW m \in Items, NEW size \in QueueSizes,
               ModifyMonitoredItem(t, m, size)
        PROVE  Story(s)
    <2> DEFINE x == WithItem(sub[t], m, size)
    <2>1. x \in Subscription
      BY <1>0, WithItemType, PublishingAssumption
    <2>2. /\ x.seq = sub[t].seq /\ x.unacked = sub[t].unacked /\ x.data = sub[t].data
          /\ \A i \in Items : x.size[i] \in {sub[t].size[i]} \cup QueueSizes
      BY <1>0, WithItemFields
    <2>3. sub' = [sub EXCEPT ![t] = x] /\ UNCHANGED <<wire, produced>>
      BY <1>5, Zenon DEF ModifyMonitoredItem
    <2> HIDE DEF x
    <2>4. sub'[s] = IF s = t THEN x ELSE sub[s]
      BY <1>0, <2>3
    <2>5. s # t => Keeps(sub[s], sub'[s])
      BY <2>4 DEF Keeps
    <2>6. s = t => Prepared(s, x) /\ Outcome(s, x)
      BY <2>1, <2>2, <2>3, <2>4 DEF Prepared, Outcome, Keeps, Unheard
    <2> QED
      BY <2>3, <2>5, <2>6, QuietStory DEF Story, Unheard
  <1>6. ASSUME NEW t \in Subs, NEW m \in Items, DeleteMonitoredItem(t, m)
        PROVE  Story(s)
    <2>1. sub' = [sub EXCEPT ![t] = WithoutItem(sub[t], m)] /\ UNCHANGED <<wire, produced>>
      BY <1>6, Zenon DEF DeleteMonitoredItem
    <2> QED
      BY <1>0, <1>1, <2>1, QuietFields
  <1>7. ASSUME NEW t \in Subs, PublishCycle(t)
        PROVE  Story(s)
    <2>1. PublishResults(t, sub[t]) /\ UNCHANGED produced
      BY <1>7 DEF PublishCycle
    <2>2. /\ Outcome(t, sub[t])
          /\ \A u \in Subs \ {t} : sub'[u] = sub[u] /\ Unheard(u)
      BY <1>0, <2>1, PublishResultsStory
    <2>3. CASE s = t
      <3>1. Prepared(s, sub[s])
        BY <1>0, <2>1 DEF Prepared
      <3> QED
        BY <2>2, <2>3, <3>1 DEF Story
    <2>4. CASE s # t
      <3>1. Keeps(sub[s], sub'[s]) /\ Unheard(s)
        BY <2>2, <2>4 DEF Keeps
      <3> QED
        BY <2>1, <3>1, QuietStory
    <2> QED
      BY <2>3, <2>4
  <1>8. CASE RequestTimesOut \/ UNCHANGED vars
    <2>1. UNCHANGED <<sub, wire, produced>>
      BY <1>8, Zenon DEF RequestTimesOut, vars
    <2>2. Keeps(sub[s], sub'[s])
      BY <2>1 DEF Keeps
    <2> QED
      BY <2>1, <2>2, QuietStory DEF Unheard
  <1>9. ASSUME NEW acks, NEW hint \in Hints, PublishRequest(acks, hint)
        PROVE  Story(s)
    BY <1>9, RequestStory
  <1>10. ASSUME NEW t \in Subs, NEW n, Republish(t, n)
         PROVE  Story(s)
    <2>1. sub' = [sub EXCEPT ![t] = Acknowledged(sub[t], {n})] /\ UNCHANGED <<wire, produced>>
      BY <1>10, Zenon DEF Republish
    <2> QED
      BY <1>0, <1>1, <2>1, QuietFields
  <1>11. ASSUME NEW ids \in SUBSET Subs, DeleteSubscriptions(ids)
         PROVE  Story(s)
    <2>1. sub'[s] \in {sub[s], [sub[s] EXCEPT !.registered = FALSE]} /\ UNCHANGED <<wire, produced>>
      BY <1>0, <1>11 DEF DeleteSubscriptions
    <2>2. Keeps(sub[s], sub'[s])
      BY <1>0, <2>1, QuietFields
    <2> QED
      BY <2>1, <2>2, QuietStory DEF Unheard
  <1>12. ASSUME NEW t \in Subs, StopSubscription(t)
         PROVE  Story(s)
    <2>1. sub' = [sub EXCEPT ![t] = Halted(sub[t])] /\ UNCHANGED <<wire, produced>>
      BY <1>12, Zenon DEF StopSubscription
    <2> QED
      BY <1>0, <1>1, <2>1, QuietFields
  <1> QED
    BY <1>2, <1>3, <1>4, <1>5, <1>6, <1>7, <1>8, <1>9, <1>10, <1>11, <1>12, Zenon DEF Next

\* Nothing reaches a subscription before it is created: it has no loop and no
\* items, and is in no service.
LEMMA UnusedStep ==
    ASSUME TypeOK, Unused, [Next]_vars
    PROVE  Unused'
  <1> SUFFICES ASSUME NEW s \in Subs, s > subCounter' PROVE sub'[s] = Unborn
    BY DEF Unused
  <1>0. /\ sub \in [Subs -> Subscription] /\ subCounter \in Nat /\ waiting \in Seq(Subs)
        /\ s \in Nat
    BY PublishingAssumption DEF TypeOK, Subs
  <1>1. s > subCounter /\ (subCounter' # subCounter => CreateSubscription)
    <2>1. CASE CreateSubscription
      BY <1>0, <2>1 DEF CreateSubscription
    <2>2. CASE ~CreateSubscription
      <3>1. UNCHANGED subCounter
        <4>1. ASSUME NEW t \in Subs, NEW m \in Items,
                     \/ Notify(t, m) \/ DeleteMonitoredItem(t, m)
                     \/ \E size \in QueueSizes : CreateMonitoredItem(t, m, size)
                     \/ \E size \in QueueSizes : ModifyMonitoredItem(t, m, size)
              PROVE  UNCHANGED subCounter
          BY <4>1, Zenon DEF Notify, DeleteMonitoredItem, CreateMonitoredItem, ModifyMonitoredItem
        <4>2. ASSUME NEW t \in Subs, PublishCycle(t) \/ StopSubscription(t) \/ \E n : Republish(t, n)
              PROVE  UNCHANGED subCounter
          BY <4>2, Zenon DEF PublishCycle, StopSubscription, Republish
        <4>3. ASSUME NEW acks, NEW hint, PublishRequest(acks, hint)
              PROVE  UNCHANGED subCounter
          BY <4>3, Zenon DEF PublishRequest
        <4>4. ASSUME NEW ids, DeleteSubscriptions(ids)
              PROVE  UNCHANGED subCounter
          BY <4>4, Zenon DEF DeleteSubscriptions
        <4>5. RequestTimesOut \/ UNCHANGED vars => UNCHANGED subCounter
          BY Zenon DEF RequestTimesOut, vars
        <4> QED
          BY <2>2, <4>1, <4>2, <4>3, <4>4, <4>5, Zenon DEF Next
      <3> QED
        BY <3>1
    <2> QED
      BY <2>1, <2>2
  <1>2. /\ sub[s] = Unborn /\ ~sub[s].registered /\ sub[s].items = {} /\ sub[s].loop = "none"
    <2>1. sub[s] = Unborn
      BY <1>1 DEF Unused
    <2>2. ~Unborn.registered
      BY Zenon DEF Unborn
    <2>3. Unborn.items = {} /\ Unborn.loop = "none"
      BY DEF Unborn
    <2> QED
      BY <2>1, <2>2, <2>3
  <1>3. ASSUME NEW t \in Subs \ {s}, NEW y, sub' = [sub EXCEPT ![t] = y]
        PROVE  sub'[s] = sub[s]
    BY <1>0, <1>3
  <1>4. ASSUME NEW t \in Subs \ {s}, NEW x, PublishResults(t, x)
        PROVE  sub'[s] = sub[s]
    <2>1. \E y : sub' = [sub EXCEPT ![t] = y]
      BY <1>4, Zenon DEF PublishResults
    <2> QED
      BY <1>3, <2>1
  <1>5. ASSUME NEW t \in Subs \ {s}, NEW x, NEW m, Enqueue(t, x, m)
        PROVE  sub'[s] = sub[s]
    <2>1. \/ PublishResults(t, Queued(x, m, produced[t][m] + 1))
          \/ \E y : sub' = [sub EXCEPT ![t] = y]
      BY <1>5, Zenon DEF Enqueue
    <2> QED
      BY <1>3, <1>4, <2>1
  <1>6. CASE CreateSubscription
    <2>1. subCounter + 1 \in Subs \ {s}
      BY <1>0, <1>6, PublishingAssumption DEF CreateSubscription, Subs
    <2>2. sub' = [sub EXCEPT ![subCounter + 1] = Started(subCounter + 1 \notin Immediate)]
      BY <1>6 DEF CreateSubscription
    <2> QED
      BY <1>2, <1>3, <2>1, <2>2
  <1>7. ASSUME NEW t \in Subs, NEW m \in Items, Notify(t, m)
        PROVE  sub'[s] = sub[s]
    <2>1. t # s /\ Enqueue(t, sub[t], m)
      BY <1>2, <1>7 DEF Notify
    <2> QED
      BY <1>5, <2>1
  <1>8. ASSUME NEW t \in Subs, NEW m \in Items, NEW size \in QueueSizes,
               CreateMonitoredItem(t, m, size)
        PROVE  sub'[s] = sub[s]
    <2>1. t # s
      BY <1>2, <1>8 DEF CreateMonitoredItem
    <2>2. \/ Enqueue(t, WithItem(sub[t], m, size), m)
          \/ \E y : sub' = [sub EXCEPT ![t] = y]
      BY <1>8, Zenon DEF CreateMonitoredItem
    <2> QED
      BY <1>3, <1>5, <2>1, <2>2
  <1>9. ASSUME NEW t \in Subs, NEW m \in Items, NEW size \in QueueSizes,
               DeleteMonitoredItem(t, m) \/ ModifyMonitoredItem(t, m, size)
        PROVE  sub'[s] = sub[s]
    <2>1. t # s
      BY <1>2, <1>9 DEF DeleteMonitoredItem, ModifyMonitoredItem
    <2>2. \E y : sub' = [sub EXCEPT ![t] = y]
      BY <1>9, Zenon DEF DeleteMonitoredItem, ModifyMonitoredItem
    <2> QED
      BY <1>3, <2>1, <2>2
  <1>10. ASSUME NEW t \in Subs, NEW m \in Items, DeleteMonitoredItem(t, m)
         PROVE  sub'[s] = sub[s]
    <2>1. t # s
      BY <1>2, <1>10 DEF DeleteMonitoredItem
    <2>2. \E y : sub' = [sub EXCEPT ![t] = y]
      BY <1>10, Zenon DEF DeleteMonitoredItem
    <2> QED
      BY <1>3, <2>1, <2>2
  <1>11. ASSUME NEW t \in Subs, PublishCycle(t)
         PROVE  sub'[s] = sub[s]
    <2>1. t # s /\ PublishResults(t, sub[t])
      BY <1>2, <1>11 DEF PublishCycle
    <2> QED
      BY <1>4, <2>1
  <1>12. CASE RequestTimesOut \/ UNCHANGED vars
    BY <1>2, <1>12, Zenon DEF RequestTimesOut, vars
  <1>13. ASSUME NEW t \in Subs, NEW n, Republish(t, n) \/ StopSubscription(t)
         PROVE  sub'[s] = sub[s]
    <2>1. t # s
      BY <1>0, <1>1, <1>2, <1>13 DEF Republish, StopSubscription
    <2>2. \E y : sub' = [sub EXCEPT ![t] = y]
      BY <1>13, Zenon DEF Republish, StopSubscription
    <2> QED
      BY <1>3, <2>1, <2>2
  <1>14. ASSUME NEW ids \in SUBSET Subs, DeleteSubscriptions(ids)
         PROVE  sub'[s] = sub[s]
    BY <1>0, <1>2, <1>14 DEF DeleteSubscriptions
  <1>15. ASSUME NEW acks, NEW hint \in Hints, PublishRequest(acks, hint)
         PROVE  sub'[s] = sub[s]
    <2> DEFINE after == AfterAcks(acks)
    <2>1. after[s] = sub[s] /\ after \in [Subs -> Subscription]
      BY <1>2, AfterAcksType DEF TypeOK, AfterAcks
    <2>2. ASSUME NEW n
          PROVE  AfterPassing(after, n)[s] = sub[s] /\ AfterPassing(after, n) \in [Subs -> Subscription]
      BY <1>2, <2>1, AfterPassingType DEF AfterPassing, PassedBy
    <2>3. ASSUME NEW k \in Stops(after) PROVE waiting[k] \in Subs \ {s}
      BY <1>0, <1>2, <2>1 DEF Stops, Publishes, Raises
    <2>4. \/ sub' = AfterPassing(after, Len(waiting))
          \/ \E k \in Stops(after) : \E y :
                sub' = [AfterPassing(after, k - 1) EXCEPT ![waiting[k]] = y]
      BY <1>15, Zenon DEF PublishRequest
    <2> HIDE DEF after
    <2>5. ASSUME NEW k \in Stops(after), NEW y,
                 sub' = [AfterPassing(after, k - 1) EXCEPT ![waiting[k]] = y]
          PROVE  sub'[s] = sub[s]
      BY <2>2, <2>3, <2>5
    <2>6. ASSUME sub' = AfterPassing(after, Len(waiting))
          PROVE  sub'[s] = sub[s]
      BY <2>2, <2>6, Zenon
    <2> QED
      BY <2>4, <2>5, <2>6, Zenon
  <1> QED
    BY <1>2, <1>6, <1>7, <1>8, <1>9, <1>10, <1>11, <1>12, <1>13, <1>14, <1>15, Zenon DEF Next

-----------------------------------------------------------------------------
(* The responses of a subscription, read off the wire W.                   *)

Sent(W, s) == {i \in 1 .. Len(W) : ~W[i].fault /\ W[i].sub = s}

CarriedIn(W, s, n) == {i \in 1 .. n : i \in Sent(W, s) /\ Carries(W[i])}

Numbered(W, s, seq) ==
    /\ \A i \in Sent(W, s) : W[i].seq = 1 + Cardinality(CarriedIn(W, s, i - 1))
    /\ seq = 1 + Cardinality(CarriedIn(W, s, Len(W)))

Stored(W, s, unacked) ==
    /\ IsFiniteSet(unacked) /\ Cardinality(unacked) <= NoAcksLimit
    /\ \A n \in unacked : \E i \in Sent(W, s) : W[i].seq = n /\ Carries(W[i])

\* What w does to the list of responses.
LEMMA WireAppend ==
    ASSUME NEW W \in Seq(Response), NEW w \in Response, NEW s
    PROVE  /\ Len(W) \in Nat /\ Append(W, w) \in Seq(Response) /\ Len(Append(W, w)) = Len(W) + 1
           /\ \A i \in 1 .. Len(W) : Append(W, w)[i] = W[i]
           /\ Append(W, w)[Len(W) + 1] = w
           /\ \A i \in Sent(W, s) : i \in 1 .. Len(W) /\ i \in Sent(Append(W, w), s)
           /\ \A i \in Sent(Append(W, w), s) : i \in Sent(W, s) \/ i = Len(W) + 1
           /\ Len(W) + 1 \in Sent(Append(W, w), s) <=> ~w.fault /\ w.sub = s
  <1>1. /\ Append(W, w) \in Seq(Response) /\ Len(Append(W, w)) = Len(W) + 1
        /\ \A i \in 1 .. Len(W) : Append(W, w)[i] = W[i]
        /\ Append(W, w)[Len(W) + 1] = w
    BY AppendProperties
  <1>2. Len(W) \in Nat
    BY LenProperties
  <1>3. /\ \A i \in 1 .. Len(W) : i \in 1 .. Len(W) + 1
        /\ \A i \in 1 .. Len(W) + 1 : i \in 1 .. Len(W) \/ i = Len(W) + 1
        /\ Len(W) + 1 \in 1 .. Len(W) + 1
    BY <1>2
  <1> QED
    BY <1>1, <1>2, <1>3 DEF Sent

\* The responses that carry a number, after one was written.
LEMMA CarriedAppend ==
    ASSUME NEW W \in Seq(Response), NEW w \in Response, NEW s
    PROVE  /\ \A n \in 0 .. Len(W) : CarriedIn(Append(W, w), s, n) = CarriedIn(W, s, n)
           /\ \A n \in 0 .. Len(W) : IsFiniteSet(CarriedIn(W, s, n))
           /\ Cardinality(CarriedIn(Append(W, w), s, Len(W) + 1)) =
                 IF ~w.fault /\ w.sub = s /\ Carries(w) THEN Cardinality(CarriedIn(W, s, Len(W))) + 1
                                                         ELSE Cardinality(CarriedIn(W, s, Len(W)))
  <1> DEFINE V == Append(W, w)
             k == Len(W)
  <1>1. /\ k \in Nat
        /\ \A i \in 1 .. k : V[i] = W[i]
        /\ V[k + 1] = w
        /\ \A i \in Sent(W, s) : i \in 1 .. k /\ i \in Sent(V, s)
        /\ \A i \in Sent(V, s) : i \in Sent(W, s) \/ i = k + 1
        /\ k + 1 \in Sent(V, s) <=> ~w.fault /\ w.sub = s
    BY WireAppend
  <1> HIDE DEF V, k
  <1>2. ASSUME NEW n \in 0 .. k PROVE CarriedIn(V, s, n) = CarriedIn(W, s, n)
    <2>1. \A i \in 1 .. n : i \in 1 .. k /\ i # k + 1
      BY <1>1
    <2> QED
      BY <1>1, <2>1 DEF CarriedIn
  <1>3. ASSUME NEW n \in 0 .. k PROVE IsFiniteSet(CarriedIn(W, s, n))
    <2>1. IsFiniteSet(1 .. n)
      BY <1>1, FS_Interval
    <2>2. CarriedIn(W, s, n) \in SUBSET (1 .. n)
      BY DEF CarriedIn
    <2> QED
      BY <2>1, <2>2, FS_Subset
  <1>4. /\ k \in 0 .. k /\ k + 1 \notin CarriedIn(W, s, k)
        /\ \A i \in 1 .. k + 1 : i \in 1 .. k \/ i = k + 1
        /\ \A i \in 1 .. k : i \in 1 .. k + 1 /\ i # k + 1
        /\ k + 1 \in 1 .. k + 1
    BY <1>1 DEF CarriedIn
  <1>5. CASE ~w.fault /\ w.sub = s /\ Carries(w)
    <2>1. CarriedIn(V, s, k + 1) = CarriedIn(W, s, k) \cup {k + 1}
      BY <1>1, <1>4, <1>5 DEF CarriedIn
    <2> QED
      BY <1>2, <1>3, <1>4, <1>5, <2>1, FS_AddElement DEF V, k
  <1>6. CASE ~(~w.fault /\ w.sub = s /\ Carries(w))
    <2>1. CarriedIn(V, s, k + 1) = CarriedIn(W, s, k)
      BY <1>1, <1>4, <1>6 DEF CarriedIn
    <2> QED
      BY <1>2, <1>3, <1>6, <2>1 DEF V, k
  <1> QED
    BY <1>5, <1>6

\* A response of another subscription, or a fault, changes nothing.
LEMMA OthersResponse ==
    ASSUME NEW W \in Seq(Response), NEW w \in Response, NEW s, w.fault \/ w.sub # s,
           NEW seq, NEW unacked
    PROVE  /\ Sent(Append(W, w), s) = Sent(W, s)
           /\ Numbered(W, s, seq) => Numbered(Append(W, w), s, seq)
           /\ Stored(W, s, unacked) => Stored(Append(W, w), s, unacked)
  <1> DEFINE V == Append(W, w)
  <1>1. /\ Len(W) \in Nat /\ Len(V) = Len(W) + 1
        /\ \A i \in Sent(W, s) : i \in 1 .. Len(W) /\ i \in Sent(V, s) /\ V[i] = W[i]
        /\ \A i \in Sent(V, s) : i \in Sent(W, s)
    BY WireAppend
  <1>2. /\ \A n \in 0 .. Len(W) : CarriedIn(V, s, n) = CarriedIn(W, s, n)
        /\ Cardinality(CarriedIn(V, s, Len(W) + 1)) = Cardinality(CarriedIn(W, s, Len(W)))
    BY CarriedAppend
  <1> HIDE DEF V
  <1>3. Sent(V, s) = Sent(W, s)
    BY <1>1
  <1>4. \A i \in Sent(W, s) : i - 1 \in 0 .. Len(W)
    BY <1>1
  <1>5. Numbered(W, s, seq) => Numbered(V, s, seq)
    BY <1>1, <1>2, <1>3, <1>4 DEF Numbered
  <1>6. Stored(W, s, unacked) => Stored(V, s, unacked)
    BY <1>1, <1>3 DEF Stored
  <1> QED
    BY <1>3, <1>5, <1>6 DEF V

\* What _pop_publish_result leaves.
LEMMA PoppedFields ==
    ASSUME NEW x \in Subscription
    PROVE  /\ Popped(x).data = NoData /\ Popped(x).size = x.size
           /\ Popped(x).seq = IF HasNotifications(x) THEN x.seq + 1 ELSE x.seq
           /\ Popped(x).unacked = IF HasNotifications(x) THEN Remember(x.unacked, x.seq)
                                                         ELSE x.unacked
  BY DEF Popped, Subscription

\* The result of _pop_publish_result carries the next number, and it is
\* stored under that number if it carries anything.
LEMMA OwnResponse ==
    ASSUME NEW W \in Seq(Response), NEW s \in Subs, NEW x \in Subscription, NEW r \in Request,
           Numbered(W, s, x.seq), Stored(W, s, x.unacked)
    PROVE  /\ Numbered(Append(W, Result(s, x, r)), s, Popped(x).seq)
           /\ Stored(Append(W, Result(s, x, r)), s, Popped(x).unacked)
  <1> DEFINE w == Result(s, x, r)
             V == Append(W, w)
             k == Len(W)
  <1>1. w \in Response /\ ~w.fault /\ w.sub = s /\ w.seq = x.seq
    BY ResultType DEF Result
  <1>2. Carries(w) <=> HasNotifications(x)
    <2>1. x.status \in Nat
      BY FieldTypes
    <2>2. w.data = x.data
      BY DEF Result
    <2>3. w.status <=> x.status # 0
      BY Zenon DEF Result
    <2>4. x.status > 0 <=> x.status # 0
      BY <2>1
    <2> HIDE DEF w
    <2> QED
      BY <2>2, <2>3, <2>4, Zenon DEF Carries, HasNotifications
  <1> HIDE DEF w
  <1>3. /\ k \in Nat /\ Len(V) = k + 1
        /\ V[k + 1] = w
        /\ \A i \in Sent(W, s) : i \in 1 .. k /\ i \in Sent(V, s) /\ V[i] = W[i]
        /\ \A i \in Sent(V, s) : i \in Sent(W, s) \/ i = k + 1
        /\ k + 1 \in Sent(V, s)
    BY <1>1, WireAppend
  <1>4. /\ \A n \in 0 .. k : CarriedIn(V, s, n) = CarriedIn(W, s, n)
        /\ IsFiniteSet(CarriedIn(W, s, k))
        /\ Cardinality(CarriedIn(V, s, k + 1)) =
              IF Carries(w) THEN Cardinality(CarriedIn(W, s, k)) + 1
                            ELSE Cardinality(CarriedIn(W, s, k))
    <2>1. k \in 0 .. k
      BY <1>3
    <2> QED
      BY <1>1, <2>1, CarriedAppend
  <1> HIDE DEF V, k
  <1>5. Cardinality(CarriedIn(W, s, k)) \in Nat
    BY <1>4, FS_CardinalityType
  <1>6. ASSUME NEW i \in Sent(V, s) PROVE V[i].seq = 1 + Cardinality(CarriedIn(V, s, i - 1))
    <2>1. CASE i \in Sent(W, s)
      <3>1. i - 1 \in 0 .. k
        BY <1>3, <2>1
      <3> QED
        BY <1>3, <1>4, <2>1, <3>1 DEF Numbered
    <2>2. CASE i = k + 1
      <3>1. i - 1 = k /\ k \in 0 .. k
        BY <1>3, <2>2
      <3>2. x.seq = 1 + Cardinality(CarriedIn(W, s, k))
        BY DEF Numbered, k
      <3> QED
        BY <1>1, <1>3, <1>4, <2>2, <3>1, <3>2
    <2> QED
      BY <1>3, <2>1, <2>2
  <1>7. Popped(x).seq = 1 + Cardinality(CarriedIn(V, s, k + 1))
    <2>1. x.seq = 1 + Cardinality(CarriedIn(W, s, k))
      BY DEF Numbered, k
    <2> QED
      BY <1>2, <1>4, <1>5, <2>1, PoppedFields
  <1>8. Numbered(V, s, Popped(x).seq)
    BY <1>3, <1>6, <1>7 DEF Numbered
  <1>9. \A n \in x.unacked : \E i \in Sent(V, s) : V[i].seq = n /\ Carries(V[i])
    BY <1>3 DEF Stored
  <1>10. Stored(V, s, Popped(x).unacked)
    <2> DEFINE U == x.unacked
    <2>1. IsFiniteSet(U) /\ Cardinality(U) <= NoAcksLimit
      BY DEF Stored
    <2>2. Cardinality(U) \in Nat /\ NoAcksLimit \in Nat
      BY <2>1, FS_CardinalityType, PublishingAssumption
    <2>3. /\ IsFiniteSet(U \cup {x.seq})
          /\ Cardinality(U \cup {x.seq}) \in {Cardinality(U), Cardinality(U) + 1}
      BY <2>1, FS_AddElement
    <2>4. Popped(x).unacked \in {U, U \cup {x.seq}}
      BY PoppedFields DEF Remember
    <2>5. CASE Popped(x).unacked = U
      BY <1>9, <2>1, <2>5 DEF Stored
    <2>6. CASE Popped(x).unacked # U
      <3>1. /\ Popped(x).unacked = U \cup {x.seq} /\ HasNotifications(x)
            /\ ~(Cardinality(U) + 1 > NoAcksLimit)
        BY <2>6, PoppedFields DEF Remember
      <3>2. Cardinality(U \cup {x.seq}) <= NoAcksLimit
        BY <2>2, <2>3, <3>1
      <3>3. \E i \in Sent(V, s) : V[i].seq = x.seq /\ Carries(V[i])
        BY <1>1, <1>2, <1>3, <3>1
      <3> QED
        BY <1>9, <2>3, <3>1, <3>2, <3>3 DEF Stored
    <2> QED
      BY <2>5, <2>6
  <1> QED
    BY <1>8, <1>10 DEF V, w

-----------------------------------------------------------------------------
(* The notifications of an item: queued as q, on the wire W, p triggered.  *)

GoneIn(W, s, m) == UNION {ToSet(W[i].data[m]) : i \in Sent(W, s)}

InOrder(W, s, m) ==
    /\ \A i \in Sent(W, s) : Consecutive(W[i].data[m])
    /\ \A i, j \in Sent(W, s) : i < j =>
          \A a \in ToSet(W[i].data[m]), b \in ToSet(W[j].data[m]) : a < b

Sound(W, s, m, q, p) ==
    /\ InOrder(W, s, m)
    /\ \A a \in GoneIn(W, s, m), b \in ToSet(q) : a < b
    /\ Consecutive(q) /\ (q # << >> => q[Len(q)] = p)
    /\ GoneIn(W, s, m) \cup ToSet(q) \subseteq 1 .. p
    /\ p \in {0} \cup GoneIn(W, s, m) \cup ToSet(q)
    /\ FollowsOn(q, GoneIn(W, s, m))
    /\ \A i \in Sent(W, s) : FollowsOn(W[i].data[m], GoneIn(W, s, m))

\* Where more was sent, what followed on still does.
LEMMA FollowsMore ==
    ASSUME NEW q, NEW G, NEW H, G \subseteq H, FollowsOn(q, G)
    PROVE  FollowsOn(q, H)
BY DEF FollowsOn

\* Appending the next number to a queue.
LEMMA AppendNext ==
    ASSUME NEW q \in Seq(Nat), NEW n \in Nat, Consecutive(q), q # << >> => q[Len(q)] + 1 = n
    PROVE  /\ Append(q, n) \in Seq(Nat) /\ Consecutive(Append(q, n))
           /\ Append(q, n)[Len(Append(q, n))] = n
           /\ ToSet(Append(q, n)) = ToSet(q) \cup {n}
  <1> DEFINE k == Len(q)
             t == Append(q, n)
  <1>1. /\ t \in Seq(Nat) /\ Len(t) = k + 1 /\ t[k + 1] = n
        /\ \A i \in 1 .. k : t[i] = q[i]
    BY AppendProperties
  <1>2. k \in Nat /\ DOMAIN q = 1 .. k /\ DOMAIN t = 1 .. k + 1 /\ (k > 0 => q # << >>)
    BY <1>1, LenProperties, EmptySeq
  <1> HIDE DEF k, t
  <1>3. ASSUME NEW i \in 2 .. k + 1 PROVE t[i] = t[i - 1] + 1
    <2>1. CASE i \in 2 .. k
      <3>1. i \in 1 .. k /\ i - 1 \in 1 .. k
        BY <1>2, <2>1
      <3>2. q[i] = q[i - 1] + 1
        BY <2>1 DEF Consecutive, k
      <3> QED
        BY <1>1, <3>1, <3>2
    <2>2. CASE i = k + 1
      <3>1. k > 0 /\ i - 1 = k /\ k \in 1 .. k
        BY <1>2, <2>2
      <3>2. q[k] + 1 = n
        BY <1>2, <3>1 DEF k
      <3> QED
        BY <1>1, <2>2, <3>1, <3>2
    <2> QED
      BY <1>2, <2>1, <2>2
  <1>4. Consecutive(t)
    BY <1>1, <1>3 DEF Consecutive
  <1>5. /\ \A i \in 1 .. k : i \in 1 .. k + 1
        /\ \A i \in 1 .. k + 1 : i \in 1 .. k \/ i = k + 1
        /\ k + 1 \in 1 .. k + 1
    BY <1>2
  <1>6. ToSet(t) = ToSet(q) \cup {n}
    <2>1. ToSet(t) = {t[i] : i \in 1 .. k + 1} /\ ToSet(q) = {q[i] : i \in 1 .. k}
      BY <1>2 DEF ToSet
    <2>2. ASSUME NEW a \in ToSet(t) PROVE a \in ToSet(q) \cup {n}
      BY <1>1, <1>5, <2>1, <2>2
    <2>3. ASSUME NEW a \in ToSet(q) \cup {n} PROVE a \in ToSet(t)
      BY <1>1, <1>5, <2>1, <2>3
    <2> QED
      BY <2>2, <2>3
  <1> QED
    BY <1>1, <1>4, <1>6 DEF t

\* Dropping the oldest number of a queue.
LEMMA DropOldest ==
    ASSUME NEW q \in Seq(Nat), Consecutive(q), q # << >>
    PROVE  /\ Tail(q) \in Seq(Nat) /\ Consecutive(Tail(q)) /\ ToSet(Tail(q)) \subseteq ToSet(q)
           /\ Tail(q) # << >> => Tail(q)[Len(Tail(q))] = q[Len(q)]
  <1> DEFINE k == Len(q)
             t == Tail(q)
  <1>1. /\ t \in Seq(Nat) /\ Len(t) = k - 1
        /\ \A i \in 1 .. k - 1 : t[i] = q[i + 1]
    BY HeadTailProperties
  <1>2. k \in Nat /\ DOMAIN q = 1 .. k /\ DOMAIN t = 1 .. k - 1 /\ (t # << >> => Len(t) # 0)
    BY <1>1, LenProperties, EmptySeq
  <1>3. \A i \in 2 .. k : q[i] = q[i - 1] + 1
    BY DEF Consecutive
  <1> HIDE DEF k, t
  <1>4. ASSUME NEW i \in 2 .. k - 1 PROVE t[i] = t[i - 1] + 1
    <2>1. i \in 1 .. k - 1 /\ i - 1 \in 1 .. k - 1 /\ i + 1 \in 2 .. k
      BY <1>2
    <2>2. (i + 1) - 1 = i /\ (i - 1) + 1 = i
      BY <1>2
    <2>3. t[i] = q[i + 1] /\ t[i - 1] = q[(i - 1) + 1] /\ q[i + 1] = q[(i + 1) - 1] + 1
      BY <1>1, <1>3, <2>1
    <2> QED
      BY <2>2, <2>3
  <1>5. Consecutive(t)
    BY <1>1, <1>4 DEF Consecutive
  <1>6. ToSet(t) \subseteq ToSet(q)
    <2>1. \A i \in 1 .. k - 1 : i + 1 \in 1 .. k
      BY <1>2
    <2> QED
      BY <1>1, <1>2, <2>1 DEF ToSet
  <1>7. t # << >> => t[Len(t)] = q[k]
    <2>1. k - 1 # 0 /\ k - 1 \in Nat => k - 1 \in 1 .. k - 1 /\ k - 1 + 1 = k
      BY <1>2
    <2> QED
      BY <1>1, <1>2, <2>1, LenProperties
  <1> QED
    BY <1>1, <1>5, <1>6, <1>7 DEF t, k

\* _enqueue_event keeps the newest notifications without a gap, and the oldest
\* too unless the queue is full.
LEMMA EnqueuedFacts ==
    ASSUME NEW q \in Seq(Nat), NEW size \in Nat, NEW n \in Nat,
           Consecutive(q), q # << >> => q[Len(q)] + 1 = n
    PROVE  /\ Consecutive(Enqueued(q, size, n))
           /\ Enqueued(q, size, n)[Len(Enqueued(q, size, n))] = n
           /\ ToSet(Enqueued(q, size, n)) \subseteq ToSet(q) \cup {n}
           /\ n \in ToSet(Enqueued(q, size, n))
           /\ \/ q = << >> /\ Enqueued(q, size, n)[1] = n
              \/ /\ q # << >> /\ Enqueued(q, size, n)[1] = q[1]
                 /\ Len(Enqueued(q, size, n)) = Len(q) + 1
              \/ size # 0 /\ Len(Enqueued(q, size, n)) >= size
  <1>1. CASE Enqueued(q, size, n) = Append(q, n)
    <2>1. /\ Len(Append(q, n)) = Len(q) + 1 /\ Append(q, n)[Len(q) + 1] = n
          /\ \A i \in 1 .. Len(q) : Append(q, n)[i] = q[i]
      BY AppendProperties
    <2>2. q = << >> => Append(q, n)[1] = n
      BY <2>1
    <2>3. q # << >> => Append(q, n)[1] = q[1]
      <3>1. q # << >> => 1 \in 1 .. Len(q)
        BY LenProperties, EmptySeq
      <3> QED
        BY <2>1, <3>1
    <2> QED
      BY <1>1, <2>1, <2>2, <2>3, AppendNext
  <1>2. CASE Enqueued(q, size, n) # Append(q, n)
    <2>1. /\ Enqueued(q, size, n) = Append(Tail(q), n) /\ q # << >>
          /\ size # 0 /\ Len(q) >= size
      BY <1>2 DEF Enqueued
    <2>4. Len(Append(Tail(q), n)) = Len(q)
      <3>1. Tail(q) \in Seq(Nat) /\ Len(Tail(q)) = Len(q) - 1
        BY <2>1, HeadTailProperties
      <3>2. Len(Append(Tail(q), n)) = Len(Tail(q)) + 1 /\ Len(q) \in Nat
        BY <3>1, AppendProperties, LenProperties
      <3> QED
        BY <3>1, <3>2
    <2>2. /\ Tail(q) \in Seq(Nat) /\ Consecutive(Tail(q)) /\ ToSet(Tail(q)) \subseteq ToSet(q)
          /\ Tail(q) # << >> => Tail(q)[Len(Tail(q))] + 1 = n
      BY <2>1, DropOldest
    <2>3. /\ Consecutive(Append(Tail(q), n))
          /\ Append(Tail(q), n)[Len(Append(Tail(q), n))] = n
          /\ ToSet(Append(Tail(q), n)) = ToSet(Tail(q)) \cup {n}
      BY <2>2, AppendNext
    <2> QED
      BY <2>1, <2>2, <2>3, <2>4
  <1> QED
    BY <1>1, <1>2

\* Enqueueing keeps the account of what was sent and what is queued.
LEMMA SoundEnqueued ==
    ASSUME NEW W, NEW s, NEW m, NEW q \in Seq(Nat), NEW p \in Nat, NEW size \in Nat,
           Sound(W, s, m, q, p), size \in QueueSizes \cup {0}
    PROVE  Sound(W, s, m, Enqueued(q, size, p + 1), p + 1)
  <1> DEFINE t == Enqueued(q, size, p + 1)
             G == GoneIn(W, s, m)
  <1>1. /\ Consecutive(t) /\ t[Len(t)] = p + 1 /\ ToSet(t) \subseteq ToSet(q) \cup {p + 1}
        /\ p + 1 \in ToSet(t)
        /\ \/ q = << >> /\ t[1] = p + 1
           \/ q # << >> /\ t[1] = q[1] /\ Len(t) = Len(q) + 1
           \/ size # 0 /\ Len(t) >= size
    <2>1. Consecutive(q) /\ p + 1 \in Nat /\ (q # << >> => q[Len(q)] + 1 = p + 1)
      BY DEF Sound
    <2> QED
      BY <2>1, EnqueuedFacts
  <1>2. /\ InOrder(W, s, m)
        /\ \A a \in G, b \in ToSet(q) : a < b
        /\ G \cup ToSet(q) \subseteq 1 .. p
        /\ p \in {0} \cup G \cup ToSet(q) /\ FollowsOn(q, G)
        /\ \A i \in Sent(W, s) : FollowsOn(W[i].data[m], G)
    BY DEF Sound
  <1> HIDE DEF t, G
  <1>3. \A a \in 1 .. p : a < p + 1 /\ a \in 1 .. p + 1
    OBVIOUS
  <1>4. p + 1 \in 1 .. p + 1 /\ 1 .. p + 1 = (1 .. p) \cup {p + 1}
    OBVIOUS
  <1>5. \A a \in G, b \in ToSet(t) : a < b
    BY <1>1, <1>2, <1>3
  <1>6. G \cup ToSet(t) \subseteq 1 .. p + 1
    BY <1>1, <1>2, <1>4
  <1>7. FollowsOn(t, G)
    <2>1. CASE q = << >> /\ t[1] = p + 1
      <3>1. ToSet(q) = {}
        BY <2>1 DEF ToSet
      <3>2. CASE p = 0
        BY <2>1, <3>2 DEF FollowsOn
      <3>3. CASE p # 0
        <4>1. p \in G /\ t[1] - 1 = p
          BY <1>2, <2>1, <3>1, <3>3
        <4> QED
          BY <4>1 DEF FollowsOn
      <3> QED
        BY <3>2, <3>3
    <2>2. CASE q # << >> /\ t[1] = q[1] /\ Len(t) = Len(q) + 1
      <3>1. Len(q) \in Nat
        BY LenProperties
      <3>2. \A k \in Nat : Len(q) >= k => Len(t) >= k
        BY <2>2, <3>1
      <3> QED
        BY <1>2, <2>2, <3>2, PublishingAssumption DEF FollowsOn
    <2>3. CASE size # 0 /\ Len(t) >= size
      BY <2>3 DEF FollowsOn
    <2> QED
      BY <1>1, <2>1, <2>2, <2>3
  <1> QED
    BY <1>1, <1>2, <1>5, <1>6, <1>7 DEF Sound, t, G

\* A response of another subscription, or a fault, does not touch that account.
LEMMA SoundOthers ==
    ASSUME NEW W \in Seq(Response), NEW w \in Response, NEW s, w.fault \/ w.sub # s,
           NEW m, NEW q, NEW p, Sound(W, s, m, q, p)
    PROVE  Sound(Append(W, w), s, m, q, p)
  <1> DEFINE V == Append(W, w)
  <1>1. Sent(V, s) = Sent(W, s)
    BY OthersResponse
  <1>2. \A i \in Sent(W, s) : V[i] = W[i]
    BY WireAppend
  <1> HIDE DEF V
  <1>3. GoneIn(V, s, m) = GoneIn(W, s, m)
    BY <1>1, <1>2 DEF GoneIn
  <1>4. InOrder(W, s, m) => InOrder(V, s, m)
    BY <1>1, <1>2 DEF InOrder
  <1>5. \A i \in Sent(V, s) : FollowsOn(V[i].data[m], GoneIn(V, s, m))
    BY <1>1, <1>2, <1>3 DEF Sound
  <1> QED
    BY <1>3, <1>4, <1>5 DEF Sound, V

\* Publishing moves the queue of the item to the wire.
LEMMA SoundOwn ==
    ASSUME NEW W \in Seq(Response), NEW s \in Subs, NEW m \in Items, NEW p \in Nat,
           NEW w \in Response, ~w.fault, w.sub = s,
           Sound(W, s, m, w.data[m], p)
    PROVE  Sound(Append(W, w), s, m, << >>, p)
  <1> DEFINE V == Append(W, w)
             k == Len(W)
             q == w.data[m]
  <1>1. /\ k \in Nat /\ V[k + 1] = w
        /\ \A i \in Sent(W, s) : i \in 1 .. k /\ i \in Sent(V, s) /\ V[i] = W[i]
        /\ \A i \in Sent(V, s) : i \in Sent(W, s) \/ i = k + 1
        /\ k + 1 \in Sent(V, s)
    BY WireAppend
  <1>2. /\ InOrder(W, s, m)
        /\ \A a \in GoneIn(W, s, m), b \in ToSet(q) : a < b
        /\ Consecutive(q)
        /\ GoneIn(W, s, m) \cup ToSet(q) \subseteq 1 .. p
        /\ p \in {0} \cup GoneIn(W, s, m) \cup ToSet(q)
        /\ FollowsOn(q, GoneIn(W, s, m))
        /\ \A i \in Sent(W, s) : FollowsOn(W[i].data[m], GoneIn(W, s, m))
    BY DEF Sound
  <1>3. V[k + 1].data[m] = q
    BY <1>1
  <1> HIDE DEF V, k, q
  <1>4. GoneIn(V, s, m) = GoneIn(W, s, m) \cup ToSet(q)
    BY <1>1, <1>3 DEF GoneIn
  <1>5. ASSUME NEW i \in Sent(V, s) PROVE Consecutive(V[i].data[m])
    BY <1>1, <1>2, <1>3 DEF InOrder
  <1>6. ASSUME NEW i \in Sent(V, s), NEW j \in Sent(V, s), i < j,
               NEW a \in ToSet(V[i].data[m]), NEW b \in ToSet(V[j].data[m])
        PROVE  a < b
    <2>1. i \in Sent(W, s)
      BY <1>1, <1>6
    <2>2. CASE j \in Sent(W, s)
      BY <1>1, <1>2, <1>6, <2>1, <2>2 DEF InOrder
    <2>3. CASE j = k + 1
      <3>1. a \in GoneIn(W, s, m) /\ b \in ToSet(q)
        BY <1>1, <1>3, <1>6, <2>1, <2>3 DEF GoneIn
      <3> QED
        BY <1>2, <3>1
    <2> QED
      BY <1>1, <2>2, <2>3
  <1>7. InOrder(V, s, m)
    BY <1>5, <1>6 DEF InOrder
  <1>8. ToSet(<< >>) = {} /\ Consecutive(<< >>)
    BY DEF ToSet, Consecutive
  <1>9. \A i \in Sent(V, s) : FollowsOn(V[i].data[m], GoneIn(V, s, m))
    <2>1. GoneIn(W, s, m) \subseteq GoneIn(V, s, m)
      BY <1>4
    <2>2. FollowsOn(q, GoneIn(V, s, m))
      BY <1>2, <2>1, FollowsMore
    <2>3. \A i \in Sent(W, s) : FollowsOn(W[i].data[m], GoneIn(V, s, m))
      BY <1>2, <2>1, FollowsMore
    <2> QED
      BY <1>1, <1>3, <2>2, <2>3
  <1>10. FollowsOn(<< >>, GoneIn(V, s, m))
    BY DEF FollowsOn
  <1> QED
    BY <1>2, <1>4, <1>7, <1>8, <1>9, <1>10 DEF Sound, V

-----------------------------------------------------------------------------
(* The inductive invariant of the responses.                               *)

SentInv(s) ==
    /\ Numbered(wire, s, sub[s].seq) /\ Stored(wire, s, sub[s].unacked)
    /\ \A m \in Items : Sound(wire, s, m, sub[s].data[m], produced[s][m])
    /\ \A m \in Items : sub[s].size[m] \in QueueSizes \cup {0}

\* The same for a subscription in state x that published W of p.
SentOf(W, s, x, p) ==
    /\ Numbered(W, s, x.seq) /\ Stored(W, s, x.unacked)
    /\ \A m \in Items : Sound(W, s, m, x.data[m], p[m])
    /\ \A m \in Items : x.size[m] \in QueueSizes \cup {0}

\* Acknowledged results leave the store, the rest stays sound.
LEMMA StoredSubset ==
    ASSUME NEW W, NEW s, NEW U, NEW T \in SUBSET U, Stored(W, s, U)
    PROVE  Stored(W, s, T)
  <1>1. IsFiniteSet(U) /\ Cardinality(U) <= NoAcksLimit
    BY DEF Stored
  <1>2. IsFiniteSet(T) /\ Cardinality(T) <= Cardinality(U)
    BY <1>1, FS_Subset
  <1>3. Cardinality(T) \in Nat /\ Cardinality(U) \in Nat /\ NoAcksLimit \in Nat
    BY <1>1, <1>2, FS_CardinalityType, PublishingAssumption
  <1>4. Cardinality(T) <= NoAcksLimit
    BY <1>1, <1>2, <1>3
  <1> QED
    BY <1>2, <1>4 DEF Stored

\* A subscription that keeps numbers, store and queues keeps its account.
LEMMA SentQuiet ==
    ASSUME NEW W, NEW s, NEW x, NEW y, NEW p, Keeps(x, y), SentOf(W, s, x, p)
    PROVE  SentOf(W, s, y, p)
  <1>1. Stored(W, s, y.unacked)
    BY StoredSubset DEF Keeps, SentOf
  <1> QED
    BY <1>1 DEF Keeps, SentOf

\* A notification is queued, or nothing is.
LEMMA SentPrepared ==
    ASSUME TypeOK, NEW s \in Subs, SentInv(s), NEW x, Prepared(s, x)
    PROVE  SentOf(wire, s, x, produced'[s])
  <1>0. /\ sub[s] \in Subscription /\ x \in Subscription
        /\ produced[s] \in [Items -> Nat]
    BY DEF TypeOK, Prepared
  <1>1. /\ sub[s].data \in [Items -> Seq(Nat)] /\ x.size \in [Items -> Nat]
    BY <1>0, FieldTypes
  <1>2. \A m \in Items : x.size[m] \in QueueSizes \cup {0}
    BY DEF Prepared, SentInv
  <1>3. Numbered(wire, s, x.seq) /\ Stored(wire, s, x.unacked)
    BY StoredSubset DEF Prepared, SentInv
  <1>4. ASSUME NEW m \in Items PROVE Sound(wire, s, m, x.data[m], produced'[s][m])
    <2>1. Sound(wire, s, m, sub[s].data[m], produced[s][m])
      BY DEF SentInv
    <2>2. CASE x.data = sub[s].data /\ produced'[s] = produced[s]
      BY <2>1, <2>2
    <2>3. ASSUME NEW n \in Items,
                 x.data = [sub[s].data EXCEPT ![n] =
                              Enqueued(sub[s].data[n], x.size[n], produced[s][n] + 1)],
                 produced'[s] = [produced[s] EXCEPT ![n] = produced[s][n] + 1]
          PROVE  Sound(wire, s, m, x.data[m], produced'[s][m])
      <3>1. CASE n = m
        <4>1. /\ x.data[m] = Enqueued(sub[s].data[m], x.size[m], produced[s][m] + 1)
              /\ produced'[s][m] = produced[s][m] + 1
          BY <1>0, <1>1, <2>3, <3>1
        <4>2. /\ sub[s].data[m] \in Seq(Nat) /\ x.size[m] \in Nat /\ produced[s][m] \in Nat
              /\ x.size[m] \in QueueSizes \cup {0}
          BY <1>0, <1>1, <1>2
        <4>3. Sound(wire, s, m, Enqueued(sub[s].data[m], x.size[m], produced[s][m] + 1),
                    produced[s][m] + 1)
          BY <2>1, <4>2, SoundEnqueued
        <4> QED
          BY <4>1, <4>3
      <3>2. CASE n # m
        <4>1. x.data[m] = sub[s].data[m] /\ produced'[s][m] = produced[s][m]
          BY <1>0, <1>1, <2>3, <3>2
        <4> QED
          BY <2>1, <4>1
      <3> QED
        BY <3>1, <3>2
    <2> QED
      BY <2>2, <2>3 DEF Prepared
  <1> QED
    BY <1>2, <1>3, <1>4 DEF SentOf

\* The step then answers a request for this subscription or it does not.
LEMMA SentStep ==
    ASSUME TypeOK, TypeOK', NEW s \in Subs, SentInv(s), Story(s)
    PROVE  SentInv(s)'
  <1>1. PICK x : Prepared(s, x) /\ Outcome(s, x)
    BY DEF Story
  <1> DEFINE p == produced'[s]
  <1>2. SentOf(wire, s, x, p)
    BY <1>1, SentPrepared
  <1>3. /\ wire \in Seq(Response) /\ x \in Subscription /\ p \in [Items -> Nat]
    BY <1>1 DEF TypeOK, Prepared
  <1> HIDE DEF p
  <1>4. SUFFICES SentOf(wire', s, sub'[s], p)
    BY DEF SentOf, SentInv, p
  <1>5. CASE Keeps(x, sub'[s]) /\ UNCHANGED wire
    BY <1>2, <1>5, SentQuiet
  <1>6. ASSUME Keeps(x, sub'[s]), NEW w \in Response, wire' = Append(wire, w), w.fault \/ w.sub # s
        PROVE  SentOf(wire', s, sub'[s], p)
    <2>1. /\ Numbered(Append(wire, w), s, x.seq) /\ Stored(Append(wire, w), s, x.unacked)
      BY <1>2, <1>3, <1>6, OthersResponse DEF SentOf
    <2>2. ASSUME NEW m \in Items PROVE Sound(Append(wire, w), s, m, x.data[m], p[m])
      <3>1. Sound(wire, s, m, x.data[m], p[m])
        BY <1>2 DEF SentOf
      <3> QED
        BY <1>3, <1>6, <3>1, SoundOthers
    <2>3. SentOf(Append(wire, w), s, x, p)
      BY <1>2, <2>1, <2>2 DEF SentOf
    <2> QED
      BY <1>6, <2>3, SentQuiet
  <1>7. ASSUME NEW r \in Request, wire' = Append(wire, Result(s, x, r)), Keeps(Popped(x), sub'[s])
        PROVE  SentOf(wire', s, sub'[s], p)
    <2> DEFINE w == Result(s, x, r)
    <2>1. w \in Response /\ ~w.fault /\ w.sub = s /\ w.data = x.data
      BY <1>3, ResultType DEF Result
    <2>2. /\ Numbered(Append(wire, w), s, Popped(x).seq)
          /\ Stored(Append(wire, w), s, Popped(x).unacked)
      BY <1>2, <1>3, OwnResponse DEF SentOf
    <2> HIDE DEF w
    <2>3. /\ Popped(x).size = x.size
          /\ \A m \in Items : Popped(x).data[m] = << >>
      BY <1>3, PoppedFields DEF NoData
    <2>4. ASSUME NEW m \in Items PROVE Sound(Append(wire, w), s, m, << >>, p[m])
      <3>1. Sound(wire, s, m, w.data[m], p[m]) /\ p[m] \in Nat
        BY <1>2, <1>3, <2>1 DEF SentOf
      <3> QED
        BY <1>3, <2>1, <3>1, SoundOwn
    <2>5. SentOf(Append(wire, w), s, Popped(x), p)
      BY <1>2, <2>2, <2>3, <2>4 DEF SentOf
    <2> QED
      BY <1>7, <2>5, SentQuiet DEF w
  <1> QED
    BY <1>1, <1>5, <1>6, <1>7 DEF Outcome, Unheard, Heard

SentInvariant == TypeOK /\ Unused /\ \A s \in Subs : SentInv(s)

\* The initial state has SentInvariant.
LEMMA SentInit == Init => SentInvariant
  <1> SUFFICES ASSUME Init PROVE SentInvariant
    OBVIOUS
  <1>1. TypeOK
    BY TypeInit
  <1>2. \A s \in Subs : sub[s] = Unborn /\ wire = << >> /\ \A m \in Items : produced[s][m] = 0
    BY DEF Init
  <1>3. Unused
    BY <1>2 DEF Unused
  <1>4. ASSUME NEW s \in Subs PROVE SentInv(s)
    <2>1. /\ Unborn.seq = 1 /\ Unborn.unacked = {}
          /\ \A m \in Items : Unborn.data[m] = << >> /\ Unborn.size[m] = 0
      BY DEF Unborn, NoData
    <2>2. Sent(<< >>, s) = {} /\ CarriedIn(<< >>, s, 0) = {} /\ Len(<< >>) = 0
      BY DEF Sent, CarriedIn
    <2>3. IsFiniteSet({}) /\ Cardinality({}) = 0
      BY FS_EmptySet
    <2>4. Numbered(<< >>, s, 1)
      <3>1. Cardinality(CarriedIn(<< >>, s, Len(<< >>))) = 0
        BY <2>2, <2>3
      <3> QED
        BY <2>2, <3>1 DEF Numbered
    <2>5. Stored(<< >>, s, {})
      BY <2>3, PublishingAssumption DEF Stored
    <2>6. ASSUME NEW m \in Items PROVE Sound(<< >>, s, m, << >>, 0)
      <3>1. ToSet(<< >>) = {} /\ Consecutive(<< >>) /\ 1 .. 0 = {}
        BY DEF ToSet, Consecutive
      <3>2. GoneIn(<< >>, s, m) = {} /\ InOrder(<< >>, s, m)
        BY <2>2 DEF GoneIn, InOrder
      <3>3. FollowsOn(<< >>, {})
        BY DEF FollowsOn
      <3> QED
        BY <2>2, <3>1, <3>2, <3>3 DEF Sound
    <2> QED
      BY <1>2, <2>1, <2>4, <2>5, <2>6 DEF SentInv
  <1> QED
    BY <1>1, <1>3, <1>4 DEF SentInvariant

\* Every step keeps SentInvariant.
LEMMA SentNext == SentInvariant /\ [Next]_vars => SentInvariant'
  <1> SUFFICES ASSUME SentInvariant, [Next]_vars PROVE SentInvariant'
    OBVIOUS
  <1>1. TypeOK /\ Unused /\ \A s \in Subs : SentInv(s)
    BY DEF SentInvariant
  <1>2. TypeOK'
    BY <1>1, TypeStep
  <1>3. Unused'
    BY <1>1, UnusedStep
  <1>4. \A s \in Subs : SentInv(s)'
    BY <1>1, <1>2, StoryStep, SentStep
  <1> QED
    BY <1>2, <1>3, <1>4 DEF SentInvariant

\* SentBy, Carried and Gone read off the wire.
LEMMA SentMeans ==
    ASSUME TypeOK, NEW s \in Subs
    PROVE  /\ SentBy(s) = Sent(wire, s)
           /\ \A n : Carried(s, n) = Cardinality(CarriedIn(wire, s, n))
           /\ \A m : Gone(s, m) = GoneIn(wire, s, m)
  <1>1. DOMAIN wire = 1 .. Len(wire)
    BY LenProperties DEF TypeOK
  <1>2. SentBy(s) = Sent(wire, s)
    BY <1>1 DEF SentBy, Sent
  <1> QED
    BY <1>2 DEF Carried, CarriedIn, Gone, GoneIn

\* SequenceNumber: the notification messages of each subscription carry 1, 2,
\* 3, ... and a keep-alive the number of the message that follows, whichever
\* requests they answer and whatever is acknowledged, republished or deleted
\* meanwhile.
THEOREM NumbersHaveNoGaps == Spec => []NumberedWithoutGaps
  <1>1. SentInvariant => NumberedWithoutGaps
    BY SentMeans DEF SentInvariant, SentInv, Numbered, NumberedWithoutGaps
  <1> QED
    BY <1>1, SentInit, SentNext, PTL DEF Spec

\* AvailableSequenceNumbers: what is stored for a republish was sent as a
\* notification message of that subscription, and _no_acks_limit is kept.
THEOREM StoreIsSound == Spec => []RetransmissionStore
  <1>1. SentInvariant => RetransmissionStore
    BY SentMeans DEF SentInvariant, SentInv, Stored, RetransmissionStore
  <1> QED
    BY <1>1, SentInit, SentNext, PTL DEF Spec

\* What _enqueue_event queues and _pop_publish_result sends: every
\* notification at most once and in order, and only a queue that is full loses
\* any, through keep-alives, waits, expiry, deletion and changes of its size.
THEOREM NothingIsLost == Spec => []NothingLostButOverflow
  <1>1. SentInvariant => NothingLostButOverflow
    <2> SUFFICES ASSUME SentInvariant, NEW s \in Subs, NEW m \in Items
                 PROVE  LET q == sub[s].data[m]
                        IN /\ \A i \in SentBy(s) : Consecutive(wire[i].data[m])
                           /\ \A i, j \in SentBy(s) : i < j =>
                                 \A a \in ToSet(wire[i].data[m]), b \in ToSet(wire[j].data[m]) : a < b
                           /\ \A a \in Gone(s, m), b \in ToSet(q) : a < b
                           /\ Consecutive(q) /\ (q # << >> => q[Len(q)] = produced[s][m])
                           /\ produced[s][m] \in {0} \cup Gone(s, m) \cup ToSet(q)
                           /\ FollowsOn(q, Gone(s, m))
                           /\ \A i \in SentBy(s) : FollowsOn(wire[i].data[m], Gone(s, m))
      BY DEF NothingLostButOverflow
    <2>1. Sound(wire, s, m, sub[s].data[m], produced[s][m])
      BY DEF SentInvariant, SentInv
    <2>2. SentBy(s) = Sent(wire, s) /\ Gone(s, m) = GoneIn(wire, s, m)
      BY SentMeans DEF SentInvariant
    <2> QED
      BY <2>1, <2>2 DEF Sound, InOrder
  <1> QED
    BY <1>1, SentInit, SentNext, PTL DEF Spec

\* UaProcessor keeps no publish request while a subscription waits for one.
THEOREM NoRequestIsIdle == Spec => []NoIdleRequest
  BY QueuesMatch, PTL

\* No response ever carries the BadTimeout of an expiry.
THEOREM ExpiryStaysSilent == Spec => []ExpiryIsSilent
  BY Lifetime, PTL

=============================================================================
