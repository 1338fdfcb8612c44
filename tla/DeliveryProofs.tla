--------------------------- MODULE DeliveryProofs ---------------------------
(***************************************************************************)
(* Proofs about Delivery: the server in the composition is the server of   *)
(* Publishing, one publish request is open at a time, a subscription whose *)
(* client lives does not expire, and the streams of notifications that     *)
(* reach the handlers keep the promise of NotificationStream.              *)
(***************************************************************************)
EXTENDS Delivery, PublishingProofs, FunctionTheorems, NaturalsInduction, WellFoundedInduction

-----------------------------------------------------------------------------
(* Messages.                                                               *)

\* What the fields of the calls and their answers are.
LEMMA CallFields ==
    ASSUME NEW c \in Call
    PROVE  /\ c.op \in {"create", "subscribe", "unsubscribe", "delete"}
           /\ c.items \in SUBSET Items
           /\ c.op # "create" => c.sub \in Subs
           /\ c.op = "create" => c.sub = 0
           /\ c.op = "delete" => c = DeleteCall(c.sub)
  BY DEF Call, DeleteCall

\* A message to the server is a publish request or a call.
LEMMA ServerMessageFields ==
    ASSUME NEW c \in ServerMessage
    PROVE  /\ c.op # "publish" => c \in Call
           /\ c \in Call => c.op # "publish"
           /\ c.op = "publish" => c.acks \in SUBSET (Nat \X Nat)
  BY CallFields DEF ServerMessage

\* The fields of an answer to a call.
LEMMA AnswerFields ==
    ASSUME NEW a \in CallAnswer
    PROVE  /\ a.op \in {"create", "subscribe", "unsubscribe", "delete"}
           /\ a.call \in Call /\ a.id \in Subs /\ a.good \in BOOLEAN /\ a.op = a.call.op
           /\ a.op # "create" => a.id = a.call.sub
  BY DEF CallAnswer

\* A message to the client is a publish response or an answer.
LEMMA ClientMessageFields ==
    ASSUME NEW a \in ClientMessage
    PROVE  /\ a.op # "publish" => a \in CallAnswer
           /\ a \in CallAnswer => a.op # "publish"
           /\ a.op = "publish" => a.msg \in Response
  BY AnswerFields DEF ClientMessage

\* The messages that are made.
LEMMA MadeCalls ==
    ASSUME NEW s \in Subs, NEW m \in Items
    PROVE  /\ CreateCall \in Call /\ SubscribeCall(s, m) \in Call
           /\ UnsubscribeCall(s, m) \in Call /\ DeleteCall(s) \in Call
  BY DEF Call, CreateCall, SubscribeCall, UnsubscribeCall, DeleteCall

\* A publish response on its way to the client.
LEMMA MadeMessages ==
    ASSUME NEW w \in Response
    PROVE  /\ PublishAnswer(w) \in ClientMessage /\ PublishAnswer(w).op = "publish"
           /\ PublishAnswer(w).msg = w
  BY DEF ClientMessage, PublishAnswer

\* A publish request on its way to the server.
LEMMA MadePublish ==
    ASSUME NEW acks \in SUBSET (Nat \X Nat)
    PROVE  Publish(acks) \in ServerMessage /\ Publish(acks).op = "publish"
  BY DEF ServerMessage, Publish

\* An answer to a call on its way to the client.
LEMMA MadeAnswer ==
    ASSUME NEW c \in Call, NEW id \in Subs, NEW good \in BOOLEAN,
           c.op # "create" => id = c.sub
    PROVE  /\ Answer(c, id, good) \in CallAnswer /\ Answer(c, id, good) \in ClientMessage
           /\ Answer(c, id, good).op = c.op /\ Answer(c, id, good).op # "publish"
           /\ Answer(c, id, good).id = id /\ Answer(c, id, good).call = c
           /\ Answer(c, id, good).good = good
  BY CallFields DEF Answer, CallAnswer, ClientMessage

\* What publish_loop acknowledges has the shape of acknowledgements.
LEMMA AckOfType ==
    ASSUME NEW w \in Response
    PROVE  AckOf(w) \in SUBSET (Nat \X Nat)
  BY DEF AckOf, Response

-----------------------------------------------------------------------------
(* The server of the composition is the server of Publishing.              *)

\* The request the server takes.
LEMMA TakesFacts ==
    ASSUME DTypeOK, NEW op, Takes(op)
    PROVE  /\ stopping = {} /\ toServer # << >> /\ Head(toServer) \in ServerMessage
           /\ Head(toServer).op = op /\ toServer' = Tail(toServer)
           /\ toServer' \in Seq(ServerMessage)
           /\ op # "publish" => Head(toServer) \in Call
  <1>1. toServer \in Seq(ServerMessage)
    BY DEF DTypeOK
  <1>2. stopping = {} /\ toServer # << >> /\ Head(toServer).op = op /\ toServer' = Tail(toServer)
    BY DEF Takes
  <1>3. Head(toServer) \in ServerMessage /\ Tail(toServer) \in Seq(ServerMessage)
    BY <1>1, <1>2, HeadTailProperties
  <1> QED
    BY <1>2, <1>3, ServerMessageFields

\* A step of the composition is a step of Publishing, or none to the server.
LEMMA ServerStep ==
    ASSUME DTypeOK, [DNext]_dVars
    PROVE  [Next]_vars
  <1>1. ASSUME NEW s \in Subs, Cycle(s) PROVE [Next]_vars
    <2>1. PublishCycle(s)
      BY <1>1 DEF Cycle
    <2> QED
      BY <2>1, Zenon DEF Next
  <1>2. ASSUME NEW s \in Subs, NEW m \in Items, Change(s, m) PROVE [Next]_vars
    <2>1. Notify(s, m)
      BY <1>2 DEF Change
    <2> QED
      BY <2>1, Zenon DEF Next
  <1>3. CASE ServeCreate
    BY <1>3, Zenon DEF ServeCreate, Next
  <1>4. CASE ServeSubscribe
    <2> DEFINE c == Head(toServer)
    <2>1. Takes("subscribe")
      BY <1>4 DEF ServeSubscribe
    <2>2. c \in Call /\ c.op = "subscribe"
      BY <2>1, TakesFacts
    <2>3. \/ \E m \in c.items, size \in QueueSizes : CreateMonitoredItem(c.sub, m, size)
          \/ UNCHANGED vars
      BY <1>4, Zenon DEF ServeSubscribe
    <2> HIDE DEF c
    <2>4. c.sub \in Subs /\ c.items \in SUBSET Items
      BY <2>2, CallFields
    <2>5. ASSUME NEW m \in c.items, NEW size \in QueueSizes, CreateMonitoredItem(c.sub, m, size)
          PROVE  Next
      <3>1. m \in Items
        BY <2>4
      <3> QED
        BY <2>4, <2>5, <3>1, Zenon DEF Next
    <2> QED
      BY <2>3, <2>5
  <1>5. CASE ServeUnsubscribe
    <2> DEFINE c == Head(toServer)
    <2>1. Takes("unsubscribe")
      BY <1>5 DEF ServeUnsubscribe
    <2>2. c \in Call /\ c.op = "unsubscribe"
      BY <2>1, TakesFacts
    <2>3. \/ \E m \in c.items : DeleteMonitoredItem(c.sub, m)
          \/ UNCHANGED vars
      BY <1>5, Zenon DEF ServeUnsubscribe
    <2> HIDE DEF c
    <2>4. c.sub \in Subs /\ c.items \in SUBSET Items
      BY <2>2, CallFields
    <2>5. ASSUME NEW m \in c.items, DeleteMonitoredItem(c.sub, m)
          PROVE  Next
      <3>1. m \in Items
        BY <2>4
      <3> QED
        BY <2>4, <2>5, <3>1, Zenon DEF Next
    <2> QED
      BY <2>3, <2>5
  <1>6. CASE ServeDelete
    <2> DEFINE c == Head(toServer)
    <2>1. Takes("delete")
      BY <1>6 DEF ServeDelete
    <2>2. c \in Call /\ c.op = "delete"
      BY <2>1, TakesFacts
    <2>3. DeleteSubscriptions({c.sub}) \/ UNCHANGED vars
      BY <1>6, Zenon DEF ServeDelete
    <2> HIDE DEF c
    <2>4. {c.sub} \in SUBSET Subs
      BY <2>2, CallFields
    <2> QED
      BY <2>3, <2>4, Zenon DEF Next
  <1>7. CASE ServeDeleted
    <2>1. \E s \in stopping : StopSubscription(s) \/ UNCHANGED vars
      BY <1>7, Zenon DEF ServeDeleted
    <2>2. stopping \subseteq Subs
      BY DEF DTypeOK
    <2> QED
      BY <2>1, <2>2, Zenon DEF Next
  <1>8. CASE ServePublish
    <2> DEFINE a == Head(toServer).acks \cap Acks
    <2>1. PublishRequest(a, "none")
      BY <1>8 DEF ServePublish
    <2>2. a \in SUBSET Acks /\ "none" \in Hints
      BY DeliveryAssumption
    <2> HIDE DEF a
    <2> QED
      BY <2>1, <2>2, Zenon DEF Next
  <1>9. CASE UNCHANGED vars
    BY <1>9
  <1>10. ASSUME NEW s \in Subs, NEW m \in Items,
                Delete(s) \/ Subscribe(s, m) \/ Unsubscribe(s, m) \/ Create
         PROVE  UNCHANGED vars
    BY <1>10, Zenon DEF Delete, Subscribe, Unsubscribe, Create, Sends
  <1>11. ASSUME NEW s \in Subs, Delete(s) PROVE UNCHANGED vars
    BY <1>11, Zenon DEF Delete, Sends
  <1>12. CASE Create
    BY <1>12, Zenon DEF Create, Sends
  <1>13. CASE Receive \/ PublishLoop
    BY <1>13, Zenon DEF Receive, PublishLoop
  <1>14. ASSUME NEW a \in answers, Resume(a) PROVE UNCHANGED vars
    BY <1>14, Zenon DEF Resume, Created, Subscribed, Unsubscribed, Deleted, Resumes
  <1>15. CASE UNCHANGED dVars
    BY <1>15, Zenon DEF dVars
  <1> QED
    BY <1>1, <1>2, <1>3, <1>4, <1>5, <1>6, <1>7, <1>8, <1>9, <1>10, <1>11, <1>12, <1>13, <1>14,
       <1>15, Zenon DEF DNext, Serve

-----------------------------------------------------------------------------
(* Types of the composition.                                               *)

\* The server writes at most one response to a publish request in a step.
LEMMA WireGrows ==
    ASSUME TypeOK, [Next]_vars
    PROVE  UNCHANGED wire \/ \E w \in Response : wire' = Append(wire, w)
  <1>1. CASE QueueEffect
    <2>1. ASSUME NEW k \in UsableIndexes, NEW s \in Subs, NEW x \in Subscription
          PROVE  Result(s, x, reqs[k]) \in Response
      <3>1. reqs \in Seq(Request) /\ k \in 1 .. Len(reqs)
        BY DEF TypeOK, UsableIndexes
      <3>2. reqs[k] \in Request
        BY <3>1, ElementOfSeq
      <3> QED
        BY <3>2, ResultType
    <2> QED
      BY <1>1, <2>1, Zenon DEF QueueEffect
  <1>2. CASE RequestTimesOut
    BY <1>2, Zenon DEF RequestTimesOut
  <1>3. ASSUME NEW acks, NEW hint \in Hints, PublishRequest(acks, hint)
        PROVE  UNCHANGED wire \/ \E w \in Response : wire' = Append(wire, w)
    BY <1>3, RequestEffect, Zenon
  <1> QED
    BY <1>1, <1>2, <1>3, QueueSteps

\* The answers that go to the client, t, with what the step wrote.
Wrote(t) ==
    \/ UNCHANGED wire /\ t = toClient
    \/ \E w \in Response : wire' = Append(wire, w) /\ t = Append(toClient, PublishAnswer(w))

\* A step of the server adds responses of Publishing to the connection.
LEMMA WrittenFacts ==
    ASSUME TypeOK, toClient \in Seq(ClientMessage), [Next]_vars
    PROVE  Wrote(toClient \o Written)
  <1>0. wire \in Seq(Response)
    BY DEF TypeOK
  <1>1. CASE UNCHANGED wire
    <2>1. Len(wire') - Len(wire) = 0
      BY <1>0, <1>1, LenProperties
    <2>2. Written = << >>
      BY <2>1 DEF Written
    <2>3. toClient \o << >> = toClient
      BY ConcatEmptySeq
    <2> QED
      BY <1>1, <2>2, <2>3 DEF Wrote
  <1>2. ASSUME NEW w \in Response, wire' = Append(wire, w)
        PROVE  Wrote(toClient \o Written)
    <2>1. Len(wire) \in Nat /\ Len(wire') = Len(wire) + 1 /\ wire'[Len(wire) + 1] = w
      BY <1>0, <1>2, LenProperties, AppendProperties
    <2>2. Len(wire') - Len(wire) = 1
      BY <2>1
    <2>3. Written = << PublishAnswer(w) >>
      BY <2>1, <2>2 DEF Written
    <2>4. toClient \o << PublishAnswer(w) >> = Append(toClient, PublishAnswer(w))
      BY MadeMessages, AppendIsConcat
    <2> QED
      BY <1>2, <2>3, <2>4 DEF Wrote
  <1> QED
    BY <1>0, <1>1, <1>2, WireGrows

\* What the server has written are messages to the client.
LEMMA WroteType ==
    ASSUME toClient \in Seq(ClientMessage), NEW t, Wrote(t)
    PROVE  t \in Seq(ClientMessage)
  BY MadeMessages, AppendProperties DEF Wrote

\* The client sends no TimeoutHint, so no stored request ever gets too old.
NoHints == \A i \in 1 .. Len(reqs) : reqs[i].hint = "none"

\* Requests that are answered leave the queue, none is dropped.
Answered ==
    NoHints => NoHints' /\ Len(reqs') + Len(wire') = Len(reqs) + Len(wire)

\* publish_results answers a request for each it takes.
LEMMA ResultsAnswered ==
    ASSUME TypeOK, NEW s \in Subs, NEW x \in Subscription, PublishResults(s, x)
    PROVE  Answered
  <1> SUFFICES ASSUME NoHints
               PROVE  NoHints' /\ Len(reqs') + Len(wire') = Len(reqs) + Len(wire)
    BY DEF Answered
  <1>0. reqs \in Seq(Request) /\ wire \in Seq(Response) /\ Len(reqs) \in Nat /\ Len(wire) \in Nat
    BY LenProperties DEF TypeOK
  <1>1. CASE UNCHANGED <<reqs, wire>>
    BY <1>1 DEF NoHints
  <1>2. CASE UsableIndexes = {} /\ reqs' = << >> /\ UNCHANGED wire
    <2>1. 1 .. Len(reqs) = {}
      <3>1. \A i \in 1 .. Len(reqs) : reqs[i].hint # "late"
        BY DEF NoHints
      <3> QED
        BY <1>2, <3>1 DEF UsableIndexes
    <2>2. Len(reqs) = 0
      <3>1. Len(reqs) # 0 => 1 \in 1 .. Len(reqs)
        BY <1>0
      <3> QED
        BY <2>1, <3>1
    <2>3. reqs = << >>
      BY <1>0, <2>2, EmptySeq
    <2> QED
      BY <1>1, <1>2, <2>3
  <1>3. ASSUME NEW k \in UsableIndexes, \A i \in UsableIndexes : k <= i,
               reqs' = SubSeq(reqs, k + 1, Len(reqs)),
               wire' = Append(wire, Result(s, x, reqs[k]))
        PROVE  NoHints' /\ Len(reqs') + Len(wire') = Len(reqs) + Len(wire)
    <2>1. k \in 1 .. Len(reqs) /\ 1 \in 1 .. Len(reqs)
      BY <1>0 DEF UsableIndexes
    <2>2. 1 \in UsableIndexes
      BY <2>1 DEF UsableIndexes, NoHints
    <2>3. k = 1
      BY <1>3, <2>1, <2>2
    <2>4. reqs' = SubSeq(reqs, 2, Len(reqs))
      BY <1>3, <2>3
    <2>5. /\ Len(reqs') = Len(reqs) - 1
          /\ \A i \in 1 .. Len(reqs) - 1 : reqs'[i] = reqs[i + 1]
      <3>1. reqs # << >>
        BY <1>0, <2>1, EmptySeq
      <3>2. reqs' = Tail(reqs)
        BY <1>0, <2>4, <3>1, TailIsSubSeq
      <3> QED
        BY <1>0, <3>1, <3>2, HeadTailProperties
    <2>6. \A i \in 1 .. Len(reqs) - 1 : i + 1 \in 1 .. Len(reqs)
      BY <1>0
    <2>7. NoHints'
      BY <2>5, <2>6 DEF NoHints
    <2>8. Len(wire') = Len(wire) + 1
      BY <1>0, <1>3
    <2> QED
      BY <1>0, <2>5, <2>7, <2>8
  <1> QED
    BY <1>1, <1>2, <1>3, Zenon DEF PublishResults

\* So does the enqueueing of an immediate subscription.
LEMMA EnqueueAnswered ==
    ASSUME TypeOK, NEW s \in Subs, NEW x \in Subscription, NEW m \in Items, Enqueue(s, x, m)
    PROVE  Answered
  <1>1. Queued(x, m, produced[s][m] + 1) \in Subscription
    BY QueuedType DEF TypeOK
  <1>2. \/ PublishResults(s, Queued(x, m, produced[s][m] + 1))
        \/ UNCHANGED <<reqs, wire>>
    BY Zenon DEF Enqueue
  <1>3. CASE UNCHANGED <<reqs, wire>>
    BY <1>3 DEF Answered, NoHints
  <1> QED
    BY <1>1, <1>2, <1>3, ResultsAnswered

\* A publish request is stored or answered, once.
LEMMA RequestAnswered ==
    ASSUME TypeOK, NEW acks, PublishRequest(acks, "none"), NoHints
    PROVE  NoHints' /\ Len(reqs') + Len(wire') = Len(reqs) + Len(wire) + 1
  <1> DEFINE r == [id |-> reqCounter + 1, hint |-> "none"]
  <1>0. reqs \in Seq(Request) /\ wire \in Seq(Response) /\ Len(reqs) \in Nat /\ Len(wire) \in Nat
    BY LenProperties DEF TypeOK
  <1>1. r \in Request /\ r.hint = "none"
    BY DEF TypeOK, Request
  <1>2. \/ reqs' = Append(reqs, r) /\ UNCHANGED wire
        \/ UNCHANGED reqs /\ \E w : wire' = Append(wire, w)
    BY Zenon DEF PublishRequest
  <1> HIDE DEF r
  <1>3. CASE reqs' = Append(reqs, r) /\ UNCHANGED wire
    <2>1. /\ Len(reqs') = Len(reqs) + 1 /\ reqs'[Len(reqs) + 1] = r
          /\ \A i \in 1 .. Len(reqs) : reqs'[i] = reqs[i]
      BY <1>0, <1>1, <1>3, AppendProperties
    <2>2. \A i \in 1 .. Len(reqs) + 1 : i \in 1 .. Len(reqs) \/ i = Len(reqs) + 1
      BY <1>0
    <2> QED
      BY <1>0, <1>1, <1>3, <2>1, <2>2 DEF NoHints
  <1>4. CASE UNCHANGED reqs /\ \E w : wire' = Append(wire, w)
    <2>1. Len(wire') = Len(wire) + 1
      BY <1>0, <1>4
    <2> QED
      BY <1>0, <1>4, <2>1 DEF NoHints
  <1> QED
    BY <1>2, <1>3, <1>4

\* What the answer to a call says of the subscriptions there are.
Counts(a) ==
    IF a.op = "create" THEN subCounter' = subCounter + 1 /\ a.id = subCounter'
                       ELSE UNCHANGED subCounter

\* A step of the server other than the receipt of a publish request.
ServerTurn ==
    /\ \/ UNCHANGED toServer
       \/ toServer # << >> /\ Head(toServer) \in Call /\ toServer' = Tail(toServer)
    /\ \/ Wrote(toClient') /\ UNCHANGED subCounter
       \/ \E t : \E a \in CallAnswer : Wrote(t) /\ toClient' = Append(t, a) /\ Counts(a)
    /\ stopping' \in SUBSET Subs
    /\ Answered
    /\ UNCHANGED <<clientVars, timely>>

\* A turn that touches neither requests nor responses.
LEMMA SilentTurn ==
    ASSUME UNCHANGED <<reqs, wire>>
    PROVE  Answered /\ Wrote(toClient)
  BY DEF Answered, NoHints, Wrote

\* Every turn of the server but a publish request keeps requests and responses in balance.
LEMMA ServerTurns ==
    ASSUME DTypeOK,
           \/ \E s \in Subs : Cycle(s)
           \/ \E s \in Subs, m \in Items : Change(s, m)
           \/ ServeCreate \/ ServeSubscribe \/ ServeUnsubscribe \/ ServeDelete \/ ServeDeleted
    PROVE  ServerTurn
  <1>0. /\ TypeOK /\ toClient \in Seq(ClientMessage) /\ toServer \in Seq(ServerMessage)
        /\ stopping \in SUBSET Subs /\ sub \in [Subs -> Subscription]
    BY DEF DTypeOK, TypeOK
  <1>1. [Next]_vars
    <2>1. [DNext]_dVars
      BY Zenon DEF DNext, Serve
    <2> QED
      BY <2>1, ServerStep
  <1>2. Wrote(toClient \o Written)
    BY <1>0, <1>1, WrittenFacts
  <1>3. ASSUME NEW s \in Subs, Cycle(s) PROVE ServerTurn
    <2>1. PublishResults(s, sub[s])
      BY <1>3, Zenon DEF Cycle, PublishCycle
    <2>2. Answered
      BY <1>0, <2>1, ResultsAnswered
    <2>3. /\ toClient' = toClient \o Written
          /\ UNCHANGED <<toServer, stopping, clientVars, timely, subCounter>>
      BY <1>3, Zenon DEF Cycle, PublishCycle
    <2> QED
      BY <1>0, <1>2, <2>2, <2>3 DEF ServerTurn
  <1>4. ASSUME NEW s \in Subs, NEW m \in Items, Change(s, m) PROVE ServerTurn
    <2>1. Enqueue(s, sub[s], m)
      BY <1>4, Zenon DEF Change, Notify
    <2>2. Answered
      BY <1>0, <2>1, EnqueueAnswered
    <2>3. /\ toClient' = toClient \o Written
          /\ UNCHANGED <<toServer, stopping, clientVars, timely, subCounter>>
      BY <1>4, Zenon DEF Change, Notify
    <2> QED
      BY <1>0, <1>2, <2>2, <2>3 DEF ServerTurn
  <1> DEFINE c == Head(toServer)
  <1>5. ASSUME NEW op \in {"create", "subscribe", "unsubscribe", "delete"}, Takes(op)
        PROVE  /\ toServer # << >> /\ c \in Call /\ toServer' = Tail(toServer) /\ c.op = op
               /\ op # "create" => c.sub \in Subs
    BY <1>5, TakesFacts, CallFields
  <1>6. CASE ServeCreate
    <2>1. UNCHANGED <<reqs, wire>> /\ subCounter < MaxSubs /\ subCounter' = subCounter + 1
      BY <1>6 DEF ServeCreate, CreateSubscription
    <2>2. subCounter' \in Subs
      BY <1>0, <2>1, PublishingAssumption DEF TypeOK, Subs
    <2>3. /\ Takes("create") /\ toClient' = Append(toClient, Answer(c, subCounter', TRUE))
          /\ UNCHANGED <<stopping, clientVars, timely>>
      BY <1>6, Zenon DEF ServeCreate
    <2>4. c \in Call /\ toServer # << >> /\ toServer' = Tail(toServer) /\ c.op = "create"
      BY <1>5, <2>3
    <2> HIDE DEF c
    <2>5. /\ Answer(c, subCounter', TRUE) \in CallAnswer
          /\ Counts(Answer(c, subCounter', TRUE))
      BY <2>1, <2>2, <2>4, MadeAnswer DEF Counts
    <2> QED
      BY <1>0, <2>1, <2>3, <2>4, <2>5, SilentTurn DEF ServerTurn, c
  <1>7. CASE ServeSubscribe
    <2>1. Takes("subscribe") /\ UNCHANGED <<stopping, clientVars, timely>>
      BY <1>7, Zenon DEF ServeSubscribe
    <2>2. /\ c \in Call /\ toServer # << >> /\ toServer' = Tail(toServer) /\ c.sub \in Subs
          /\ c.op # "create"
      BY <1>5, <2>1
    <2>3. \/ /\ \E m \in c.items, size \in QueueSizes : CreateMonitoredItem(c.sub, m, size)
             /\ toClient' = Append(toClient \o Written, Answer(c, c.sub, TRUE))
          \/ UNCHANGED vars /\ toClient' = Append(toClient, Answer(c, c.sub, FALSE))
      BY <1>7, Zenon DEF ServeSubscribe
    <2> HIDE DEF c
    <2>4. /\ Answer(c, c.sub, TRUE) \in CallAnswer /\ Answer(c, c.sub, FALSE) \in CallAnswer
          /\ Answer(c, c.sub, TRUE).op # "create" /\ Answer(c, c.sub, FALSE).op # "create"
      <3>1. Answer(c, c.sub, TRUE) \in CallAnswer /\ Answer(c, c.sub, FALSE) \in CallAnswer
        BY <2>2, MadeAnswer
      <3> QED
        BY <2>2, <3>1 DEF Answer
    <2>5. CASE UNCHANGED vars /\ toClient' = Append(toClient, Answer(c, c.sub, FALSE))
      <3>1. UNCHANGED <<reqs, wire, subCounter>>
        BY <2>5 DEF vars
      <3> QED
        BY <1>0, <2>1, <2>2, <2>4, <2>5, <3>1, SilentTurn DEF ServerTurn, Counts, c
    <2>6. ASSUME NEW m \in c.items, NEW size \in QueueSizes, CreateMonitoredItem(c.sub, m, size),
                 toClient' = Append(toClient \o Written, Answer(c, c.sub, TRUE))
          PROVE  ServerTurn
      <3>1. m \in Items
        BY <2>2, CallFields
      <3>2. WithItem(sub[c.sub], m, size) \in Subscription
        BY <1>0, <2>2, <3>1, WithItemType, PublishingAssumption
      <3>3. Enqueue(c.sub, WithItem(sub[c.sub], m, size), m) \/ UNCHANGED <<reqs, wire>>
        BY <2>6, Zenon DEF CreateMonitoredItem
      <3>4. Answered
        BY <1>0, <2>2, <3>1, <3>2, <3>3, EnqueueAnswered, SilentTurn
      <3>5. UNCHANGED subCounter
        BY <2>6, Zenon DEF CreateMonitoredItem
      <3> QED
        BY <1>0, <1>2, <2>1, <2>2, <2>4, <2>6, <3>4, <3>5 DEF ServerTurn, Counts, c
    <2> QED
      BY <2>3, <2>5, <2>6
  <1>8. CASE ServeUnsubscribe
    <2>1. Takes("unsubscribe") /\ UNCHANGED <<stopping, clientVars, timely>>
      BY <1>8, Zenon DEF ServeUnsubscribe
    <2>2. /\ c \in Call /\ toServer # << >> /\ toServer' = Tail(toServer) /\ c.sub \in Subs
          /\ c.op # "create"
      BY <1>5, <2>1
    <2>3. /\ \/ \E m : DeleteMonitoredItem(c.sub, m)
             \/ UNCHANGED vars
          /\ \E good \in BOOLEAN : toClient' = Append(toClient, Answer(c, c.sub, good))
      BY <1>8, Zenon DEF ServeUnsubscribe
    <2> HIDE DEF c
    <2>4. UNCHANGED <<reqs, wire, subCounter>>
      BY <2>3, Zenon DEF DeleteMonitoredItem, vars
    <2>5. \E a \in CallAnswer : a.op # "create" /\ toClient' = Append(toClient, a)
      BY <2>2, <2>3, MadeAnswer
    <2> QED
      BY <1>0, <2>1, <2>2, <2>4, <2>5, SilentTurn DEF ServerTurn, Counts, c
  <1>9. CASE ServeDelete
    <2>1. Takes("delete") /\ UNCHANGED <<clientVars, timely>>
      BY <1>9, Zenon DEF ServeDelete
    <2>2. /\ c \in Call /\ toServer # << >> /\ toServer' = Tail(toServer) /\ c.sub \in Subs
          /\ c.op # "create"
      BY <1>5, <2>1
    <2>3. \/ DeleteSubscriptions({c.sub}) /\ stopping' = {c.sub} /\ UNCHANGED toClient
          \/ /\ UNCHANGED <<vars, stopping>>
             /\ toClient' = Append(toClient, Answer(c, c.sub, FALSE))
      BY <1>9, Zenon DEF ServeDelete
    <2> HIDE DEF c
    <2>4. UNCHANGED <<reqs, wire, subCounter>>
      BY <2>3, Zenon DEF DeleteSubscriptions, vars
    <2>5. \/ UNCHANGED toClient
          \/ \E a \in CallAnswer : a.op # "create" /\ toClient' = Append(toClient, a)
      BY <2>2, <2>3, MadeAnswer
    <2>6. stopping' \in SUBSET Subs
      BY <1>0, <2>2, <2>3
    <2> QED
      BY <1>0, <2>1, <2>2, <2>4, <2>5, <2>6, SilentTurn DEF ServerTurn, Counts, c
  <1>10. CASE ServeDeleted
    <2>1. PICK s \in stopping :
                /\ StopSubscription(s) \/ UNCHANGED vars
                /\ toClient' = Append(toClient, Answer(DeleteCall(s), s, TRUE))
      BY <1>10, Zenon DEF ServeDeleted
    <2>2. UNCHANGED <<reqs, wire, subCounter>>
      BY <2>1, Zenon DEF StopSubscription, vars
    <2>3. s \in Subs
      BY <1>0
    <2>4. DeleteCall(s) \in Call
      BY <2>3 DEF Call, DeleteCall
    <2>5. /\ Answer(DeleteCall(s), s, TRUE) \in CallAnswer
          /\ Answer(DeleteCall(s), s, TRUE).op # "create"
      <3>1. DeleteCall(s).sub = s /\ DeleteCall(s).op = "delete"
        BY DEF DeleteCall
      <3>2. Answer(DeleteCall(s), s, TRUE) \in CallAnswer
        BY <2>3, <2>4, <3>1, MadeAnswer
      <3> QED
        BY <3>1, <3>2 DEF Answer
    <2>6. stopping' = {} /\ UNCHANGED <<toServer, clientVars, timely>>
      BY <1>10, Zenon DEF ServeDeleted
    <2> QED
      BY <2>1, <2>2, <2>5, <2>6, SilentTurn DEF ServerTurn, Counts
  <1> QED
    BY <1>3, <1>4, <1>6, <1>7, <1>8, <1>9, <1>10

\* What the handler of an item was called with, and what was thrown away.
LEMMA DeliversType ==
    ASSUME delivered \in [Subs -> [Items -> Seq(Nat)]], dropped \in [Subs -> [Items -> Nat]],
           NEW w \in Response, Delivers(w)
    PROVE  /\ delivered' \in [Subs -> [Items -> Seq(Nat)]]
           /\ dropped' \in [Subs -> [Items -> Nat]]
           /\ \A s \in Subs, m \in Items :
                 IF s = w.sub
                 THEN /\ Knows(s, m) => /\ delivered'[s][m] = delivered[s][m] \o w.data[m]
                                        /\ dropped'[s][m] = dropped[s][m]
                      /\ ~Knows(s, m) => /\ delivered'[s][m] = delivered[s][m]
                                         /\ dropped'[s][m] = dropped[s][m] + Len(w.data[m])
                 ELSE delivered'[s] = delivered[s] /\ dropped'[s] = dropped[s]
  <1> DEFINE t == w.sub
             del == [m \in Items |-> IF Knows(t, m) THEN delivered[t][m] \o w.data[m]
                                                   ELSE delivered[t][m]]
             dro == [m \in Items |-> IF Knows(t, m) THEN dropped[t][m]
                                                   ELSE dropped[t][m] + Len(w.data[m])]
  <1>1. w.data \in [Items -> Seq(Nat)]
    BY DEF Response
  <1>2. /\ delivered' = [delivered EXCEPT ![t] = del]
        /\ dropped' = [dropped EXCEPT ![t] = dro]
    BY DEF Delivers
  <1>3. CASE t \notin Subs
    <2>1. delivered' = delivered /\ dropped' = dropped
      BY <1>2, <1>3
    <2> QED
      BY <1>3, <2>1
  <1>4. CASE t \in Subs
    <2>1. ASSUME NEW m \in Items
          PROVE  /\ delivered[t][m] \in Seq(Nat) /\ w.data[m] \in Seq(Nat) /\ dropped[t][m] \in Nat
                 /\ delivered[t][m] \o w.data[m] \in Seq(Nat)
                 /\ dropped[t][m] + Len(w.data[m]) \in Nat
      <3>1. delivered[t][m] \in Seq(Nat) /\ w.data[m] \in Seq(Nat) /\ dropped[t][m] \in Nat
        BY <1>1, <1>4
      <3> QED
        BY <3>1, ConcatProperties, LenProperties
    <2>2. del \in [Items -> Seq(Nat)] /\ dro \in [Items -> Nat]
      BY <2>1
    <2>3. \A m \in Items :
            /\ Knows(t, m) => del[m] = delivered[t][m] \o w.data[m] /\ dro[m] = dropped[t][m]
            /\ ~Knows(t, m) => /\ del[m] = delivered[t][m]
                               /\ dro[m] = dropped[t][m] + Len(w.data[m])
      OBVIOUS
    <2> HIDE DEF del, dro
    <2>4. /\ delivered' \in [Subs -> [Items -> Seq(Nat)]]
          /\ dropped' \in [Subs -> [Items -> Nat]]
      BY <1>2, <2>2
    <2>5. /\ delivered'[t] = del /\ dropped'[t] = dro
          /\ \A s \in Subs \ {t} : delivered'[s] = delivered[s] /\ dropped'[s] = dropped[s]
      BY <1>2, <1>4
    <2> QED
      BY <2>3, <2>4, <2>5
  <1> QED
    BY <1>3, <1>4

\* Only a cycle and the receipt of a publish request change since.
LEMMA SinceSteps ==
    ASSUME [DNext]_dVars
    PROVE  UNCHANGED since \/ ServePublish \/ \E s \in Subs : Cycle(s)
  <1>1. ASSUME NEW s, NEW m, Change(s, m) PROVE UNCHANGED since
    BY <1>1, Zenon DEF Change
  <1>2. ServeCreate \/ ServeSubscribe \/ ServeUnsubscribe \/ ServeDelete \/ ServeDeleted
            => UNCHANGED since
    BY Zenon DEF ServeCreate, ServeSubscribe, ServeUnsubscribe, ServeDelete, ServeDeleted
  <1>3. ASSUME NEW c, Sends(c) PROVE UNCHANGED since
    BY <1>3, Zenon DEF Sends
  <1>4. ASSUME NEW a, Resume(a) PROVE UNCHANGED since
    BY <1>4, Zenon DEF Resume, Created, Subscribed, Unsubscribed, Deleted, Resumes
  <1>5. Receive \/ PublishLoop => UNCHANGED since
    BY Zenon DEF Receive, PublishLoop
  <1>6. UNCHANGED dVars => UNCHANGED since
    BY DEF dVars
  <1> QED
    BY <1>1, <1>2, <1>3, <1>4, <1>5, <1>6, Zenon DEF DNext, Serve, Create, Subscribe, Unsubscribe,
       Delete

\* The counts of cycles stay numbers.
LEMMA SinceType ==
    ASSUME since \in [Subs -> Nat], [DNext]_dVars
    PROVE  since' \in [Subs -> Nat]
  <1>1. CASE ServePublish
    <2>1. since' = [s \in Subs |-> 0]
      BY <1>1, Zenon DEF ServePublish
    <2> QED
      BY <2>1
  <1>2. ASSUME NEW s \in Subs, Cycle(s) PROVE since' \in [Subs -> Nat]
    <2>1. since' = since \/ since' = [since EXCEPT ![s] = since[s] + 1]
      BY <1>2 DEF Cycle
    <2> QED
      BY <2>1
  <1> QED
    BY <1>1, <1>2, SinceSteps

\* The type invariant of the composition is inductive.
LEMMA DTypeStep == DTypeOK /\ [DNext]_dVars => DTypeOK'
  <1> SUFFICES ASSUME DTypeOK, [DNext]_dVars PROVE DTypeOK'
    OBVIOUS
  <1>0. /\ toServer \in Seq(ServerMessage) /\ toClient \in Seq(ClientMessage)
        /\ stopping \in SUBSET Subs /\ nCalls \in 0 .. MaxCalls
        /\ calls \in SUBSET Call /\ answers \in SUBSET CallAnswer
        /\ callbacks \in SUBSET Subs /\ monitored \in [Subs -> SUBSET Items]
        /\ loop \in {"none", "waiting", "done"} /\ inbox \in Seq(Response)
        /\ delivered \in [Subs -> [Items -> Seq(Nat)]]
        /\ dropped \in [Subs -> [Items -> Nat]] /\ timely \in BOOLEAN
    BY DEF DTypeOK
  <1>1. TypeOK' /\ since' \in [Subs -> Nat]
    BY ServerStep, TypeStep, SinceType DEF DTypeOK
  <1>2. ASSUME /\ toServer' \in Seq(ServerMessage) /\ toClient' \in Seq(ClientMessage)
               /\ stopping' \in SUBSET Subs /\ UNCHANGED <<clientVars, timely>>
        PROVE  DTypeOK'
    BY <1>0, <1>1, <1>2 DEF DTypeOK, clientVars
  <1>3. CASE ServerTurn
    <2>1. toServer' \in Seq(ServerMessage)
      <3>1. toServer # << >> => Tail(toServer) \in Seq(ServerMessage)
        BY <1>0, HeadTailProperties
      <3>2. UNCHANGED toServer \/ (toServer # << >> /\ toServer' = Tail(toServer))
        BY <1>3 DEF ServerTurn
      <3> QED
        BY <1>0, <3>1, <3>2
    <2>2. CASE Wrote(toClient')
      BY <1>0, <1>2, <1>3, <2>1, <2>2, WroteType DEF ServerTurn
    <2>3. ASSUME NEW t, NEW a \in CallAnswer, Wrote(t), toClient' = Append(t, a)
          PROVE  DTypeOK'
      <3>1. t \in Seq(ClientMessage) /\ a \in ClientMessage
        BY <1>0, <2>3, WroteType DEF ClientMessage
      <3>2. toClient' \in Seq(ClientMessage)
        BY <2>3, <3>1, AppendProperties
      <3> QED
        BY <1>2, <1>3, <2>1, <3>2 DEF ServerTurn
    <2> QED
      BY <1>3, <2>2, <2>3 DEF ServerTurn
  <1>4. CASE ServePublish
    <2>1. /\ Takes("publish") /\ toClient' = toClient \o Written
          /\ UNCHANGED <<stopping, clientVars, timely>>
      BY <1>4, Zenon DEF ServePublish
    <2>2. toServer' \in Seq(ServerMessage)
      BY <2>1, TakesFacts
    <2>3. Wrote(toClient \o Written)
      BY <1>0, ServerStep, WrittenFacts DEF DTypeOK
    <2> QED
      BY <1>0, <1>2, <2>1, <2>2, <2>3, WroteType
  <1>5. ASSUME NEW c \in Call, Sends(c), monitored' \in [Subs -> SUBSET Items]
        PROVE  DTypeOK'
    <2>1. /\ nCalls < MaxCalls /\ nCalls' = nCalls + 1 /\ calls' = calls \cup {c}
          /\ toServer' = Append(toServer, c)
          /\ UNCHANGED <<vars, toClient, stopping, answers, callbacks, loop, inbox,
                         delivered, dropped, timely>>
      BY <1>5, Zenon DEF Sends
    <2>2. c \in ServerMessage
      BY DEF ServerMessage
    <2>3. toServer' \in Seq(ServerMessage)
      BY <1>0, <2>1, <2>2, AppendProperties
    <2>4. nCalls' \in 0 .. MaxCalls
      BY <1>0, <2>1, DeliveryAssumption
    <2>5. calls' \in SUBSET Call
      BY <1>0, <2>1
    <2> QED
      BY <1>0, <1>1, <1>5, <2>1, <2>3, <2>4, <2>5 DEF DTypeOK
  <1>6. CASE Create
    BY <1>0, <1>5, <1>6 DEF Create, Call, CreateCall
  <1>7. ASSUME NEW s \in Subs, Delete(s) PROVE DTypeOK'
    <2>1. DeleteCall(s) \in Call
      BY DEF Call, DeleteCall
    <2> QED
      BY <1>0, <1>5, <1>7, <2>1 DEF Delete
  <1>8. ASSUME NEW s \in Subs, NEW m \in Items, Subscribe(s, m) \/ Unsubscribe(s, m)
        PROVE  DTypeOK'
    <2>1. SubscribeCall(s, m) \in Call /\ UnsubscribeCall(s, m) \in Call
      BY MadeCalls
    <2>2. CASE Subscribe(s, m)
      <3>1. Sends(SubscribeCall(s, m)) /\ monitored' = [monitored EXCEPT ![s] = monitored[s] \cup {m}]
        BY <2>2 DEF Subscribe
      <3>2. monitored' \in [Subs -> SUBSET Items]
        BY <1>0, <3>1
      <3> QED
        BY <1>5, <2>1, <3>1, <3>2
    <2>3. CASE Unsubscribe(s, m)
      BY <1>0, <1>5, <2>1, <2>3 DEF Unsubscribe
    <2> QED
      BY <1>8, <2>2, <2>3
  <1>9. CASE Receive
    <2> DEFINE a == Head(toClient)
    <2>1. a \in ClientMessage /\ toClient' \in Seq(ClientMessage)
      BY <1>0, <1>9, HeadTailProperties DEF Receive
    <2>2. /\ UNCHANGED <<vars, toServer, stopping, nCalls, calls, callbacks, monitored, loop,
                         delivered, dropped, timely>>
          /\ \/ a.op = "publish" /\ inbox' = Append(inbox, a.msg) /\ UNCHANGED answers
             \/ a.op # "publish" /\ answers' = answers \cup {a} /\ UNCHANGED inbox
      BY <1>9, Zenon DEF Receive
    <2> HIDE DEF a
    <2>3. inbox' \in Seq(Response)
      <3>1. a.op = "publish" => a.msg \in Response
        BY <2>1, ClientMessageFields
      <3>2. a.op = "publish" => Append(inbox, a.msg) \in Seq(Response)
        BY <1>0, <3>1, AppendProperties
      <3> QED
        BY <1>0, <2>2, <3>2
    <2>4. answers' \in SUBSET CallAnswer
      <3>1. a.op # "publish" => a \in CallAnswer
        BY <2>1, ClientMessageFields
      <3> QED
        BY <1>0, <2>2, <3>1
    <2> QED
      BY <1>0, <1>1, <2>1, <2>2, <2>3, <2>4 DEF DTypeOK
  <1>10. CASE PublishLoop
    <2> DEFINE w == Head(inbox)
    <2>1. w \in Response /\ inbox' \in Seq(Response)
      BY <1>0, <1>10, HeadTailProperties DEF PublishLoop
    <2>2. /\ UNCHANGED <<vars, toClient, stopping, nCalls, calls, answers, callbacks,
                         monitored, timely>>
          /\ \/ /\ Delivers(w) /\ toServer' = Append(toServer, Publish(AckOf(w)))
                /\ UNCHANGED loop
             \/ loop' = "done" /\ UNCHANGED <<toServer, delivered, dropped>>
      BY <1>10, Zenon DEF PublishLoop
    <2> HIDE DEF w
    <2>3. CASE Delivers(w) /\ toServer' = Append(toServer, Publish(AckOf(w))) /\ UNCHANGED loop
      <3>1. delivered' \in [Subs -> [Items -> Seq(Nat)]] /\ dropped' \in [Subs -> [Items -> Nat]]
        BY <1>0, <2>1, <2>3, DeliversType
      <3>2. toServer' \in Seq(ServerMessage)
        BY <1>0, <2>1, <2>3, AckOfType, MadePublish, AppendProperties
      <3> QED
        BY <1>0, <1>1, <2>1, <2>2, <2>3, <3>1, <3>2 DEF DTypeOK
    <2>4. CASE loop' = "done" /\ UNCHANGED <<toServer, delivered, dropped>>
      BY <1>0, <1>1, <2>1, <2>2, <2>4 DEF DTypeOK
    <2> QED
      BY <2>2, <2>3, <2>4
  <1>11. ASSUME NEW a \in answers, Resume(a) PROVE DTypeOK'
    <2>1. a \in CallAnswer /\ a.id \in Subs /\ a.call \in Call
      BY <1>0, AnswerFields
    <2>2. /\ answers' = answers \ {a} /\ calls' = calls \ {a.call}
          /\ UNCHANGED <<vars, toClient, stopping, nCalls, inbox, delivered, dropped, timely>>
      BY <1>11, Zenon DEF Resume, Created, Subscribed, Unsubscribed, Deleted, Resumes
    <2>3. toServer' = toServer \/ toServer' = Append(toServer, Publish({}))
      BY <1>11, Zenon DEF Resume, Created, Subscribed, Unsubscribed, Deleted, StartsLoop
    <2>4. toServer' \in Seq(ServerMessage)
      <3>1. Publish({}) \in ServerMessage
        BY MadePublish
      <3>2. Append(toServer, Publish({})) \in Seq(ServerMessage)
        BY <1>0, <3>1, AppendProperties
      <3> QED
        BY <1>0, <2>3, <3>2
    <2>5. loop' = loop \/ loop' = "waiting"
      BY <1>11, Zenon DEF Resume, Created, Subscribed, Unsubscribed, Deleted, StartsLoop
    <2>6. callbacks' \in {callbacks, callbacks \cup {a.id}, callbacks \ {a.id}}
      BY <1>11 DEF Resume, Created, Subscribed, Unsubscribed, Deleted
    <2>7. \/ UNCHANGED monitored
          \/ monitored' = [monitored EXCEPT ![a.id] = monitored[a.id]]
          \/ monitored' = [monitored EXCEPT ![a.id] = monitored[a.id] \ a.call.items]
      BY <1>11 DEF Resume, Created, Subscribed, Unsubscribed, Deleted
    <2>8. callbacks' \in SUBSET Subs /\ monitored' \in [Subs -> SUBSET Items]
      <3>1. callbacks' \in SUBSET Subs
        BY <1>0, <2>1, <2>6
      <3>2. monitored[a.id] \in SUBSET Items /\ monitored[a.id] \ a.call.items \in SUBSET Items
        BY <1>0, <2>1
      <3>3. monitored' \in [Subs -> SUBSET Items]
        BY <1>0, <2>7, <3>2
      <3> QED
        BY <3>1, <3>3
    <2> QED
      BY <1>0, <1>1, <2>2, <2>4, <2>5, <2>8 DEF DTypeOK
  <1>12. CASE UNCHANGED dVars
    BY <1>0, <1>2, <1>12 DEF dVars
  <1> QED
    BY <1>3, <1>4, <1>6, <1>7, <1>8, <1>9, <1>10, <1>11, <1>12, ServerTurns, Zenon DEF DNext, Serve

\* The initial state is well typed.
LEMMA DTypeInit == DInit => DTypeOK
  <1> SUFFICES ASSUME DInit PROVE DTypeOK
    OBVIOUS
  <1>1. TypeOK
    BY TypeInit DEF DInit
  <1> QED
    BY <1>1, DeliveryAssumption DEF DInit, DTypeOK

\* Every message has the form its receiver expects, and every table of the
\* client its shape.
THEOREM DTypeCorrect == DSpec => []DTypeOK
  BY DTypeInit, DTypeStep, PTL DEF DSpec

\* The server of the composition is the server of Publishing: whatever the
\* client does, what is proved of Publishing holds of the server it talks to.
THEOREM ServerIsPublishing == DSpec => Spec
  <1>1. DInit => Init
    BY DEF DInit
  <1>2. DTypeOK /\ [DNext]_dVars => [Next]_vars
    BY ServerStep
  <1> QED
    BY <1>1, <1>2, DTypeCorrect, PTL DEF DSpec, Spec

-----------------------------------------------------------------------------
(* One open publish request.                                               *)

\* Counting the messages of the publish task in a queue.
PublishIndexes(q) == {i \in 1 .. Len(q) : q[i].op = "publish"}

One(x) == IF x.op = "publish" THEN 1 ELSE 0

\* The publish messages of a queue, and their number.
LEMMA CountedType ==
    ASSUME NEW S, NEW q \in Seq(S)
    PROVE  /\ IsFiniteSet(PublishIndexes(q)) /\ PublishCount(q) = Cardinality(PublishIndexes(q))
           /\ PublishCount(q) \in Nat
           /\ PublishCount(q) = 0 <=> PublishIndexes(q) = {}
  <1>1. Len(q) \in Nat /\ DOMAIN q = 1 .. Len(q)
    BY LenProperties
  <1>2. IsFiniteSet(1 .. Len(q))
    BY <1>1, FS_Interval
  <1>3. IsFiniteSet(PublishIndexes(q))
    <2>1. PublishIndexes(q) \in SUBSET (1 .. Len(q))
      BY DEF PublishIndexes
    <2> QED
      BY <1>2, <2>1, FS_Subset
  <1>4. PublishCount(q) = Cardinality(PublishIndexes(q))
    BY <1>1 DEF PublishCount, PublishIndexes
  <1>5. PublishCount(q) \in Nat
    BY <1>3, <1>4, FS_CardinalityType
  <1>6. PublishCount(q) = 0 <=> PublishIndexes(q) = {}
    BY <1>3, <1>4, FS_EmptySet
  <1> QED
    BY <1>3, <1>4, <1>5, <1>6

\* Their number after a message was added.
LEMMA CountAppend ==
    ASSUME NEW S, NEW q \in Seq(S), NEW x \in S
    PROVE  PublishCount(Append(q, x)) = PublishCount(q) + One(x)
  <1> DEFINE t == Append(q, x)
             n == Len(q)
             P == PublishIndexes(q)
  <1>1. /\ t \in Seq(S) /\ n \in Nat /\ Len(t) = n + 1 /\ t[n + 1] = x
        /\ \A i \in 1 .. n : t[i] = q[i]
    BY AppendProperties, LenProperties
  <1>2. /\ IsFiniteSet(P) /\ PublishCount(q) = Cardinality(P) /\ Cardinality(P) \in Nat
        /\ PublishCount(t) = Cardinality(PublishIndexes(t))
    BY <1>1, CountedType
  <1> HIDE DEF t, n
  <1>3. /\ \A i \in 1 .. n : i \in 1 .. n + 1 /\ i # n + 1
        /\ \A i \in 1 .. n + 1 : i \in 1 .. n \/ i = n + 1
        /\ n + 1 \in 1 .. n + 1
    BY <1>1
  <1>4. P = {i \in 1 .. n : q[i].op = "publish"}
    BY DEF PublishIndexes, n
  <1>5. PublishIndexes(t) = {i \in 1 .. n + 1 : t[i].op = "publish"}
    BY <1>1 DEF PublishIndexes
  <1> HIDE DEF P
  <1>6. n + 1 \notin P
    BY <1>3, <1>4
  <1>7. CASE x.op = "publish"
    <2>1. PublishIndexes(t) = P \cup {n + 1}
      BY <1>1, <1>3, <1>4, <1>5, <1>7
    <2> QED
      BY <1>2, <1>6, <1>7, <2>1, FS_AddElement DEF One, t
  <1>8. CASE x.op # "publish"
    <2>1. PublishIndexes(t) = P
      BY <1>1, <1>3, <1>4, <1>5, <1>8
    <2> QED
      BY <1>2, <1>8, <2>1 DEF One, t
  <1> QED
    BY <1>7, <1>8

\* Their number after the first message was taken.
LEMMA CountTail ==
    ASSUME NEW S, NEW q \in Seq(S), q # << >>
    PROVE  PublishCount(q) = PublishCount(Tail(q)) + One(Head(q))
  <1> DEFINE t == Tail(q)
             n == Len(q)
             P == PublishIndexes(t)
             T == {i + 1 : i \in P}
  <1>1. /\ t \in Seq(S) /\ n \in Nat /\ Len(t) = n - 1 /\ Head(q) = q[1]
        /\ \A i \in 1 .. n - 1 : t[i] = q[i + 1]
    BY HeadTailProperties, LenProperties
  <1>2. n # 0
    BY EmptySeq
  <1>3. /\ IsFiniteSet(P) /\ PublishCount(t) = Cardinality(P) /\ Cardinality(P) \in Nat
        /\ PublishCount(q) = Cardinality(PublishIndexes(q))
    BY <1>1, CountedType
  <1> HIDE DEF t, n
  <1>4. /\ P = {i \in 1 .. n - 1 : t[i].op = "publish"}
        /\ PublishIndexes(q) = {i \in 1 .. n : q[i].op = "publish"}
    BY <1>1 DEF PublishIndexes, n
  <1> HIDE DEF P
  <1>5. IsFiniteSet(T) /\ Cardinality(T) = Cardinality(P)
    <2> DEFINE f == [i \in P |-> i + 1]
    <2>1. f \in [P -> T] /\ \A t1 \in T : \E i \in P : f[i] = t1
      OBVIOUS
    <2>2. \A a, b \in P : f[a] = f[b] => a = b
      BY <1>1, <1>4
    <2>3. f \in Bijection(P, T)
      BY <2>1, <2>2, Fun_IsBij
    <2>4. ExistsBijection(P, T)
      BY <2>3, Fun_ExistsBij
    <2> QED
      BY <1>3, <2>4, FS_Bijection
  <1>6. \A i \in 1 .. n - 1 : i + 1 \in 1 .. n /\ i + 1 # 1
    BY <1>1
  <1>7. \A i \in 1 .. n : i = 1 \/ (i - 1 \in 1 .. n - 1 /\ (i - 1) + 1 = i)
    BY <1>1
  <1>8. 1 \in 1 .. n /\ 1 \notin T
    BY <1>1, <1>2, <1>4, <1>6
  <1>9. ASSUME NEW j \in T PROVE j \in PublishIndexes(q)
    BY <1>1, <1>4, <1>6
  <1>10. ASSUME NEW j \in PublishIndexes(q), j # 1 PROVE j \in T
    <2>1. j - 1 \in 1 .. n - 1 /\ (j - 1) + 1 = j
      BY <1>4, <1>7, <1>10
    <2>2. t[j - 1] = q[(j - 1) + 1]
      BY <1>1, <2>1
    <2>3. j - 1 \in P
      BY <1>4, <2>1, <2>2
    <2> QED
      BY <2>1, <2>3
  <1>11. CASE Head(q).op = "publish"
    <2>1. PublishIndexes(q) = T \cup {1}
      BY <1>1, <1>4, <1>8, <1>9, <1>10, <1>11
    <2> QED
      BY <1>3, <1>5, <1>8, <1>11, <2>1, FS_AddElement DEF One, t
  <1>12. CASE Head(q).op # "publish"
    <2>1. 1 \notin PublishIndexes(q)
      BY <1>1, <1>4, <1>12
    <2>2. PublishIndexes(q) = T
      BY <1>9, <1>10, <2>1
    <2> QED
      BY <1>3, <1>5, <1>12, <2>2 DEF One, t
  <1> QED
    BY <1>11, <1>12

\* A response on its way is the last one the server wrote, and the publish
\* task has ended only with a fault.
Latest(W, w) == W # << >> /\ w = W[Len(W)]

Newest ==
    /\ \A i \in 1 .. Len(toClient) : toClient[i].op = "publish" => Latest(wire, toClient[i].msg)
    /\ \A i \in 1 .. Len(inbox) : Latest(wire, inbox[i])

Ended == loop = "done" => \E i \in 1 .. Len(wire) : wire[i].fault

OpenInv == NoHints /\ OneOpenRequest /\ Newest /\ Ended

\* The four places of a request or response.
LEMMA Places ==
    ASSUME DTypeOK
    PROVE  /\ PublishCount(toServer) \in Nat /\ Len(reqs) \in Nat
           /\ PublishCount(toClient) \in Nat /\ Len(inbox) \in Nat /\ Len(wire) \in Nat
           /\ PublishCount(toClient) = 0 =>
                 \A i \in 1 .. Len(toClient) : toClient[i].op # "publish"
  <1>1. /\ toServer \in Seq(ServerMessage) /\ toClient \in Seq(ClientMessage)
        /\ inbox \in Seq(Response) /\ reqs \in Seq(Request) /\ wire \in Seq(Response)
    BY DEF DTypeOK, TypeOK
  <1>2. /\ PublishCount(toServer) \in Nat /\ PublishCount(toClient) \in Nat
        /\ PublishCount(toClient) = 0 => PublishIndexes(toClient) = {}
    BY <1>1, CountedType
  <1>3. Len(reqs) \in Nat /\ Len(inbox) \in Nat /\ Len(wire) \in Nat
    BY <1>1, LenProperties
  <1> QED
    BY <1>2, <1>3 DEF PublishIndexes

\* A message at the end of a queue.
LEMMA EndOfQueue ==
    ASSUME NEW S, NEW q \in Seq(S), NEW x \in S
    PROVE  /\ Len(Append(q, x)) = Len(q) + 1
           /\ \A i \in 1 .. Len(q) + 1 : \/ i \in 1 .. Len(q) /\ Append(q, x)[i] = q[i]
                                         \/ i = Len(q) + 1 /\ Append(q, x)[i] = x
  <1>1. /\ Len(Append(q, x)) = Len(q) + 1 /\ Append(q, x)[Len(q) + 1] = x
        /\ \A i \in 1 .. Len(q) : Append(q, x)[i] = q[i]
    BY AppendProperties
  <1>2. Len(q) \in Nat
    BY LenProperties
  <1>3. \A i \in 1 .. Len(q) + 1 : i \in 1 .. Len(q) \/ i = Len(q) + 1
    BY <1>2
  <1> QED
    BY <1>1, <1>3

\* The first message of a queue.
LEMMA FrontOfQueue ==
    ASSUME NEW S, NEW q \in Seq(S), q # << >>
    PROVE  /\ 1 \in 1 .. Len(q) /\ Head(q) = q[1] /\ Len(Tail(q)) = Len(q) - 1
           /\ \A i \in 1 .. Len(q) - 1 : i + 1 \in 1 .. Len(q) /\ Tail(q)[i] = q[i + 1]
  <1>1. Len(q) \in Nat /\ Len(q) # 0
    BY LenProperties, EmptySeq
  <1>2. /\ Len(Tail(q)) = Len(q) - 1 /\ \A i \in 1 .. Len(Tail(q)) : Tail(q)[i] = q[i + 1]
    BY HeadTailProperties
  <1>3. 1 \in 1 .. Len(q) /\ \A i \in 1 .. Len(q) - 1 : i + 1 \in 1 .. Len(q)
    BY <1>1
  <1> QED
    BY <1>2, <1>3

\* What the server writes: it had a request for it, and no response was on
\* its way.
LEMMA OpenServer ==
    ASSUME DTypeOK, OpenInv, UNCHANGED <<inbox, loop>>, NoHints',
           NEW t, Wrote(t), toClient' = t \/ \E a \in CallAnswer : toClient' = Append(t, a),
           NEW n \in Nat, PublishCount(toServer') + n = PublishCount(toServer),
           Len(reqs') + Len(wire') = Len(reqs) + Len(wire) + n,
           Len(reqs') \in Nat, PublishCount(toServer') \in Nat
    PROVE  OpenInv'
  <1>0. /\ toClient \in Seq(ClientMessage) /\ wire \in Seq(Response)
    BY DEF DTypeOK, TypeOK
  <1>1. /\ PublishCount(toServer) \in Nat /\ Len(reqs) \in Nat
        /\ PublishCount(toClient) \in Nat /\ Len(inbox) \in Nat /\ Len(wire) \in Nat
        /\ PublishCount(toClient) = 0 => \A i \in 1 .. Len(toClient) : toClient[i].op # "publish"
    BY Places
  <1>2. t \in Seq(ClientMessage)
    BY <1>0, WroteType
  <1>3. /\ PublishCount(toClient') = PublishCount(t)
        /\ \A i \in 1 .. Len(toClient') :
              toClient'[i].op = "publish" => i \in 1 .. Len(t) /\ toClient'[i] = t[i]
    <2>1. CASE toClient' = t
      BY <2>1
    <2>2. ASSUME NEW a \in CallAnswer, toClient' = Append(t, a)
          PROVE  /\ PublishCount(toClient') = PublishCount(t)
                 /\ \A i \in 1 .. Len(toClient') :
                       toClient'[i].op = "publish" => i \in 1 .. Len(t) /\ toClient'[i] = t[i]
      <3>1. a \in ClientMessage /\ a.op # "publish"
        BY AnswerFields DEF ClientMessage
      <3>2. /\ Len(Append(t, a)) = Len(t) + 1
            /\ \A i \in 1 .. Len(t) + 1 : \/ i \in 1 .. Len(t) /\ Append(t, a)[i] = t[i]
                                          \/ i = Len(t) + 1 /\ Append(t, a)[i] = a
        BY <1>2, <3>1, EndOfQueue
      <3>3. PublishCount(Append(t, a)) = PublishCount(t) + One(a) /\ PublishCount(t) \in Nat
        BY <1>2, <3>1, CountAppend, CountedType
      <3>4. One(a) = 0
        BY <3>1 DEF One
      <3> QED
        BY <2>2, <3>1, <3>2, <3>3, <3>4
    <2> QED
      BY <2>1, <2>2
  <1>4. /\ InTransit = PublishCount(toServer) + Len(reqs) + PublishCount(toClient) + Len(inbox)
        /\ InTransit' =
              PublishCount(toServer') + Len(reqs') + PublishCount(toClient') + Len(inbox)
    BY DEF InTransit
  <1>5. CASE UNCHANGED wire /\ t = toClient
    <2>1. InTransit' = InTransit
      <3>1. Len(reqs') = Len(reqs) + n
        BY <1>1, <1>5
      <3>2. PublishCount(toClient') = PublishCount(toClient)
        BY <1>3, <1>5
      <3> QED
        BY <1>1, <1>4, <3>1, <3>2
    <2>2. OneOpenRequest'
      BY <2>1 DEF OpenInv, OneOpenRequest
    <2>3. Newest'
      BY <1>3, <1>5 DEF OpenInv, Newest
    <2> QED
      BY <1>5, <2>2, <2>3 DEF OpenInv, Ended
  <1>6. ASSUME NEW w \in Response, wire' = Append(wire, w), t = Append(toClient, PublishAnswer(w))
        PROVE  OpenInv'
    <2>1. PublishAnswer(w) \in ClientMessage /\ PublishAnswer(w).op = "publish" /\ PublishAnswer(w).msg = w
      BY MadeMessages
    <2>2. /\ Len(t) = Len(toClient) + 1
          /\ \A i \in 1 .. Len(toClient) + 1 :
                \/ i \in 1 .. Len(toClient) /\ t[i] = toClient[i]
                \/ i = Len(toClient) + 1 /\ t[i] = PublishAnswer(w)
      BY <1>0, <1>6, <2>1, EndOfQueue
    <2>3. PublishCount(t) = PublishCount(toClient) + 1
      <3>1. One(PublishAnswer(w)) = 1
        BY <2>1 DEF One
      <3> QED
        BY <1>0, <1>6, <2>1, <3>1, CountAppend
    <2>4. /\ Len(wire') = Len(wire) + 1 /\ wire'[Len(wire) + 1] = w
          /\ \A i \in 1 .. Len(wire) : i \in 1 .. Len(wire) + 1 /\ wire'[i] = wire[i]
      BY <1>0, <1>1, <1>6, AppendProperties
    <2>5. InTransit' = InTransit
      <3>1. Len(reqs') + 1 = Len(reqs) + n
        BY <1>1, <2>4
      <3>2. PublishCount(toClient') = PublishCount(toClient) + 1
        BY <1>3, <2>3
      <3>3. PublishCount(toServer) + Len(reqs) = PublishCount(toServer') + Len(reqs') + 1
        BY <1>1, <3>1, SMTT(60)
      <3> QED
        BY <1>1, <1>4, <3>2, <3>3
    <2>6. OneOpenRequest'
      BY <2>5 DEF OpenInv, OneOpenRequest
    <2>7. Len(reqs) + PublishCount(toServer) >= 1
      BY <1>1, <2>4
    <2>8. InTransit <= 1
      BY DEF OpenInv, OneOpenRequest
    <2>9. PublishCount(toClient) = 0 /\ Len(inbox) = 0
      BY <1>1, <2>7, <2>8 DEF InTransit
    <2>10. Latest(wire', w)
      <3>1. wire' # << >>
        BY <1>0, <1>6
      <3> QED
        BY <2>4, <3>1 DEF Latest
    <2>11. ASSUME NEW i \in 1 .. Len(toClient'), toClient'[i].op = "publish"
           PROVE  Latest(wire', toClient'[i].msg)
      <3>1. i \in 1 .. Len(toClient) + 1 /\ toClient'[i] = t[i]
        BY <1>3, <2>2, <2>11
      <3>2. t[i] = PublishAnswer(w)
        BY <1>1, <2>2, <2>9, <2>11, <3>1
      <3> QED
        BY <2>1, <2>10, <3>1, <3>2
    <2>12. 1 .. Len(inbox') = {}
      BY <2>9
    <2>13. Newest'
      BY <2>11, <2>12 DEF Newest
    <2>14. Ended'
      BY <2>4 DEF OpenInv, Ended
    <2> QED
      BY <2>6, <2>13, <2>14 DEF OpenInv
  <1> QED
    BY <1>5, <1>6 DEF Wrote

\* The numbers of a step of the client.
LEMMA OpenClient ==
    ASSUME DTypeOK, DTypeOK', OpenInv, UNCHANGED vars, Newest', Ended',
           InTransit' = IF loop' = "waiting" THEN 1 ELSE 0
    PROVE  OpenInv'
  <1>1. UNCHANGED <<reqs, wire>>
    BY DEF vars
  <1>2. NoHints'
    BY <1>1 DEF OpenInv, NoHints
  <1> QED
    BY <1>2 DEF OpenInv, OneOpenRequest

\* Every step keeps the one open request where it is or hands it on.
LEMMA OpenStep ==
    ASSUME DTypeOK, OpenInv, [DNext]_dVars
    PROVE  OpenInv'
  <1>0. /\ toServer \in Seq(ServerMessage) /\ toClient \in Seq(ClientMessage)
        /\ inbox \in Seq(Response) /\ reqs \in Seq(Request) /\ wire \in Seq(Response)
    BY DEF DTypeOK, TypeOK
  <1>1. DTypeOK'
    BY DTypeStep
  <1>2. /\ PublishCount(toServer) \in Nat /\ Len(reqs) \in Nat
        /\ PublishCount(toClient) \in Nat /\ Len(inbox) \in Nat /\ Len(wire) \in Nat
    BY Places
  <1>3. PublishCount(toServer') \in Nat /\ Len(reqs') \in Nat
    <2>1. toServer' \in Seq(ServerMessage) /\ reqs' \in Seq(Request)
      BY <1>1 DEF DTypeOK, TypeOK
    <2> QED
      BY <2>1, CountedType, LenProperties
  <1>4. NoHints /\ OneOpenRequest /\ Newest /\ Ended
    BY DEF OpenInv
  <1>5. InTransit = PublishCount(toServer) + Len(reqs) + PublishCount(toClient) + Len(inbox)
    BY DEF InTransit
  <1>6. CASE ServerTurn
    <2>1. UNCHANGED <<inbox, loop>>
      BY <1>6 DEF ServerTurn, clientVars
    <2>2. NoHints' /\ Len(reqs') + Len(wire') = Len(reqs) + Len(wire)
      BY <1>4, <1>6 DEF ServerTurn, Answered
    <2>3. Len(reqs') + Len(wire') = Len(reqs) + Len(wire) + 0
      BY <1>2, <2>2
    <2>4. PublishCount(toServer') + 0 = PublishCount(toServer)
      <3>1. CASE UNCHANGED toServer
        BY <1>2, <3>1
      <3>2. CASE toServer # << >> /\ Head(toServer) \in Call /\ toServer' = Tail(toServer)
        <4>1. Head(toServer).op # "publish"
          BY <3>2, CallFields
        <4>2. One(Head(toServer)) = 0
          BY <4>1 DEF One
        <4>3. PublishCount(toServer) = PublishCount(Tail(toServer)) + One(Head(toServer))
          BY <1>0, <3>2, CountTail
        <4> QED
          BY <1>2, <1>3, <3>2, <4>2, <4>3
      <3> QED
        BY <1>6, <3>1, <3>2 DEF ServerTurn
    <2>5. CASE Wrote(toClient')
      BY <1>3, <2>1, <2>2, <2>3, <2>4, <2>5, OpenServer
    <2>6. ASSUME NEW t, NEW a \in CallAnswer, Wrote(t), toClient' = Append(t, a)
          PROVE  OpenInv'
      BY <1>3, <2>1, <2>2, <2>3, <2>4, <2>6, OpenServer
    <2> QED
      BY <1>6, <2>5, <2>6 DEF ServerTurn
  <1>7. CASE ServePublish
    <2>1. /\ Takes("publish") /\ toClient' = toClient \o Written
          /\ \E acks : PublishRequest(acks, "none")
          /\ UNCHANGED clientVars
      BY <1>7, Zenon DEF ServePublish
    <2>2. UNCHANGED <<inbox, loop>>
      BY <2>1 DEF clientVars
    <2>3. NoHints' /\ Len(reqs') + Len(wire') = Len(reqs) + Len(wire) + 1
      BY <1>4, <2>1, RequestAnswered DEF DTypeOK
    <2>4. PublishCount(toServer') + 1 = PublishCount(toServer)
      <3>1. toServer # << >> /\ Head(toServer).op = "publish" /\ toServer' = Tail(toServer)
        BY <2>1, TakesFacts
      <3>2. One(Head(toServer)) = 1
        BY <3>1 DEF One
      <3>3. PublishCount(toServer) = PublishCount(Tail(toServer)) + One(Head(toServer))
        BY <1>0, <3>1, CountTail
      <3> QED
        BY <3>1, <3>2, <3>3
    <2>5. Wrote(toClient')
      BY <1>0, <2>1, ServerStep, WrittenFacts DEF DTypeOK
    <2> QED
      BY <1>3, <2>2, <2>3, <2>4, <2>5, OpenServer
  <1>8. ASSUME UNCHANGED <<vars, toClient, inbox, loop>>,
               PublishCount(toServer') = PublishCount(toServer)
        PROVE  OpenInv'
    <2>1. UNCHANGED <<reqs, wire>>
      BY <1>8 DEF vars
    <2>2. InTransit' = InTransit
      BY <1>8, <2>1 DEF InTransit
    <2>3. Newest' /\ Ended'
      BY <1>4, <1>8, <2>1 DEF Newest, Ended
    <2> QED
      BY <1>1, <1>4, <1>8, <2>2, <2>3, OpenClient DEF OneOpenRequest
  <1>9. ASSUME NEW c \in Call, Sends(c) PROVE OpenInv'
    <2>1. toServer' = Append(toServer, c) /\ UNCHANGED <<vars, toClient, inbox, loop>>
      BY <1>9, Zenon DEF Sends
    <2>2. c \in ServerMessage /\ c.op # "publish"
      BY CallFields DEF ServerMessage
    <2>3. One(c) = 0
      BY <2>2 DEF One
    <2>4. PublishCount(Append(toServer, c)) = PublishCount(toServer) + One(c)
      BY <1>0, <2>2, CountAppend
    <2>5. PublishCount(toServer') = PublishCount(toServer)
      BY <1>2, <2>1, <2>3, <2>4
    <2> QED
      BY <1>8, <2>1, <2>5
  <1>10. CASE Create
    BY <1>9, <1>10 DEF Create, Call, CreateCall
  <1>11. ASSUME NEW s \in Subs, Delete(s) PROVE OpenInv'
    <2>1. DeleteCall(s) \in Call
      BY DEF Call, DeleteCall
    <2> QED
      BY <1>9, <1>11, <2>1 DEF Delete
  <1>12. ASSUME NEW s \in Subs, NEW m \in Items, Subscribe(s, m) \/ Unsubscribe(s, m)
         PROVE  OpenInv'
    BY <1>9, <1>12, MadeCalls DEF Subscribe, Unsubscribe
  <1>13. CASE Receive
    <2> DEFINE a == Head(toClient)
    <2>1. toClient # << >> /\ toClient' = Tail(toClient) /\ UNCHANGED <<vars, toServer, loop>>
      BY <1>13, Zenon DEF Receive
    <2>2. \/ a.op = "publish" /\ inbox' = Append(inbox, a.msg)
          \/ a.op # "publish" /\ UNCHANGED inbox
      BY <1>13, Zenon DEF Receive
    <2>3. /\ 1 \in 1 .. Len(toClient) /\ a = toClient[1] /\ Len(toClient') = Len(toClient) - 1
          /\ \A i \in 1 .. Len(toClient) - 1 :
                i + 1 \in 1 .. Len(toClient) /\ toClient'[i] = toClient[i + 1]
      BY <1>0, <2>1, FrontOfQueue
    <2>4. a \in ClientMessage
      BY <1>0, <2>1, HeadTailProperties
    <2>5. PublishCount(toClient) = PublishCount(toClient') + One(a)
      BY <1>0, <2>1, CountTail
    <2>6. PublishCount(toClient') \in Nat
      <3>1. toClient' \in Seq(ClientMessage)
        BY <1>1 DEF DTypeOK
      <3> QED
        BY <3>1, CountedType
    <2> HIDE DEF a
    <2>7. UNCHANGED <<reqs, wire>>
      BY <2>1 DEF vars
    <2>8. InTransit' = PublishCount(toServer) + Len(reqs) + PublishCount(toClient') + Len(inbox')
      BY <2>1, <2>7 DEF InTransit
    <2>9. \A i \in 1 .. Len(toClient') : toClient'[i].op = "publish" => Latest(wire', toClient'[i].msg)
      BY <1>4, <2>3, <2>7 DEF Newest
    <2>10. CASE a.op # "publish" /\ UNCHANGED inbox
      <3>1. One(a) = 0
        BY <2>10 DEF One
      <3>2. InTransit' = InTransit
        BY <1>2, <1>5, <2>5, <2>6, <2>8, <2>10, <3>1
      <3>3. Newest' /\ Ended'
        BY <1>4, <2>1, <2>7, <2>9, <2>10 DEF Newest, Ended
      <3> QED
        BY <1>1, <1>4, <2>1, <3>2, <3>3, OpenClient DEF OneOpenRequest
    <2>11. CASE a.op = "publish" /\ inbox' = Append(inbox, a.msg)
      <3>1. One(a) = 1 /\ a.msg \in Response
        BY <2>4, <2>11, ClientMessageFields DEF One
      <3>2. /\ Len(inbox') = Len(inbox) + 1
            /\ \A i \in 1 .. Len(inbox) + 1 : \/ i \in 1 .. Len(inbox) /\ inbox'[i] = inbox[i]
                                              \/ i = Len(inbox) + 1 /\ inbox'[i] = a.msg
        BY <1>0, <2>11, <3>1, EndOfQueue
      <3>3. InTransit' = InTransit
        BY <1>2, <1>5, <2>5, <2>6, <2>8, <3>1, <3>2
      <3>4. Latest(wire, a.msg)
        BY <1>4, <2>3, <2>11 DEF Newest
      <3>5. \A i \in 1 .. Len(inbox') : Latest(wire', inbox'[i])
        BY <1>4, <2>7, <3>2, <3>4 DEF Newest
      <3>6. Newest' /\ Ended'
        BY <1>4, <2>1, <2>7, <2>9, <3>5 DEF Newest, Ended
      <3> QED
        BY <1>1, <1>4, <2>1, <3>3, <3>6, OpenClient DEF OneOpenRequest
    <2> QED
      BY <2>2, <2>10, <2>11
  <1>14. CASE PublishLoop
    <2> DEFINE w == Head(inbox)
    <2>1. inbox # << >> /\ inbox' = Tail(inbox) /\ UNCHANGED <<vars, toClient>>
      BY <1>14, Zenon DEF PublishLoop
    <2>2. \/ toServer' = Append(toServer, Publish(AckOf(w))) /\ UNCHANGED loop
          \/ w.fault /\ loop' = "done" /\ UNCHANGED toServer
      BY <1>14, Zenon DEF PublishLoop
    <2>3. /\ 1 \in 1 .. Len(inbox) /\ w = inbox[1] /\ Len(inbox') = Len(inbox) - 1
          /\ \A i \in 1 .. Len(inbox) - 1 : i + 1 \in 1 .. Len(inbox) /\ inbox'[i] = inbox[i + 1]
      BY <1>0, <2>1, FrontOfQueue
    <2>4. w \in Response
      BY <1>0, <2>1, HeadTailProperties
    <2> HIDE DEF w
    <2>5. UNCHANGED <<reqs, wire>>
      BY <2>1 DEF vars
    <2>6. Latest(wire, w)
      BY <1>4, <2>3 DEF Newest
    <2>7. Newest'
      BY <1>4, <2>1, <2>3, <2>5 DEF Newest
    <2>8. InTransit = 1 /\ loop = "waiting"
      <3>1. Len(inbox) >= 1
        BY <1>2, <2>3
      <3>2. InTransit >= 1
        BY <1>2, <1>5, <3>1
      <3> QED
        BY <1>4, <3>2 DEF OneOpenRequest
    <2>9. InTransit' = PublishCount(toServer') + Len(reqs) + PublishCount(toClient) + Len(inbox')
      BY <2>1, <2>5 DEF InTransit
    <2>10. CASE toServer' = Append(toServer, Publish(AckOf(w))) /\ UNCHANGED loop
      <3> DEFINE p == Publish(AckOf(w))
      <3>1. p \in ServerMessage /\ p.op = "publish"
        BY <2>4, AckOfType, MadePublish
      <3>2. One(p) = 1
        BY <3>1 DEF One
      <3>3. PublishCount(toServer') = PublishCount(toServer) + One(p)
        BY <1>0, <2>10, <3>1, CountAppend
      <3>4. InTransit' = InTransit
        BY <1>2, <1>5, <2>3, <2>9, <3>2, <3>3
      <3>5. Ended'
        BY <1>4, <2>5, <2>10 DEF Ended
      <3> QED
        BY <1>1, <1>4, <2>1, <2>7, <2>10, <3>4, <3>5, OpenClient DEF OneOpenRequest
    <2>11. CASE w.fault /\ loop' = "done" /\ UNCHANGED toServer
      <3>1. InTransit' = 0
        BY <1>2, <1>5, <2>3, <2>8, <2>9, <2>11
      <3>2. Len(wire) \in 1 .. Len(wire)
        <4>1. Len(wire) # 0
          BY <1>0, <2>6, EmptySeq DEF Latest
        <4> QED
          BY <1>2, <4>1
      <3>3. Ended'
        BY <2>5, <2>6, <2>11, <3>2 DEF Ended, Latest
      <3> QED
        BY <1>1, <2>1, <2>7, <2>11, <3>1, <3>3, OpenClient
    <2> QED
      BY <2>2, <2>10, <2>11
  <1>15. ASSUME NEW a \in answers, Resume(a) PROVE OpenInv'
    <2>1. UNCHANGED <<vars, toClient, inbox>>
      BY <1>15, Zenon DEF Resume, Created, Subscribed, Unsubscribed, Deleted, Resumes
    <2>2. StartsLoop \/ UNCHANGED <<toServer, loop>>
      BY <1>15, Zenon DEF Resume, Created, Subscribed, Unsubscribed, Deleted
    <2>3. \/ UNCHANGED <<toServer, loop>>
          \/ /\ loop \in {"none", "done"} /\ loop' = "waiting"
             /\ toServer' = Append(toServer, Publish({}))
      BY <2>2, Zenon DEF StartsLoop
    <2>4. CASE UNCHANGED <<toServer, loop>>
      BY <1>8, <2>1, <2>4
    <2>5. CASE /\ loop \in {"none", "done"} /\ loop' = "waiting"
               /\ toServer' = Append(toServer, Publish({}))
      <3> DEFINE p == Publish({})
      <3>1. p \in ServerMessage /\ p.op = "publish"
        BY MadePublish
      <3>2. One(p) = 1
        BY <3>1 DEF One
      <3>3. PublishCount(toServer') = PublishCount(toServer) + One(p)
        BY <1>0, <2>5, <3>1, CountAppend
      <3>4. UNCHANGED <<reqs, wire>>
        BY <2>1 DEF vars
      <3>5. InTransit' = PublishCount(toServer') + Len(reqs) + PublishCount(toClient) + Len(inbox)
        BY <2>1, <3>4 DEF InTransit
      <3>6. InTransit = 0
        BY <1>4, <2>5 DEF OneOpenRequest
      <3>7. InTransit' = 1
        BY <1>2, <1>5, <3>2, <3>3, <3>5, <3>6
      <3>8. Newest' /\ Ended'
        BY <1>4, <2>1, <2>5, <3>4 DEF Newest, Ended
      <3> QED
        BY <1>1, <2>1, <2>5, <3>7, <3>8, OpenClient
    <2> QED
      BY <2>3, <2>4, <2>5
  <1>16. CASE UNCHANGED dVars
    BY <1>8, <1>16 DEF dVars, clientVars
  <1> QED
    BY <1>6, <1>7, <1>10, <1>11, <1>12, <1>13, <1>14, <1>15, <1>16, ServerTurns, Zenon
       DEF DNext, Serve

\* The initial state has no open request.
LEMMA OpenInit == DInit => OpenInv
  <1> SUFFICES ASSUME DInit PROVE OpenInv
    OBVIOUS
  <1>1. /\ toServer = << >> /\ toClient = << >> /\ inbox = << >> /\ loop = "none"
        /\ reqs = << >> /\ wire = << >>
    BY DEF DInit, Init
  <1>2. PublishCount(<< >>) = 0
    <2>1. << >> \in Seq(Call) /\ PublishIndexes(<< >>) = {}
      BY DEF PublishIndexes
    <2> QED
      BY <2>1, CountedType
  <1>3. InTransit = 0
    BY <1>1, <1>2 DEF InTransit
  <1> QED
    BY <1>1, <1>3 DEF OpenInv, OneOpenRequest, NoHints, Newest, Ended

\* UaClient has one publish request open while its publish task runs and
\* none otherwise: it is on its way to the server, stored there, answered
\* and on its way back, or waits for the task; it is never lost.
THEOREM OneRequestIsOpen == DSpec => []OneOpenRequest
  <1>1. DTypeOK /\ OpenInv /\ [DNext]_dVars => (DTypeOK /\ OpenInv)'
    BY DTypeStep, OpenStep
  <1>2. OpenInv => OneOpenRequest
    BY DEF OpenInv
  <1> QED
    BY <1>1, <1>2, DTypeInit, OpenInit, PTL DEF DSpec

-----------------------------------------------------------------------------
(* What the steps of the server do to the items and the life of a          *)
(* subscription.                                                           *)

\* From x to y subscription s gains no items, counts no cycle, and leaves the
\* service only if its lifetime is over and it has a loop.
Ages(s, x, y) ==
    /\ y.items \subseteq x.items
    /\ y.registered = x.registered \/ (~y.registered /\ Expired(x) /\ s \notin Immediate)
    /\ y.cycles <= x.cycles

\* None of these helpers of the server adds a cycle or an item.
LEMMA AgesFields ==
    ASSUME NEW s, NEW x \in Subscription, NEW m, NEW n
    PROVE  /\ Ages(s, x, x) /\ Ages(s, x, LoopTest(x)) /\ Ages(s, x, CountIdle(x))
           /\ Ages(s, x, ExpireRecursively(x)) /\ Ages(s, x, Popped(x))
           /\ Ages(s, x, WithoutItem(x, m)) /\ Ages(s, x, Acknowledged(x, n))
           /\ Ages(s, x, Halted(x))
           /\ Expired(x) /\ s \notin Immediate => Ages(s, x, Expire(x))
  <1>0. x.cycles \in Nat
    BY FieldTypes
  <1> USE DEF Ages, Subscription
  <1>1. Ages(s, x, x)
    BY <1>0
  <1>2. Ages(s, x, LoopTest(x))
    BY <1>0 DEF LoopTest
  <1>3. Ages(s, x, CountIdle(x))
    BY <1>0 DEF CountIdle
  <1>4. Ages(s, x, ExpireRecursively(x))
    BY <1>0 DEF ExpireRecursively
  <1>5. Ages(s, x, Popped(x))
    BY <1>0 DEF Popped
  <1>6. Ages(s, x, WithoutItem(x, m))
    BY <1>0 DEF WithoutItem
  <1>7. Ages(s, x, Acknowledged(x, n))
    BY <1>0 DEF Acknowledged
  <1>8. Ages(s, x, Halted(x))
    BY <1>0 DEF Halted
  <1>9. ASSUME Expired(x), s \notin Immediate
        PROVE  Ages(s, x, Expire(x))
    <2>1. Expire(x).items = {} /\ Expire(x).cycles = x.cycles /\ ~Expire(x).registered
      BY DEF Expire
    <2> QED
      BY <2>1, <1>0, <1>9
  <1> QED
    BY <1>1, <1>2, <1>3, <1>4, <1>5, <1>6, <1>7, <1>8, <1>9

\* Ages is transitive.
LEMMA AgesTransitive ==
    ASSUME NEW s, NEW x \in Subscription, NEW y \in Subscription, NEW z \in Subscription,
           Ages(s, x, y), Ages(s, y, z)
    PROVE  Ages(s, x, z)
  <1>1. x.cycles \in Nat /\ y.cycles \in Nat /\ z.cycles \in Nat
    BY FieldTypes
  <1>2. Expired(y) => Expired(x)
    BY <1>1, PublishingAssumption DEF Ages, Expired
  <1> QED
    BY <1>1, <1>2 DEF Ages

\* publish_results() of subscription t in state x.
LEMMA ResultsFate ==
    ASSUME TypeOK, NEW t \in Subs, NEW x \in Subscription, PublishResults(t, x)
    PROVE  /\ \A s \in Subs \ {t} : sub'[s] = sub[s]
           /\ sub'[t].items \subseteq x.items
           /\ \/ sub'[t].registered = x.registered
              \/ ~sub'[t].registered /\ Expired(x) /\ t \notin Immediate
           /\ ~Expired(x) => sub'[t].cycles <= x.cycles + 1
           /\ NoHints /\ reqs # << >> => Ages(t, x, sub'[t])
  <1>0. sub \in [Subs -> Subscription] /\ x.cycles \in Nat /\ reqs \in Seq(Request)
    BY FieldTypes DEF TypeOK
  <1>1. ASSUME NEW y \in Subscription, Ages(t, x, y), sub' = [sub EXCEPT ![t] = LoopTest(y)]
        PROVE  /\ \A s \in Subs \ {t} : sub'[s] = sub[s]
               /\ Ages(t, x, sub'[t]) /\ sub'[t].cycles <= x.cycles + 1
    <2>1. /\ \A s \in Subs \ {t} : sub'[s] = sub[s]
          /\ sub'[t] = LoopTest(y)
      BY <1>0, <1>1
    <2>2. Ages(t, y, LoopTest(y)) /\ LoopTest(y) \in Subscription
      BY AgesFields, LoopTestType
    <2>3. Ages(t, x, LoopTest(y))
      BY <1>1, <2>2, AgesTransitive
    <2>4. LoopTest(y).cycles \in Nat
      BY <2>2, FieldTypes
    <2>5. LoopTest(y).cycles <= x.cycles
      BY <2>3 DEF Ages
    <2> QED
      BY <1>0, <2>1, <2>3, <2>4, <2>5
  <1>2. CASE /\ Expired(x)
             /\ sub' = [sub EXCEPT ![t] =
                    LoopTest(IF t \in Immediate THEN ExpireRecursively(x) ELSE Expire(x))]
    <2> DEFINE y == IF t \in Immediate THEN ExpireRecursively(x) ELSE Expire(x)
    <2>1. y \in Subscription /\ Ages(t, x, y)
      BY <1>2, ExpireType, AgesFields
    <2> QED
      BY <1>1, <1>2, <2>1 DEF Ages
  <1>3. CASE sub' = [sub EXCEPT ![t] = LoopTest(CountIdle(x))]
    <2>1. CountIdle(x) \in Subscription /\ Ages(t, x, CountIdle(x))
      BY CountType, AgesFields
    <2> QED
      BY <1>1, <1>3, <2>1 DEF Ages
  <1>4. CASE sub' = [sub EXCEPT ![t] = LoopTest(Popped(x))]
    <2>1. Popped(x) \in Subscription /\ Ages(t, x, Popped(x))
      BY PoppedType, AgesFields
    <2> QED
      BY <1>1, <1>4, <2>1 DEF Ages
  <1>5. CASE /\ UsableIndexes = {}
             /\ sub' = [sub EXCEPT ![t] = LoopTest(CountCycle(x))]
    <2>1. /\ CountCycle(x) \in Subscription /\ CountCycle(x).cycles = x.cycles + 1
          /\ CountCycle(x).registered = x.registered
      BY CountType, LifeFields
    <2>2. CountCycle(x).items = x.items
      BY DEF CountCycle, Subscription
    <2>3. /\ LoopTest(CountCycle(x)).cycles = x.cycles + 1
          /\ LoopTest(CountCycle(x)).registered = x.registered
      BY <2>1, SameLifeFields DEF SameLife
    <2>4. LoopTest(CountCycle(x)).items \subseteq x.items
      BY <2>1, <2>2, AgesFields DEF Ages
    <2>5. /\ \A s \in Subs \ {t} : sub'[s] = sub[s]
          /\ sub'[t] = LoopTest(CountCycle(x))
      BY <1>0, <1>5
    <2>6. ~(NoHints /\ reqs # << >>)
      <3>1. reqs # << >> => 1 \in 1 .. Len(reqs)
        BY <1>0, FrontOfQueue
      <3>2. NoHints /\ 1 \in 1 .. Len(reqs) => 1 \in UsableIndexes
        BY DEF NoHints, UsableIndexes
      <3> QED
        BY <1>5, <3>1, <3>2
    <2> QED
      BY <1>0, <2>3, <2>4, <2>5, <2>6
  <1> QED
    BY <1>2, <1>3, <1>4, <1>5, Zenon DEF PublishResults

\* A notification for item m of subscription t in state x.
LEMMA EnqueueFate ==
    ASSUME TypeOK, NEW t \in Subs, NEW x \in Subscription, NEW m \in Items, Enqueue(t, x, m)
    PROVE  /\ \A s \in Subs \ {t} : sub'[s] = sub[s] /\ produced'[s] = produced[s]
           /\ sub'[t].items \subseteq x.items /\ sub'[t].registered = x.registered
           /\ t \notin Immediate => sub'[t].cycles = x.cycles
  <1> DEFINE y == Queued(x, m, produced[t][m] + 1)
  <1>0. sub \in [Subs -> Subscription] /\ produced \in [Subs -> [Items -> Nat]]
    BY DEF TypeOK
  <1>1. produced[t][m] + 1 \in Nat
    BY <1>0
  <1>2. y \in Subscription
    BY <1>1, QueuedType
  <1>3. y.items = x.items /\ y.registered = x.registered /\ y.cycles = x.cycles
    BY DEF Queued, Subscription
  <1>4. produced' = [produced EXCEPT ![t][m] = produced[t][m] + 1]
    BY DEF Enqueue
  <1>5. \A s \in Subs \ {t} : produced'[s] = produced[s]
    BY <1>0, <1>4
  <1>6. \/ t \in Immediate /\ PublishResults(t, y)
        \/ sub' = [sub EXCEPT ![t] = y]
    BY Zenon DEF Enqueue
  <1> HIDE DEF y
  <1>7. CASE t \in Immediate /\ PublishResults(t, y)
    BY <1>2, <1>3, <1>5, <1>7, ResultsFate
  <1>8. CASE sub' = [sub EXCEPT ![t] = y]
    BY <1>0, <1>3, <1>5, <1>8
  <1> QED
    BY <1>6, <1>7, <1>8

\* A new publish request.
LEMMA RequestFate ==
    ASSUME TypeOK, NEW acks, NEW hint \in Hints, PublishRequest(acks, hint), NEW s \in Subs
    PROVE  Ages(s, sub[s], sub'[s]) /\ UNCHANGED produced
  <1> DEFINE after == AfterAcks(acks)
  <1>0. sub \in [Subs -> Subscription] /\ waiting \in Seq(Subs)
    BY DEF TypeOK
  <1>1. after \in [Subs -> Subscription] /\ Ages(s, sub[s], after[s])
    <2>1. after \in [Subs -> Subscription]
      BY AfterAcksType
    <2>2. after[s] = sub[s] \/ \E n : after[s] = Acknowledged(sub[s], n)
      BY Zenon DEF AfterAcks
    <2> QED
      BY <1>0, <2>1, <2>2, AgesFields
  <1>2. ASSUME NEW n \in 0 .. Len(waiting), \A i \in Stops(after) : i > n
        PROVE  /\ AfterPassing(after, n)[s] \in Subscription
               /\ Ages(s, sub[s], AfterPassing(after, n)[s])
    <2>1. AfterPassing(after, n)[s] \in Subscription
      BY <1>1, AfterPassingType
    <2>2. AfterPassing(after, n)[s] = IF s \in {waiting[i] : i \in 1 .. n}
                                      THEN PassedBy(after[s]) ELSE after[s]
      BY DEF AfterPassing
    <2>3. CASE s \in {waiting[i] : i \in 1 .. n}
      <3>1. PICK i \in 1 .. n : s = waiting[i]
        BY <2>3
      <3>2. i \in 1 .. Len(waiting) /\ ~(i > n)
        BY <1>0, LenProperties
      <3>3. i \notin Stops(after)
        BY <1>2, <3>2
      <3>4. ~Raises(s, after[s])
        BY <3>1, <3>2, <3>3 DEF Stops
      <3>5. Ages(s, after[s], PassedBy(after[s]))
        BY <1>1, <3>4, AgesFields DEF PassedBy, Raises
      <3> QED
        BY <1>0, <1>1, <2>1, <2>2, <2>3, <3>5, AgesTransitive
    <2>4. CASE s \notin {waiting[i] : i \in 1 .. n}
      BY <1>1, <2>1, <2>2, <2>4
    <2> QED
      BY <2>1, <2>3, <2>4
  <1>3. UNCHANGED produced
    BY DEF PublishRequest
  <1>4. \/ Stops(after) = {} /\ sub' = AfterPassing(after, Len(waiting))
        \/ \E k \in Stops(after) :
              /\ \A i \in Stops(after) : k <= i
              /\ LET t == waiting[k]
                 IN \E y \in {Popped(after[t]), ExpireRecursively(after[t])} :
                       sub' = [AfterPassing(after, k - 1) EXCEPT ![t] = y]
    BY DEF PublishRequest
  <1> HIDE DEF after
  <1>5. CASE Stops(after) = {} /\ sub' = AfterPassing(after, Len(waiting))
    <2>1. Len(waiting) \in 0 .. Len(waiting)
      BY <1>0, LenProperties
    <2> QED
      BY <1>2, <1>3, <1>5, <2>1
  <1>6. ASSUME NEW k \in Stops(after), \A i \in Stops(after) : k <= i,
               NEW y \in {Popped(after[waiting[k]]), ExpireRecursively(after[waiting[k]])},
               sub' = [AfterPassing(after, k - 1) EXCEPT ![waiting[k]] = y]
        PROVE  Ages(s, sub[s], sub'[s])
    <2>1. k \in 1 .. Len(waiting) /\ Len(waiting) \in Nat
      BY <1>0, LenProperties DEF Stops
    <2>2. k - 1 \in 0 .. Len(waiting) /\ \A i \in Stops(after) : i > k - 1
      <3>1. \A i \in Stops(after) : i \in 1 .. Len(waiting)
        BY DEF Stops
      <3> QED
        BY <1>6, <2>1, <3>1
    <2>3. Ages(s, sub[s], AfterPassing(after, k - 1)[s])
      BY <1>2, <2>2
    <2>4. AfterPassing(after, k - 1) \in [Subs -> Subscription]
      BY <1>1, AfterPassingType
    <2>5. CASE s = waiting[k]
      <3>1. sub'[s] = y
        BY <1>6, <2>4, <2>5
      <3>2. y \in Subscription /\ Ages(s, after[s], y)
        BY <1>1, <2>5, AgesFields, PoppedType, ExpireType
      <3> QED
        BY <1>0, <1>1, <3>1, <3>2, AgesTransitive
    <2>6. CASE s # waiting[k]
      <3>1. sub'[s] = AfterPassing(after, k - 1)[s]
        BY <1>6, <2>4, <2>6
      <3> QED
        BY <2>3, <3>1
    <2> QED
      BY <2>5, <2>6
  <1> QED
    BY <1>3, <1>4, <1>5, <1>6

-----------------------------------------------------------------------------
(* Which subscriptions the client may speak of.                            *)

\* Answer a tells the client of the new subscription s.
Announces(a, s) == a.op = "create" /\ a.id = s

\* Where in queue q such an answer is.
Announced(q, s) == {i \in 1 .. Len(q) : Announces(q[i], s)}

Resolved(A, s) == {a \in A : Announces(a, s)}

Announcing(s) == Announced(toClient, s) # {} \/ Resolved(answers, s) # {}

\* The client has not been told of s yet.
Fresh(s) == s > subCounter \/ Announcing(s)

\* A subscription is announced once, with an id that was given.
Once(s) ==
    /\ Announcing(s) => s <= subCounter
    /\ \A i, j \in Announced(toClient, s) : i = j
    /\ \A a, b \in Resolved(answers, s) : a = b
    /\ Announced(toClient, s) = {} \/ Resolved(answers, s) = {}

\* Before, the client knows nothing of it and has sent nothing about it;
\* afterwards the publish task was started.
Unknown(s) ==
    /\ s \notin callbacks /\ monitored[s] = {}
    /\ \A i \in 1 .. Len(toServer) : toServer[i] \in Call => toServer[i].sub # s

FreshInv ==
    \A s \in Subs : /\ Once(s)
                    /\ Fresh(s) => Unknown(s)
                    /\ Fresh(s) \/ loop # "none"

\* The answers that announce a subscription, after one was added.
LEMMA AnnouncedAppend ==
    ASSUME NEW q \in Seq(ClientMessage), NEW x \in ClientMessage, NEW s
    PROVE  Announced(Append(q, x), s) =
               Announced(q, s) \cup (IF Announces(x, s) THEN {Len(q) + 1} ELSE {})
  <1>1. /\ Len(Append(q, x)) = Len(q) + 1 /\ Len(q) \in Nat
        /\ \A i \in 1 .. Len(q) + 1 : \/ i \in 1 .. Len(q) /\ Append(q, x)[i] = q[i]
                                      \/ i = Len(q) + 1 /\ Append(q, x)[i] = x
    BY EndOfQueue, LenProperties
  <1>2. \A i \in 1 .. Len(q) : i \in 1 .. Len(q) + 1 /\ i # Len(q) + 1
    BY <1>1
  <1>3. Len(q) + 1 \in 1 .. Len(q) + 1
    BY <1>1
  <1> QED
    BY <1>1, <1>2, <1>3 DEF Announced

\* The answers that announce a subscription, after the first was taken.
LEMMA AnnouncedTail ==
    ASSUME NEW q \in Seq(ClientMessage), q # << >>, NEW s
    PROVE  /\ \A i \in Announced(Tail(q), s) : i + 1 \in Announced(q, s)
           /\ \A i \in Announced(Tail(q), s) : i \in Nat /\ i + 1 # 1
           /\ Announces(Head(q), s) <=> 1 \in Announced(q, s)
  <1>1. /\ 1 \in 1 .. Len(q) /\ Head(q) = q[1] /\ Len(Tail(q)) = Len(q) - 1
        /\ \A i \in 1 .. Len(q) - 1 : i + 1 \in 1 .. Len(q) /\ Tail(q)[i] = q[i + 1]
    BY FrontOfQueue
  <1> QED
    BY <1>1 DEF Announced

\* The server writes responses to publish requests, which announce nothing.
LEMMA WroteAnnounces ==
    ASSUME toClient \in Seq(ClientMessage), NEW t, Wrote(t), NEW s
    PROVE  t \in Seq(ClientMessage) /\ Announced(t, s) = Announced(toClient, s)
  <1>1. t \in Seq(ClientMessage)
    BY WroteType
  <1>2. ASSUME NEW w \in Response, t = Append(toClient, PublishAnswer(w))
        PROVE  Announced(t, s) = Announced(toClient, s)
    <2>1. PublishAnswer(w) \in ClientMessage /\ PublishAnswer(w).op = "publish"
      BY MadeMessages
    <2>2. ~Announces(PublishAnswer(w), s)
      BY <2>1 DEF Announces
    <2> QED
      BY <1>2, <2>1, <2>2, AnnouncedAppend
  <1> QED
    BY <1>1, <1>2 DEF Wrote

\* Requests the server takes leave the others where they are.
LEMMA TakenUnknown ==
    ASSUME DTypeOK, NEW s, Unknown(s), UNCHANGED <<callbacks, monitored>>,
           toServer' = toServer \/ (toServer # << >> /\ toServer' = Tail(toServer))
    PROVE  Unknown(s)'
  <1>1. CASE toServer' = toServer
    BY <1>1 DEF Unknown
  <1>2. CASE toServer # << >> /\ toServer' = Tail(toServer)
    <2>1. /\ Len(toServer') = Len(toServer) - 1
          /\ \A i \in 1 .. Len(toServer) - 1 :
                i + 1 \in 1 .. Len(toServer) /\ toServer'[i] = toServer[i + 1]
      BY <1>2, FrontOfQueue DEF DTypeOK
    <2> QED
      BY <2>1 DEF Unknown
  <1> QED
    BY <1>1, <1>2

\* A step of the server.
LEMMA FreshServer ==
    ASSUME DTypeOK, FreshInv, UNCHANGED <<answers, callbacks, monitored, loop>>,
           toServer' = toServer \/ (toServer # << >> /\ toServer' = Tail(toServer)),
           \/ Wrote(toClient') /\ UNCHANGED subCounter
           \/ \E t : \E a \in CallAnswer : Wrote(t) /\ toClient' = Append(t, a) /\ Counts(a)
    PROVE  FreshInv'
  <1> SUFFICES ASSUME NEW s \in Subs
               PROVE  (Once(s) /\ (Fresh(s) => Unknown(s)) /\ (Fresh(s) \/ loop # "none"))'
    BY DEF FreshInv
  <1>0. toClient \in Seq(ClientMessage) /\ subCounter \in Nat /\ s \in Nat
    BY DEF DTypeOK, TypeOK, Subs
  <1>1. Once(s) /\ (Fresh(s) => Unknown(s)) /\ (Fresh(s) \/ loop # "none")
    BY DEF FreshInv
  <1>2. ASSUME Announced(toClient, s)' = Announced(toClient, s), UNCHANGED subCounter
        PROVE  (Once(s) /\ (Fresh(s) => Unknown(s)) /\ (Fresh(s) \/ loop # "none"))'
    <2>1. Announcing(s)' <=> Announcing(s)
      BY <1>2 DEF Announcing
    <2>2. Once(s)'
      BY <1>1, <1>2, <2>1 DEF Once
    <2>3. Fresh(s)' <=> Fresh(s)
      BY <1>2, <2>1 DEF Fresh
    <2> QED
      BY <1>1, <2>2, <2>3, TakenUnknown
  <1>3. CASE Wrote(toClient') /\ UNCHANGED subCounter
    <2>1. Announced(toClient', s) = Announced(toClient, s)
      BY <1>0, <1>3, WroteAnnounces
    <2> QED
      BY <1>2, <1>3, <2>1
  <1>4. ASSUME NEW t, NEW a \in CallAnswer, Wrote(t), toClient' = Append(t, a), Counts(a)
        PROVE  (Once(s) /\ (Fresh(s) => Unknown(s)) /\ (Fresh(s) \/ loop # "none"))'
    <2>1. t \in Seq(ClientMessage) /\ Announced(t, s) = Announced(toClient, s)
      BY <1>0, <1>4, WroteAnnounces
    <2>2. a \in ClientMessage
      BY DEF ClientMessage
    <2>3. Announced(toClient', s) =
              Announced(toClient, s) \cup (IF Announces(a, s) THEN {Len(t) + 1} ELSE {})
      BY <1>4, <2>1, <2>2, AnnouncedAppend
    <2>4. CASE a.op # "create"
      BY <1>2, <1>4, <2>3, <2>4 DEF Counts, Announces
    <2>5. CASE a.op = "create" /\ s = subCounter + 1
      <3>1. subCounter' = subCounter + 1 /\ Announces(a, s)
        BY <1>4, <2>5 DEF Counts, Announces
      <3>2. ~(s <= subCounter) /\ Fresh(s)
        BY <1>0, <2>5 DEF Fresh
      <3>3. Announced(toClient, s) = {} /\ Resolved(answers, s) = {}
        BY <1>1, <3>2 DEF Once, Announcing
      <3>4. Announced(toClient', s) = {Len(t) + 1} /\ Resolved(answers', s) = {}
        BY <2>3, <3>1, <3>3
      <3>5. Announcing(s)' /\ s <= subCounter'
        <4>1. s <= subCounter'
          BY <1>0, <2>5, <3>1
        <4>2. Announcing(s)'
          BY <3>4 DEF Announcing
        <4> QED
          BY <4>1, <4>2
      <3> QED
        BY <1>1, <3>2, <3>4, <3>5, TakenUnknown DEF Once, Fresh
    <2>6. CASE a.op = "create" /\ s # subCounter + 1
      <3>1. subCounter' = subCounter + 1 /\ ~Announces(a, s)
        BY <1>4, <2>6 DEF Counts, Announces
      <3>2. Announced(toClient', s) = Announced(toClient, s)
        BY <2>3, <3>1
      <3>3. Announcing(s)' <=> Announcing(s)
        BY <3>2 DEF Announcing
      <3>4. s > subCounter' <=> s > subCounter
        BY <1>0, <2>6, <3>1
      <3>5. Fresh(s)' <=> Fresh(s)
        BY <3>3, <3>4 DEF Fresh
      <3>6. Once(s)'
        BY <1>0, <1>1, <3>1, <3>2, <3>3 DEF Once
      <3> QED
        BY <1>1, <3>5, <3>6, TakenUnknown
    <2> QED
      BY <2>4, <2>5, <2>6
  <1> QED
    BY <1>3, <1>4

\* A request the client sends is about a subscription it knows.
LEMMA SentUnknown ==
    ASSUME DTypeOK, NEW s, Unknown(s), UNCHANGED callbacks,
           monitored'[s] = monitored[s],
           NEW c \in ServerMessage, c \in Call => c.sub # s,
           toServer' = toServer \/ toServer' = Append(toServer, c)
    PROVE  Unknown(s)'
  <1>1. CASE toServer' = toServer
    BY <1>1 DEF Unknown
  <1>2. CASE toServer' = Append(toServer, c)
    <2>1. /\ Len(toServer') = Len(toServer) + 1
          /\ \A i \in 1 .. Len(toServer) + 1 :
                \/ i \in 1 .. Len(toServer) /\ toServer'[i] = toServer[i]
                \/ i = Len(toServer) + 1 /\ toServer'[i] = c
      BY <1>2, EndOfQueue DEF DTypeOK
    <2> QED
      BY <2>1 DEF Unknown
  <1> QED
    BY <1>1, <1>2

\* A step of the client that concerns no announcement.
LEMMA FreshClient ==
    ASSUME DTypeOK, FreshInv, UNCHANGED <<subCounter, toClient>>, loop' # "none" \/ loop' = loop,
           \A s : Resolved(answers', s) = Resolved(answers, s),
           \A s \in Subs : Fresh(s) /\ Unknown(s) => Unknown(s)'
    PROVE  FreshInv'
  <1> SUFFICES ASSUME NEW s \in Subs
               PROVE  (Once(s) /\ (Fresh(s) => Unknown(s)) /\ (Fresh(s) \/ loop # "none"))'
    BY DEF FreshInv
  <1>1. Once(s) /\ (Fresh(s) => Unknown(s)) /\ (Fresh(s) \/ loop # "none")
    BY DEF FreshInv
  <1>2. Announcing(s)' <=> Announcing(s)
    BY DEF Announcing
  <1>3. Fresh(s)' <=> Fresh(s)
    BY <1>2 DEF Fresh
  <1>4. Once(s)'
    BY <1>1, <1>2 DEF Once
  <1> QED
    BY <1>1, <1>3, <1>4

\* A call sent for a subscription the client knows keeps FreshInv.
LEMMA FreshSends ==
    ASSUME DTypeOK, FreshInv, NEW c \in Call, Sends(c), c.sub = 0 \/ c.sub \in callbacks,
           \A s \in Subs \ {c.sub} : monitored'[s] = monitored[s]
    PROVE  FreshInv'
  <1>1. /\ toServer' = Append(toServer, c)
        /\ UNCHANGED <<vars, toClient, answers, callbacks, loop>>
    BY Zenon DEF Sends
  <1>2. UNCHANGED subCounter
    BY <1>1 DEF vars
  <1>3. ASSUME NEW s \in Subs, Unknown(s) PROVE Unknown(s)'
    <2>1. c.sub # s
      BY <1>3 DEF Unknown, Subs
    <2>2. c \in ServerMessage
      BY DEF ServerMessage
    <2> QED
      BY <1>1, <1>3, <2>1, <2>2, SentUnknown
  <1> QED
    BY <1>1, <1>2, <1>3, FreshClient

\* An answer is received.
LEMMA FreshReceive ==
    ASSUME DTypeOK, FreshInv, Receive
    PROVE  FreshInv'
  <1> DEFINE a == Head(toClient)
  <1>1. /\ toClient # << >> /\ toClient' = Tail(toClient)
        /\ UNCHANGED <<vars, toServer, callbacks, monitored, loop>>
    BY Zenon DEF Receive
  <1>2. (a.op = "publish" /\ answers' = answers) \/ answers' = answers \cup {a}
    BY Zenon DEF Receive
  <1>3. UNCHANGED subCounter
    BY <1>1 DEF vars
  <1>4. toClient \in Seq(ClientMessage)
    BY DEF DTypeOK
  <1> SUFFICES ASSUME NEW s \in Subs
               PROVE  (Once(s) /\ (Fresh(s) => Unknown(s)) /\ (Fresh(s) \/ loop # "none"))'
    BY DEF FreshInv
  <1>5. Once(s) /\ (Fresh(s) => Unknown(s)) /\ (Fresh(s) \/ loop # "none")
    BY DEF FreshInv
  <1>6. /\ \A i \in Announced(toClient', s) : i + 1 \in Announced(toClient, s)
        /\ \A i \in Announced(toClient', s) : i \in Nat /\ i + 1 # 1
        /\ Announces(a, s) <=> 1 \in Announced(toClient, s)
    BY <1>1, <1>4, AnnouncedTail
  <1>7. \A i \in 1 .. Len(toClient) - 1 : Tail(toClient)[i] = toClient[i + 1]
    BY <1>1, <1>4, FrontOfQueue
  <1> HIDE DEF a
  <1>8. Unknown(s) => Unknown(s)'
    BY <1>1 DEF Unknown
  <1>9. \A i, j \in Announced(toClient', s) : i = j
    <2> SUFFICES ASSUME NEW i \in Announced(toClient', s), NEW j \in Announced(toClient', s)
                 PROVE  i = j
      OBVIOUS
    <2>1. i + 1 = j + 1 /\ i \in Nat /\ j \in Nat
      BY <1>5, <1>6 DEF Once
    <2> QED
      BY <2>1
  <1>10. CASE Announces(a, s)
    <2>1. Announced(toClient', s) = {}
      BY <1>5, <1>6, <1>10 DEF Once
    <2>2. Resolved(answers, s) = {}
      BY <1>5, <1>6, <1>10 DEF Once
    <2>3. Resolved(answers', s) = {a}
      BY <1>2, <1>10, <2>2 DEF Resolved, Announces
    <2>4. Announcing(s) /\ Announcing(s)'
      BY <1>6, <1>10, <2>3 DEF Announcing
    <2>5. Once(s)'
      BY <1>3, <1>5, <2>1, <2>3, <2>4 DEF Once
    <2> QED
      BY <1>1, <1>5, <1>8, <2>4, <2>5 DEF Fresh
  <1>11. CASE ~Announces(a, s)
    <2>1. Resolved(answers', s) = Resolved(answers, s)
      BY <1>2, <1>11 DEF Resolved
    <2>2. Announced(toClient', s) = {} <=> Announced(toClient, s) = {}
      <3>1. ASSUME NEW i \in Announced(toClient, s) PROVE Announced(toClient', s) # {}
        <4>1. i \in 1 .. Len(toClient) /\ i # 1 /\ Len(toClient) \in Nat
          BY <1>4, <1>6, <1>11, LenProperties DEF Announced
        <4>2. i - 1 \in 1 .. Len(toClient) - 1 /\ (i - 1) + 1 = i
          BY <4>1
        <4>3. toClient'[i - 1] = toClient[i] /\ Len(toClient') = Len(toClient) - 1
          BY <1>1, <1>4, <1>7, <4>2, FrontOfQueue
        <4> QED
          BY <4>2, <4>3 DEF Announced
      <3> QED
        BY <1>6, <3>1
    <2>3. Announcing(s)' <=> Announcing(s)
      BY <2>1, <2>2 DEF Announcing
    <2>4. Once(s)'
      BY <1>3, <1>5, <1>9, <2>1, <2>2, <2>3 DEF Once
    <2> QED
      BY <1>1, <1>3, <1>5, <1>8, <2>3, <2>4 DEF Fresh
  <1> QED
    BY <1>10, <1>11

\* The task of the user goes on with an answer.
LEMMA FreshResume ==
    ASSUME DTypeOK, FreshInv, NEW a \in answers, Resume(a)
    PROVE  FreshInv'
  <1>1. UNCHANGED <<vars, toClient>> /\ answers' = answers \ {a}
    BY Zenon DEF Resume, Created, Subscribed, Unsubscribed, Deleted, Resumes
  <1>2. UNCHANGED subCounter
    BY <1>1 DEF vars
  <1>3. a \in CallAnswer /\ a.id \in Subs /\ a.call \in Call
    BY AnswerFields DEF DTypeOK
  <1>4. monitored \in [Subs -> SUBSET Items] /\ toServer \in Seq(ServerMessage)
    BY DEF DTypeOK
  <1>5. CASE Created(a)
    <2>1. /\ a.op = "create" /\ callbacks' = callbacks \cup {a.id} /\ UNCHANGED monitored
          /\ StartsLoop
      BY <1>5, Zenon DEF Created
    <2>2. /\ loop' = "waiting"
          /\ toServer' = toServer \/ toServer' = Append(toServer, Publish({}))
      BY <2>1, Zenon DEF StartsLoop
    <2> SUFFICES ASSUME NEW s \in Subs
                 PROVE  (Once(s) /\ (Fresh(s) => Unknown(s)) /\ (Fresh(s) \/ loop # "none"))'
      BY DEF FreshInv
    <2>3. Once(s) /\ (Fresh(s) => Unknown(s))
      BY DEF FreshInv
    <2>4. CASE s = a.id
      <3>1. a \in Resolved(answers, s)
        BY <2>1, <2>4 DEF Resolved, Announces
      <3>2. Announced(toClient, s) = {} /\ s <= subCounter
        BY <2>3, <3>1 DEF Once, Announcing
      <3>3. Resolved(answers', s) = {}
        BY <1>1, <2>3, <3>1 DEF Once, Resolved
      <3>4. ~Announcing(s)'
        BY <1>1, <3>2, <3>3 DEF Announcing
      <3>5. s \in Nat /\ subCounter \in Nat
        BY DEF DTypeOK, TypeOK, Subs
      <3>6. ~Fresh(s)'
        BY <1>2, <3>2, <3>4, <3>5 DEF Fresh
      <3> QED
        BY <1>1, <2>2, <3>2, <3>3, <3>4, <3>6 DEF Once
    <2>5. CASE s # a.id
      <3>1. Resolved(answers', s) = Resolved(answers, s)
        BY <1>1, <2>5 DEF Resolved, Announces
      <3>2. Announcing(s)' <=> Announcing(s)
        BY <1>1, <3>1 DEF Announcing
      <3>3. Once(s)'
        BY <1>1, <1>2, <2>3, <3>1, <3>2 DEF Once
      <3>4. Unknown(s) => Unknown(s)'
        <4>1. \A i \in 1 .. Len(toServer') : toServer'[i] \in Call =>
                 i \in 1 .. Len(toServer) /\ toServer'[i] = toServer[i]
          <5>1. CASE toServer' = toServer
            BY <5>1
          <5>2. CASE toServer' = Append(toServer, Publish({}))
            <6>1. Publish({}) \in ServerMessage /\ Publish({}).op = "publish"
              BY MadePublish
            <6>2. Publish({}) \notin Call
              BY <6>1, ServerMessageFields
            <6> QED
              BY <1>4, <5>2, <6>1, <6>2, EndOfQueue
          <5> QED
            BY <2>2, <5>1, <5>2
        <4> QED
          BY <2>1, <2>5, <4>1 DEF Unknown
      <3> QED
        BY <1>2, <2>2, <2>3, <3>2, <3>3, <3>4 DEF Fresh
    <2> QED
      BY <2>4, <2>5
  <1>6. ASSUME Subscribed(a) \/ Unsubscribed(a) \/ Deleted(a) PROVE FreshInv'
    <2>1. a.op # "create" /\ UNCHANGED <<toServer, loop>>
      BY <1>6, Zenon DEF Subscribed, Unsubscribed, Deleted
    <2>2. \A s : Resolved(answers', s) = Resolved(answers, s)
      BY <1>1, <2>1 DEF Resolved, Announces
    <2>3. callbacks' \subseteq callbacks
      BY <1>6, Zenon DEF Subscribed, Unsubscribed, Deleted
    <2>4. \A s \in Subs : monitored'[s] \subseteq monitored[s]
      <3>1. CASE Subscribed(a)
        BY <1>3, <1>4, <3>1 DEF Subscribed
      <3>2. CASE Unsubscribed(a)
        BY <1>3, <1>4, <3>2 DEF Unsubscribed
      <3>3. CASE Deleted(a)
        BY <3>3 DEF Deleted
      <3> QED
        BY <1>6, <3>1, <3>2, <3>3
    <2>5. ASSUME NEW s \in Subs, Unknown(s) PROVE Unknown(s)'
      <3>1. s \notin callbacks' /\ monitored'[s] = {}
        BY <2>3, <2>4, <2>5 DEF Unknown
      <3> QED
        BY <2>1, <2>5, <3>1 DEF Unknown
    <2> QED
      BY <1>1, <1>2, <2>1, <2>2, <2>5, FreshClient
  <1> QED
    BY <1>5, <1>6, Zenon DEF Resume

\* Every step keeps FreshInv.
LEMMA FreshStep ==
    ASSUME DTypeOK, FreshInv, [DNext]_dVars
    PROVE  FreshInv'
  <1>1. CASE ServerTurn
    <2>1. UNCHANGED <<answers, callbacks, monitored, loop>>
      BY <1>1 DEF ServerTurn, clientVars
    <2>2. /\ toServer' = toServer \/ (toServer # << >> /\ toServer' = Tail(toServer))
          /\ \/ Wrote(toClient') /\ UNCHANGED subCounter
             \/ \E t : \E a \in CallAnswer : Wrote(t) /\ toClient' = Append(t, a) /\ Counts(a)
      BY <1>1, Zenon DEF ServerTurn
    <2> QED
      BY <2>1, <2>2, FreshServer, Zenon
  <1>2. CASE ServePublish
    <2>1. [Next]_vars
      BY ServerStep
    <2>2. Wrote(toClient \o Written)
      BY <2>1, WrittenFacts DEF DTypeOK
    <2>3. /\ Takes("publish") /\ toClient' = toClient \o Written
          /\ UNCHANGED <<stopping, clientVars, timely, subCounter>>
      BY <1>2, Zenon DEF ServePublish, PublishRequest
    <2>4. toServer # << >> /\ toServer' = Tail(toServer)
      BY <2>3, TakesFacts
    <2>5. UNCHANGED <<answers, callbacks, monitored, loop>>
      BY <2>3 DEF clientVars
    <2> QED
      BY <2>2, <2>3, <2>4, <2>5, FreshServer, Zenon
  <1>3. CASE Create
    <2>1. Sends(CreateCall) /\ UNCHANGED monitored
      BY <1>3, Zenon DEF Create
    <2>2. CreateCall \in Call /\ CreateCall.sub = 0
      BY DEF Call, CreateCall
    <2> QED
      BY <2>1, <2>2, FreshSends
  <1>4. ASSUME NEW s \in Subs, NEW m \in Items, Subscribe(s, m) PROVE FreshInv'
    <2>1. Sends(SubscribeCall(s, m)) /\ s \in callbacks
      BY <1>4, Zenon DEF Subscribe
    <2>2. monitored' = [monitored EXCEPT ![s] = monitored[s] \cup {m}]
      BY <1>4 DEF Subscribe
    <2>3. SubscribeCall(s, m) \in Call /\ SubscribeCall(s, m).sub = s
      BY MadeCalls DEF SubscribeCall
    <2>4. \A t \in Subs \ {s} : monitored'[t] = monitored[t]
      BY <2>2 DEF DTypeOK
    <2> QED
      BY <2>1, <2>3, <2>4, FreshSends
  <1>5. ASSUME NEW s \in Subs, NEW m \in Items, Unsubscribe(s, m) PROVE FreshInv'
    <2>1. Sends(UnsubscribeCall(s, m)) /\ s \in callbacks /\ UNCHANGED monitored
      BY <1>5, Zenon DEF Unsubscribe
    <2>2. UnsubscribeCall(s, m) \in Call /\ UnsubscribeCall(s, m).sub = s
      BY MadeCalls DEF UnsubscribeCall
    <2> QED
      BY <2>1, <2>2, FreshSends
  <1>6. ASSUME NEW s \in Subs, Delete(s) PROVE FreshInv'
    <2>1. Sends(DeleteCall(s)) /\ s \in callbacks /\ UNCHANGED monitored
      BY <1>6, Zenon DEF Delete
    <2>2. DeleteCall(s) \in Call /\ DeleteCall(s).sub = s
      BY DEF DeleteCall, Call
    <2> QED
      BY <2>1, <2>2, FreshSends
  <1>7. CASE PublishLoop
    <2> DEFINE w == Head(inbox)
    <2>1. inbox # << >> /\ UNCHANGED <<vars, toClient, answers, callbacks, monitored>>
      BY <1>7, Zenon DEF PublishLoop
    <2>2. \/ toServer' = Append(toServer, Publish(AckOf(w))) /\ UNCHANGED loop
          \/ loop' = "done" /\ UNCHANGED toServer
      BY <1>7, Zenon DEF PublishLoop
    <2>3. w \in Response
      BY <2>1, HeadTailProperties DEF DTypeOK
    <2> HIDE DEF w
    <2>4. Publish(AckOf(w)) \in ServerMessage /\ Publish(AckOf(w)) \notin Call
      BY <2>3, AckOfType, MadePublish, ServerMessageFields
    <2>5. \A s \in Subs : Unknown(s) => Unknown(s)'
      BY <2>1, <2>2, <2>4, SentUnknown
    <2>6. UNCHANGED subCounter
      BY <2>1 DEF vars
    <2> QED
      BY <2>1, <2>2, <2>5, <2>6, FreshClient
  <1>8. CASE UNCHANGED dVars
    <2>1. UNCHANGED <<vars, toServer, toClient, answers, callbacks, monitored, loop>>
      BY <1>8 DEF dVars, clientVars
    <2>2. UNCHANGED subCounter
      BY <2>1 DEF vars
    <2>3. \A s \in Subs : Unknown(s) => Unknown(s)'
      BY <2>1 DEF Unknown
    <2> QED
      BY <2>1, <2>2, <2>3, FreshClient
  <1> QED
    BY <1>1, <1>2, <1>3, <1>4, <1>5, <1>6, <1>7, <1>8, ServerTurns, FreshReceive, FreshResume,
       Zenon DEF DNext, Serve

\* The initial state has FreshInv.
LEMMA FreshInit == DInit => FreshInv
  <1> SUFFICES ASSUME DInit, NEW s \in Subs
               PROVE  Once(s) /\ (Fresh(s) => Unknown(s)) /\ (Fresh(s) \/ loop # "none")
    BY DEF FreshInv
  <1>1. /\ toServer = << >> /\ toClient = << >> /\ answers = {} /\ callbacks = {}
        /\ monitored = [t \in Subs |-> {}] /\ subCounter = 0
    BY DEF DInit, Init
  <1>2. Announced(toClient, s) = {} /\ Resolved(answers, s) = {} /\ ~Announcing(s)
    BY <1>1 DEF Announced, Resolved, Announcing
  <1>3. s > subCounter
    BY <1>1 DEF Subs
  <1> QED
    BY <1>1, <1>2, <1>3 DEF Once, Fresh, Unknown

-----------------------------------------------------------------------------
(* A subscription the client uses does not expire.                         *)

NoFault == \A i \in 1 .. Len(wire) : ~wire[i].fault

\* A subscription is in _publish_results_subs once.
Distinct == \A i, j \in 1 .. Len(waiting) : waiting[i] = waiting[j] => i = j

\* A subscription that starves waits for its turn.  Each one before it takes
\* a round trip, and RoundTrip cycles at most.
Served(s) ==
    s \notin Immediate /\ sub[s].registered /\ sub[s].cycles > 0 =>
        \E p \in 1 .. Len(waiting) :
            /\ waiting[p] = s
            /\ sub[s].cycles + RoundTrip * p <= RoundTrip * MaxSubs + since[s]

Punctual == \A s \in Subs : since[s] <= RoundTrip /\ Served(s)

\* s is in the service from its creation until the server gets the call that
\* deletes it.
Alive(s) ==
    /\ Announcing(s) => sub[s].registered
    /\ s \in callbacks => sub[s].registered \/ DeleteCall(s) \in calls
    /\ \A i \in 1 .. Len(toServer) :
          toServer[i] = DeleteCall(s) /\ s \in callbacks => DeleteCall(s) \in calls

LongLived == LifetimeCount >= MaxSubs * RoundTrip

AliveInv == timely /\ NoFault /\ LongLived => Punctual /\ \A s \in Subs : Alive(s)

\* Multiplication by the length of a round trip.
LEMMA RoundTrips ==
    ASSUME NEW i \in Nat, NEW j \in Nat, i <= j
    PROVE  /\ RoundTrip * i \in Nat /\ RoundTrip * i <= RoundTrip * j
           /\ RoundTrip * (i + 1) = RoundTrip * i + RoundTrip
           /\ MaxSubs * RoundTrip = RoundTrip * MaxSubs
  <1>1. RoundTrip \in Nat /\ MaxSubs \in Nat /\ RoundTrip >= 1
    BY DeliveryAssumption, PublishingAssumption
  <1>2. PICK d \in Nat : j = i + d
    <2>1. j - i \in Nat /\ j = i + (j - i)
      OBVIOUS
    <2> QED
      BY <2>1
  <1>3. RoundTrip * i \in Nat /\ RoundTrip * d \in Nat
    BY <1>1
  <1>4. RoundTrip * j = RoundTrip * i + RoundTrip * d
    BY <1>1, <1>2
  <1>5. RoundTrip * (i + 1) = RoundTrip * i + RoundTrip
    BY <1>1
  <1>6. MaxSubs * RoundTrip = RoundTrip * MaxSubs
    BY <1>1
  <1> QED
    BY <1>3, <1>4, <1>5, <1>6

\* Who gets its turn in time does not expire.
LEMMA InTime ==
    ASSUME DTypeOK, Punctual, LongLived, NEW s \in Subs, s \notin Immediate, sub[s].registered
    PROVE  ~Expired(sub[s])
  <1>1. /\ sub[s] \in Subscription /\ since[s] \in Nat /\ LifetimeCount \in Nat
        /\ waiting \in Seq(Subs) /\ MaxSubs \in Nat /\ RoundTrip \in Nat
    BY PublishingAssumption, DeliveryAssumption DEF DTypeOK, TypeOK
  <1>2. sub[s].cycles \in Nat
    BY <1>1, FieldTypes
  <1>3. CASE sub[s].cycles = 0
    BY <1>1, <1>3 DEF Expired
  <1>4. CASE sub[s].cycles > 0
    <2>1. PICK p \in 1 .. Len(waiting) :
             sub[s].cycles + RoundTrip * p <= RoundTrip * MaxSubs + since[s]
      BY <1>4 DEF Punctual, Served
    <2>2. p \in Nat /\ 1 <= p
      BY <1>1, LenProperties
    <2>3. RoundTrip * 1 <= RoundTrip * p /\ MaxSubs * RoundTrip = RoundTrip * MaxSubs
          /\ RoundTrip * p \in Nat
      BY <2>2, RoundTrips
    <2>4. RoundTrip * 1 = RoundTrip /\ RoundTrip * MaxSubs \in Nat
      BY <1>1
    <2>5. since[s] <= RoundTrip
      BY DEF Punctual
    <2>6. RoundTrip * MaxSubs <= LifetimeCount
      BY <1>1, <2>3, <2>4 DEF LongLived
    <2>7. sub[s].cycles <= LifetimeCount
      <3>1. \A c, n, z, b, r, l \in Nat :
               c + n <= b + z /\ z <= r /\ r <= n /\ b <= l => c <= l
        OBVIOUS
      <3>2. RoundTrip <= RoundTrip * p
        BY <2>3, <2>4
      <3> QED
        BY <1>1, <1>2, <2>1, <2>3, <2>4, <2>5, <2>6, <3>1, <3>2
    <2> QED
      BY <1>1, <1>2, <2>7 DEF Expired
  <1> QED
    BY <1>2, <1>3, <1>4

\* What a step does to _publish_results_subs.
LEMMA WaitingSteps ==
    ASSUME TypeOK, [Next]_vars
    PROVE  \/ UNCHANGED waiting \/ waiting' = << >>
           \/ \E t \in Subs : waiting' = Enlist(t)
           \/ \E k \in 1 .. Len(waiting) : waiting' = SubSeq(waiting, k + 1, Len(waiting))
  <1> DEFINE Goal == \/ UNCHANGED waiting \/ waiting' = << >>
                     \/ \E t \in Subs : waiting' = Enlist(t)
                     \/ \E k \in 1 .. Len(waiting) : waiting' = SubSeq(waiting, k + 1, Len(waiting))
  <1>1. ASSUME NEW t \in Subs, NEW x, PublishResults(t, x) PROVE Goal
    BY <1>1, Zenon DEF PublishResults
  <1>2. ASSUME NEW t \in Subs, NEW x, NEW m, Enqueue(t, x, m) PROVE Goal
    <2>1. UNCHANGED waiting \/ \E y : PublishResults(t, y)
      BY <1>2, Zenon DEF Enqueue
    <2> QED
      BY <1>1, <2>1, Zenon
  <1>3. ASSUME NEW t \in Subs, NEW m, Notify(t, m) PROVE Goal
    BY <1>2, <1>3, Zenon DEF Notify
  <1>4. ASSUME NEW t \in Subs, NEW m, NEW size, CreateMonitoredItem(t, m, size) PROVE Goal
    BY <1>2, <1>4, Zenon DEF CreateMonitoredItem
  <1>5. ASSUME NEW t \in Subs, PublishCycle(t) PROVE Goal
    BY <1>1, <1>5, Zenon DEF PublishCycle
  <1>6. ASSUME NEW acks, NEW hint, PublishRequest(acks, hint) PROVE Goal
    <2>1. \A after : Stops(after) \subseteq 1 .. Len(waiting)
      BY DEF Stops
    <2>2. \/ waiting' = << >>
          \/ \E k \in Stops(AfterAcks(acks)) : waiting' = SubSeq(waiting, k + 1, Len(waiting))
      BY <1>6, Zenon DEF PublishRequest
    <2> QED
      BY <2>1, <2>2, Zenon
  <1>7. ASSUME NEW t, NEW m, NEW n, \/ ModifyMonitoredItem(t, m, n) \/ DeleteMonitoredItem(t, m)
                                    \/ Republish(t, n) \/ StopSubscription(t)
        PROVE  UNCHANGED waiting
    BY <1>7, Zenon DEF ModifyMonitoredItem, DeleteMonitoredItem, Republish, StopSubscription
  <1>8. ASSUME NEW ids, DeleteSubscriptions(ids) PROVE UNCHANGED waiting
    BY <1>8, Zenon DEF DeleteSubscriptions
  <1>9. CreateSubscription \/ RequestTimesOut => UNCHANGED waiting
    BY Zenon DEF CreateSubscription, RequestTimesOut
  <1>10. UNCHANGED vars => UNCHANGED waiting
    BY DEF vars
  <1> QED
    BY <1>3, <1>4, <1>5, <1>6, <1>7, <1>8, <1>9, <1>10, Zenon DEF Next

\* A subscription joins the list at the end, if it joins it.
LEMMA EnlistFacts ==
    ASSUME TypeOK, NEW t \in Subs
    PROVE  /\ Len(waiting) \in Nat
           /\ \/ /\ \E i \in 1 .. Len(waiting) : waiting[i] = t
                 /\ Enlist(t) = waiting
              \/ /\ \A i \in 1 .. Len(waiting) : waiting[i] # t
                 /\ Len(Enlist(t)) = Len(waiting) + 1
                 /\ Enlist(t)[Len(waiting) + 1] = t
                 /\ \A i \in 1 .. Len(waiting) : Enlist(t)[i] = waiting[i]
  <1>1. waiting \in Seq(Subs)
    BY DEF TypeOK
  <1>2. ToSet(waiting) = {waiting[i] : i \in 1 .. Len(waiting)} /\ Len(waiting) \in Nat
    BY <1>1, LenProperties DEF ToSet
  <1>3. CASE t \in ToSet(waiting)
    BY <1>2, <1>3 DEF Enlist
  <1>4. CASE t \notin ToSet(waiting)
    <2>1. Enlist(t) = Append(waiting, t)
      BY <1>4 DEF Enlist
    <2>2. \A i \in 1 .. Len(waiting) : waiting[i] # t
      BY <1>2, <1>4
    <2> QED
      BY <1>1, <1>2, <2>1, <2>2, AppendProperties
  <1> QED
    BY <1>3, <1>4

\* What is left of the list when the first k were called.
LEMMA RestFacts ==
    ASSUME TypeOK, NEW k \in 1 .. Len(waiting)
    PROVE  /\ Len(SubSeq(waiting, k + 1, Len(waiting))) = Len(waiting) - k
           /\ \A i \in 1 .. Len(waiting) - k :
                 SubSeq(waiting, k + 1, Len(waiting))[i] = waiting[i + k]
  <1>1. waiting \in Seq(Subs) /\ Len(waiting) \in Nat
    BY LenProperties DEF TypeOK
  <1>2. k + 1 \in 1 .. Len(waiting) + 1 /\ Len(waiting) \in k .. Len(waiting)
    BY <1>1
  <1> QED
    BY <1>1, <1>2

\* The list never gets a subscription twice.
LEMMA DistinctStep ==
    ASSUME TypeOK, Distinct, [Next]_vars
    PROVE  Distinct'
  <1>1. CASE UNCHANGED waiting
    BY <1>1 DEF Distinct
  <1>2. CASE waiting' = << >>
    BY <1>2 DEF Distinct
  <1>3. ASSUME NEW t \in Subs, waiting' = Enlist(t) PROVE Distinct'
    <2>1. CASE Enlist(t) = waiting
      BY <1>3, <2>1 DEF Distinct
    <2>2. CASE /\ \A i \in 1 .. Len(waiting) : waiting[i] # t
               /\ Len(Enlist(t)) = Len(waiting) + 1
               /\ Enlist(t)[Len(waiting) + 1] = t
               /\ \A i \in 1 .. Len(waiting) : Enlist(t)[i] = waiting[i]
      <3>1. Len(waiting) \in Nat
        BY EnlistFacts
      <3>2. \A i \in 1 .. Len(waiting') : i \in 1 .. Len(waiting) \/ i = Len(waiting) + 1
        BY <1>3, <2>2, <3>1
      <3> QED
        BY <1>3, <2>2, <3>2 DEF Distinct
    <2> QED
      BY <2>1, <2>2, EnlistFacts
  <1>4. ASSUME NEW k \in 1 .. Len(waiting), waiting' = SubSeq(waiting, k + 1, Len(waiting))
        PROVE  Distinct'
    <2>1. waiting \in Seq(Subs) /\ Len(waiting) \in Nat
      BY LenProperties DEF TypeOK
    <2>2. /\ Len(waiting') = Len(waiting) - k
          /\ \A i \in 1 .. Len(waiting') : waiting'[i] = waiting[i + k] /\ i + k \in 1 .. Len(waiting)
      BY <1>4, <2>1, RestFacts
    <2>3. ASSUME NEW i \in 1 .. Len(waiting'), NEW j \in 1 .. Len(waiting'), waiting'[i] = waiting'[j]
          PROVE  i = j
      <3>1. i + k = j + k
        BY <2>2, <2>3 DEF Distinct
      <3> QED
        BY <2>1, <2>2, <3>1
    <2> QED
      BY <2>3 DEF Distinct
  <1> QED
    BY <1>1, <1>2, <1>3, <1>4, WaitingSteps

\* So it is never longer than there are subscriptions, and there is room in
\* it for one that is not in it.
LEMMA RoomToWait ==
    ASSUME TypeOK, Distinct, NEW t \in Subs
    PROVE  /\ Len(waiting) <= MaxSubs
           /\ (\A i \in 1 .. Len(waiting) : waiting[i] # t) => Len(waiting) + 1 <= MaxSubs
  <1>1. waiting \in Seq(Subs) /\ MaxSubs \in Nat
    BY PublishingAssumption DEF TypeOK
  <1>2. Len(waiting) \in Nat /\ \A i \in 1 .. Len(waiting) : waiting[i] \in Subs
    BY <1>1, LenProperties, ElementOfSeq
  <1> DEFINE S == 1 .. Len(waiting)
             f == [i \in S |-> waiting[i]]
  <1>3. IsFiniteSet(S) /\ Cardinality(S) = Len(waiting)
    BY <1>2, FS_Interval
  <1>4. IsFiniteSet(Subs) /\ Cardinality(Subs) = MaxSubs
    BY <1>1, FS_Interval DEF Subs
  <1>5. IsFiniteSet(Subs \ {t}) /\ Cardinality(Subs \ {t}) = MaxSubs - 1
    BY <1>4, FS_RemoveElement
  <1>6. f \in Injection(S, Subs)
    <2>1. f \in [S -> Subs]
      BY <1>2
    <2>2. \A i, j \in S : f[i] = f[j] => i = j
      BY DEF Distinct
    <2> HIDE DEF f, S
    <2> QED
      BY <2>1, <2>2, Fun_IsInj
  <1>7. Len(waiting) <= MaxSubs
    <2> HIDE DEF f, S
    <2>1. Cardinality(S) <= Cardinality(Subs)
      BY <1>4, <1>6, FS_Injection
    <2> QED
      BY <1>3, <1>4, <2>1
  <1>8. ASSUME \A i \in 1 .. Len(waiting) : waiting[i] # t PROVE Len(waiting) + 1 <= MaxSubs
    <2>1. f \in [S -> Subs \ {t}]
      BY <1>2, <1>8
    <2>2. \A i, j \in S : f[i] = f[j] => i = j
      BY DEF Distinct
    <2> HIDE DEF f, S
    <2>3. f \in Injection(S, Subs \ {t})
      BY <2>1, <2>2, Fun_IsInj
    <2>4. Cardinality(S) <= Cardinality(Subs \ {t})
      BY <1>5, <2>3, FS_Injection
    <2> QED
      BY <1>1, <1>2, <1>3, <1>5, <2>4
  <1> QED
    BY <1>7, <1>8

\* Where there is no fault after a step, there was none before.
LEMMA FaultsStay ==
    ASSUME TypeOK, [Next]_vars, NoFault'
    PROVE  NoFault
  <1>1. wire \in Seq(Response)
    BY DEF TypeOK
  <1>2. ASSUME NEW w \in Response, wire' = Append(wire, w) PROVE NoFault
    <2>1. /\ Len(wire') = Len(wire) + 1 /\ Len(wire) \in Nat
          /\ \A i \in 1 .. Len(wire) : wire'[i] = wire[i]
      BY <1>1, <1>2, AppendProperties, LenProperties
    <2>2. \A i \in 1 .. Len(wire) : i \in 1 .. Len(wire')
      BY <2>1
    <2> QED
      BY <2>1, <2>2 DEF NoFault
  <1> QED
    BY <1>2, WireGrows DEF NoFault

\* Only the answer to a creation announces a subscription.
LEMMA AnnouncingServer ==
    ASSUME DTypeOK, UNCHANGED answers, NEW s,
           \/ Wrote(toClient') /\ UNCHANGED subCounter
           \/ \E t : \E a \in CallAnswer : Wrote(t) /\ toClient' = Append(t, a) /\ Counts(a),
           Announcing(s)'
    PROVE  Announcing(s) \/ (s = subCounter' /\ subCounter' = subCounter + 1)
  <1>0. toClient \in Seq(ClientMessage)
    BY DEF DTypeOK
  <1>1. CASE Wrote(toClient') /\ UNCHANGED subCounter
    <2>1. Announced(toClient', s) = Announced(toClient, s)
      BY <1>0, <1>1, WroteAnnounces
    <2> QED
      BY <2>1 DEF Announcing
  <1>2. ASSUME NEW t, NEW a \in CallAnswer, Wrote(t), toClient' = Append(t, a), Counts(a)
        PROVE  Announcing(s) \/ (s = subCounter' /\ subCounter' = subCounter + 1)
    <2>1. t \in Seq(ClientMessage) /\ Announced(t, s) = Announced(toClient, s)
      BY <1>0, <1>2, WroteAnnounces
    <2>2. a \in ClientMessage
      BY DEF ClientMessage
    <2>3. Announced(toClient', s) =
              Announced(toClient, s) \cup (IF Announces(a, s) THEN {Len(t) + 1} ELSE {})
      BY <1>2, <2>1, <2>2, AnnouncedAppend
    <2>4. CASE Announces(a, s)
      BY <1>2, <2>4 DEF Counts, Announces
    <2>5. CASE ~Announces(a, s)
      BY <2>3, <2>5 DEF Announcing
    <2> QED
      BY <2>4, <2>5
  <1> QED
    BY <1>1, <1>2

\* A step of the server: if s leaves the service, its client has asked for it.
LEMMA AliveServer ==
    ASSUME DTypeOK, FreshInv, NEW s \in Subs, Alive(s), UNCHANGED <<answers, callbacks, calls>>,
           toServer' = toServer \/ (toServer # << >> /\ toServer' = Tail(toServer)),
           \/ sub'[s].registered = sub[s].registered
           \/ toServer # << >> /\ Head(toServer) = DeleteCall(s),
           Announcing(s)' => Announcing(s)
    PROVE  Alive(s)'
  <1>0. toServer \in Seq(ServerMessage)
    BY DEF DTypeOK
  <1>1. toServer # << >> =>
            /\ 1 \in 1 .. Len(toServer) /\ Head(toServer) = toServer[1]
            /\ Len(Tail(toServer)) = Len(toServer) - 1
            /\ \A i \in 1 .. Len(toServer) - 1 :
                  i + 1 \in 1 .. Len(toServer) /\ Tail(toServer)[i] = toServer[i + 1]
    BY <1>0, FrontOfQueue
  <1>2. \A i \in 1 .. Len(toServer') : \E j \in 1 .. Len(toServer) : toServer'[i] = toServer[j]
    BY <1>1
  <1>3. /\ Announcing(s)' => sub'[s].registered
        /\ s \in callbacks => sub'[s].registered \/ DeleteCall(s) \in calls
    <2>1. CASE sub'[s].registered = sub[s].registered
      BY <2>1 DEF Alive
    <2>2. CASE toServer # << >> /\ Head(toServer) = DeleteCall(s)
      <3>1. toServer[1] = DeleteCall(s) /\ 1 \in 1 .. Len(toServer)
        BY <1>1, <2>2
      <3>2. DeleteCall(s) \in Call /\ DeleteCall(s).sub = s
        BY DEF DeleteCall, Call
      <3>3. ~Announcing(s)
        BY <3>1, <3>2 DEF FreshInv, Fresh, Unknown
      <3>4. s \in callbacks => DeleteCall(s) \in calls
        BY <3>1 DEF Alive
      <3> QED
        BY <3>3, <3>4
    <2> QED
      BY <2>1, <2>2
  <1>4. \A i \in 1 .. Len(toServer') :
           toServer'[i] = DeleteCall(s) /\ s \in callbacks => DeleteCall(s) \in calls
    BY <1>2 DEF Alive
  <1> QED
    BY <1>3, <1>4 DEF Alive

\* The lives of the subscriptions in a step of the server that neither
\* creates nor deletes one.
Lives == \A s \in Subs : sub'[s].registered = sub[s].registered

\* In a quiet moment the one request is stored, and no cycle starves.
LEMMA QuietCycle ==
    ASSUME DTypeOK, OpenInv, FreshInv, Unused, NoFault, NEW t \in Subs, Cycle(t), Quiet
    PROVE  ~Starves(t)
  <1>1. TypeOK /\ sub[t] \in Subscription
    BY DEF DTypeOK, TypeOK
  <1>2. PublishResults(t, sub[t]) /\ sub[t].loop = "active"
    BY Zenon DEF Cycle, PublishCycle
  <1>3. sub'[t] \in Subscription
    <2>1. [Next]_vars
      <3>1. [DNext]_dVars
        BY Zenon DEF DNext
      <3> QED
        BY <3>1, ServerStep
    <2>2. TypeOK'
      BY <1>1, <2>1, TypeStep
    <2> QED
      BY <2>2 DEF TypeOK
  <1>4. sub[t].cycles \in Nat /\ sub'[t].cycles \in Nat
    BY <1>1, <1>3, FieldTypes
  <1>5. toServer = << >> /\ toClient = << >> /\ inbox = << >> /\ answers = {}
    BY DEF Quiet
  <1>6. ~Announcing(t)
    BY <1>5 DEF Announcing, Announced, Resolved
  <1>7. ~(t > subCounter)
    BY <1>2 DEF Unused, Unborn
  <1>8. loop = "waiting"
    <2>1. loop # "none"
      BY <1>6, <1>7 DEF FreshInv, Fresh
    <2>2. loop # "done"
      BY DEF OpenInv, Ended, NoFault
    <2> QED
      BY <2>1, <2>2 DEF DTypeOK
  <1>9. PublishCount(<< >>) = 0
    <2>1. << >> \in Seq(Call) /\ PublishIndexes(<< >>) = {}
      BY DEF PublishIndexes
    <2> QED
      BY <2>1, CountedType
  <1>10. Len(inbox) = 0 /\ Len(reqs) \in Nat
    BY <1>5, Places
  <1>11. Len(reqs) = 1
    <2>1. InTransit = 1
      BY <1>8 DEF OpenInv, OneOpenRequest
    <2>2. InTransit = 0 + Len(reqs) + 0 + 0
      BY <1>5, <1>9, <1>10 DEF InTransit
    <2> QED
      BY <1>10, <2>1, <2>2
  <1>12. Ages(t, sub[t], sub'[t])
    <2>1. NoHints /\ reqs # << >>
      BY <1>11 DEF OpenInv
    <2> QED
      BY <1>1, <1>2, <2>1, ResultsFate
  <1> QED
    BY <1>4, <1>12 DEF Ages, Starves

\* A cycle of t in the terms of its own counters.
LEMMA CycleFate ==
    ASSUME DTypeOK, LifeInv, Punctual, LongLived, NEW t \in Subs, t \notin Immediate, Cycle(t),
           sub[t].registered, sub'[t].cycles > 0
    PROVE  sub'[t].cycles = sub[t].cycles + 1 /\ waiting' = Enlist(t)
  <1>1. /\ TypeOK /\ sub \in [Subs -> Subscription] /\ sub[t] \in Subscription
        /\ SubInv(sub[t]) /\ sub[t].cycles \in Nat
    BY FieldTypes DEF DTypeOK, TypeOK, LifeInv
  <1>2. PublishResults(t, sub[t])
    BY Zenon DEF Cycle, PublishCycle
  <1>3. ~Expired(sub[t])
    BY InTime
  <1>4. CASE ~HasResults(sub[t]) /\ sub' = [sub EXCEPT ![t] = LoopTest(CountIdle(sub[t]))]
    <2>1. sub'[t] = LoopTest(CountIdle(sub[t]))
      BY <1>1, <1>4
    <2>2. CountIdle(sub[t]) \in Subscription /\ CountIdle(sub[t]).cycles = sub[t].cycles
      BY <1>1, CountType, LifeFields
    <2>3. LoopTest(CountIdle(sub[t])).cycles = sub[t].cycles
      BY <2>2, SameLifeFields DEF SameLife
    <2>4. ~(sub[t].cycles > 0)
      BY <1>1, <1>4 DEF SubInv
    <2> QED
      BY <2>1, <2>3, <2>4
  <1>5. CASE waiting' = Enlist(t) /\ sub' = [sub EXCEPT ![t] = LoopTest(CountCycle(sub[t]))]
    <2>1. sub'[t] = LoopTest(CountCycle(sub[t]))
      BY <1>1, <1>5
    <2>2. CountCycle(sub[t]) \in Subscription /\ CountCycle(sub[t]).cycles = sub[t].cycles + 1
      BY <1>1, CountType, LifeFields
    <2>3. LoopTest(CountCycle(sub[t])).cycles = sub[t].cycles + 1
      BY <2>2, SameLifeFields DEF SameLife
    <2> QED
      BY <1>5, <2>1, <2>3
  <1>6. CASE sub' = [sub EXCEPT ![t] = LoopTest(Popped(sub[t]))]
    <2>1. sub'[t] = LoopTest(Popped(sub[t]))
      BY <1>1, <1>6
    <2>2. Popped(sub[t]) \in Subscription /\ Popped(sub[t]).cycles = 0
      BY <1>1, PoppedType, LifeFields
    <2>3. LoopTest(Popped(sub[t])).cycles = 0
      BY <2>2, SameLifeFields DEF SameLife
    <2> QED
      BY <2>1, <2>3
  <1> QED
    BY <1>2, <1>3, <1>4, <1>5, <1>6, Zenon DEF PublishResults

\* A publish cycle of a timely server expires no living subscription.
LEMMA CycleLives ==
    ASSUME DTypeOK, LongLived, Punctual, NEW t \in Subs, Cycle(t)
    PROVE  Lives
  <1>1. TypeOK /\ sub[t] \in Subscription /\ sub'[t].registered \in BOOLEAN
    <2>1. [DNext]_dVars
      BY Zenon DEF DNext
    <2>2. TypeOK /\ TypeOK'
      BY <2>1, ServerStep, TypeStep DEF DTypeOK
    <2>3. sub[t] \in Subscription /\ sub'[t] \in Subscription
      BY <2>2 DEF TypeOK
    <2> QED
      BY <2>2, <2>3, FieldTypes
  <1>2. PublishResults(t, sub[t])
    BY Zenon DEF Cycle, PublishCycle
  <1>3. /\ \A s \in Subs \ {t} : sub'[s] = sub[s]
        /\ \/ sub'[t].registered = sub[t].registered
           \/ ~sub'[t].registered /\ Expired(sub[t]) /\ t \notin Immediate
    BY <1>1, <1>2, ResultsFate
  <1>4. sub[t].registered \in BOOLEAN
    BY <1>1, FieldTypes
  <1>5. sub'[t].registered = sub[t].registered
    <2>1. CASE sub[t].registered
      BY <1>3, <2>1, InTime
    <2>2. CASE ~sub[t].registered
      BY <1>1, <1>3, <1>4, <2>2
    <2> QED
      BY <2>1, <2>2
  <1> QED
    BY <1>3, <1>5 DEF Lives

\* In a step that counts no cycle everybody keeps its place in time.
LEMMA PunctualSame ==
    ASSUME DTypeOK, Punctual, UNCHANGED since,
           waiting' = waiting \/ \E t \in Subs : waiting' = Enlist(t),
           \A s \in Subs : s \notin Immediate /\ sub'[s].registered /\ sub'[s].cycles > 0
               => sub[s].registered /\ sub'[s].cycles = sub[s].cycles
    PROVE  Punctual'
  <1>1. /\ Len(waiting) \in Nat /\ Len(waiting') >= Len(waiting) /\ Len(waiting') \in Nat
        /\ \A i \in 1 .. Len(waiting) : waiting'[i] = waiting[i]
    <2>0. TypeOK /\ waiting \in Seq(Subs)
      BY DEF DTypeOK, TypeOK
    <2>1. CASE waiting' = waiting
      BY <2>0, <2>1, LenProperties
    <2>2. ASSUME NEW t \in Subs, waiting' = Enlist(t)
          PROVE  /\ Len(waiting) \in Nat /\ Len(waiting') >= Len(waiting) /\ Len(waiting') \in Nat
                 /\ \A i \in 1 .. Len(waiting) : waiting'[i] = waiting[i]
      BY <2>0, <2>2, EnlistFacts
    <2> QED
      BY <2>1, <2>2
  <1>2. ASSUME NEW s \in Subs PROVE since'[s] <= RoundTrip /\ Served(s)'
    <2>1. since'[s] <= RoundTrip
      BY DEF Punctual
    <2>2. ASSUME s \notin Immediate, sub'[s].registered, sub'[s].cycles > 0
          PROVE  \E p \in 1 .. Len(waiting') :
                    /\ waiting'[p] = s
                    /\ sub'[s].cycles + RoundTrip * p <= RoundTrip * MaxSubs + since'[s]
      <3>1. PICK p \in 1 .. Len(waiting) :
               /\ waiting[p] = s
               /\ sub[s].cycles + RoundTrip * p <= RoundTrip * MaxSubs + since[s]
        BY <2>2 DEF Punctual, Served
      <3>2. p \in 1 .. Len(waiting') /\ waiting'[p] = s
        BY <1>1, <3>1
      <3>3. sub'[s].cycles + RoundTrip * p <= RoundTrip * MaxSubs + since'[s]
        BY <2>2, <3>1
      <3> QED
        BY <3>2, <3>3
    <2> QED
      BY <2>1, <2>2 DEF Served
  <1> QED
    BY <1>2 DEF Punctual

\* A cycle without a request is one of the RoundTrip cycles that the way of
\* the next one takes.
LEMMA CyclePunctual ==
    ASSUME DTypeOK, OpenInv, FreshInv, Unused, LifeInv, Distinct, timely, NoFault, LongLived,
           Punctual, NEW t \in Subs, Cycle(t)
    PROVE  Punctual'
  <1>1. /\ TypeOK /\ sub \in [Subs -> Subscription] /\ sub[t] \in Subscription
        /\ since \in [Subs -> Nat] /\ RoundTrip \in Nat /\ MaxSubs \in Nat
        /\ waiting \in Seq(Subs)
    BY DeliveryAssumption, PublishingAssumption DEF DTypeOK, TypeOK
  <1>2. PublishResults(t, sub[t])
    BY Zenon DEF Cycle, PublishCycle
  <1>3. waiting' = waiting \/ waiting' = Enlist(t)
    BY <1>2, Zenon DEF PublishResults
  <1>4. \A s \in Subs \ {t} : sub'[s] = sub[s]
    BY <1>1, <1>2, ResultsFate
  <1>5. CASE ~Starves(t)
    <2>1. UNCHANGED since
      BY <1>5, Zenon DEF Cycle
    <2>2. ASSUME t \notin Immediate, sub'[t].registered, sub'[t].cycles > 0
          PROVE  sub[t].registered /\ sub'[t].cycles = sub[t].cycles
      <3>1. sub'[t].registered = sub[t].registered
        BY CycleLives DEF Lives
      <3>2. sub'[t].cycles = sub[t].cycles + 1
        BY <2>2, <3>1, CycleFate
      <3>3. sub[t].cycles \in Nat
        BY <1>1, FieldTypes
      <3> QED
        BY <1>5, <3>2, <3>3 DEF Starves
    <2>3. \A s \in Subs : s \notin Immediate /\ sub'[s].registered /\ sub'[s].cycles > 0
               => sub[s].registered /\ sub'[s].cycles = sub[s].cycles
      BY <1>4, <2>2
    <2> QED
      BY <1>3, <2>1, <2>3, PunctualSame
  <1>6. CASE Starves(t)
    <2>1. since' = [since EXCEPT ![t] = since[t] + 1]
      BY <1>6 DEF Cycle
    <2>2. since[t] < RoundTrip
      <3>1. since[t] < RoundTrip \/ Quiet
        BY Zenon DEF Cycle
      <3> QED
        BY <1>6, <3>1, QuietCycle
    <2>3. /\ since'[t] = since[t] + 1 /\ since[t] \in Nat
          /\ \A s \in Subs \ {t} : since'[s] = since[s]
      BY <1>1, <2>1
    <2>4. /\ Len(waiting) \in Nat
          /\ \/ /\ \E i \in 1 .. Len(waiting) : waiting[i] = t
                /\ Enlist(t) = waiting
             \/ /\ \A i \in 1 .. Len(waiting) : waiting[i] # t
                /\ Len(Enlist(t)) = Len(waiting) + 1
                /\ Enlist(t)[Len(waiting) + 1] = t
                /\ \A i \in 1 .. Len(waiting) : Enlist(t)[i] = waiting[i]
      BY <1>1, EnlistFacts
    <2>5. \A i \in 1 .. Len(waiting) : i \in 1 .. Len(waiting') /\ waiting'[i] = waiting[i]
      BY <1>3, <2>4
    <2>6. ASSUME NEW s \in Subs PROVE since'[s] <= RoundTrip /\ Served(s)'
      <3>1. since'[s] <= RoundTrip
        <4>1. since[s] <= RoundTrip
          BY DEF Punctual
        <4> QED
          BY <1>1, <2>2, <2>3, <4>1
      <3>2. ASSUME s \notin Immediate, sub'[s].registered, sub'[s].cycles > 0
            PROVE  \E p \in 1 .. Len(waiting') :
                      /\ waiting'[p] = s
                      /\ sub'[s].cycles + RoundTrip * p <= RoundTrip * MaxSubs + since'[s]
        <4>0. Served(s)
          BY DEF Punctual
        <4>1. CASE s # t
          <5>1. sub'[s] = sub[s] /\ since'[s] = since[s]
            BY <1>4, <2>3, <4>1
          <5>2. PICK p \in 1 .. Len(waiting) :
                   /\ waiting[p] = s
                   /\ sub[s].cycles + RoundTrip * p <= RoundTrip * MaxSubs + since[s]
            BY <3>2, <4>0, <5>1 DEF Served
          <5> QED
            BY <2>5, <5>1, <5>2
        <4>2. CASE s = t
          <5>1. sub[t].registered
            BY <3>2, <4>2, CycleLives DEF Lives
          <5>2. sub'[t].cycles = sub[t].cycles + 1 /\ waiting' = Enlist(t)
            BY <3>2, <4>2, <5>1, CycleFate
          <5>3. sub[t].cycles \in Nat
            BY <1>1, FieldTypes
          <5>4. CASE sub[t].cycles > 0
            <6>1. PICK p \in 1 .. Len(waiting) :
                     /\ waiting[p] = t
                     /\ sub[t].cycles + RoundTrip * p <= RoundTrip * MaxSubs + since[t]
              BY <3>2, <4>0, <4>2, <5>1, <5>4 DEF Served
            <6>2. RoundTrip * p \in Nat /\ RoundTrip * MaxSubs \in Nat
              BY <1>1, <2>4
            <6>3. sub'[t].cycles + RoundTrip * p <= RoundTrip * MaxSubs + since'[t]
              BY <2>3, <5>2, <5>3, <6>1, <6>2
            <6> QED
              BY <2>5, <4>2, <6>1, <6>3
          <5>5. CASE sub[t].cycles = 0
            <6>1. PICK p \in 1 .. Len(waiting') : waiting'[p] = t /\ p \in Nat /\ p <= MaxSubs
              <7>1. CASE \E i \in 1 .. Len(waiting) : waiting[i] = t
                <8>1. Len(waiting) <= MaxSubs
                  BY <1>1, RoomToWait
                <8>2. PICK i \in 1 .. Len(waiting) : waiting[i] = t
                  BY <7>1
                <8>3. i \in Nat /\ i <= MaxSubs
                  BY <1>1, <2>4, <8>1
                <8> QED
                  BY <2>5, <8>2, <8>3
              <7>2. CASE \A i \in 1 .. Len(waiting) : waiting[i] # t
                <8>1. Len(waiting) + 1 <= MaxSubs
                  BY <1>1, <7>2, RoomToWait
                <8>2. Len(waiting') = Len(waiting) + 1 /\ waiting'[Len(waiting) + 1] = t
                  BY <2>4, <5>2, <7>2
                <8>3. Len(waiting) + 1 \in 1 .. Len(waiting') /\ Len(waiting) + 1 \in Nat
                  BY <2>4, <8>2
                <8> QED
                  BY <8>1, <8>2, <8>3
              <7> QED
                BY <7>1, <7>2
            <6>2. RoundTrip * p \in Nat /\ RoundTrip * p <= RoundTrip * MaxSubs
              BY <1>1, <6>1, RoundTrips
            <6>3. RoundTrip * MaxSubs \in Nat
              BY <1>1
            <6>4. sub'[t].cycles + RoundTrip * p <= RoundTrip * MaxSubs + since'[t]
              BY <2>3, <5>2, <5>5, <6>2, <6>3
            <6> QED
              BY <4>2, <6>1, <6>4
          <5> QED
            BY <5>3, <5>4, <5>5
        <4> QED
          BY <4>1, <4>2
      <3> QED
        BY <3>1, <3>2 DEF Served
    <2> QED
      BY <2>6 DEF Punctual
  <1> QED
    BY <1>5, <1>6

\* When a request arrives, everyone that waits moves up or is answered.
LEMMA RequestPunctual ==
    ASSUME DTypeOK, DTypeOK', LifeInv, LongLived, Punctual, ServePublish
    PROVE  Punctual'
  <1>0. /\ TypeOK /\ sub \in [Subs -> Subscription] /\ sub' \in [Subs -> Subscription]
        /\ RoundTrip \in Nat /\ MaxSubs \in Nat /\ since \in [Subs -> Nat]
        /\ waiting \in Seq(Subs) /\ Len(waiting) \in Nat
    BY DeliveryAssumption, PublishingAssumption, LenProperties DEF DTypeOK, TypeOK
  <1>1. PICK acks : PublishRequest(acks, "none")
    BY Zenon DEF ServePublish
  <1>2. since' = [s \in Subs |-> 0]
    BY Zenon DEF ServePublish
  <1> DEFINE after == AfterAcks(acks)
  <1>3. \/ Stops(after) = {}
        \/ \E k \in Stops(after) :
              /\ \A i \in Stops(after) : k <= i
              /\ \/ /\ Publishes(after[waiting[k]])
                    /\ sub' = [AfterPassing(after, k - 1) EXCEPT
                                  ![waiting[k]] = Popped(after[waiting[k]])]
                 \/ Raises(waiting[k], after[waiting[k]])
              /\ waiting' = SubSeq(waiting, k + 1, Len(waiting))
    BY <1>1, Zenon DEF PublishRequest
  <1>4. after \in [Subs -> Subscription]
    BY <1>0, AfterAcksType
  <1>5. ASSUME NEW s \in Subs, s \notin Immediate, sub'[s].registered, sub'[s].cycles > 0
        PROVE  \E p \in 1 .. Len(waiting') :
                  /\ waiting'[p] = s
                  /\ sub'[s].cycles + RoundTrip * p <= RoundTrip * MaxSubs + since'[s]
    <2>1. Ages(s, sub[s], sub'[s])
      BY <1>0, <1>1, RequestFate, DeliveryAssumption
    <2>2. sub[s] \in Subscription /\ sub[s].cycles \in Nat /\ sub'[s].cycles \in Nat
      BY <1>0, FieldTypes
    <2>3. sub[s].registered /\ sub[s].cycles > 0 /\ sub'[s].cycles <= sub[s].cycles
      <3>1. sub[s].registered \in BOOLEAN /\ sub'[s].registered \in BOOLEAN
        BY <1>0, FieldTypes
      <3>2. sub[s].registered
        BY <1>5, <2>1, <3>1, Zenon DEF Ages
      <3>3. sub'[s].cycles <= sub[s].cycles
        BY <2>1 DEF Ages
      <3> QED
        BY <1>5, <2>2, <3>2, <3>3
    <2>4. PICK p \in 1 .. Len(waiting) :
             /\ waiting[p] = s
             /\ sub[s].cycles + RoundTrip * p <= RoundTrip * MaxSubs + since[s]
      BY <1>5, <2>3 DEF Punctual, Served
    <2>5. Publishes(after[s])
      <3>1. HasResults(sub[s]) /\ ~Expired(sub[s])
        BY <1>5, <2>3, InTime DEF LifeInv, SubInv
      <3>2. Publishes(sub[s])
        BY <2>3, <3>1 DEF Publishes
      <3> QED
        BY <1>0, <3>2, AckLife
    <2> HIDE DEF after
    <2>6. p \in Stops(after)
      BY <2>4, <2>5 DEF Stops
    <2>7. PICK k \in Stops(after) :
              /\ \A i \in Stops(after) : k <= i
              /\ \/ /\ Publishes(after[waiting[k]])
                    /\ sub' = [AfterPassing(after, k - 1) EXCEPT
                                  ![waiting[k]] = Popped(after[waiting[k]])]
                 \/ Raises(waiting[k], after[waiting[k]])
              /\ waiting' = SubSeq(waiting, k + 1, Len(waiting))
      BY <1>3, <2>6
    <2>8. k \in 1 .. Len(waiting) /\ k <= p
      BY <2>6, <2>7 DEF Stops
    <2>9. waiting[k] # s
      <3> SUFFICES ASSUME waiting[k] = s PROVE FALSE
        OBVIOUS
      <3>1. ~Raises(waiting[k], after[waiting[k]])
        BY <1>5 DEF Raises
      <3>2. AfterPassing(after, k - 1) \in [Subs -> Subscription]
        BY <1>4, AfterPassingType
      <3>3. sub'[s] = Popped(after[s])
        BY <2>7, <3>1, <3>2
      <3>4. Popped(after[s]).cycles = 0
        BY <1>4, LifeFields
      <3> QED
        BY <1>5, <3>3, <3>4
    <2>10. p - k \in 1 .. Len(waiting) - k /\ p - k + k = p /\ p \in Nat /\ k \in Nat /\ k >= 1
      BY <1>0, <2>4, <2>8, <2>9
    <2>11. p - k \in 1 .. Len(waiting') /\ waiting'[p - k] = s
      BY <1>0, <2>4, <2>7, <2>8, <2>10, RestFacts
    <2>12. RoundTrip * (p - k) + RoundTrip <= RoundTrip * p
      <3>1. p - k \in Nat /\ p - k + 1 \in Nat /\ p - k + 1 <= p
        BY <2>10
      <3>2. RoundTrip * (p - k + 1) = RoundTrip * (p - k) + RoundTrip
        BY <3>1, RoundTrips
      <3>3. RoundTrip * (p - k + 1) <= RoundTrip * p
        BY <2>10, <3>1, RoundTrips
      <3> QED
        BY <3>2, <3>3
    <2>13. sub'[s].cycles + RoundTrip * (p - k) <= RoundTrip * MaxSubs + since'[s]
      <3>1. since'[s] = 0 /\ since[s] \in Nat /\ since[s] <= RoundTrip
        BY <1>0, <1>2 DEF Punctual
      <3>2. /\ RoundTrip * (p - k) \in Nat /\ RoundTrip * p \in Nat /\ RoundTrip * MaxSubs \in Nat
        BY <1>0, <2>10
      <3> QED
        BY <1>0, <2>2, <2>3, <2>4, <2>12, <3>1, <3>2
    <2> QED
      BY <2>11, <2>13
  <1>6. \A s \in Subs : since'[s] <= RoundTrip
    BY <1>0, <1>2
  <1> QED
    BY <1>5, <1>6 DEF Punctual, Served

\* The other turns of the server count no cycles of a subscription with a
\* loop.
Steady ==
    /\ \A s \in Subs : /\ sub'[s].registered = sub[s].registered
                       /\ s \notin Immediate => sub'[s].cycles = sub[s].cycles
    /\ waiting' = waiting \/ \E t \in Subs : waiting' = Enlist(t)

\* So do changes and the calls for monitored items.
LEMMA ServeSteady ==
    ASSUME DTypeOK, DTypeOK',
           \/ \E t \in Subs, m \in Items : Change(t, m)
           \/ ServeSubscribe \/ ServeUnsubscribe \/ ServeDeleted
    PROVE  Steady
  <1>1. TypeOK /\ sub \in [Subs -> Subscription] /\ sub' \in [Subs -> Subscription]
    BY DEF DTypeOK, TypeOK
  <1>3. ASSUME NEW t \in Subs, NEW x \in Subscription, NEW m \in Items, Enqueue(t, x, m),
               x.registered = sub[t].registered, x.cycles = sub[t].cycles
        PROVE  Steady
    <2>1. /\ \A s \in Subs \ {t} : sub'[s] = sub[s]
          /\ sub'[t].registered = x.registered
          /\ t \notin Immediate => sub'[t].cycles = x.cycles
      BY <1>1, <1>3, EnqueueFate
    <2>2. waiting' = waiting \/ waiting' = Enlist(t)
      BY <1>3, Zenon DEF Enqueue, PublishResults
    <2> QED
      BY <1>3, <2>1, <2>2 DEF Steady
  <1>4. ASSUME NEW t \in Subs, NEW x, sub' = [sub EXCEPT ![t] = x], UNCHANGED waiting,
               x.registered = sub[t].registered, x.cycles = sub[t].cycles
        PROVE  Steady
    BY <1>1, <1>4 DEF Steady
  <1>5. UNCHANGED vars => Steady
    BY DEF Steady, vars
  <1>6. ASSUME NEW t \in Subs, NEW m \in Items, Change(t, m) PROVE Steady
    <2>1. Enqueue(t, sub[t], m)
      BY <1>6, Zenon DEF Change, Notify
    <2>2. sub[t] \in Subscription
      BY <1>1
    <2> QED
      BY <1>3, <2>1, <2>2
  <1> DEFINE c == Head(toServer)
  <1>7. CASE ServeSubscribe
    <2>1. Takes("subscribe")
      BY <1>7, Zenon DEF ServeSubscribe
    <2>2. c \in Call /\ c.sub \in Subs
      BY <2>1, TakesFacts, CallFields
    <2>3. \/ \E m \in c.items, size \in QueueSizes : CreateMonitoredItem(c.sub, m, size)
          \/ UNCHANGED vars
      BY <1>7, Zenon DEF ServeSubscribe
    <2> HIDE DEF c
    <2>4. ASSUME NEW m \in c.items, NEW size \in QueueSizes, CreateMonitoredItem(c.sub, m, size)
          PROVE  Steady
      <3> DEFINE x == WithItem(sub[c.sub], m, size)
      <3>1. m \in Items
        BY <2>2, CallFields
      <3>2. x \in Subscription /\ sub[c.sub] \in Subscription
        BY <1>1, <2>2, <3>1, WithItemType, PublishingAssumption
      <3>3. x.registered = sub[c.sub].registered /\ x.cycles = sub[c.sub].cycles
        BY <3>2 DEF WithItem, Subscription
      <3>4. \/ Enqueue(c.sub, x, m)
            \/ sub' = [sub EXCEPT ![c.sub] = x] /\ UNCHANGED waiting
        BY <2>4, Zenon DEF CreateMonitoredItem
      <3> HIDE DEF x
      <3> QED
        BY <1>3, <1>4, <2>2, <3>1, <3>2, <3>3, <3>4
    <2> QED
      BY <1>5, <2>3, <2>4
  <1>8. CASE ServeUnsubscribe
    <2>1. Takes("unsubscribe")
      BY <1>8, Zenon DEF ServeUnsubscribe
    <2>2. c \in Call /\ c.sub \in Subs
      BY <2>1, TakesFacts, CallFields
    <2>3. (\E m : DeleteMonitoredItem(c.sub, m)) \/ UNCHANGED vars
      BY <1>8, Zenon DEF ServeUnsubscribe
    <2> HIDE DEF c
    <2>4. ASSUME NEW m, DeleteMonitoredItem(c.sub, m) PROVE Steady
      <3>1. sub' = [sub EXCEPT ![c.sub] = WithoutItem(sub[c.sub], m)] /\ UNCHANGED waiting
        BY <2>4, Zenon DEF DeleteMonitoredItem
      <3>2. sub[c.sub] \in Subscription
        BY <1>1, <2>2
      <3>3. /\ WithoutItem(sub[c.sub], m).registered = sub[c.sub].registered
            /\ WithoutItem(sub[c.sub], m).cycles = sub[c.sub].cycles
        BY <3>2 DEF WithoutItem, Subscription
      <3> QED
        BY <1>4, <2>2, <3>1, <3>3
    <2> QED
      BY <1>5, <2>3, <2>4
  <1>9. CASE ServeDeleted
    <2>1. PICK t \in stopping : StopSubscription(t) \/ UNCHANGED vars
      BY <1>9, Zenon DEF ServeDeleted
    <2>2. t \in Subs /\ sub[t] \in Subscription
      BY <1>1 DEF DTypeOK
    <2>3. CASE StopSubscription(t)
      <3>1. sub' = [sub EXCEPT ![t] = Halted(sub[t])] /\ UNCHANGED waiting
        BY <2>3, Zenon DEF StopSubscription
      <3>2. Halted(sub[t]).registered = sub[t].registered /\ Halted(sub[t]).cycles = sub[t].cycles
        BY <2>2 DEF Halted, Subscription
      <3> QED
        BY <1>4, <2>2, <3>1, <3>2
    <2> QED
      BY <1>5, <2>1, <2>3
  <1> QED
    BY <1>6, <1>7, <1>8, <1>9

\* A publish request takes nobody out of the service that is in time.
LEMMA PublishLives ==
    ASSUME DTypeOK, DTypeOK', LongLived, Punctual, ServePublish
    PROVE  Lives
  <1>1. TypeOK /\ sub \in [Subs -> Subscription] /\ sub' \in [Subs -> Subscription]
    BY DEF DTypeOK, TypeOK
  <1>2. \E acks : PublishRequest(acks, "none")
    BY Zenon DEF ServePublish
  <1>3. \A s \in Subs : Ages(s, sub[s], sub'[s])
    BY <1>1, <1>2, RequestFate, DeliveryAssumption
  <1>4. ASSUME NEW s \in Subs PROVE sub'[s].registered = sub[s].registered
    <2>1. sub[s].registered \in BOOLEAN /\ sub'[s].registered \in BOOLEAN
      BY <1>1, FieldTypes
    <2>2. CASE sub[s].registered
      BY <1>3, <2>2, InTime DEF Ages
    <2>3. CASE ~sub[s].registered
      BY <1>3, <2>1, <2>3 DEF Ages
    <2> QED
      BY <2>2, <2>3
  <1> QED
    BY <1>4 DEF Lives

\* Only CreateSubscription gives ids away.
LEMMA NothingCreated ==
    ASSUME \/ \E t \in Subs : Cycle(t)
           \/ \E t \in Subs, m \in Items : Change(t, m)
           \/ ServeSubscribe \/ ServeUnsubscribe \/ ServeDelete \/ ServeDeleted \/ ServePublish
    PROVE  UNCHANGED subCounter
  <1>1. UNCHANGED vars => UNCHANGED subCounter
    BY DEF vars
  <1>2. CASE \E t \in Subs : Cycle(t)
    BY <1>2, Zenon DEF Cycle, PublishCycle
  <1>3. CASE \E t \in Subs, m \in Items : Change(t, m)
    BY <1>3, Zenon DEF Change, Notify
  <1>4. CASE ServeSubscribe
    BY <1>1, <1>4, Zenon DEF ServeSubscribe, CreateMonitoredItem
  <1>5. CASE ServeUnsubscribe
    BY <1>1, <1>5, Zenon DEF ServeUnsubscribe, DeleteMonitoredItem
  <1>6. CASE ServeDelete
    <2>1. (\E ids : DeleteSubscriptions(ids)) \/ UNCHANGED vars
      BY <1>6, Zenon DEF ServeDelete
    <2> QED
      BY <1>1, <2>1, Zenon DEF DeleteSubscriptions
  <1>7. CASE ServeDeleted
    BY <1>1, <1>7, Zenon DEF ServeDeleted, StopSubscription
  <1>8. CASE ServePublish
    BY <1>8, Zenon DEF ServePublish, PublishRequest
  <1> QED
    BY <1>2, <1>3, <1>4, <1>5, <1>6, <1>7, <1>8

\* What a step of the server does to the queues and to the client.
LEMMA ServerQueues ==
    ASSUME DTypeOK,
           \/ \E t \in Subs : Cycle(t)
           \/ \E t \in Subs, m \in Items : Change(t, m)
           \/ Serve
    PROVE  /\ UNCHANGED <<answers, callbacks, calls, monitored, loop, inbox, delivered, dropped,
                          timely>>
           /\ toServer' = toServer \/ (toServer # << >> /\ toServer' = Tail(toServer))
           /\ \/ Wrote(toClient') /\ UNCHANGED subCounter
              \/ \E t : \E a \in CallAnswer : Wrote(t) /\ toClient' = Append(t, a) /\ Counts(a)
  <1>1. CASE ServerTurn
    <2>1. UNCHANGED <<clientVars, timely>>
      BY <1>1, Zenon DEF ServerTurn
    <2>2. UNCHANGED <<answers, callbacks, calls, monitored, loop, inbox, delivered, dropped, timely>>
      BY <2>1 DEF clientVars
    <2>3. /\ toServer' = toServer \/ (toServer # << >> /\ toServer' = Tail(toServer))
          /\ \/ Wrote(toClient') /\ UNCHANGED subCounter
             \/ \E t : \E a \in CallAnswer : Wrote(t) /\ toClient' = Append(t, a) /\ Counts(a)
      BY <1>1, Zenon DEF ServerTurn
    <2> QED
      BY <2>2, <2>3, Zenon
  <1>2. CASE ServePublish
    <2>0. [DNext]_dVars
      BY <1>2, Zenon DEF DNext, Serve
    <2>1. [Next]_vars
      BY <2>0, ServerStep
    <2>2. Wrote(toClient \o Written)
      BY <2>1, WrittenFacts DEF DTypeOK
    <2>3. /\ Takes("publish") /\ toClient' = toClient \o Written
          /\ UNCHANGED <<stopping, clientVars, timely, subCounter>>
      BY <1>2, Zenon DEF ServePublish, PublishRequest
    <2>4. toServer # << >> /\ toServer' = Tail(toServer)
      BY <2>3, TakesFacts
    <2>5. UNCHANGED <<answers, callbacks, calls, monitored, loop, inbox, delivered, dropped, timely>>
      BY <2>3 DEF clientVars
    <2> QED
      BY <2>2, <2>3, <2>4, <2>5
  <1> QED
    BY <1>1, <1>2, ServerTurns, Zenon DEF Serve

\* The turns of the server keep what lives alive.
LEMMA AliveServes ==
    ASSUME DTypeOK, DTypeOK', FreshInv, LongLived, Punctual, \A s \in Subs : Alive(s),
           \/ \E t \in Subs : Cycle(t)
           \/ \E t \in Subs, m \in Items : Change(t, m)
           \/ Serve
    PROVE  \A s \in Subs : Alive(s)'
  <1>0. sub \in [Subs -> Subscription] /\ subCounter \in Nat
    BY DEF DTypeOK, TypeOK
  <1>1. /\ UNCHANGED <<answers, callbacks, calls>>
        /\ toServer' = toServer \/ (toServer # << >> /\ toServer' = Tail(toServer))
        /\ \/ Wrote(toClient') /\ UNCHANGED subCounter
           \/ \E t : \E a \in CallAnswer : Wrote(t) /\ toClient' = Append(t, a) /\ Counts(a)
    BY ServerQueues, Zenon
  <1>2. \A s : Announcing(s)' => Announcing(s) \/ (s = subCounter' /\ subCounter' = subCounter + 1)
    BY <1>1, AnnouncingServer
  <1>3. ASSUME UNCHANGED subCounter, Lives PROVE \A s \in Subs : Alive(s)'
    <2>1. \A s : Announcing(s)' => Announcing(s)
      BY <1>0, <1>2, <1>3
    <2> QED
      BY <1>1, <1>3, <2>1, AliveServer DEF Lives
  <1>4. CASE ServeCreate
    <2>1. CreateSubscription
      BY <1>4, Zenon DEF ServeCreate
    <2>2. /\ subCounter < MaxSubs /\ subCounter' = subCounter + 1
          /\ sub' = [sub EXCEPT ![subCounter + 1] = Started(subCounter + 1 \notin Immediate)]
      BY <2>1 DEF CreateSubscription
    <2>3. ASSUME NEW s \in Subs PROVE Alive(s)'
      <3>1. CASE s # subCounter + 1
        <4>1. sub'[s] = sub[s]
          BY <1>0, <2>2, <3>1
        <4>2. Announcing(s)' => Announcing(s)
          BY <1>2, <2>2, <3>1
        <4> QED
          BY <1>1, <4>1, <4>2, AliveServer
      <3>2. CASE s = subCounter + 1
        <4>1. sub'[s] = Started(s \notin Immediate)
          BY <1>0, <2>2, <3>2
        <4>2. Started(s \notin Immediate).registered
          BY DEF Started, Unborn
        <4>3. s > subCounter
          BY <1>0, <3>2
        <4>4. s \notin callbacks
          BY <4>3 DEF FreshInv, Fresh, Unknown
        <4>5. \A i \in 1 .. Len(toServer') : toServer'[i] = DeleteCall(s) /\ s \in callbacks'
                 => DeleteCall(s) \in calls'
          BY <1>1, <4>4
        <4> QED
          BY <1>1, <4>1, <4>2, <4>4, <4>5 DEF Alive
      <3> QED
        BY <3>1, <3>2
    <2> QED
      BY <2>3
  <1>5. CASE ServeDelete
    <2> DEFINE c == Head(toServer)
    <2>1. UNCHANGED subCounter
      BY <1>5, NothingCreated
    <2>2. Takes("delete")
      BY <1>5, Zenon DEF ServeDelete
    <2>3. toServer # << >> /\ c \in Call /\ c.op = "delete"
      BY <2>2, TakesFacts
    <2>4. c.sub \in Subs /\ c = DeleteCall(c.sub)
      BY <2>3, CallFields
    <2>5. DeleteSubscriptions({c.sub}) \/ UNCHANGED vars
      BY <1>5, Zenon DEF ServeDelete
    <2> HIDE DEF c
    <2>6. \A s \in Subs : s # c.sub => sub'[s] = sub[s]
      BY <1>0, <2>5 DEF DeleteSubscriptions, vars
    <2>7. ASSUME NEW s \in Subs PROVE Alive(s)'
      <3>2. Announcing(s)' => Announcing(s)
        BY <1>0, <1>2, <2>1
      <3>3. \/ sub'[s].registered = sub[s].registered
            \/ toServer # << >> /\ Head(toServer) = DeleteCall(s)
        <4>1. s = c.sub => Head(toServer) = DeleteCall(s)
          BY <2>4 DEF c
        <4> QED
          BY <2>3, <2>6, <4>1
      <3> QED
        BY <1>1, <3>2, <3>3, AliveServer
    <2> QED
      BY <2>7
  <1>6. CASE \E t \in Subs : Cycle(t)
    <2>1. UNCHANGED subCounter
      BY <1>6, NothingCreated, Zenon
    <2>2. Lives
      BY <1>6, CycleLives
    <2> QED
      BY <1>3, <2>1, <2>2
  <1>7. CASE \/ \E t \in Subs, m \in Items : Change(t, m)
             \/ ServeSubscribe \/ ServeUnsubscribe \/ ServeDeleted
    <2>1. UNCHANGED subCounter
      BY <1>7, NothingCreated, Zenon
    <2>2. Lives
      BY <1>7, ServeSteady, Zenon DEF Steady, Lives
    <2> QED
      BY <1>3, <2>1, <2>2
  <1>8. CASE ServePublish
    <2>1. UNCHANGED subCounter
      BY <1>8, NothingCreated, Zenon
    <2>2. Lives
      BY <1>8, PublishLives
    <2> QED
      BY <1>3, <2>1, <2>2
  <1> QED
    BY <1>4, <1>5, <1>6, <1>7, <1>8, Zenon DEF Serve

\* So does a call of the user,
LEMMA AliveSends ==
    ASSUME DTypeOK, NEW c \in Call, Sends(c), NEW s \in Subs, Alive(s)
    PROVE  Alive(s)'
  <1>1. /\ toServer' = Append(toServer, c) /\ calls' = calls \cup {c}
        /\ UNCHANGED <<vars, toClient, answers, callbacks>>
    BY Zenon DEF Sends
  <1>2. UNCHANGED sub
    BY <1>1 DEF vars
  <1>3. c \in ServerMessage /\ toServer \in Seq(ServerMessage)
    BY DEF ServerMessage, DTypeOK
  <1>4. \A i \in 1 .. Len(toServer') :
           (i \in 1 .. Len(toServer) /\ toServer'[i] = toServer[i]) \/ toServer'[i] = c
    BY <1>1, <1>3, EndOfQueue
  <1>5. Announcing(s)' <=> Announcing(s)
    BY <1>1 DEF Announcing
  <1>6. \A i \in 1 .. Len(toServer') :
           toServer'[i] = DeleteCall(s) /\ s \in callbacks' => DeleteCall(s) \in calls'
    BY <1>1, <1>4 DEF Alive
  <1> QED
    BY <1>1, <1>2, <1>5, <1>6 DEF Alive

\* a message received by the client,
LEMMA AliveReceive ==
    ASSUME DTypeOK, Receive, NEW s \in Subs, Alive(s)
    PROVE  Alive(s)'
  <1> DEFINE a == Head(toClient)
  <1>1. /\ toClient # << >> /\ toClient' = Tail(toClient)
        /\ UNCHANGED <<vars, toServer, callbacks, calls>>
        /\ answers' = answers \/ answers' = answers \cup {a}
    BY Zenon DEF Receive
  <1>2. UNCHANGED sub
    BY <1>1 DEF vars
  <1>3. /\ \A i \in Announced(toClient', s) : i + 1 \in Announced(toClient, s)
        /\ Announces(a, s) <=> 1 \in Announced(toClient, s)
    BY <1>1, AnnouncedTail DEF DTypeOK
  <1> HIDE DEF a
  <1>4. Resolved(answers', s) # {} => Resolved(answers, s) # {} \/ Announced(toClient, s) # {}
    BY <1>1, <1>3 DEF Resolved
  <1>5. Announcing(s)' => Announcing(s)
    BY <1>3, <1>4 DEF Announcing
  <1> QED
    BY <1>1, <1>2, <1>5 DEF Alive

\* Sending a publish request.
LEMMA PublishSent ==
    ASSUME DTypeOK, NEW acks \in SUBSET (Nat \X Nat),
           toServer' = toServer \/ toServer' = Append(toServer, Publish(acks))
    PROVE  \A i \in 1 .. Len(toServer') : toServer'[i] \in Call =>
              i \in 1 .. Len(toServer) /\ toServer'[i] = toServer[i]
  <1>1. CASE toServer' = toServer
    BY <1>1
  <1>2. CASE toServer' = Append(toServer, Publish(acks))
    <2>1. Publish(acks) \in ServerMessage /\ Publish(acks) \notin Call
      BY MadePublish, ServerMessageFields
    <2> QED
      BY <1>2, <2>1, EndOfQueue DEF DTypeOK
  <1> QED
    BY <1>1, <1>2

\* a turn of the publish loop,
LEMMA AlivePublishLoop ==
    ASSUME DTypeOK, PublishLoop, NEW s \in Subs, Alive(s)
    PROVE  Alive(s)'
  <1> DEFINE w == Head(inbox)
  <1>1. /\ inbox # << >> /\ UNCHANGED <<vars, toClient, answers, callbacks, calls>>
        /\ toServer' = toServer \/ toServer' = Append(toServer, Publish(AckOf(w)))
    BY Zenon DEF PublishLoop
  <1>2. AckOf(w) \in SUBSET (Nat \X Nat)
    BY <1>1, HeadTailProperties, AckOfType DEF DTypeOK
  <1>3. \A i \in 1 .. Len(toServer') : toServer'[i] \in Call =>
            i \in 1 .. Len(toServer) /\ toServer'[i] = toServer[i]
    BY <1>1, <1>2, PublishSent
  <1>4. DeleteCall(s) \in Call
    BY DEF DeleteCall, Call
  <1>5. UNCHANGED sub
    BY <1>1 DEF vars
  <1>6. Announcing(s)' <=> Announcing(s)
    BY <1>1 DEF Announcing
  <1> QED
    BY <1>1, <1>3, <1>4, <1>5, <1>6 DEF Alive

\* and the return from a call.
LEMMA AliveResume ==
    ASSUME DTypeOK, FreshInv, NEW a \in answers, Resume(a), NEW s \in Subs, Alive(s)
    PROVE  Alive(s)'
  <1>1. UNCHANGED <<vars, toClient>> /\ answers' = answers \ {a} /\ calls' = calls \ {a.call}
    BY Zenon DEF Resume, Created, Subscribed, Unsubscribed, Deleted, Resumes
  <1>2. UNCHANGED sub
    BY <1>1 DEF vars
  <1>3. /\ a.call \in Call /\ a.op = a.call.op
        /\ a.op # "create" => a.id = a.call.sub
    BY AnswerFields DEF DTypeOK
  <1>4. DeleteCall(s) \in Call /\ DeleteCall(s).op = "delete" /\ DeleteCall(s).sub = s
    BY DEF DeleteCall, Call
  <1>5. Announcing(s)' => Announcing(s)
    BY <1>1 DEF Announcing, Resolved
  <1>6. CASE Created(a)
    <2>1. /\ a.op = "create" /\ callbacks' = callbacks \cup {a.id}
          /\ toServer' = toServer \/ toServer' = Append(toServer, Publish({}))
      BY <1>6, Zenon DEF Created, StartsLoop
    <2>2. \A i \in 1 .. Len(toServer') : toServer'[i] \in Call =>
              i \in 1 .. Len(toServer) /\ toServer'[i] = toServer[i]
      BY <2>1, PublishSent
    <2>3. DeleteCall(s) \in calls' <=> DeleteCall(s) \in calls
      BY <1>1, <1>3, <1>4, <2>1
    <2>4. ASSUME s = a.id
          PROVE  /\ sub[s].registered
                 /\ \A i \in 1 .. Len(toServer) : toServer[i] # DeleteCall(s)
      <3>1. Announcing(s)
        BY <2>1, <2>4 DEF Announcing, Resolved, Announces
      <3> QED
        BY <1>4, <3>1 DEF Alive, FreshInv, Fresh, Unknown
    <2>5. s \in callbacks' => sub'[s].registered \/ DeleteCall(s) \in calls'
      BY <1>2, <2>1, <2>3, <2>4 DEF Alive
    <2>6. \A i \in 1 .. Len(toServer') :
             toServer'[i] = DeleteCall(s) /\ s \in callbacks' => DeleteCall(s) \in calls'
      BY <1>4, <2>1, <2>2, <2>3, <2>4 DEF Alive
    <2> QED
      BY <1>2, <1>5, <2>5, <2>6 DEF Alive
  <1>7. CASE Deleted(a) /\ s = a.id
    <2>1. callbacks' = callbacks \ {s}
      BY <1>7, Zenon DEF Deleted
    <2> QED
      BY <1>2, <1>5, <2>1 DEF Alive
  <1>8. CASE Subscribed(a) \/ Unsubscribed(a) \/ (Deleted(a) /\ s # a.id)
    <2>1. UNCHANGED toServer /\ callbacks' \subseteq callbacks
      BY <1>8, Zenon DEF Subscribed, Unsubscribed, Deleted
    <2>2. a.call # DeleteCall(s)
      <3>1. CASE a.op \in {"subscribe", "unsubscribe"}
        BY <1>3, <1>4, <3>1
      <3>2. CASE a.op = "delete" /\ s # a.id
        BY <1>3, <1>4, <3>2
      <3> QED
        BY <1>8, <3>1, <3>2 DEF Subscribed, Unsubscribed, Deleted
    <2>3. DeleteCall(s) \in calls' <=> DeleteCall(s) \in calls
      BY <1>1, <2>2
    <2> QED
      BY <1>2, <1>5, <2>1, <2>3 DEF Alive
  <1> QED
    BY <1>6, <1>7, <1>8, Zenon DEF Resume

\* Every step keeps everyone in time.
LEMMA PunctualStep ==
    ASSUME DTypeOK, DTypeOK', OpenInv, FreshInv, Unused, LifeInv, Distinct, timely, NoFault,
           LongLived, Punctual, [DNext]_dVars
    PROVE  Punctual'
  <1>0. sub \in [Subs -> Subscription] /\ subCounter \in Nat
    BY DEF DTypeOK, TypeOK
  <1>1. ASSUME NEW t \in Subs, Cycle(t) PROVE Punctual'
    BY <1>1, CyclePunctual
  <1>2. CASE ServePublish
    BY <1>2, RequestPunctual
  <1>3. ASSUME UNCHANGED since, Steady PROVE Punctual'
    BY <1>3, PunctualSame DEF Steady
  <1>4. ASSUME UNCHANGED since, UNCHANGED vars PROVE Punctual'
    BY <1>3, <1>4 DEF Steady, vars
  <1>5. ASSUME UNCHANGED since, ServeCreate PROVE Punctual'
    <2>1. CreateSubscription
      BY <1>5, Zenon DEF ServeCreate
    <2>2. /\ sub' = [sub EXCEPT ![subCounter + 1] = Started(subCounter + 1 \notin Immediate)]
          /\ UNCHANGED waiting
      BY <2>1 DEF CreateSubscription
    <2>3. Started(subCounter + 1 \notin Immediate).cycles = 0
      BY DEF Started, Unborn
    <2>4. \A s \in Subs : s \notin Immediate /\ sub'[s].registered /\ sub'[s].cycles > 0
               => sub[s].registered /\ sub'[s].cycles = sub[s].cycles
      BY <1>0, <2>2, <2>3
    <2> QED
      BY <1>5, <2>2, <2>4, PunctualSame
  <1>6. ASSUME UNCHANGED since, ServeDelete PROVE Punctual'
    <2> DEFINE ids == {Head(toServer).sub}
    <2>1. DeleteSubscriptions(ids) \/ UNCHANGED vars
      BY <1>6, Zenon DEF ServeDelete
    <2> HIDE DEF ids
    <2>2. CASE DeleteSubscriptions(ids)
      <3>1. /\ \A s \in Subs : sub'[s] = IF s \in ids THEN [sub[s] EXCEPT !.registered = FALSE]
                                                    ELSE sub[s]
            /\ UNCHANGED waiting
        BY <2>2 DEF DeleteSubscriptions
      <3>2. \A x \in Subscription : ~[x EXCEPT !.registered = FALSE].registered
        BY DEF Subscription
      <3>3. \A s \in Subs : s \notin Immediate /\ sub'[s].registered /\ sub'[s].cycles > 0
               => sub[s].registered /\ sub'[s].cycles = sub[s].cycles
        BY <1>0, <3>1, <3>2
      <3> QED
        BY <1>6, <3>1, <3>3, PunctualSame
    <2> QED
      BY <1>4, <1>6, <2>1, <2>2
  <1>7. CASE UNCHANGED since
    <2>1. (\E t \in Subs, m \in Items : Change(t, m))
             \/ ServeSubscribe \/ ServeUnsubscribe \/ ServeDeleted => Steady
      BY ServeSteady, Zenon
    <2>2. ASSUME NEW c, Sends(c) PROVE UNCHANGED vars
      BY <2>2, Zenon DEF Sends
    <2>3. ASSUME NEW a, Resume(a) PROVE UNCHANGED vars
      BY <2>3, Zenon DEF Resume, Created, Subscribed, Unsubscribed, Deleted, Resumes
    <2>4. Receive \/ PublishLoop => UNCHANGED vars
      BY Zenon DEF Receive, PublishLoop
    <2>5. UNCHANGED dVars => UNCHANGED vars
      BY DEF dVars
    <2> QED
      BY <1>1, <1>2, <1>3, <1>4, <1>5, <1>6, <1>7, <2>1, <2>2, <2>3, <2>4, <2>5, Zenon
         DEF DNext, Serve, Create, Subscribe, Unsubscribe, Delete
  <1> QED
    BY <1>1, <1>2, <1>7, SinceSteps

\* Every step keeps AliveInv.
LEMMA AliveStep ==
    ASSUME DTypeOK, OpenInv, FreshInv, Unused, LifeInv, Distinct, AliveInv, [DNext]_dVars
    PROVE  AliveInv'
  <1> SUFFICES ASSUME timely', NoFault', LongLived
               PROVE  Punctual' /\ \A s \in Subs : Alive(s)'
    BY DEF AliveInv, LongLived
  <1>1. UNCHANGED timely
    <2>1. (\E t \in Subs : Cycle(t)) \/ (\E t \in Subs, m \in Items : Change(t, m)) \/ Serve
             => UNCHANGED timely
      BY ServerQueues, Zenon
    <2>2. ASSUME NEW c, Sends(c) PROVE UNCHANGED timely
      BY <2>2, Zenon DEF Sends
    <2>3. ASSUME NEW a, Resume(a) PROVE UNCHANGED timely
      BY <2>3, Zenon DEF Resume, Created, Subscribed, Unsubscribed, Deleted, Resumes
    <2>4. Receive \/ PublishLoop => UNCHANGED timely
      BY Zenon DEF Receive, PublishLoop
    <2>5. UNCHANGED dVars => UNCHANGED timely
      BY DEF dVars
    <2> QED
      BY <2>1, <2>2, <2>3, <2>4, <2>5, Zenon DEF DNext, Create, Subscribe, Unsubscribe, Delete
  <1>2. TypeOK /\ [Next]_vars /\ DTypeOK'
    BY ServerStep, DTypeStep DEF DTypeOK
  <1>3. NoFault /\ timely
    BY <1>1, <1>2, FaultsStay
  <1>4. Punctual /\ \A t \in Subs : Alive(t)
    BY <1>3 DEF AliveInv
  <1>10. Punctual'
    BY <1>2, <1>3, <1>4, PunctualStep
  <1> SUFFICES ASSUME NEW s \in Subs PROVE Alive(s)'
    BY <1>10
  <1>5. CASE (\E t \in Subs : Cycle(t)) \/ (\E t \in Subs, m \in Items : Change(t, m)) \/ Serve
    BY <1>2, <1>4, <1>5, AliveServes
  <1>6. CASE Create
    <2>1. Sends(CreateCall) /\ CreateCall \in Call
      BY <1>6 DEF Create, CreateCall, Call
    <2> QED
      BY <1>4, <2>1, AliveSends
  <1>7. ASSUME NEW t \in Subs, NEW m \in Items, Subscribe(t, m) \/ Unsubscribe(t, m) PROVE Alive(s)'
    <2>1. Sends(SubscribeCall(t, m)) \/ Sends(UnsubscribeCall(t, m))
      BY <1>7, Zenon DEF Subscribe, Unsubscribe
    <2> QED
      BY <1>4, <2>1, MadeCalls, AliveSends
  <1>8. ASSUME NEW t \in Subs, Delete(t) PROVE Alive(s)'
    <2>1. Sends(DeleteCall(t)) /\ DeleteCall(t) \in Call
      BY <1>8 DEF Delete, DeleteCall, Call
    <2> QED
      BY <1>4, <2>1, AliveSends
  <1>9. CASE UNCHANGED dVars
    <2>1. UNCHANGED <<vars, toServer, toClient, answers, callbacks, calls>>
      BY <1>9 DEF dVars, clientVars
    <2>2. UNCHANGED sub
      BY <2>1 DEF vars
    <2>3. Announcing(s)' <=> Announcing(s)
      BY <2>1 DEF Announcing
    <2> QED
      BY <1>4, <2>1, <2>2, <2>3 DEF Alive
  <1> QED
    BY <1>4, <1>5, <1>6, <1>7, <1>8, <1>9, AliveReceive, AlivePublishLoop, AliveResume, Zenon
       DEF DNext

\* The initial state has AliveInv.
LEMMA AliveInit == DInit => AliveInv /\ Distinct
  <1> SUFFICES ASSUME DInit PROVE AliveInv /\ Distinct
    OBVIOUS
  <1>1. /\ toServer = << >> /\ toClient = << >> /\ answers = {} /\ callbacks = {}
        /\ sub = [t \in Subs |-> Unborn] /\ since = [t \in Subs |-> 0] /\ waiting = << >>
    BY DEF DInit, Init
  <1>2. ASSUME NEW s \in Subs PROVE Alive(s)
    <2>1. ~Announcing(s)
      BY <1>1 DEF Announced, Resolved, Announcing
    <2> QED
      BY <1>1, <2>1 DEF Alive
  <1>3. Punctual
    <2>1. \A s \in Subs : sub[s].cycles = 0 /\ since[s] = 0
      BY <1>1 DEF Unborn
    <2> QED
      BY <2>1, DeliveryAssumption DEF Punctual, Served
  <1>4. Distinct
    BY <1>1 DEF Distinct
  <1> QED
    BY <1>2, <1>3, <1>4 DEF AliveInv

\* If a round trip takes at most RoundTrip cycles and the lifetime is at least
\* one round trip for each subscription, a subscription the client knows and
\* does not delete is in the service unless a fault has ended the publish
\* task: the one request that is open comes back to each of them in turn.
THEOREM TheLivingStay == DSpec => []NoExpiryOfTheLiving
  <1>1. DInit => Unused
    <2>1. DInit => Init
      BY DEF DInit
    <2> QED
      BY <2>1 DEF Init, Unused
  <1>2. DTypeOK /\ Unused /\ [DNext]_dVars => Unused'
    BY ServerStep, UnusedStep DEF DTypeOK
  <1> DEFINE Lasting == LifeInv /\ StarvedIsWaiting /\ ExpiryIsSilent
             AllInv == DTypeOK /\ OpenInv /\ FreshInv /\ Unused /\ Lasting /\ Distinct /\ AliveInv
  <1>3. DInit => AllInv
    <2>1. DInit => Init
      BY DEF DInit
    <2>2. Init => Lasting
      BY LifeInit
    <2> QED
      BY <1>1, <2>1, <2>2, DTypeInit, OpenInit, FreshInit, AliveInit
  <1>4. AllInv /\ [DNext]_dVars => AllInv'
    <2> SUFFICES ASSUME AllInv, [DNext]_dVars PROVE AllInv'
      OBVIOUS
    <2>1. TypeOK /\ [Next]_vars
      BY ServerStep DEF DTypeOK
    <2>2. Lasting' /\ Distinct'
      BY <2>1, LifeStep, DistinctStep
    <2> QED
      BY <1>2, <2>2, DTypeStep, OpenStep, FreshStep, AliveStep
  <1>5. AllInv => NoExpiryOfTheLiving
    <2> SUFFICES ASSUME AllInv, LongLived, timely, Faults = 0, NEW s \in callbacks,
                        DeleteCall(s) \notin calls
                 PROVE  sub[s].registered
      BY DEF NoExpiryOfTheLiving, TheLivingAreKnown, LongLived
    <2>1. wire \in Seq(Response) /\ s \in Subs
      BY DEF DTypeOK, TypeOK
    <2>2. DOMAIN wire = 1 .. Len(wire) /\ Len(wire) \in Nat
      BY <2>1, LenProperties
    <2>3. IsFiniteSet(1 .. Len(wire))
      BY <2>2, FS_Interval
    <2>4. IsFiniteSet({i \in DOMAIN wire : wire[i].fault})
      BY <2>2, <2>3, FS_Subset
    <2>5. {i \in DOMAIN wire : wire[i].fault} = {}
      BY <2>4, FS_EmptySet DEF Faults
    <2>6. NoFault
      BY <2>2, <2>5 DEF NoFault
    <2> QED
      BY <2>1, <2>6 DEF AliveInv, Alive
  <1> HIDE DEF AllInv
  <1> QED
    BY <1>3, <1>4, <1>5, PTL DEF DSpec

-----------------------------------------------------------------------------
(* The streams of notifications: the composition implements                *)
(* NotificationStream.                                                     *)

\* A queue without gaps counts upwards from its first notification.
LEMMA CountsUpwards ==
    ASSUME NEW q \in Seq(Nat), Consecutive(q), NEW k \in 1 .. Len(q)
    PROVE  q[k] = q[1] + (k - 1) /\ q[1] \in Nat /\ q[k] \in Nat
  <1>0. /\ Len(q) \in Nat /\ \A i \in 1 .. Len(q) : q[i] \in Nat
        /\ 1 \in 1 .. Len(q)
    BY LenProperties, ElementOfSeq
  <1> DEFINE Bad == {i \in 1 .. Len(q) : q[i] # q[1] + (i - 1)}
             R == OpToRel(<, Nat)
  <1>1. \A i, j \in Nat : <<i, j>> \in R <=> i < j
    BY DEF OpToRel
  <1>2. IsWellFoundedOn(R, Nat)
    BY NatLessThanWellFounded
  <1> HIDE DEF R
  <1>3. ASSUME Bad # {} PROVE FALSE
    <2>1. Bad \subseteq Nat
      OBVIOUS
    <2>2. PICK i \in Bad : \A j \in Bad : ~(<<j, i>> \in R)
      BY <1>2, <1>3, <2>1, WFMin
    <2>3. i \in 1 .. Len(q) /\ q[i] # q[1] + (i - 1)
      BY <2>2
    <2>4. i \in 2 .. Len(q)
      BY <1>0, <2>3
    <2>5. i - 1 \in 1 .. Len(q) /\ i - 1 \in Nat /\ i \in Nat /\ i - 1 < i
      BY <1>0, <2>4
    <2>6. i - 1 \notin Bad
      BY <1>1, <2>2, <2>5
    <2>7. q[i - 1] = q[1] + ((i - 1) - 1)
      BY <2>5, <2>6
    <2>8. q[i] = q[i - 1] + 1
      BY <2>4 DEF Consecutive
    <2>9. \A a \in Nat : (a + ((i - 1) - 1)) + 1 = a + (i - 1)
      BY <2>5
    <2> QED
      BY <1>0, <2>3, <2>7, <2>8, <2>9
  <1>4. k \notin Bad
    BY <1>3
  <1> QED
    BY <1>0, <1>4

\* The initial state maps to an initial state of NotificationStream.
LEMMA StreamsBegin == DInit => Stream!Init
  <1> SUFFICES ASSUME DInit PROVE Stream!Init
    OBVIOUS
  <1>1. /\ callbacks = {} /\ produced = [s \in Subs |-> [m \in Items |-> 0]]
        /\ delivered = [s \in Subs |-> [m \in Items |-> << >>]]
        /\ dropped = [s \in Subs |-> [m \in Items |-> 0]]
    BY DEF DInit, Init
  <1>2. \A k \in Subs \X Items : k[1] \in Subs /\ k[2] \in Items
    OBVIOUS
  <1> QED
    BY <1>1, <1>2 DEF Stream!Init, Wanted

LastIn(q) == IF q = << >> THEN 0 ELSE q[Len(q)]

\* Notifications of item m in the first n responses.
Gave(W, s, m, n) == UNION {ToSet(W[i].data[m]) : i \in {j \in Sent(W, s) : j <= n}}

\* How many responses the publish task has dealt with.
Handled == Len(wire) - (PublishCount(toClient) + Len(inbox))

\* The handler was last called with a notification that was sent; as long as
\* the client threw none away it was the newest.  It throws away only what
\* was produced, for an item that it does not know any more.
Handed(s, m) ==
    /\ LastIn(delivered[s][m]) \in {0} \cup Gave(wire, s, m, Handled)
    /\ dropped[s][m] = 0 => \A a \in Gave(wire, s, m, Handled) : a <= LastIn(delivered[s][m])
    /\ dropped[s][m] > 0 => produced[s][m] > 0 /\ ~Knows(s, m)

HandedInv == \A s \in Subs, m \in Items : Handed(s, m)

\* What follows notification l, where l is the last of all before response n,
\* in that response: the next ones in order, and without queue limits each.
LEMMA ResponseFollows ==
    ASSUME NEW W \in Seq(Response), NEW s, NEW m \in Items, NEW p \in Nat, NEW q \in Seq(Nat),
           Sound(W, s, m, q, p), NEW n \in Sent(W, s), n = Len(W),
           NEW l \in {0} \cup Gave(W, s, m, n - 1), \A a \in Gave(W, s, m, n - 1) : a <= l
    PROVE  LET d == W[n].data[m]
           IN /\ \A i \in 1 .. Len(d) :
                    LET before == IF i = 1 THEN l ELSE d[i - 1]
                    IN /\ before < d[i] /\ d[i] <= p
                       /\ QueueSizes = {0} => d[i] = before + 1
              /\ d # << >> => /\ d[Len(d)] \in Gave(W, s, m, n)
                              /\ \A a \in Gave(W, s, m, n) : a <= d[Len(d)]
  <1> DEFINE d == W[n].data[m]
             H == Gave(W, s, m, n - 1)
             G == Gave(W, s, m, n)
  <1>1. n \in 1 .. Len(W) /\ W[n] \in Response /\ Len(W) \in Nat
    BY ElementOfSeq, LenProperties DEF Sent
  <1>2. d \in Seq(Nat) /\ Len(d) \in Nat /\ DOMAIN d = 1 .. Len(d)
    BY <1>1, LenProperties DEF Response
  <1>3. ToSet(d) = {d[i] : i \in 1 .. Len(d)}
    BY <1>2 DEF ToSet
  <1>4. /\ Consecutive(d) /\ GoneIn(W, s, m) \subseteq 1 .. p
        /\ \A i \in Sent(W, s) : i < n => \A a \in ToSet(W[i].data[m]), b \in ToSet(d) : a < b
        /\ FollowsOn(d, GoneIn(W, s, m))
    BY DEF Sound, InOrder
  <1>5. \A i \in Sent(W, s) : i \in Nat /\ i <= n /\ (i <= n - 1 <=> i < n) /\ (i = n \/ i < n)
    BY <1>1 DEF Sent
  <1>6. G = GoneIn(W, s, m) /\ G = H \cup ToSet(d)
    <2>1. {j \in Sent(W, s) : j <= n} = Sent(W, s)
      BY <1>5
    <2>2. G = GoneIn(W, s, m)
      BY <2>1 DEF Gave, GoneIn
    <2>3. H \cup ToSet(d) \subseteq G
      BY <1>5 DEF Gave
    <2>4. G \subseteq H \cup ToSet(d)
      BY <1>5 DEF Gave
    <2> QED
      BY <2>2, <2>3, <2>4
  <1>7. \A a \in H, b \in ToSet(d) : a < b
    BY <1>4, <1>5 DEF Gave
  <1>8. \A a \in G : a \in 1 .. p /\ a \in Nat
    BY <1>4, <1>6
  <1>9. l \in Nat /\ \A b \in ToSet(d) : l < b /\ b \in 1 .. p
    BY <1>6, <1>7, <1>8
  <1> HIDE DEF d, H, G
  <1>10. \A i \in 1 .. Len(d) : d[i] = d[1] + (i - 1) /\ d[1] \in Nat /\ d[i] \in Nat
    BY <1>2, <1>4, CountsUpwards
  <1>11. ASSUME NEW i \in 1 .. Len(d)
         PROVE  LET before == IF i = 1 THEN l ELSE d[i - 1]
                IN /\ before < d[i] /\ d[i] <= p
                   /\ QueueSizes = {0} => d[i] = before + 1
    <2>1. d[i] \in ToSet(d) /\ d[i] \in 1 .. p /\ d[i] \in Nat /\ d[i] <= p /\ l < d[i]
      BY <1>3, <1>9, <1>10
    <2>2. CASE i # 1
      <3>1. i \in 2 .. Len(d) /\ i - 1 \in 1 .. Len(d)
        BY <1>2, <2>2
      <3>2. d[i] = d[i - 1] + 1 /\ d[i - 1] \in Nat
        BY <1>4, <1>10, <3>1 DEF Consecutive
      <3> QED
        BY <2>1, <2>2, <3>2
    <2>3. CASE i = 1
      <3>1. ASSUME QueueSizes = {0} PROVE d[1] = l + 1
        <4>1. CASE d[1] = 1
          BY <1>9, <2>1, <2>3, <4>1
        <4>2. CASE d[1] # 1
          <5> DEFINE b == d[1] - 1
          <5>1. b \in 1 .. p /\ b \in Nat /\ b < d[1] /\ d[1] = b + 1
            BY <2>1, <2>3, <4>2
          <5>2. d # << >>
            BY <2>3
          <5>3. b \in GoneIn(W, s, m)
            BY <1>4, <3>1, <4>2, <5>2 DEF FollowsOn
          <5> HIDE DEF b
          <5>5. b \notin ToSet(d)
            <6>1. ASSUME NEW j \in 1 .. Len(d) PROVE d[j] # b
              <7>1. d[j] = d[1] + (j - 1) /\ d[1] \in Nat /\ j - 1 \in Nat
                BY <1>10
              <7> QED
                BY <5>1, <7>1
            <6> QED
              BY <1>3, <6>1
          <5>6. b \in H
            BY <1>6, <5>3, <5>5
          <5>7. b <= l /\ l < d[1]
            BY <2>1, <2>3, <5>6 DEF H
          <5> QED
            BY <1>9, <5>1, <5>7
        <4> QED
          BY <4>1, <4>2
      <3> QED
        BY <2>1, <2>3, <3>1
    <2> QED
      BY <2>2, <2>3
  <1>12. ASSUME d # << >>
         PROVE  d[Len(d)] \in G /\ \A a \in G : a <= d[Len(d)]
    <2>1. Len(d) \in 1 .. Len(d)
      <3>1. Len(d) # 0
        BY <1>2, <1>12, EmptySeq
      <3> QED
        BY <1>2, <3>1
    <2>2. d[Len(d)] \in ToSet(d) /\ d[Len(d)] \in Nat
      BY <1>3, <1>10, <2>1
    <2>3. ASSUME NEW a \in H PROVE a <= d[Len(d)]
      <3>1. a < d[Len(d)] /\ a \in Nat
        BY <1>6, <1>7, <1>8, <2>2
      <3> QED
        BY <2>2, <3>1
    <2>4. ASSUME NEW i \in 1 .. Len(d) PROVE d[i] <= d[Len(d)]
      <3>1. /\ d[i] = d[1] + (i - 1) /\ d[Len(d)] = d[1] + (Len(d) - 1) /\ d[1] \in Nat
            /\ i \in Nat /\ i <= Len(d)
        BY <1>10, <2>1
      <3> QED
        BY <1>2, <3>1
    <2> QED
      BY <1>3, <1>6, <2>2, <2>3, <2>4
  <1> QED
    BY <1>11, <1>12 DEF d, G

\* What the server writes is not handled yet.
LEMMA GaveSame ==
    ASSUME NEW W \in Seq(Response), NEW w \in Response, NEW s, NEW m, NEW n \in Int, n <= Len(W)
    PROVE  Gave(Append(W, w), s, m, n) = Gave(W, s, m, n)
  <1> DEFINE V == Append(W, w)
  <1>1. /\ Len(W) \in Nat /\ \A i \in 1 .. Len(W) : V[i] = W[i]
        /\ \A i \in Sent(W, s) : i \in 1 .. Len(W) /\ i \in Sent(V, s)
        /\ \A i \in Sent(V, s) : i \in Sent(W, s) \/ i = Len(W) + 1
    BY WireAppend
  <1> HIDE DEF V
  <1>2. ~(Len(W) + 1 <= n)
    BY <1>1
  <1>3. {j \in Sent(V, s) : j <= n} = {j \in Sent(W, s) : j <= n}
    BY <1>1, <1>2
  <1>4. \A i \in {j \in Sent(W, s) : j <= n} : V[i] = W[i]
    BY <1>1
  <1> QED
    BY <1>3, <1>4 DEF Gave, V

\* A turn of the server changes nothing of what the client has handled.
LEMMA HandledServer ==
    ASSUME DTypeOK, DTypeOK', UNCHANGED inbox,
           \/ Wrote(toClient')
           \/ \E t : \E a \in CallAnswer : Wrote(t) /\ toClient' = Append(t, a)
    PROVE  /\ Handled' = Handled
           /\ \A s, m : Gave(wire', s, m, Handled') = Gave(wire, s, m, Handled)
  <1>0. toClient \in Seq(ClientMessage) /\ wire \in Seq(Response)
    BY DEF DTypeOK, TypeOK
  <1>1. PublishCount(toClient) \in Nat /\ Len(inbox) \in Nat /\ Len(wire) \in Nat
    BY Places
  <1>2. ASSUME NEW t, Wrote(t)
        PROVE  /\ t \in Seq(ClientMessage)
               /\ Len(wire') - PublishCount(t) = Len(wire) - PublishCount(toClient)
               /\ \A s, m : Gave(wire', s, m, Handled) = Gave(wire, s, m, Handled)
    <2>1. t \in Seq(ClientMessage)
      BY <1>0, <1>2, WroteType
    <2>2. CASE UNCHANGED wire /\ t = toClient
      BY <2>1, <2>2
    <2>3. ASSUME NEW w \in Response, wire' = Append(wire, w),
                 t = Append(toClient, PublishAnswer(w))
          PROVE  /\ Len(wire') - PublishCount(t) = Len(wire) - PublishCount(toClient)
                 /\ \A s, m : Gave(wire', s, m, Handled) = Gave(wire, s, m, Handled)
      <3>1. PublishAnswer(w) \in ClientMessage /\ One(PublishAnswer(w)) = 1
        BY MadeMessages DEF One
      <3>2. PublishCount(t) = PublishCount(toClient) + 1
        BY <1>0, <2>3, <3>1, CountAppend
      <3>3. Len(wire') = Len(wire) + 1
        BY <1>0, <2>3, AppendProperties
      <3>4. Handled \in Int /\ Handled <= Len(wire)
        BY <1>1 DEF Handled
      <3>5. \A s, m : Gave(wire', s, m, Handled) = Gave(wire, s, m, Handled)
        BY <1>0, <2>3, <3>4, GaveSame
      <3> QED
        BY <1>1, <3>2, <3>3, <3>5
    <2> QED
      BY <1>2, <2>1, <2>2, <2>3 DEF Wrote
  <1>3. Len(wire') - PublishCount(toClient') = Len(wire) - PublishCount(toClient)
    <2>1. CASE Wrote(toClient')
      BY <1>2, <2>1
    <2>2. ASSUME NEW t, NEW a \in CallAnswer, Wrote(t), toClient' = Append(t, a)
          PROVE  Len(wire') - PublishCount(toClient') = Len(wire) - PublishCount(toClient)
      <3>1. a \in ClientMessage /\ a.op # "publish"
        BY ClientMessageFields DEF ClientMessage
      <3>2. One(a) = 0 /\ t \in Seq(ClientMessage)
        BY <1>2, <2>2, <3>1 DEF One
      <3>3. PublishCount(Append(t, a)) = PublishCount(t) + 0 /\ PublishCount(t) \in Nat
        BY <3>1, <3>2, CountAppend, CountedType
      <3>4. Len(wire') - PublishCount(t) = Len(wire) - PublishCount(toClient)
        BY <1>2, <2>2
      <3> QED
        BY <2>2, <3>3, <3>4
    <2> QED
      BY <2>1, <2>2
  <1>4. PublishCount(toClient') \in Nat /\ Len(wire') \in Nat
    BY Places, CountedType, LenProperties DEF DTypeOK, TypeOK
  <1>5. Handled' = Handled
    BY <1>1, <1>3, <1>4 DEF Handled
  <1>6. \A s, m : Gave(wire', s, m, Handled) = Gave(wire, s, m, Handled)
    BY <1>2
  <1> QED
    BY <1>5, <1>6

\* A step that hands nothing to the client.
LEMMA HandedSame ==
    ASSUME DTypeOK, DTypeOK', NEW s \in Subs, NEW m \in Items, Handed(s, m),
           UNCHANGED <<delivered, dropped>>,
           Gave(wire', s, m, Handled') = Gave(wire, s, m, Handled),
           produced'[s][m] \in {produced[s][m], produced[s][m] + 1},
           Knows(s, m)' => Knows(s, m) \/ produced[s][m] = 0
    PROVE  Handed(s, m)'
  <1>1. produced[s][m] \in Nat /\ dropped[s][m] \in Nat
    BY DEF DTypeOK, TypeOK
  <1>2. dropped'[s][m] > 0 => produced'[s][m] > 0 /\ ~Knows(s, m)'
    BY <1>1 DEF Handed
  <1> QED
    BY <1>2 DEF Handed

\* One stream's part in a step.
Follows(l, d, p) ==
    \A i \in 1 .. Len(d) :
        LET before == IF i = 1 THEN l ELSE d[i - 1]
        IN /\ before < d[i] /\ d[i] <= p
           /\ QueueSizes = {0} => d[i] = before + 1

Flows(s, m) ==
    /\ \/ /\ dropped'[s][m] = dropped[s][m]
          /\ \E d \in Seq(Nat) : /\ delivered'[s][m] = delivered[s][m] \o d
                                 /\ Follows(LastIn(delivered[s][m]), d, produced[s][m])
       \/ /\ ~Knows(s, m) /\ UNCHANGED <<callbacks, monitored>>
          /\ dropped'[s][m] > dropped[s][m] /\ delivered'[s][m] = delivered[s][m]
    /\ dropped[s][m] > 0 => delivered'[s][m] = delivered[s][m]

\* A step that calls no handler delivers nothing.
LEMMA NothingFlows ==
    ASSUME DTypeOK, UNCHANGED <<delivered, dropped>>, NEW s \in Subs, NEW m \in Items
    PROVE  Flows(s, m)
  <1>1. delivered[s][m] \in Seq(Nat)
    BY DEF DTypeOK
  <1>2. delivered[s][m] \o << >> = delivered[s][m] /\ << >> \in Seq(Nat)
    BY <1>1, ConcatEmptySeq
  <1>3. Follows(LastIn(delivered[s][m]), << >>, produced[s][m])
    BY DEF Follows
  <1> QED
    BY <1>2, <1>3 DEF Flows

\* The response the publish task takes is the last the server wrote.
LEMMA NextHandled ==
    ASSUME DTypeOK, OpenInv, PublishLoop
    PROVE  /\ Head(inbox) \in Response /\ Len(wire) \in Nat
           /\ Len(wire) \in 1 .. Len(wire) /\ Head(inbox) = wire[Len(wire)]
           /\ Handled = Len(wire) - 1 /\ Handled' = Len(wire)
           /\ UNCHANGED <<vars, callbacks, monitored, wire, produced>>
  <1>1. /\ inbox # << >> /\ inbox' = Tail(inbox)
        /\ UNCHANGED <<vars, toClient, callbacks, monitored>>
    BY Zenon DEF PublishLoop
  <1>2. UNCHANGED <<wire, produced>>
    BY <1>1 DEF vars
  <1>3. inbox \in Seq(Response) /\ wire \in Seq(Response)
    BY DEF DTypeOK, TypeOK
  <1>4. 1 \in 1 .. Len(inbox) /\ Head(inbox) = inbox[1] /\ Len(inbox') = Len(inbox) - 1
    BY <1>1, <1>3, FrontOfQueue
  <1>5. Head(inbox) \in Response
    BY <1>1, <1>3, HeadTailProperties
  <1>6. Latest(wire, Head(inbox))
    BY <1>4 DEF OpenInv, Newest
  <1>7. /\ PublishCount(toServer) \in Nat /\ Len(reqs) \in Nat /\ PublishCount(toClient) \in Nat
        /\ Len(inbox) \in Nat /\ Len(wire) \in Nat
    BY Places
  <1>8. Len(wire) \in 1 .. Len(wire) /\ Head(inbox) = wire[Len(wire)]
    <2>1. Len(wire) # 0
      BY <1>3, <1>6, EmptySeq DEF Latest
    <2> QED
      BY <1>6, <1>7, <2>1 DEF Latest
  <1>9. PublishCount(toClient) + Len(inbox) = 1
    <2>1. InTransit <= 1
      BY DEF OpenInv, OneOpenRequest
    <2>2. PublishCount(toServer) + Len(reqs) + PublishCount(toClient) + Len(inbox) <= 1
      BY <2>1 DEF InTransit
    <2>3. Len(inbox) >= 1
      BY <1>4, <1>7
    <2> QED
      BY <1>7, <2>2, <2>3
  <1>10. Handled = Len(wire) - 1
    BY <1>9 DEF Handled
  <1>11. Handled' = Len(wire) - (PublishCount(toClient) + (Len(inbox) - 1))
    BY <1>1, <1>2, <1>4 DEF Handled
  <1>12. Handled' = Len(wire)
    BY <1>7, <1>9, <1>11
  <1> QED
    BY <1>1, <1>2, <1>5, <1>7, <1>8, <1>10, <1>12

\* A turn of the publish task.
LEMMA HandedLoop ==
    ASSUME DTypeOK, OpenInv, SentInvariant, HandedInv, PublishLoop, NEW s \in Subs, NEW m \in Items
    PROVE  Handed(s, m)' /\ Flows(s, m)
  <1> DEFINE w == Head(inbox)
             n == Len(wire)
             d == wire[n].data[m]
             l == LastIn(delivered[s][m])
             H == Gave(wire, s, m, n - 1)
             G == Gave(wire, s, m, n)
             p == produced[s][m]
             k == dropped[s][m]
  <1>1. /\ w \in Response /\ n \in Nat /\ n \in 1 .. n /\ w = wire[n]
        /\ Handled = n - 1 /\ Handled' = n
        /\ UNCHANGED <<vars, callbacks, monitored, wire, produced>>
    BY NextHandled
  <1>2. w.fault \/ Delivers(w)
    BY Zenon DEF PublishLoop
  <1>4. w.fault => UNCHANGED <<delivered, dropped>>
    BY Zenon DEF PublishLoop
  <1>5. /\ wire \in Seq(Response) /\ p \in Nat /\ sub[s].data[m] \in Seq(Nat)
        /\ Sound(wire, s, m, sub[s].data[m], p)
    BY FieldTypes DEF SentInvariant, SentInv, TypeOK
  <1>6. /\ delivered[s][m] \in Seq(Nat) /\ k \in Nat
        /\ delivered \in [Subs -> [Items -> Seq(Nat)]] /\ dropped \in [Subs -> [Items -> Nat]]
    BY DEF DTypeOK
  <1>7. /\ l \in {0} \cup H /\ (k = 0 => \A a \in H : a <= l)
        /\ k > 0 => p > 0 /\ ~Knows(s, m)
    BY <1>1 DEF HandedInv, Handed
  <1>8. Handed(s, m)' <=>
           /\ LastIn(delivered'[s][m]) \in {0} \cup G
           /\ dropped'[s][m] = 0 => \A a \in G : a <= LastIn(delivered'[s][m])
           /\ dropped'[s][m] > 0 => p > 0 /\ ~Knows(s, m)
    BY <1>1 DEF Handed, Knows
  <1>9. \A i \in Sent(wire, s) : i \in Nat /\ i <= n /\ (i <= n - 1 <=> i # n)
    BY <1>1 DEF Sent
  <1>10. H \subseteq G
    BY <1>9 DEF Gave
  <1>11. ASSUME n \notin Sent(wire, s) PROVE G = H
    BY <1>9, <1>11 DEF Gave
  <1>12. CASE UNCHANGED <<delivered, dropped>> /\ n \notin Sent(wire, s)
    BY <1>7, <1>8, <1>11, <1>12, NothingFlows
  <1> HIDE DEF n, w, H, G
  <1>13. CASE w.fault
    <2>1. n \notin Sent(wire, s)
      BY <1>1, <1>13 DEF Sent
    <2> QED
      BY <1>4, <1>12, <1>13, <2>1
  <1>14. CASE ~w.fault /\ w.sub # s
    <2>1. n \notin Sent(wire, s)
      BY <1>1, <1>14 DEF Sent
    <2>2. delivered'[s] = delivered[s] /\ dropped'[s] = dropped[s]
      BY <1>1, <1>2, <1>6, <1>14, DeliversType
    <2>3. G = H
      BY <1>11, <2>1
    <2>4. Handed(s, m)'
      BY <1>7, <1>8, <2>2, <2>3
    <2>5. delivered[s][m] \o << >> = delivered[s][m] /\ << >> \in Seq(Nat)
      BY <1>6, ConcatEmptySeq
    <2>6. Follows(l, << >>, p)
      BY DEF Follows
    <2> QED
      BY <2>2, <2>4, <2>5, <2>6 DEF Flows
  <1>15. CASE ~w.fault /\ w.sub = s
    <2>1. n \in Sent(wire, s)
      BY <1>1, <1>15 DEF Sent, n
    <2>2. /\ Knows(s, m) => /\ delivered'[s][m] = delivered[s][m] \o d
                            /\ dropped'[s][m] = k
          /\ ~Knows(s, m) => /\ delivered'[s][m] = delivered[s][m]
                             /\ dropped'[s][m] = k + Len(d)
      BY <1>1, <1>2, <1>6, <1>15, DeliversType
    <2>3. d \in Seq(Nat) /\ Len(d) \in Nat /\ DOMAIN d = 1 .. Len(d)
      BY <1>1, LenProperties DEF Response
    <2>4. G = H \cup ToSet(d)
      BY <1>9, <2>1 DEF Gave, G, H
    <2>5. d = << >> => ToSet(d) = {} /\ G = H
      BY <2>4 DEF ToSet
    <2>6. CASE Knows(s, m)
      <3>1. k = 0 /\ \A a \in H : a <= l
        BY <1>6, <1>7, <2>6
      <3>2. /\ Follows(l, d, p)
            /\ d # << >> => d[Len(d)] \in G /\ \A a \in G : a <= d[Len(d)]
        BY <1>5, <1>7, <2>1, <3>1, ResponseFollows DEF Follows, n, H, G
      <3>3. LastIn(delivered[s][m] \o d) = IF d = << >> THEN l ELSE d[Len(d)]
        <4>1. CASE d = << >>
          BY <1>6, <4>1, ConcatEmptySeq
        <4>2. CASE d # << >>
          <5> DEFINE e == delivered[s][m]
          <5>1. /\ Len(e \o d) = Len(e) + Len(d) /\ Len(e) \in Nat
                /\ \A i \in 1 .. Len(e) + Len(d) :
                      (e \o d)[i] = IF i <= Len(e) THEN e[i] ELSE d[i - Len(e)]
            BY <1>6, <2>3, ConcatProperties, LenProperties
          <5>2. Len(d) > 0
            BY <2>3, <4>2, EmptySeq
          <5>3. e \o d # << >>
            BY <1>6, <2>3, <4>2, ConcatEqualIffEmpty
          <5> HIDE DEF e, d
          <5>4. /\ Len(e) + Len(d) \in 1 .. Len(e) + Len(d) /\ ~(Len(e) + Len(d) <= Len(e))
                /\ (Len(e) + Len(d)) - Len(e) = Len(d)
            BY <2>3, <5>1, <5>2
          <5>5. (e \o d)[Len(e \o d)] = d[Len(d)]
            BY <5>1, <5>4
          <5> QED
            BY <4>2, <5>3, <5>5 DEF LastIn, e
        <4> QED
          BY <4>1, <4>2
      <3>4. Handed(s, m)'
        <4>1. CASE d = << >>
          BY <1>7, <1>8, <2>2, <2>5, <2>6, <3>1, <3>3, <4>1
        <4>2. CASE d # << >>
          <5>1. LastIn(delivered'[s][m]) = d[Len(d)] /\ dropped'[s][m] = 0
            BY <2>2, <2>6, <3>1, <3>3, <4>2
          <5> HIDE DEF d, l, p, k
          <5> QED
            BY <1>8, <3>2, <4>2, <5>1
        <4> QED
          BY <4>1, <4>2
      <3>5. Flows(s, m)
        <4>1. \E e \in Seq(Nat) : delivered'[s][m] = delivered[s][m] \o e /\ Follows(l, e, p)
          BY <2>2, <2>3, <2>6, <3>2
        <4>2. dropped'[s][m] = dropped[s][m] /\ ~(dropped[s][m] > 0)
          BY <2>2, <2>6, <3>1
        <4> QED
          BY <4>1, <4>2 DEF Flows
      <3> QED
        BY <3>4, <3>5
    <2>7. CASE ~Knows(s, m) /\ d = << >>
      <3>1. dropped'[s][m] = k /\ delivered'[s][m] = delivered[s][m]
        BY <1>6, <2>2, <2>7
      <3>2. Handed(s, m)'
        BY <1>7, <1>8, <2>5, <2>7, <3>1
      <3>3. delivered[s][m] \o << >> = delivered[s][m] /\ << >> \in Seq(Nat)
        BY <1>6, ConcatEmptySeq
      <3>4. Follows(l, << >>, p)
        BY DEF Follows
      <3> QED
        BY <3>1, <3>2, <3>3, <3>4 DEF Flows
    <2>8. CASE ~Knows(s, m) /\ d # << >>
      <3>1. Len(d) > 0
        BY <2>3, <2>8, EmptySeq
      <3>2. dropped'[s][m] = k + Len(d) /\ delivered'[s][m] = delivered[s][m]
        BY <2>2, <2>8
      <3>3. dropped'[s][m] > k /\ dropped'[s][m] > 0
        BY <1>6, <2>3, <3>1, <3>2
      <3>4. p > 0
        <4>1. d[1] \in ToSet(d)
          BY <2>3, <3>1 DEF ToSet
        <4>2. d[1] \in GoneIn(wire, s, m)
          BY <2>1, <4>1 DEF GoneIn
        <4>3. d[1] \in 1 .. p
          BY <1>5, <4>2 DEF Sound
        <4> QED
          BY <1>5, <4>3
      <3>5. Handed(s, m)'
        BY <1>7, <1>8, <1>10, <2>8, <3>2, <3>3, <3>4
      <3> QED
        BY <1>1, <2>8, <3>2, <3>3, <3>5 DEF Flows
    <2> QED
      BY <2>6, <2>7, <2>8
  <1> QED
    BY <1>13, <1>14, <1>15

\* Every step keeps HandedInv, and moves a stream as NotificationStream allows.
LEMMA HandedStep ==
    ASSUME DTypeOK, OpenInv, FreshInv, SentInvariant, HandedInv, [DNext]_dVars,
           NEW s \in Subs, NEW m \in Items
    PROVE  /\ Handed(s, m)' /\ Flows(s, m)
           /\ produced'[s][m] \in {produced[s][m], produced[s][m] + 1}
  <1>1. [Next]_vars /\ DTypeOK'
    BY ServerStep, DTypeStep
  <1>2. produced'[s][m] \in {produced[s][m], produced[s][m] + 1}
    <2>1. Story(s)
      BY <1>1, StoryStep DEF SentInvariant
    <2>2. \/ produced'[s] = produced[s]
          \/ \E i \in Items : produced'[s] = [produced[s] EXCEPT ![i] = produced[s][i] + 1]
      BY <2>1, Zenon DEF Story, Prepared
    <2>3. produced[s] \in [Items -> Nat]
      BY DEF DTypeOK, TypeOK
    <2> QED
      BY <2>2, <2>3
  <1>3. Handed(s, m)
    BY DEF HandedInv
  <1>4. ASSUME UNCHANGED <<delivered, dropped>>, Handled' = Handled,
               Gave(wire', s, m, Handled') = Gave(wire, s, m, Handled),
               Knows(s, m)' => Knows(s, m) \/ produced[s][m] = 0
        PROVE  Handed(s, m)' /\ Flows(s, m)
    BY <1>1, <1>2, <1>3, <1>4, HandedSame, NothingFlows
  <1>5. ASSUME UNCHANGED <<vars, toClient, inbox, delivered, dropped>>,
               Knows(s, m)' => Knows(s, m) \/ produced[s][m] = 0
        PROVE  Handed(s, m)' /\ Flows(s, m)
    <2>1. UNCHANGED wire
      BY <1>5 DEF vars
    <2>2. Handled' = Handled
      BY <1>5, <2>1 DEF Handled
    <2> QED
      BY <1>4, <1>5, <2>1, <2>2
  <1>6. ASSUME (\E t \in Subs : Cycle(t)) \/ (\E t \in Subs, i \in Items : Change(t, i)) \/ Serve
        PROVE  Handed(s, m)' /\ Flows(s, m)
    <2>1. /\ UNCHANGED <<callbacks, monitored, inbox, delivered, dropped>>
          /\ \/ Wrote(toClient')
             \/ \E t : \E a \in CallAnswer : Wrote(t) /\ toClient' = Append(t, a)
      BY <1>6, ServerQueues, Zenon
    <2>2. Handled' = Handled /\ Gave(wire', s, m, Handled') = Gave(wire, s, m, Handled)
      BY <1>1, <2>1, HandledServer
    <2>3. Knows(s, m)' => Knows(s, m)
      BY <2>1 DEF Knows
    <2> QED
      BY <1>4, <2>1, <2>2, <2>3
  <1>7. ASSUME NEW c, Sends(c)
        PROVE  UNCHANGED <<vars, toClient, inbox, delivered, dropped, callbacks>>
    BY <1>7, Zenon DEF Sends
  <1>8. ASSUME Create \/ (\E t \in Subs : Delete(t)) \/ (\E t \in Subs, i \in Items : Unsubscribe(t, i))
        PROVE  Handed(s, m)' /\ Flows(s, m)
    <2>1. UNCHANGED <<vars, toClient, inbox, delivered, dropped, callbacks>> /\ UNCHANGED monitored
      BY <1>7, <1>8, Zenon DEF Create, Delete, Unsubscribe
    <2>2. Knows(s, m)' => Knows(s, m)
      BY <2>1 DEF Knows
    <2> QED
      BY <1>5, <2>1, <2>2
  <1>9. ASSUME NEW t \in Subs, NEW i \in Items, Subscribe(t, i)
        PROVE  Handed(s, m)' /\ Flows(s, m)
    <2>1. produced[t][i] = 0 /\ monitored' = [monitored EXCEPT ![t] = monitored[t] \cup {i}]
      BY <1>9 DEF Subscribe
    <2>2. UNCHANGED <<vars, toClient, inbox, delivered, dropped, callbacks>>
      BY <1>7, <1>9, Zenon DEF Subscribe
    <2>3. m \in monitored'[s] => m \in monitored[s] \/ produced[s][m] = 0
      BY <2>1 DEF DTypeOK
    <2>4. Knows(s, m)' => Knows(s, m) \/ produced[s][m] = 0
      BY <2>2, <2>3 DEF Knows
    <2> QED
      BY <1>5, <2>2, <2>4
  <1>10. ASSUME Receive
        PROVE  Handed(s, m)' /\ Flows(s, m)
    <2> DEFINE a == Head(toClient)
    <2>1. /\ toClient # << >> /\ toClient' = Tail(toClient)
          /\ UNCHANGED <<vars, callbacks, monitored, delivered, dropped>>
          /\ \/ a.op = "publish" /\ inbox' = Append(inbox, a.msg)
             \/ a.op # "publish" /\ inbox' = inbox
      BY <1>10, Zenon DEF Receive
    <2>2. UNCHANGED wire
      BY <2>1 DEF vars
    <2>3. /\ toClient \in Seq(ClientMessage) /\ a \in ClientMessage /\ inbox \in Seq(Response)
          /\ toClient' \in Seq(ClientMessage)
      BY <2>1, HeadTailProperties DEF DTypeOK
    <2>4. PublishCount(toClient) = PublishCount(Tail(toClient)) + One(a)
      BY <2>1, <2>3, CountTail
    <2>5. PublishCount(Tail(toClient)) \in Nat /\ Len(inbox) \in Nat /\ Len(wire) \in Nat
      BY <2>1, <2>3, CountedType, Places
    <2>6. Len(inbox') = Len(inbox) + One(a)
      <3>1. CASE a.op = "publish"
        <4>1. a.msg \in Response
          BY <2>3, <3>1, ClientMessageFields
        <4>2. inbox' = Append(inbox, a.msg) /\ One(a) = 1
          BY <2>1, <3>1 DEF One
        <4>3. Len(Append(inbox, a.msg)) = Len(inbox) + 1
          BY <2>3, <4>1, AppendProperties
        <4> QED
          BY <4>2, <4>3
      <3>2. CASE a.op # "publish"
        <4>1. inbox' = inbox /\ One(a) = 0
          BY <2>1, <3>2 DEF One
        <4> QED
          BY <2>5, <4>1
      <3> QED
        BY <3>1, <3>2
    <2>7. One(a) \in Nat
      BY DEF One
    <2> HIDE DEF a
    <2>8. PublishCount(toClient') + Len(inbox') = PublishCount(toClient) + Len(inbox)
      BY <2>1, <2>4, <2>5, <2>6, <2>7
    <2>9. Handled' = Handled
      BY <2>2, <2>8 DEF Handled
    <2>10. Knows(s, m)' => Knows(s, m)
      BY <2>1 DEF Knows
    <2> QED
      BY <1>4, <2>1, <2>2, <2>9, <2>10
  <1>11. ASSUME NEW a \in answers, Resume(a)
         PROVE  Handed(s, m)' /\ Flows(s, m)
    <2>1. UNCHANGED <<vars, toClient, inbox, delivered, dropped>>
      BY <1>11, Zenon DEF Resume, Created, Subscribed, Unsubscribed, Deleted, Resumes
    <2>2. monitored \in [Subs -> SUBSET Items] /\ a.id \in Subs
      BY AnswerFields DEF DTypeOK
    <2>3. Knows(s, m)' => Knows(s, m)
      <3>1. CASE Created(a)
        <4>1. a.op = "create" /\ callbacks' = callbacks \cup {a.id} /\ UNCHANGED monitored
          BY <3>1, Zenon DEF Created
        <4>2. s = a.id => Announcing(s)
          BY <4>1 DEF Announcing, Resolved, Announces
        <4>3. s = a.id => monitored[s] = {}
          BY <4>2 DEF FreshInv, Fresh, Unknown
        <4> QED
          BY <4>1, <4>3 DEF Knows
      <3>2. CASE Subscribed(a)
        <4>1. /\ monitored' = [monitored EXCEPT
                    ![a.id] = IF a.good THEN monitored[a.id] ELSE monitored[a.id] \ a.call.items]
              /\ UNCHANGED callbacks
          BY <3>2 DEF Subscribed
        <4> QED
          BY <2>2, <4>1 DEF Knows
      <3>3. CASE Unsubscribed(a)
        <4>1. /\ monitored' = [monitored EXCEPT
                    ![a.id] = IF a.good THEN monitored[a.id] \ a.call.items ELSE monitored[a.id]]
              /\ UNCHANGED callbacks
          BY <3>3 DEF Unsubscribed
        <4> QED
          BY <2>2, <4>1 DEF Knows
      <3>4. CASE Deleted(a)
        <4>1. callbacks' = callbacks \ {a.id} /\ UNCHANGED monitored
          BY <3>4, Zenon DEF Deleted
        <4> QED
          BY <4>1 DEF Knows
      <3> QED
        BY <1>11, <3>1, <3>2, <3>3, <3>4, Zenon DEF Resume
    <2> QED
      BY <1>5, <2>1, <2>3
  <1>12. ASSUME UNCHANGED dVars
        PROVE  Handed(s, m)' /\ Flows(s, m)
    <2>1. UNCHANGED <<vars, toClient, inbox, delivered, dropped, callbacks, monitored>>
      BY <1>12 DEF dVars, clientVars
    <2>2. Knows(s, m)' => Knows(s, m)
      BY <2>1 DEF Knows
    <2> QED
      BY <1>5, <2>1, <2>2
  <1>13. PublishLoop => Handed(s, m)' /\ Flows(s, m)
    BY HandedLoop
  <1>14. Handed(s, m)' /\ Flows(s, m)
    BY <1>6, <1>8, <1>9, <1>10, <1>11, <1>12, <1>13, Zenon DEF DNext
  <1> QED
    BY <1>2, <1>14

\* Every step of the composition is a step of the streams.
LEMMA StreamsFlow ==
    ASSUME DTypeOK, DTypeOK', OpenInv, FreshInv, SentInvariant, HandedInv, [DNext]_dVars
    PROVE  Stream!Next
  <1> SUFFICES ASSUME NEW k \in Subs \X Items PROVE Stream!Step(k)
    BY DEF Stream!Next
  <1>0. PICK s \in Subs, m \in Items : k = <<s, m>> /\ k[1] = s /\ k[2] = m
    OBVIOUS
  <1> DEFINE old == delivered[s][m]
             new == delivered'[s][m]
             p == produced[s][m]
  <1>1. /\ Handed(s, m)' /\ Flows(s, m)
        /\ produced'[s][m] \in {p, p + 1}
    BY HandedStep
  <1>2. old \in Seq(Nat) /\ new \in Seq(Nat) /\ Len(old) \in Nat /\ dropped'[s][m] \in Nat
    BY LenProperties DEF DTypeOK
  <1>3. /\ Wanted(s, m) \in BOOLEAN /\ Wanted(s, m)' \in BOOLEAN
        /\ Wanted(s, m) => Knows(s, m)
        /\ Wanted(s, m)' => Knows(s, m)'
    BY DEF Wanted, Knows
  <1>4. Wanted(s, m)' => dropped'[s][m] = 0
    BY <1>1, <1>2, <1>3 DEF Handed
  <1>5. ASSUME NEW d \in Seq(Nat), new = old \o d, Follows(LastIn(old), d, p)
        PROVE  /\ Len(new) >= Len(old) /\ SubSeq(new, 1, Len(old)) = old
               /\ SubSeq(new, Len(old) + 1, Len(new)) = d
    <2>1. Len(new) = Len(old) + Len(d) /\ Len(d) \in Nat
      BY <1>2, <1>5, ConcatProperties, LenProperties
    <2>2. SubSeq(new, 1, Len(old)) = old
      <3>1. CASE Len(old) = 0
        <4>1. SubSeq(new, 1, 0) = << >>
          BY SubSeqEmpty
        <4> QED
          BY <1>2, <3>1, <4>1, EmptySeq
      <3>2. CASE Len(old) # 0
        <4>1. 1 \in 1 .. Len(old) /\ Len(old) \in 1 .. Len(old)
          BY <1>2, <3>2
        <4>2. SubSeq(old \o d, 1, Len(old)) = SubSeq(old, 1, Len(old))
          BY <1>2, <4>1, SubSeqOfConcat1
        <4> QED
          BY <1>2, <1>5, <4>2, SubSeqFull
      <3> QED
        BY <3>1, <3>2
    <2>3. SubSeq(new, Len(old) + 1, Len(new)) = d
      <3>1. CASE Len(d) = 0
        <4>1. SubSeq(new, Len(old) + 1, Len(new)) = << >>
          BY <1>2, <2>1, <3>1, SubSeqEmpty
        <4> QED
          BY <3>1, <4>1, EmptySeq
      <3>2. CASE Len(d) # 0
        <4>1. /\ Len(old) + 1 \in Len(old) + 1 .. Len(old) + Len(d)
              /\ Len(old) + Len(d) \in Len(old) + 1 .. Len(old) + Len(d)
              /\ (Len(old) + 1) - Len(old) = 1 /\ (Len(old) + Len(d)) - Len(old) = Len(d)
          BY <1>2, <2>1, <3>2
        <4> HIDE DEF old, new
        <4>2. SubSeq(old \o d, Len(old) + 1, Len(old) + Len(d))
                 = SubSeq(d, (Len(old) + 1) - Len(old), (Len(old) + Len(d)) - Len(old))
          BY <1>2, <4>1, SubSeqOfConcat2
        <4>3. SubSeq(d, 1, Len(d)) = d
          BY SubSeqFull
        <4> QED
          BY <1>5, <2>1, <4>1, <4>2, <4>3
      <3> QED
        BY <3>1, <3>2
    <2>4. Len(new) >= Len(old)
      BY <1>2, <2>1
    <2> QED
      BY <2>2, <2>3, <2>4
  <1>6. ASSUME NEW d \in Seq(Nat), Follows(LastIn(old), d, p)
        PROVE  Stream!Continues(old, d, p)
    <2>1. DOMAIN d = 1 .. Len(d)
      BY LenProperties
    <2> QED
      BY <1>6, <2>1 DEF Stream!Continues, Stream!LastOf, Follows, LastIn
  <1> HIDE DEF old, new, p
  <1>7. \/ /\ dropped'[s][m] = dropped[s][m]
           /\ Len(new) >= Len(old) /\ SubSeq(new, 1, Len(old)) = old
           /\ Stream!Continues(old, SubSeq(new, Len(old) + 1, Len(new)), p)
        \/ /\ ~Wanted(s, m) /\ ~Wanted(s, m)'
           /\ dropped'[s][m] > dropped[s][m] /\ new = old
    <2>1. CASE /\ dropped'[s][m] = dropped[s][m]
               /\ \E d \in Seq(Nat) : new = old \o d /\ Follows(LastIn(old), d, p)
      <3>1. PICK d \in Seq(Nat) : new = old \o d /\ Follows(LastIn(old), d, p)
        BY <2>1
      <3>2. /\ Len(new) >= Len(old) /\ SubSeq(new, 1, Len(old)) = old
            /\ SubSeq(new, Len(old) + 1, Len(new)) = d
        BY <1>5, <3>1
      <3>3. Stream!Continues(old, d, p)
        BY <1>6, <3>1
      <3> QED
        BY <2>1, <3>2, <3>3
    <2>2. CASE /\ ~Knows(s, m) /\ UNCHANGED <<callbacks, monitored>>
               /\ dropped'[s][m] > dropped[s][m] /\ new = old
      <3>1. ~Knows(s, m)'
        BY <2>2 DEF Knows
      <3> QED
        BY <1>3, <2>2, <3>1
    <2> QED
      BY <1>1, <2>1, <2>2 DEF Flows, old, new, p
  <1>8. dropped[s][m] > 0 => new = old
    BY <1>1 DEF Flows, old, new
  <1> QED
    BY <1>0, <1>1, <1>3, <1>4, <1>7, <1>8 DEF Stream!Step, old, new, p

\* The initial state has HandedInv.
LEMMA HandedInit == DInit => HandedInv
  <1> SUFFICES ASSUME DInit, NEW s \in Subs, NEW m \in Items
               PROVE  Handed(s, m)
    BY DEF HandedInv
  <1>1. wire = << >> /\ delivered[s][m] = << >> /\ dropped[s][m] = 0
    BY DEF DInit, Init
  <1>2. LastIn(delivered[s][m]) = 0
    BY <1>1 DEF LastIn
  <1>3. Sent(wire, s) = {}
    BY <1>1 DEF Sent
  <1>4. Gave(wire, s, m, Handled) = {}
    BY <1>3 DEF Gave
  <1> QED
    BY <1>1, <1>2, <1>4 DEF Handed

\* The handlers of the client get, of every item of every subscription, what
\* the server's monitored item produced, in order and nothing twice, and all
\* of it where the queues are unlimited and the user does not unsubscribe:
\* from enqueue_event of the server to call_datachange of the client the
\* composition implements the abstract stream, whatever the interleaving of
\* publishing cycles, publish requests, answers and user calls.
THEOREM StreamsAreKept == DSpec => StreamsKeepPromise
  <1> DEFINE AllInv == DTypeOK /\ OpenInv /\ FreshInv /\ SentInvariant /\ HandedInv
  <1>1. DInit => AllInv
    <2>1. DInit => SentInvariant
      BY SentInit DEF DInit
    <2> QED
      BY <2>1, DTypeInit, OpenInit, FreshInit, HandedInit
  <1>2. AllInv /\ [DNext]_dVars => AllInv'
    <2> SUFFICES ASSUME AllInv, [DNext]_dVars
                 PROVE  AllInv'
      OBVIOUS
    <2>1. DTypeOK' /\ [Next]_vars
      BY DTypeStep, ServerStep
    <2>2. SentInvariant'
      BY <2>1, SentNext
    <2>3. HandedInv'
      BY HandedStep DEF HandedInv
    <2> QED
      BY <2>1, <2>2, <2>3, OpenStep, FreshStep
  <1>3. AllInv /\ AllInv' /\ [DNext]_dVars => Stream!Next
    BY StreamsFlow
  <1> QED
    BY <1>1, <1>2, <1>3, StreamsBegin, PTL DEF DSpec, StreamsKeepPromise, Stream!Spec

=============================================================================
