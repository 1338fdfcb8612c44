--------------------------- MODULE ClientConnection ---------------------------
(***************************************************************************)
(* The client's side of a connection: Client.connect and disconnect, the   *)
(* three background tasks (watchdog, channel renewal, publish loop), the   *)
(* requests that tasks of the user make, and UASocketProtocol with the     *)
(* futures of the requests that are open.                                  *)
(*                                                                         *)
(* A request is known by the task that made it: each task waits for one    *)
(* answer at a time.  The user connects again only after a disconnect or   *)
(* a connect that failed.                                                  *)
(***************************************************************************)
EXTENDS FiniteSets

Background == {"monitor", "renew", "publish"}

\* Those that wait for their answers without a limit: publish() has timeout 0.
Tasks == {"main", "user", "subscriber"} \cup Background
Timed == Tasks \ {"publish"}

VARIABLES
    phase,     \* where connect() or disconnect() is; "off" and "on" between
    conn,      \* uaclient.protocol: none, or the state of its transport
    closed,    \* UASocketProtocol.closed, also UaClient._closing
    hook,      \* pre_request_hook is check_connection, not None
    bg,        \* bg[t]: the background task t
    renewing,  \* what _renew_channel_loop is at
    wait,      \* tasks that await a future
    inflight   \* requests the server may still answer, with the state of
               \* their future; "gone" when it is not in _callbackmap

vars == <<phase, conn, closed, hook, bg, renewing, wait, inflight>>

Connecting == {"hello", "channel", "create", "activate"}
Closing == {"cancelMonitor", "cancelRenew", "closeSession"}
Phases == {"off", "on"} \cup Connecting \cup Closing

\* A request of t that is open; those that nobody waits for any more.
Open(t) == [by |-> t, fut |-> "pending"]
Late(fut) == [by |-> "nobody", fut |-> fut]

Init ==
    /\ phase = "off" /\ conn = "none" /\ closed = FALSE /\ hook = TRUE
    /\ bg = [t \in Background |-> "none"] /\ renewing = "sleep"
    /\ wait = {} /\ inflight = {}

-----------------------------------------------------------------------------
(* Requests.                                                               *)

\* check_connection raises the exception of a task that is done.
HookRaises == hook /\ \E t \in Background : bg[t] \in {"failed", "cancelled"}

\* _send_request: what is written to a closed transport is lost.
Sends(t) ==
    /\ wait' = wait \cup {t}
    /\ inflight' = IF conn = "open" THEN inflight \cup {Open(t)} ELSE inflight

\* Mutation of Abandoned: a request that has timed out leaves the map.
Abandoned_LeavesMap(ts) ==
    {IF r \in {Open(t) : t \in ts} THEN Late("gone") ELSE r : r \in inflight}

\* wait_for or a cancelled task cancels the future, which stays in the map.
Abandoned(ts) ==
    {IF r \in {Open(t) : t \in ts} THEN Late("cancelled") ELSE r :
        r \in inflight}

\* Task t leaves its request without an answer.
GivesUp(t) ==
    /\ wait' = wait \ {t}
    /\ inflight' = Abandoned({t})

\* _call_callback for an answer nobody waits for: a done future is no harm,
\* an unknown id raises UaError and the connection is closed.  The element
\* of inflight may stand for several requests.
LateAnswer ==
    /\ conn = "open"
    /\ \E r \in inflight :
          /\ r.fut # "pending"
          /\ inflight' \in {inflight, inflight \ {r}}
          /\ conn' = IF r.fut = "gone" THEN "closing" ELSE conn
    /\ UNCHANGED <<phase, closed, hook, bg, renewing, wait>>

\* The answer for task t is there, and t goes on.
Gets(t) ==
    /\ conn = "open" /\ Open(t) \in inflight /\ t \in wait
    /\ wait' = wait \ {t}
    /\ inflight' = inflight \ {Open(t)}

\* An ErrorMessage of the server makes the client close the socket.
ReceiveError ==
    /\ conn = "open"
    /\ conn' = "closing"
    /\ UNCHANGED <<phase, closed, hook, bg, renewing, wait, inflight>>

\* connection_lost: no future is resolved or cancelled.
ConnectionLost ==
    /\ conn \in {"open", "closing"}
    /\ conn' = "closed"
    /\ inflight' = {}
    /\ UNCHANGED <<phase, closed, hook, bg, renewing, wait>>

-----------------------------------------------------------------------------
(* The user's requests.                                                    *)

Using == phase = "on" \/ phase \in Closing

\* Any request; without a protocol it raises at once.
Request(t) ==
    /\ Using /\ conn # "none" /\ t \notin wait /\ ~HookRaises
    /\ Sends(t)
    /\ UNCHANGED <<phase, conn, closed, hook, bg, renewing>>

\* Its answer.
UserAnswered ==
    /\ Gets("user")
    /\ UNCHANGED <<phase, conn, closed, hook, bg, renewing>>

\* create_subscription after its answer: good starts the publish task if
\* there is none or it is done.
SubscriberAnswered(good) ==
    /\ Gets("subscriber")
    /\ bg' = IF good /\ bg["publish"] \notin {"active", "cancelling"}
             THEN [bg EXCEPT !["publish"] = "active"] ELSE bg
    /\ UNCHANGED <<phase, conn, closed, hook, renewing>>

\* Mutation of UserTimeout: there is a limit only while connected.
UserTimeout_WhileOpen(t) ==
    /\ t \in {"user", "subscriber"} /\ t \in wait /\ conn = "open"
    /\ GivesUp(t)
    /\ UNCHANGED <<phase, conn, closed, hook, bg, renewing>>

\* wait_for raises; the caller sees a ConnectionError if the state is CLOSED.
UserTimeout(t) ==
    /\ t \in {"user", "subscriber"} /\ t \in wait
    /\ GivesUp(t)
    /\ UNCHANGED <<phase, conn, closed, hook, bg, renewing>>

-----------------------------------------------------------------------------
(* Background tasks.                                                       *)

Idle(t) == bg[t] = "active" /\ t \notin wait

\* Task t ends: with an exception, or because _closing is set.
Ends(t, how) == bg' = [bg EXCEPT ![t] = how]

\* Mutation of PublishTurn: _closing is not looked at.
PublishTurn_Forever ==
    /\ Idle("publish")
    /\ Sends("publish")
    /\ UNCHANGED <<phase, conn, closed, hook, bg, renewing>>

\* A turn of _publish_loop up to its request.
PublishTurn ==
    /\ Idle("publish")
    /\ \/ /\ closed
          /\ Ends("publish", "ended")
          /\ UNCHANGED <<wait, inflight>>
       \/ /\ ~closed /\ ~HookRaises
          /\ Sends("publish")
          /\ UNCHANGED bg
       \/ /\ ~closed /\ HookRaises
          /\ Ends("publish", "failed")
          /\ UNCHANGED <<wait, inflight>>
    /\ UNCHANGED <<phase, conn, closed, hook, renewing>>

PublishAnswered(good) ==
    /\ bg["publish"] = "active"
    /\ Gets("publish")
    /\ Ends("publish", IF good THEN "active" ELSE "failed")
    /\ UNCHANGED <<phase, conn, closed, hook, renewing>>

\* _monitor_server_loop: after its sleep it reads the state of the server.
MonitorTurn ==
    /\ Idle("monitor")
    /\ \/ /\ ~HookRaises
          /\ Sends("monitor")
          /\ UNCHANGED bg
       \/ /\ HookRaises
          /\ Ends("monitor", "failed")
          /\ UNCHANGED <<wait, inflight>>
    /\ UNCHANGED <<phase, conn, closed, hook, renewing>>

\* Whatever goes wrong, it informs the subscriptions and ends.
MonitorAnswered(good) ==
    /\ bg["monitor"] = "active"
    /\ Gets("monitor")
    /\ Ends("monitor", IF good THEN "active" ELSE "failed")
    /\ UNCHANGED <<phase, conn, closed, hook, renewing>>

\* Mutation of MonitorTimeout: a timeout is only logged while connected.
MonitorTimeout_Logged ==
    /\ bg["monitor"] = "active" /\ "monitor" \in wait
    /\ GivesUp("monitor")
    /\ UNCHANGED <<phase, conn, closed, hook, bg, renewing>>

MonitorTimeout ==
    /\ bg["monitor"] = "active" /\ "monitor" \in wait
    /\ GivesUp("monitor")
    /\ Ends("monitor", "failed")
    /\ UNCHANGED <<phase, conn, closed, hook, renewing>>

\* _renew_channel_loop: after its sleep it renews the channel (no hook), then
\* reads the state of the server.
RenewTurn ==
    /\ Idle("renew")
    /\ \/ /\ renewing = "sleep"
          /\ Sends("renew")
          /\ renewing' = "opening"
          /\ UNCHANGED bg
       \/ /\ renewing = "opened" /\ ~HookRaises
          /\ Sends("renew")
          /\ renewing' = "reading"
          /\ UNCHANGED bg
       \/ /\ renewing = "opened" /\ HookRaises
          /\ Ends("renew", "failed")
          /\ UNCHANGED <<wait, inflight, renewing>>
    /\ UNCHANGED <<phase, conn, closed, hook>>

RenewAnswered(good) ==
    /\ bg["renew"] = "active"
    /\ Gets("renew")
    /\ renewing' = IF renewing = "opening" THEN "opened" ELSE "sleep"
    /\ Ends("renew", IF ~good THEN "failed"
                     ELSE IF renewing = "reading" /\ phase \in Closing
                     THEN "ended" ELSE "active")
    /\ UNCHANGED <<phase, conn, closed, hook>>

RenewTimeout ==
    /\ bg["renew"] = "active" /\ "renew" \in wait
    /\ GivesUp("renew")
    /\ Ends("renew", "failed")
    /\ UNCHANGED <<phase, conn, closed, hook, renewing>>

\* The turn of the event loop in which a cancelled task ends.
CancelledEnds(t) ==
    /\ bg[t] = "cancelling"
    /\ Ends(t, "cancelled")
    /\ UNCHANGED <<phase, conn, closed, hook, renewing, wait, inflight>>

-----------------------------------------------------------------------------
(* connect() and disconnect().                                             *)

\* disconnect_socket keeps a protocol whose connection is already closed.
Disconnected ==
    /\ conn' = IF conn = "closed" THEN conn ELSE "none"
    /\ inflight' = {}
    /\ phase' = "off"

\* Tasks that are ready run before the user connects again.
Settled == ~Idle("publish") /\ \A t \in Background : bg[t] # "cancelling"

\* connect_socket, with a new protocol, and hello.  When the socket cannot be
\* connected nothing has changed.
Connect ==
    /\ phase = "off" /\ Settled
    /\ phase' = "hello"
    /\ conn' = "open"
    /\ closed' = FALSE
    /\ wait' = wait \cup {"main"}
    /\ inflight' = {Open("main")}
    /\ UNCHANGED <<hook, bg, renewing>>

\* hello, channel and session: an answer is followed by the next request,
\* which takes its place.  create_session starts the watchdog and the renewal.
HandshakeAnswered ==
    /\ conn = "open" /\ Open("main") \in inflight
    /\ \/ /\ phase = "hello" /\ phase' = "channel"
          /\ UNCHANGED <<bg, renewing>>
       \/ /\ phase = "channel" /\ phase' = "create"
          /\ UNCHANGED <<bg, renewing>>
       \/ /\ phase = "create" /\ phase' = "activate"
          /\ bg' = [bg EXCEPT !["monitor"] = "active", !["renew"] = "active"]
          /\ renewing' = "sleep"
    /\ UNCHANGED <<conn, closed, hook, wait, inflight>>

ActivateAnswered ==
    /\ phase = "activate"
    /\ Gets("main")
    /\ phase' = "on"
    /\ UNCHANGED <<conn, closed, hook, bg, renewing>>

\* A bad answer or none, before there is a session: connect() cleans up.
HandshakeFails ==
    /\ phase \in {"hello", "channel", "create"}
    /\ Disconnected
    /\ wait' = wait \ {"main"}
    /\ UNCHANGED <<closed, hook, bg, renewing>>

\* Task.cancel() of t reaches its future at once; t itself ends later.
Cancel(t) ==
    bg' = IF bg[t] = "active" THEN [bg EXCEPT ![t] = "cancelling"] ELSE bg

\* Client.close_session, from disconnect() or because activate_session was
\* refused or not answered, waits for the watchdog it cancels,
CancelMonitor ==
    /\ phase \in {"on", "activate"}
    /\ phase' = "cancelMonitor"
    /\ Cancel("monitor")
    /\ wait' = wait \ {"main", "monitor"}
    /\ inflight' \in {Abandoned({"main", "monitor"}),
                      Abandoned({"monitor"}) \ {Open("main")}}
    /\ UNCHANGED <<conn, closed, hook, renewing>>

\* then takes away the hook and waits for the renewal,
CancelRenew ==
    /\ phase = "cancelMonitor" /\ bg["monitor"] # "cancelling"
    /\ phase' = "cancelRenew"
    /\ hook' = FALSE
    /\ Cancel("renew")
    /\ GivesUp("renew")
    /\ UNCHANGED <<conn, closed, renewing>>

\* then UaClient.close_session cancels the publish task, without waiting for
\* it, and sends the request if the connection is not closed.
CloseSession ==
    /\ phase = "cancelRenew" /\ bg["renew"] # "cancelling"
    /\ closed' = TRUE
    /\ Cancel("publish")
    /\ \/ /\ conn = "closed"
          /\ Disconnected
          /\ wait' = wait \ {"publish"}
       \/ /\ conn # "closed"
          /\ phase' = "closeSession"
          /\ wait' = (wait \ {"publish"}) \cup {"main"}
          /\ inflight' = Abandoned({"publish"}) \cup
                (IF conn = "open" THEN {Open("main")} ELSE {})
          /\ UNCHANGED conn
    /\ UNCHANGED <<hook, renewing>>

\* Answered or not, the socket is closed.  After an answer
\* close_secure_channel has emptied the map before.
Off ==
    /\ phase = "closeSession"
    /\ Disconnected
    /\ wait' = wait \ {"main"}
    /\ UNCHANGED <<closed, hook, bg, renewing>>

-----------------------------------------------------------------------------

Main == \/ HandshakeAnswered \/ ActivateAnswered
        \/ HandshakeFails \/ CancelRenew \/ CloseSession \/ Off

Monitor == \/ MonitorTurn \/ MonitorTimeout
           \/ \E good \in BOOLEAN : MonitorAnswered(good)

Renew == \/ RenewTurn \/ RenewTimeout
         \/ \E good \in BOOLEAN : RenewAnswered(good)

Next ==
    \/ Connect \/ CancelMonitor \/ Main
    \/ \E t \in {"user", "subscriber"} : Request(t) \/ UserTimeout(t)
    \/ UserAnswered
    \/ \E good \in BOOLEAN : SubscriberAnswered(good) \/ PublishAnswered(good)
    \/ PublishTurn \/ Monitor \/ Renew
    \/ \E t \in Background : CancelledEnds(t)
    \/ LateAnswer \/ ReceiveError \/ ConnectionLost

Spec == Init /\ [][Next]_vars

\* Timers fire and tasks that can run do.  The server may answer or not, and
\* the user may connect, call and disconnect or not.
Fairness ==
    /\ WF_vars(Main) /\ WF_vars(Monitor) /\ WF_vars(Renew)
    /\ WF_vars(PublishTurn)
    /\ WF_vars(phase = "activate" /\ CancelMonitor)
    /\ WF_vars(conn = "closing" /\ ConnectionLost)
    /\ \A t \in {"user", "subscriber"} : WF_vars(UserTimeout(t))
    /\ \A t \in Background : WF_vars(CancelledEnds(t))

FairSpec == Spec /\ Fairness

-----------------------------------------------------------------------------
(* Properties.                                                             *)

\* Every variable has its shape; a task waits for one answer at a time.
TypeOK ==
    /\ phase \in Phases
    /\ conn \in {"none", "open", "closing", "closed"}
    /\ closed \in BOOLEAN /\ hook \in BOOLEAN
    /\ bg \in [Background -> {"none", "active", "failed", "cancelling",
                               "cancelled", "ended"}]
    /\ renewing \in {"sleep", "opening", "opened", "reading"}
    /\ wait \subseteq Tasks
    /\ inflight \subseteq {Open(t) : t \in Tasks} \cup {Late("cancelled")}

\* An answer that arrives after its request has timed out, or after its task
\* was cancelled, never makes the client close the connection.
LateAnswersAreHarmless ==
    [][inflight' # inflight /\ conn = "open" => conn' # "closing"]_vars

\* After a disconnect() every background task ends, although a subscription
\* that is being created may start the publish task again.
BackgroundEnds ==
    phase = "off" ~> \/ phase # "off"
                     \/ \A t \in Background : bg[t] \notin {"active", "cancelling"}

\* A connection that is lost is noticed: the watchdog fails, so that it
\* informs the subscriptions and check_connection raises.
LossIsNoticed ==
    phase = "on" /\ conn = "closed" ~> bg["monitor"] = "failed" \/ phase # "on"

\* Every request of the user comes to an end, and so do connect() and
\* disconnect(), whatever the server does or the connection.
RequestsEnd ==
    /\ \A t \in {"user", "subscriber"} : t \in wait ~> t \notin wait
    /\ phase \in Connecting \cup Closing ~> phase \in {"off", "on"}

-----------------------------------------------------------------------------
(* What a comment says and the code does not do.                           *)

\* UASocketProtocol.send_request, "This will propagate exceptions from
\* background tasks to the library user before calling a request which will
\* time out then": no request is sent while the watchdog has failed.
FailuresPropagate ==
    [][\A t \in {"user", "subscriber"} :
          phase = "on" /\ t \notin wait /\ t \in wait'
              => bg["monitor"] # "failed"]_vars

=============================================================================
