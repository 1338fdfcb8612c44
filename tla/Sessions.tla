------------------------------ MODULE Sessions ------------------------------
(***************************************************************************)
(* Sessions of the server and what becomes of them when a connection ends: *)
(* OPCUAProtocol and UaProcessor (one of each per connection), the         *)
(* InternalSession objects with their common count of connections, and the *)
(* subscriptions they own.                                                 *)
(*                                                                         *)
(* A connection has one task that takes messages from its queue, so one    *)
(* request at a time.  The handlers of CreateSession, CloseSession and     *)
(* close() really suspend: meanwhile the socket may be lost, which cancels *)
(* the task, and the watchdog may find the session inactive.               *)
(***************************************************************************)
EXTENDS Naturals, FiniteSets

CONSTANTS
    Conns,            \* connections accepted by the BinaryServer
    MaxSessions,      \* bound: sessions ever created
    MaxSubs,          \* bound: subscriptions ever created
    MaxConnections,   \* InternalSession.max_connections
    PerConnection,    \* bound: CreateSession requests on one connection
    Immediate         \* subscriptions with publishing interval 0

SessionIds == 1 .. MaxSessions
SubIds == 1 .. MaxSubs

ASSUME SessionsAssumption ==
    /\ MaxSessions \in Nat /\ MaxSubs \in Nat
    /\ MaxConnections \in Nat /\ PerConnection \in Nat
    /\ Immediate \subseteq SubIds

VARIABLES
    conn,      \* conn[c]: the OPCUAProtocol and its UaProcessor
    sess,      \* sess[n]: the state of InternalSession n
    subs,      \* subs[s]: the session that owns s, and what became of it
    current    \* InternalSession._current_connections

vars == <<conn, sess, subs, current>>

-----------------------------------------------------------------------------

\* socket: before connection_made, between it and connection_lost, after.
\* session: UaProcessor.session, 0 for None; created: all it ever was.
\* replaced: history, the sessions that CreateSession replaced in use.
\* handler: what the task of the message queue awaits.  closing: _closing.
\* asleep: the tasks of _session_watchdog_loop that sleep.  awaiting: those
\* that call close(), each as the subscriptions it waits for to be stopped.
\* closer: the task that connection_lost creates for processor.close().
Connection ==
    [socket : {"new", "open", "lost"}, session : Nat, created : SUBSET Nat,
     replaced : SUBSET Nat, handler : {"queue", "create", "stop", "none"},
     closing : BOOLEAN, asleep : Nat, awaiting : SUBSET (SUBSET SubIds),
     closer : {"none", "ready", "done"}]

\* live: in SubscriptionService.subscriptions.  popped: taken from it, and a
\* task for stop() is ready, child of the task named by stopper.  stopped:
\* stop() has run, or the subscription has expired.  lost: popped, but the
\* task for stop() was cancelled before it began.
Subscription ==
    [owner : Nat, state : {"none", "live", "popped", "stopped", "lost"},
     stopper : {"none", "handler", "other"}]

Init ==
    /\ conn = [c \in Conns |->
          [socket |-> "new", session |-> 0, created |-> {}, replaced |-> {},
           handler |-> "none", closing |-> FALSE, asleep |-> 0,
           awaiting |-> {}, closer |-> "none"]]
    /\ sess = [n \in SessionIds |-> "none"]
    /\ subs = [s \in SubIds |->
          [owner |-> 0, state |-> "none", stopper |-> "none"]]
    /\ current = 0

\* connection_made.
Connect(c) ==
    /\ conn[c].socket = "new"
    /\ conn' = [conn EXCEPT ![c].socket = "open", ![c].handler = "queue"]
    /\ UNCHANGED <<sess, subs, current>>

\* The ids are counted up.
NextSession == Cardinality({n \in SessionIds : sess[n] # "none"}) + 1
NextSub == Cardinality({s \in SubIds : subs[s].state # "none"}) + 1

OwnedBy(n) == {s \in SubIds : subs[s].owner = n /\ subs[s].state = "live"}

\* The session of c, if it is activated or owns subscriptions.
InUse(c) ==
    {n \in SessionIds : /\ n = conn[c].session
                        /\ sess[n] = "activated" \/ OwnedBy(n) # {}}

\* The CreateSession request up to the await in session.create_session.  The
\* session the connection had is not closed.
CreateSession(c) ==
    /\ conn[c].handler = "queue"
    /\ NextSession <= MaxSessions
    /\ Cardinality(conn[c].created) < PerConnection
    /\ sess' = [sess EXCEPT ![NextSession] = "created"]
    /\ conn' = [conn EXCEPT ![c].session = NextSession,
                            ![c].created = @ \cup {NextSession},
                            ![c].replaced = @ \cup InUse(c),
                            ![c].handler = "create"]
    /\ UNCHANGED <<subs, current>>

\* The rest of it; or certificate_validator raises, which sends a fault and
\* leaves the session without a watchdog.
CreateSessionReturns(c) ==
    /\ conn[c].handler = "create"
    /\ \/ conn' = [conn EXCEPT ![c].handler = "queue", ![c].closing = FALSE,
                               ![c].asleep = @ + 1]
       \/ conn' = [conn EXCEPT ![c].handler = "queue"]
    /\ UNCHANGED <<sess, subs, current>>

\* The ActivateSession request.  In all other cases it answers with a fault.
ActivateSession(c) ==
    /\ conn[c].handler = "queue" /\ conn[c].session # 0
    /\ sess[conn[c].session] = "created"
    /\ current < MaxConnections
    /\ sess' = [sess EXCEPT ![conn[c].session] = "activated"]
    /\ current' = current + 1
    /\ UNCHANGED <<conn, subs>>

\* The CreateSubscription request of an activated session; start() does not
\* suspend.
CreateSubscription(c) ==
    /\ conn[c].handler = "queue" /\ conn[c].session # 0
    /\ sess[conn[c].session] = "activated"
    /\ NextSub <= MaxSubs
    /\ subs' = [subs EXCEPT ![NextSub] =
          [owner |-> conn[c].session, state |-> "live", stopper |-> "none"]]
    /\ UNCHANGED <<conn, sess, current>>

-----------------------------------------------------------------------------
(* InternalSession.close_session, up to the await of the stop() tasks.     *)

\* Mutation of Released: the count goes down with every close.
Released_Always(n) == IF current > 0 THEN current - 1 ELSE 0

\* The count after session n is closed.
Released(n) ==
    IF sess[n] = "activated" THEN (IF current > 0 THEN current - 1 ELSE 0)
                             ELSE current

\* Mutation of Popped: the subscriptions of a session that is closed already
\* are left alone.
Popped_OnlyOnce(n, by) ==
    [s \in SubIds |-> IF s \in OwnedBy(n) /\ sess[n] # "closed"
                      THEN [subs[s] EXCEPT !.state = "popped", !.stopper = by]
                      ELSE subs[s]]

\* delete_subscriptions: the subscriptions are taken from the service, and a
\* task is made for each stop().
Popped(n, by) ==
    [s \in SubIds |-> IF s \in OwnedBy(n)
                      THEN [subs[s] EXCEPT !.state = "popped", !.stopper = by]
                      ELSE subs[s]]

Close(n, deletes, by) ==
    /\ sess' = [sess EXCEPT ![n] = "closed"]
    /\ current' = Released(n)
    /\ subs' = IF deletes THEN Popped(n, by) ELSE subs

\* The CloseSession request; without a session it is only answered.
CloseSession(c, deletes) ==
    /\ conn[c].handler = "queue" /\ conn[c].session # 0
    /\ Close(conn[c].session, deletes, "handler")
    /\ conn' = [conn EXCEPT ![c].closing = TRUE, ![c].handler = "stop"]

\* The tasks that c's handler has for stop() have ended: it answers.
CloseSessionReturns(c) ==
    /\ conn[c].handler = "stop"
    /\ \A s \in SubIds : ~(/\ subs[s].owner = conn[c].session
                           /\ subs[s].state = "popped"
                           /\ subs[s].stopper = "handler")
    /\ conn' = [conn EXCEPT ![c].handler = "queue"]
    /\ UNCHANGED <<sess, subs, current>>

\* A task for stop() runs.  Once begun it does not end early: a cancellation
\* while it awaits the loop of the subscription is caught.
StopRuns(s) ==
    /\ subs[s].state = "popped"
    /\ subs' = [subs EXCEPT ![s].state = "stopped", ![s].stopper = "none"]
    /\ UNCHANGED <<conn, sess, current>>

\* A subscription that nobody sends publish requests for expires by itself;
\* so does one whose stop() was cancelled.  One without a loop never does.
Expires(s) ==
    /\ subs[s].state \in {"live", "lost"} /\ s \notin Immediate
    /\ subs' = [subs EXCEPT ![s].state = "stopped"]
    /\ UNCHANGED <<conn, sess, current>>

-----------------------------------------------------------------------------
(* The end of a connection.                                                *)

\* Mutation of ConnectionLost: no closing task.
ConnectionLost_NoCloser(c) ==
    /\ conn[c].socket = "open"
    /\ conn' = [conn EXCEPT ![c].socket = "lost", ![c].handler = "none"]
    /\ UNCHANGED <<sess, subs, current>>

\* connection_lost: makes the closing task, and cancels the handler and with
\* it the stop() tasks it awaits.
ConnectionLost(c) ==
    /\ conn[c].socket = "open"
    /\ conn' = [conn EXCEPT ![c].socket = "lost", ![c].closer = "ready",
                            ![c].handler = "none"]
    /\ subs' = [s \in SubIds |->
          IF /\ conn[c].handler = "stop" /\ subs[s].owner = conn[c].session
             /\ subs[s].state = "popped" /\ subs[s].stopper = "handler"
          THEN [subs[s] EXCEPT !.state = "lost", !.stopper = "none"]
          ELSE subs[s]]
    /\ UNCHANGED <<sess, current>>

\* UaProcessor.close, as the closing task runs it.
CloserRuns(c) ==
    /\ conn[c].closer = "ready"
    /\ conn' = [conn EXCEPT ![c].closer = "done", ![c].closing = TRUE]
    /\ IF conn[c].session # 0 THEN Close(conn[c].session, TRUE, "other")
                              ELSE UNCHANGED <<sess, subs, current>>

\* A watchdog wakes up, finds the connection without activity for longer than
\* the timeout and calls close().  It asked for _closing before it slept: the
\* session may be closed by now, or be another one.  With nothing to stop,
\* close() does not suspend and the loop ends.
WatchdogCloses(c) ==
    /\ conn[c].asleep > 0
    /\ Close(conn[c].session, TRUE, "other")
    /\ conn' = [conn EXCEPT ![c].closing = TRUE, ![c].asleep = @ - 1,
                            ![c].awaiting = @ \cup ({OwnedBy(conn[c].session)} \ {{}})]

\* What a watchdog waits for has been stopped.  It goes on when a new session
\* has reset _closing meanwhile.
WatchdogReturns(c) ==
    /\ \E waits \in conn[c].awaiting :
          /\ \A s \in waits : subs[s].state # "popped"
          /\ conn' = [conn EXCEPT ![c].awaiting = @ \ {waits},
                ![c].asleep = IF conn[c].closing THEN @ ELSE @ + 1]
    /\ UNCHANGED <<sess, subs, current>>

\* A watchdog wakes up, finds activity, and _closing set.
WatchdogEnds(c) ==
    /\ conn[c].asleep > 0 /\ conn[c].closing
    /\ conn' = [conn EXCEPT ![c].asleep = @ - 1]
    /\ UNCHANGED <<sess, subs, current>>

Next ==
    \/ \E c \in Conns :
          \/ Connect(c)
          \/ CreateSession(c)
          \/ CreateSessionReturns(c)
          \/ ActivateSession(c)
          \/ CreateSubscription(c)
          \/ \E deletes \in BOOLEAN : CloseSession(c, deletes)
          \/ CloseSessionReturns(c)
          \/ ConnectionLost(c)
          \/ CloserRuns(c)
          \/ WatchdogCloses(c)
          \/ WatchdogReturns(c)
          \/ WatchdogEnds(c)
    \/ \E s \in SubIds : StopRuns(s) \/ Expires(s)

Spec == Init /\ [][Next]_vars

\* The connection of s is lost: nobody sends publish requests for it.
Abandoned(s) ==
    \E c \in Conns : conn[c].socket = "lost" /\ subs[s].owner \in conn[c].created

\* Tasks that are ready run, and a subscription that has a loop and gets no
\* publish requests reaches its lifetime count.  Clients, the watchdog's
\* timeout and the network need not do anything.
Fairness ==
    /\ \A c \in Conns : WF_vars(CloserRuns(c))
    /\ \A s \in SubIds : WF_vars(StopRuns(s))
    /\ \A s \in SubIds : WF_vars(Abandoned(s) /\ Expires(s))

FairSpec == Spec /\ Fairness

-----------------------------------------------------------------------------
(* Properties.                                                             *)

\* Every variable has the shape the code gives it.
TypeOK ==
    /\ conn \in [Conns -> Connection]
    /\ sess \in [SessionIds -> {"none", "created", "activated", "closed"}]
    /\ subs \in [SubIds -> Subscription]
    /\ current \in Nat

\* _current_connections is the number of activated sessions, although a
\* session may be closed by its client, by the watchdog and by the loss of
\* the connection, in any order.  If it were less the limit would not hold,
\* if it were more the server would refuse clients for ever.
CountIsExact ==
    current = Cardinality({n \in SessionIds : sess[n] = "activated"})

\* UaProcessor.close, "to ensure we really close everything we should": after
\* it no session of the connection is active, and none of their subscriptions
\* is left in the service.  The code does not keep to that: a session that
\* CreateSession replaced is forgotten.
NothingLeftInService ==
    \A c \in Conns : conn[c].closer = "done" =>
        \A n \in conn[c].created : sess[n] # "activated" /\ OwnedBy(n) = {}

\* What it does keep to: only the sessions that were in use when CreateSession
\* replaced them are left.  All the others are not active and own nothing,
\* whoever closed them first: the client, which may have asked to keep the
\* subscriptions, a watchdog that slept through the close of the session, or
\* the watchdog of a session before.
OnlyReplacedAreLeft ==
    \A c \in Conns : conn[c].closer = "done" =>
        \A n \in conn[c].created \ conn[c].replaced :
            sess[n] # "activated" /\ OwnedBy(n) = {}

\* All subscriptions of a lost connection end, those of a replaced session too:
\* they are stopped, or expire when nobody stops them or the task that should
\* was cancelled.  Without a loop (publishing interval 0) a subscription in
\* these two cases stays for ever, and in these only.
LostConnectionEndsSubscriptions ==
    \A c \in Conns, s \in SubIds :
        conn[c].socket = "lost" /\ subs[s].owner \in conn[c].created
            ~> \/ subs[s].state = "stopped"
               \/ s \in Immediate /\ \/ subs[s].state = "lost"
                                     \/ subs[s].owner \in conn[c].replaced

=============================================================================
