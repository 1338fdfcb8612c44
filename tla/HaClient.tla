------------------------------ MODULE HaClient ------------------------------
(***************************************************************************)
(* The high-availability client in warm mode: HaClient keeps an ideal map  *)
(* of what every server of the redundant set should have, the HaManager    *)
(* chooses the active client and reconnects the others, a KeepAlive per    *)
(* client reads the service level of its server, and the Reconciliator     *)
(* works the real map towards the ideal one.                               *)
(*                                                                         *)
(* The four kinds of task share the maps.  A round of the reconciliator    *)
(* holds _ideal_map_lock over three phases; each phase creates tasks for   *)
(* the requests it needs and gathers them.  A request is one step, from    *)
(* the server's side to the callback that records it: answers come in the  *)
(* order of the requests, so none can overtake the end of its session.     *)
(***************************************************************************)
EXTENDS Naturals, Sequences, SequencesExt

CONSTANTS
    Clients,        \* sequence of the urls of HaConfig, in its order
    Subs,           \* names that generate_sub_name yields; none comes twice
    Nodes, Attrs,   \* node ids, and values of NodeAttr
    Subscribable,   \* <<sub, node>> pairs the user of HaClient may ask for
    Absent,         \* <<url, node>> pairs: nodes a server does not have
    Levels,         \* service levels a server may report
    NoClient,       \* None
    MaxFaults       \* bound: sessions, connections and requests that fail

NO_DATA == 1    \* ConnectionStates.NO_DATA
HEALTHY == 200  \* HaClient.HEALTHY_STATE

Urls == ToSet(Clients)

ASSUME HaAssumption ==
    /\ Clients \in Seq(Urls) /\ Clients # <<>>
    /\ Subscribable \subseteq Subs \X Nodes
    /\ Absent \subseteq Urls \X Nodes
    /\ Levels \subseteq Nat /\ NO_DATA \in Levels
    /\ NoClient \notin Urls
    /\ MaxFaults \in Nat

VARIABLES
    ideal_map,              \* ideal_map[u][s]: a VirtualSubscription
    real_map,               \* Reconciliator.real_map
    name_to_subscription,   \* [u][s]: a Subscription, of this session or not
    node_to_handle,         \* node_to_handle[u]: the nodes that have a handle
    url_to_reset,
    status,                 \* status[u]: ServerInfo.status
    active_client,
    manager,                \* where HaManager.run is, and its choice
    reconnecting,           \* urls whose reco_resub task is running
    round,                  \* the round of the reconciliator
    conn,                   \* conn[u]: uaclient.protocol and its session
    stop,                   \* where HaClient.stop is
    sub_names,              \* names given out so far
    faults                  \* counter, up to MaxFaults

maps == <<real_map, name_to_subscription, node_to_handle>>
vars == <<ideal_map, maps, url_to_reset, status, active_client, manager,
          reconnecting, round, conn, stop, sub_names, faults>>

-----------------------------------------------------------------------------

Without(f, S) == [x \in DOMAIN f \ S |-> f[x]]
With(f, S, v) == [x \in DOMAIN f \cup S |-> IF x \in S THEN v ELSE f[x]]
Nothing == <<>>    \* the map with no entries

\* publishing and monitoring are True and Reporting, or False and Disabled.
VirtualSubscription(on) ==
    [publishing |-> on, monitoring |-> on, nodes |-> Nothing]

Running == stop.at = "no"
LockFree == round.phase \in {"idle", "dead"}
Idle == [phase |-> "idle", targets |-> {}, tasks |-> {}, ok |-> TRUE]
Dead(left) == [Idle EXCEPT !.phase = "dead", !.tasks = left]

\* conn[u]: "closed", the protocol is None or CLOSED; "active", there is a
\* session; "dead", it has ended and the protocol does not know.
Init ==
    /\ ideal_map = [u \in Urls |-> Nothing]
    /\ real_map = [u \in Urls |-> Nothing]
    /\ name_to_subscription = [u \in Urls |-> Nothing]
    /\ node_to_handle = [u \in Urls |-> {}]
    /\ url_to_reset = {}
    /\ status = [u \in Urls |-> NO_DATA]
    /\ active_client = NoClient
    /\ manager = [at |-> "update", primary |-> NoClient]
    /\ reconnecting = {}
    /\ round = Idle
    /\ conn = [u \in Urls |-> "closed"]
    /\ stop = [at |-> "no", left |-> {}]
    /\ sub_names = {}
    /\ faults = 0

-----------------------------------------------------------------------------
(* The calls of the user: each changes the ideal map under its lock.       *)

Call ==
    /\ Running /\ LockFree
    /\ UNCHANGED <<maps, url_to_reset, status, active_client, manager,
                   reconnecting, round, conn, stop, faults>>

CreateSubscription(s) ==
    /\ Call
    /\ s \notin sub_names
    /\ sub_names' = sub_names \cup {s}
    /\ ideal_map' = [u \in Urls |->
            With(ideal_map[u], {s}, VirtualSubscription(u = active_client))]

SubscribeDataChange(s, n, a) ==
    /\ Call
    /\ <<s, n>> \in Subscribable
    /\ \A u \in Urls : s \in DOMAIN ideal_map[u]
    /\ ideal_map' = [u \in Urls |->
            [ideal_map[u] EXCEPT ![s].nodes = With(@, {n}, a)]]
    /\ UNCHANGED sub_names

\* The subscriptions that have the node are looked up on the first url only.
Unsubscribe(n) ==
    LET first == ideal_map[Clients[1]]
        found == {s \in DOMAIN first : n \in DOMAIN first[s].nodes}
    IN  /\ Call
        /\ found # {}
        /\ ideal_map' = [u \in Urls |-> [s \in DOMAIN ideal_map[u] |->
                IF s \in found
                THEN [ideal_map[u][s] EXCEPT !.nodes = Without(@, {n})]
                ELSE ideal_map[u][s]]]
        /\ UNCHANGED sub_names

DeleteSubscription(s) ==
    /\ Call
    /\ \E u \in Urls : s \in DOMAIN ideal_map[u]
    /\ ideal_map' = [u \in Urls |-> Without(ideal_map[u], {s})]
    /\ UNCHANGED sub_names

-----------------------------------------------------------------------------

\* KeepAlive: the service level of the server, or NO_DATA when there is no
\* connection, no session, or no answer in time.
KeepAlive(u) ==
    /\ Running
    /\ \E level \in IF conn[u] = "active" THEN Levels ELSE {NO_DATA} :
            status' = [status EXCEPT ![u] = level]
    /\ UNCHANGED <<ideal_map, maps, url_to_reset, active_client, manager,
                   reconnecting, round, conn, stop, sub_names, faults>>

-----------------------------------------------------------------------------
(* HaManager: update_state_warm, then reconnect_warm.                      *)

\* The active client stays although its level has fallen.
ServingClientKept ==
    IF active_client # NoClient THEN active_client
    ELSE LET healthy == {u \in Urls : status[u] >= HEALTHY}
         IN  IF healthy = {} THEN NoClient ELSE CHOOSE u \in healthy : TRUE

\* get_serving_client: the active one unless another is better; of those the
\* first.
ServingClient ==
    LET own == IF active_client = NoClient THEN NO_DATA
                                           ELSE status[active_client]
        better == {i \in DOMAIN Clients :
                    /\ status[Clients[i]] > own
                    /\ \A u \in Urls : status[u] <= status[Clients[i]]}
        chosen == IF better = {} THEN active_client
                  ELSE Clients[CHOOSE i \in better : \A j \in better : i <= j]
        level == IF better = {} THEN own ELSE status[chosen]
    IN  IF level >= HEALTHY THEN chosen ELSE NoClient

\* The tasks of reconnect_warm have been gathered before.
UpdateState ==
    /\ Running
    /\ manager.at = "update" /\ reconnecting = {}
    /\ manager' = IF ServingClient = active_client
                  THEN [at |-> "reconnect", primary |-> NoClient]
                  ELSE [at |-> "failover", primary |-> ServingClient]
    /\ UNCHANGED <<ideal_map, maps, url_to_reset, status, active_client,
                   reconnecting, round, conn, stop, sub_names, faults>>

\* The old active client is not demoted when there is no new one.
SetModesOfPrimaryOnly(u, on) ==
    IF on \/ manager.primary # NoClient
    THEN [s \in DOMAIN ideal_map[u] |->
            [ideal_map[u][s] EXCEPT !.publishing = on, !.monitoring = on]]
    ELSE ideal_map[u]

\* _set_monitoring_mode and _set_publishing_mode on one url.
SetModes(u, on) ==
    [s \in DOMAIN ideal_map[u] |->
        [ideal_map[u][s] EXCEPT !.publishing = on, !.monitoring = on]]

\* failover_warm, once it has the lock.
FailoverWarm ==
    /\ stop.at # "done"
    /\ manager.at = "failover"
    /\ LockFree
    /\ ideal_map' = [u \in Urls |-> SetModes(u, u = manager.primary)]
    /\ active_client' = manager.primary
    /\ manager' = [at |-> "reconnect", primary |-> NoClient]
    /\ UNCHANGED <<maps, url_to_reset, status, reconnecting, round, conn,
                   stop, sub_names, faults>>

\* reconnect_warm creates a reco_resub task for every client; those that are
\* unhealthy, or without a connection, begin reconnect: the url is to be
\* reset, and the tasks of the session are cancelled, which takes a while.
ReconnectWarm ==
    /\ stop.at # "done"
    /\ manager.at = "reconnect"
    /\ LET chosen == {u \in Urls : status[u] < HEALTHY \/ conn[u] = "closed"}
       IN  /\ reconnecting' = chosen
           /\ url_to_reset' = url_to_reset \cup chosen
    /\ manager' = [manager EXCEPT !.at = "update"]
    /\ UNCHANGED <<ideal_map, maps, status, active_client, round, conn, stop,
                   sub_names, faults>>

\* What the end of a session does: the Subscription objects of the client
\* denote nothing any more.
EndSession(u, c) ==
    /\ conn' = [conn EXCEPT ![u] = c]
    /\ name_to_subscription' = [name_to_subscription EXCEPT ![u] =
                                    [s \in DOMAIN @ |-> "stale"]]

\* client.disconnect() within reconnect, whether CloseSession succeeds or not.
Disconnect(u) ==
    /\ u \in reconnecting
    /\ conn[u] # "closed"
    /\ EndSession(u, "closed")
    /\ UNCHANGED <<ideal_map, real_map, node_to_handle, url_to_reset, status,
                   active_client, manager, reconnecting, round, stop,
                   sub_names, faults>>

\* client.connect(), with a new session, or in vain.
Connect(u) ==
    /\ u \in reconnecting
    /\ conn[u] = "closed"
    /\ reconnecting' = reconnecting \ {u}
    /\ \/ /\ conn' = [conn EXCEPT ![u] = "active"]
          /\ UNCHANGED faults
       \/ /\ faults < MaxFaults
          /\ faults' = faults + 1
          /\ UNCHANGED conn
    /\ UNCHANGED <<ideal_map, maps, url_to_reset, status, active_client,
                   manager, round, stop, sub_names>>

\* External: a server stops or closes the session, or the connection is lost;
\* the client's protocol hears of it, or does not.
SessionLost(u) ==
    /\ Running /\ faults < MaxFaults
    /\ conn[u] = "active"
    /\ faults' = faults + 1
    /\ \E c \in {"dead", "closed"} : EndSession(u, c)
    /\ UNCHANGED <<ideal_map, real_map, node_to_handle, url_to_reset, status,
                   active_client, manager, reconnecting, round, stop,
                   sub_names>>

-----------------------------------------------------------------------------
(* Reconciliator: the tasks of the three phases.                           *)

\* One request each, with what it is to set.
Task(op, u, s, arg) == [op |-> op, url |-> u, sub |-> s, arg |-> arg]

\* _subs_to_del and _subs_to_add.
SubTasks(u, real) ==
    {Task("DEL_SUB", u, s, {}) : s \in DOMAIN real \ DOMAIN ideal_map[u]}
      \cup {Task("ADD_SUB", u, s, {}) : s \in DOMAIN ideal_map[u] \ DOMAIN real}

\* _nodes_to_del and _nodes_to_add: the nodes to add are grouped by their
\* NodeAttr.
ItemTasks(u, s) ==
    LET real == DOMAIN real_map[u][s].nodes
        ideal == ideal_map[u][s].nodes
        del == real \ DOMAIN ideal
        add == [n \in DOMAIN ideal \ real |-> ideal[n]]
    IN  {Task("DEL_MI", u, s, nodes) : nodes \in {del} \ {{}}}
          \cup {Task("ADD_MI", u, s, Without(add, {n \in DOMAIN add : add[n] # a})) :
                    a \in {add[n] : n \in DOMAIN add}}

\* The subscriptions that update_nodes looks at: those that exist.
Existing(u) == DOMAIN ideal_map[u] \cap DOMAIN name_to_subscription[u]

NodeTasks(u) == UNION {ItemTasks(u, s) : s \in Existing(u)}

\* A handle that _nodes_to_del looks up and does not find: a KeyError that
\* ends the task of the reconciliator.
HandleMissing(u, s) ==
    \E n \in DOMAIN real_map[u][s].nodes \ DOMAIN ideal_map[u][s].nodes :
        n \notin node_to_handle[u]

\* Where update_nodes may meet the KeyError, and the tasks it has created by
\* then, for the urls and the subscriptions it came to before: they go on.
KeyErrors ==
    LET all == {p \in round.targets \X Subs : p[2] \in Existing(p[1])}
        failing == {p \in all : HandleMissing(p[1], p[2])}
        before(q) == {done \in SUBSET (all \ failing) :
                        \A p \in done, r \in all :
                            p[1] = r[1] => r \in done \/ r[1] = q[1]}
    IN  {UNION {ItemTasks(p[1], p[2]) : p \in done} :
            done \in UNION {before(q) : q \in failing}}

\* No request for a mode that a failover has turned off.
ModeTasksOnlyOn(u) ==
    {Task("PUBLISHING", u, s, TRUE) :
        s \in {r \in DOMAIN real_map[u] :
                 ~real_map[u][r].publishing /\ ideal_map[u][r].publishing}}

\* update_subscription_modes.
ModeTasks(u) ==
    {Task("PUBLISHING", u, s, ideal_map[u][s].publishing) :
        s \in {r \in DOMAIN real_map[u] :
                 real_map[u][r].publishing # ideal_map[u][r].publishing}}
    \cup
    {Task("MONITORING", u, s, ideal_map[u][s].monitoring) :
        s \in {r \in DOMAIN real_map[u] :
                 real_map[u][r].monitoring # ideal_map[u][r].monitoring}}

\* resubscribe, then the healthy clients whose maps differ.
RoundBegins ==
    /\ Running
    /\ round.phase = "idle"
    /\ LET cleared(f, empty) == [u \in Urls |-> IF u \in url_to_reset
                                                THEN empty ELSE f[u]]
           real == cleared(real_map, Nothing)
           targets == {u \in Urls : /\ status[u] >= HEALTHY
                                    /\ real[u] # ideal_map[u]}
       IN  /\ url_to_reset # {} \/ targets # {}
           /\ real_map' = real
           /\ name_to_subscription' = cleared(name_to_subscription, Nothing)
           /\ node_to_handle' = cleared(node_to_handle, {})
           /\ round' = IF targets = {} THEN Idle ELSE
                [phase |-> "subs", targets |-> targets, ok |-> TRUE,
                 tasks |-> UNION {SubTasks(u, real[u]) : u \in targets}]
    /\ url_to_reset' = {}
    /\ UNCHANGED <<ideal_map, status, active_client, manager, reconnecting,
                   conn, stop, sub_names, faults>>

\* update_nodes; a subscription of the real map that the ideal map lacks would
\* be a KeyError too, in update_subscription_modes (there is none by then).
NextPhase ==
    /\ stop.at # "done"
    /\ ~LockFree /\ round.tasks = {}
    /\ round' \in
        CASE round.phase = "subs" ->
                IF KeyErrors # {} THEN {Dead(left) : left \in KeyErrors}
                ELSE {[round EXCEPT !.phase = "nodes",
                        !.tasks = UNION {NodeTasks(u) : u \in round.targets}]}
          [] round.phase = "nodes" ->
                IF \E u \in round.targets :
                        ~ (DOMAIN real_map[u] \subseteq DOMAIN ideal_map[u])
                THEN {Dead({})}
                ELSE {[round EXCEPT !.phase = "modes",
                        !.tasks = UNION {ModeTasks(u) : u \in round.targets}]}
          [] round.phase = "modes" -> {Idle}
    /\ UNCHANGED <<ideal_map, maps, url_to_reset, status, active_client,
                   manager, reconnecting, conn, stop, sub_names, faults>>

-----------------------------------------------------------------------------
(* A task of the round: whether the request succeeds, and its callback.    *)

\* The request needs the session, and a Subscription of this session.  It
\* may fail all the same, or time out, and the callback sees an exception; or
\* the server refuses some of its items.
Succeeds(t) ==
    /\ conn[t.url] = "active"
    /\ t.op = "ADD_SUB" \/ name_to_subscription[t.url][t.sub] = "live"

TaskEnds(t, good, refused) ==
    /\ t \in round.tasks
    /\ good \in {FALSE, Succeeds(t)}
    /\ faults' = IF Succeeds(t) /\ (~good \/ refused # {})
                 THEN faults + 1 ELSE faults
    /\ faults' <= MaxFaults
    /\ round' = [round EXCEPT !.tasks = @ \ {t},
                              !.ok = @ /\ good /\ refused = {}]
    /\ UNCHANGED <<url_to_reset, status, active_client, manager, reconnecting,
                   conn, stop, sub_names>>

\* create_subscription, and add_to_map.
AddSub(t, good) ==
    LET u == t.url
        vs == [ideal_map[u][t.sub] EXCEPT !.nodes = Nothing]
    IN  /\ t.op = "ADD_SUB"
        /\ TaskEnds(t, good, {})
        /\ IF good
           THEN /\ real_map' = [real_map EXCEPT ![u] = With(@, {t.sub}, vs)]
                /\ name_to_subscription' =
                        [name_to_subscription EXCEPT ![u] = With(@, {t.sub}, "live")]
           ELSE UNCHANGED <<real_map, name_to_subscription>>
        /\ UNCHANGED <<ideal_map, node_to_handle>>

\* It forgets the subscription only when the server has confirmed.
DelSubConfirmed(t, good) ==
    LET u == t.url
    IN  /\ t.op = "DEL_SUB"
        /\ TaskEnds(t, good, {})
        /\ IF good
           THEN /\ real_map' = [real_map EXCEPT ![u] = Without(@, {t.sub})]
                /\ name_to_subscription' =
                        [name_to_subscription EXCEPT ![u] = Without(@, {t.sub})]
           ELSE UNCHANGED <<real_map, name_to_subscription>>
        /\ UNCHANGED <<ideal_map, node_to_handle>>

\* delete, and del_from_map, which forgets the subscription in any case.
DelSub(t, good) ==
    LET u == t.url
    IN  /\ t.op = "DEL_SUB"
        /\ TaskEnds(t, good, {})
        /\ real_map' = [real_map EXCEPT ![u] = Without(@, {t.sub})]
        /\ name_to_subscription' =
                [name_to_subscription EXCEPT ![u] = Without(@, {t.sub})]
        /\ UNCHANGED <<ideal_map, node_to_handle>>

\* The nodes are abandoned in the real map only.
AddItemsKeepIdeal(t, good) ==
    LET u == t.url
        added == {n \in DOMAIN t.arg : <<u, n>> \notin Absent}
    IN  /\ t.op = "ADD_MI"
        /\ TaskEnds(t, good, {})
        /\ IF good
           THEN /\ real_map' = [real_map EXCEPT ![u][t.sub].nodes =
                        [n \in DOMAIN @ \cup added |->
                            IF n \in added THEN t.arg[n] ELSE @[n]]]
                /\ node_to_handle' = [node_to_handle EXCEPT ![u] = @ \cup added]
           ELSE UNCHANGED <<real_map, node_to_handle>>
        /\ UNCHANGED <<ideal_map, name_to_subscription>>

\* A map of subscriptions of which one, if it is there, loses nodes.
Abandon(m, s, nodes) ==
    [r \in DOMAIN m |-> IF r = s THEN [m[r] EXCEPT !.nodes = Without(@, nodes)]
                        ELSE m[r]]

\* subscribe_data_change, and add_to_map: nodes the server does not know are
\* abandoned, in the ideal map too; those it refuses for another reason stay
\* wanted.  (The ideal map has the subscription, unless the reconciliator has
\* died: then the callback ends at the first node to abandon, with maps that
\* nobody reads any more.)
AddItems(t, good) ==
    LET u == t.url
        unknown == {n \in DOMAIN t.arg : <<u, n>> \in Absent}
        known == DOMAIN t.arg \ unknown
    IN  /\ t.op = "ADD_MI"
        /\ UNCHANGED name_to_subscription
        /\ \/ \E refused \in SUBSET known :
                LET added == known \ refused
                IN  /\ good
                    /\ TaskEnds(t, good, refused)
                    /\ real_map' = [real_map EXCEPT ![u][t.sub].nodes =
                            [n \in DOMAIN @ \cup added |->
                                IF n \in added THEN t.arg[n] ELSE @[n]]]
                    /\ node_to_handle' = [node_to_handle EXCEPT ![u] = @ \cup added]
                    /\ ideal_map' = [ideal_map EXCEPT ![u] =
                            Abandon(@, t.sub, unknown)]
           \/ /\ ~good
              /\ TaskEnds(t, good, {})
              /\ UNCHANGED <<real_map, node_to_handle, ideal_map>>

\* unsubscribe, and del_from_map, which forgets the nodes in any case; the
\* loop over the handles ends at one that is not there any more.
DelItems(t, good) ==
    LET u == t.url
    IN  /\ t.op = "DEL_MI"
        /\ TaskEnds(t, good, {})
        /\ real_map' = [real_map EXCEPT ![u][t.sub].nodes = Without(@, t.arg)]
        /\ \E popped \in SUBSET t.arg :
                /\ t.arg \subseteq node_to_handle[u] => popped = t.arg
                /\ node_to_handle' = [node_to_handle EXCEPT ![u] = @ \ popped]
        /\ UNCHANGED <<ideal_map, name_to_subscription>>

\* set_publishing_mode or set_monitoring_mode, and change_mode.
ChangeMode(t, good) ==
    LET u == t.url
    IN  /\ t.op \in {"PUBLISHING", "MONITORING"}
        /\ TaskEnds(t, good, {})
        /\ real_map' = IF ~good THEN real_map
                       ELSE IF t.op = "PUBLISHING"
                       THEN [real_map EXCEPT ![u][t.sub].publishing = t.arg]
                       ELSE [real_map EXCEPT ![u][t.sub].monitoring = t.arg]
        /\ UNCHANGED <<ideal_map, name_to_subscription, node_to_handle>>

-----------------------------------------------------------------------------
(* HaClient.stop: the loops are told to end, the clients are disconnected, *)
(* then the tasks are cancelled wherever they are.                         *)

Stop ==
    /\ Running
    /\ stop' = [at |-> "disconnecting", left |-> Urls]
    /\ UNCHANGED <<ideal_map, maps, url_to_reset, status, active_client,
                   manager, reconnecting, round, conn, sub_names, faults>>

StopDisconnects(u) ==
    /\ stop.at = "disconnecting" /\ u \in stop.left
    /\ stop' = [stop EXCEPT !.left = @ \ {u}]
    /\ EndSession(u, "closed")
    /\ UNCHANGED <<ideal_map, real_map, node_to_handle, url_to_reset, status,
                   active_client, manager, reconnecting, round, sub_names,
                   faults>>

\* Nobody cancels what a dead reconciliator has left behind.
StopCancels ==
    /\ stop.at = "disconnecting" /\ stop.left = {}
    /\ stop' = [stop EXCEPT !.at = "done"]
    /\ reconnecting' = {}
    /\ round' = IF round.phase = "dead" THEN round ELSE Idle
    /\ UNCHANGED <<ideal_map, maps, url_to_reset, status, active_client,
                   manager, conn, sub_names, faults>>

-----------------------------------------------------------------------------

UserCalls ==
    \/ \E s \in Subs : CreateSubscription(s) \/ DeleteSubscription(s)
    \/ \E s \in Subs, n \in Nodes, a \in Attrs : SubscribeDataChange(s, n, a)
    \/ \E n \in Nodes : Unsubscribe(n)

Manager == UpdateState \/ FailoverWarm \/ ReconnectWarm

Reconnect(u) == Disconnect(u) \/ Connect(u)

Requests ==
    \E t \in round.tasks, good \in BOOLEAN :
        \/ AddSub(t, good) \/ DelSub(t, good)
        \/ AddItems(t, good) \/ DelItems(t, good)
        \/ ChangeMode(t, good)

Reconciliate == RoundBegins \/ NextPhase

Next ==
    \/ UserCalls
    \/ Manager
    \/ Requests
    \/ Reconciliate
    \/ \E u \in Urls :
          \/ KeepAlive(u) \/ Reconnect(u) \/ SessionLost(u)
          \/ StopDisconnects(u)
    \/ Stop \/ StopCancels

Spec == Init /\ [][Next]_vars

\* The tasks of the client run and their timers expire; a request ends, with
\* an answer or a timeout; an asyncio.Lock is given to its waiters in turn; a
\* session that is lost is noticed.  Faults and users need not happen, and
\* what level a server with a session reports is its own affair.
Fairness ==
    /\ WF_vars(Manager) /\ SF_vars(FailoverWarm)
    /\ WF_vars(Requests) /\ WF_vars(Reconciliate)
    /\ \A u \in Urls : WF_vars(conn[u] # "active" /\ KeepAlive(u))
    /\ \A u \in Urls : WF_vars(Reconnect(u))

FairSpec == Spec /\ Fairness

-----------------------------------------------------------------------------
(* Properties.                                                             *)

MapsOf(S) == UNION {[D -> S] : D \in SUBSET Subs}
VirtualSubscriptions ==
    [publishing : BOOLEAN, monitoring : BOOLEAN,
     nodes : UNION {[D -> Attrs] : D \in SUBSET Nodes}]

\* Every variable has the shape the code gives it.
TypeOK ==
    /\ ideal_map \in [Urls -> MapsOf(VirtualSubscriptions)]
    /\ real_map \in [Urls -> MapsOf(VirtualSubscriptions)]
    /\ name_to_subscription \in [Urls -> MapsOf({"live", "stale"})]
    /\ node_to_handle \in [Urls -> SUBSET Nodes]
    /\ url_to_reset \subseteq Urls /\ reconnecting \subseteq Urls
    /\ status \in [Urls -> Levels] /\ active_client \in Urls \cup {NoClient}
    /\ conn \in [Urls -> {"closed", "dead", "active"}]
    /\ round.phase \in {"idle", "subs", "nodes", "modes", "dead"}
    /\ manager.at \in {"update", "failover", "reconnect"}

\* The reconciliator looks subscriptions and handles up without a test: they
\* must be there for everything in the real map, through failed requests,
\* resets and reconnections, or its task ends with a KeyError.
LookupsSucceed ==
    /\ round.phase # "dead"
    /\ \A u \in Urls :
        /\ DOMAIN real_map[u] = DOMAIN name_to_subscription[u]
        /\ \A s \in DOMAIN real_map[u] :
                DOMAIN real_map[u][s].nodes \subseteq node_to_handle[u]

\* In warm mode exactly the active client publishes, and a subscription is
\* wanted on all servers or on none: a subscription created while a failover
\* waits for the lock included.
IdealFollowsActive ==
    \A u \in Urls :
        /\ DOMAIN ideal_map[u] = DOMAIN ideal_map[Clients[1]]
        /\ \A s \in DOMAIN ideal_map[u] :
                /\ ideal_map[u][s].publishing = (u = active_client)
                /\ ideal_map[u][s].monitoring = (u = active_client)

\* The maps of a url agree on the subscriptions, their nodes and their modes,
\* though not on the attributes of the nodes: _nodes_to_add looks only for
\* nodes that are not in the real map, so that a node the user subscribes
\* again with another attribute keeps its item.
Agree(u) ==
    /\ DOMAIN real_map[u] = DOMAIN ideal_map[u]
    /\ \A s \in DOMAIN real_map[u] :
            /\ DOMAIN real_map[u][s].nodes = DOMAIN ideal_map[u][s].nodes
            /\ real_map[u][s].publishing = ideal_map[u][s].publishing
            /\ real_map[u][s].monitoring = ideal_map[u][s].monitoring

\* A round in which no request failed and no node was refused (except as one
\* the server does not know) makes the maps of the urls it was for agree.
\* reconciliator.py says more, "After a successfull reconciliation [...] the
\* ideal_map is equal to the real_map", which the attributes may spoil.
RoundAchieves ==
    round.phase = "modes" /\ round.tasks = {} /\ round.ok =>
        \A u \in round.targets : Agree(u)

\* The Subscription objects denote subscriptions of the session there is.
OfThisSession(u) ==
    \A s \in DOMAIN name_to_subscription[u] :
        name_to_subscription[u][s] = "live"

\* A round has dealt with the reset that reconnect asked for while the session
\* to be reset still goes on: what the round creates is lost with the session,
\* and nothing tells the reconciliator.
ResetTooEarly(u) ==
    u \in reconnecting \ url_to_reset /\ conn[u] # "closed"

\* A client that stays healthy gets, in the session it has, what the user
\* wants once he has made up his mind, whatever requests, sessions and
\* connections failed before; but only if no round came between
\* url_to_reset.add and the end of the old session (ConvergesAnyway).
Converges ==
    \A u \in Urls :
        [](~ResetTooEarly(u))
          /\ <>[](status[u] >= HEALTHY /\ Running)
          /\ <>[][ideal_map' = ideal_map]_vars
            => <>[](Agree(u) /\ OfThisSession(u))

\* The same without the exception: the configuration ha_reset shows that it
\* does not hold.
ConvergesAnyway ==
    \A u \in Urls :
        <>[](status[u] >= HEALTHY /\ Running)
          /\ <>[][ideal_map' = ideal_map]_vars
            => <>[](Agree(u) /\ OfThisSession(u))

\* When some client stays healthy, the active client is in the end a healthy
\* one.
FailsOver ==
    \A u \in Urls :
        <>[](status[u] >= HEALTHY /\ Running) =>
            []<>(active_client # NoClient /\ status[active_client] >= HEALTHY)

\* "It regularly applies the HaClient subscription configurations": the task
\* of the reconciliator does not end.
ReconciliatorRuns == round.phase # "dead"

=============================================================================
