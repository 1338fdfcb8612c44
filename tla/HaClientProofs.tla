--------------------------- MODULE HaClientProofs ---------------------------
(***************************************************************************)
(* Theorems about HaClient, for every number of servers, subscriptions,    *)
(* nodes and failures.                                                     *)
(***************************************************************************)
EXTENDS HaClient, WellFoundedInduction, TLAPS

-----------------------------------------------------------------------------
(* Maps.                                                                   *)

NodeMaps == UNION {[D -> Attrs] : D \in SUBSET Nodes}

\* MapsOf, by domain and range.
LEMMA MapOf ==
    ASSUME NEW f, NEW S
    PROVE  f \in MapsOf(S) <=> DOMAIN f \subseteq Subs /\ f \in [DOMAIN f -> S]
BY DEF MapsOf

\* NodeMaps, by domain and range.
LEMMA NodeMap ==
    ASSUME NEW f
    PROVE  f \in NodeMaps <=> DOMAIN f \subseteq Nodes /\ f \in [DOMAIN f -> Attrs]
BY DEF NodeMaps

\* The empty map is one of every kind.
LEMMA NothingIsMap ==
    /\ DOMAIN Nothing = {}
    /\ Nothing \in NodeMaps
    /\ \A S : Nothing \in MapsOf(S)
<1>1. DOMAIN Nothing = {}
  BY DEF Nothing
<1>2. \A S : Nothing \in [{} -> S]
  BY DEF Nothing
<1>3. QED
  BY <1>1, <1>2, MapOf, NodeMap

\* Removing keys from a map.
LEMMA WithoutIsMap ==
    ASSUME NEW S, NEW f \in MapsOf(S), NEW T
    PROVE  /\ Without(f, T) \in MapsOf(S)
           /\ DOMAIN Without(f, T) = DOMAIN f \ T
           /\ \A x \in DOMAIN f \ T : Without(f, T)[x] = f[x]
BY MapOf DEF Without

\* Adding a node to a map of nodes.
LEMMA NodesWith ==
    ASSUME NEW f \in NodeMaps, NEW n \in Nodes, NEW a \in Attrs
    PROVE  /\ With(f, {n}, a) \in NodeMaps
           /\ DOMAIN With(f, {n}, a) = DOMAIN f \cup {n}
BY NodeMap DEF With

\* Removing nodes from a map of nodes.
LEMMA NodesWithout ==
    ASSUME NEW f \in NodeMaps, NEW T
    PROVE  /\ Without(f, T) \in NodeMaps
           /\ DOMAIN Without(f, T) = DOMAIN f \ T
BY NodeMap DEF Without

\* A new virtual subscription is empty.
LEMMA FreshVirtualSub ==
    ASSUME NEW b \in BOOLEAN
    PROVE  /\ VirtualSubscription(b) \in VirtualSubscriptions
           /\ DOMAIN VirtualSubscription(b).nodes = {}
           /\ VirtualSubscription(b).publishing = b
           /\ VirtualSubscription(b).monitoring = b
BY NothingIsMap DEF VirtualSubscription, VirtualSubscriptions, NodeMaps

\* One subscription of one url is replaced.
Put(m, u, s, v) == [m EXCEPT ![u] = [m[u] EXCEPT ![s] = v]]

\* Replacing one subscription of one url.
LEMMA PutOne ==
    ASSUME NEW m \in [Urls -> MapsOf(VirtualSubscriptions)],
           NEW u \in Urls, NEW s \in DOMAIN m[u], NEW v \in VirtualSubscriptions
    PROVE  /\ Put(m, u, s, v) \in [Urls -> MapsOf(VirtualSubscriptions)]
           /\ \A x \in Urls : DOMAIN Put(m, u, s, v)[x] = DOMAIN m[x]
           /\ Put(m, u, s, v)[u][s] = v
           /\ \A x \in Urls : \A r \in DOMAIN m[x] :
                    <<x, r>> # <<u, s>> => Put(m, u, s, v)[x][r] = m[x][r]
<1>1. m[u] \in MapsOf(VirtualSubscriptions)
  OBVIOUS
<1>2. DOMAIN m[u] \subseteq Subs /\ m[u] \in [DOMAIN m[u] -> VirtualSubscriptions]
  BY <1>1, MapOf
<1>3. [m[u] EXCEPT ![s] = v] \in [DOMAIN m[u] -> VirtualSubscriptions]
  BY <1>2
<1>4. [m[u] EXCEPT ![s] = v] \in MapsOf(VirtualSubscriptions)
  BY <1>2, <1>3, MapOf
<1>5. QED
  BY <1>2, <1>3, <1>4 DEF Put

\* The first client has a url.
LEMMA FirstIsUrl == Clients[1] \in Urls
<1>1. Len(Clients) \in Nat /\ Len(Clients) > 0
  BY HaAssumption
<1>2. 1 \in DOMAIN Clients
  BY <1>1, HaAssumption
<1>3. QED
  BY <1>2 DEF Urls, ToSet

-----------------------------------------------------------------------------
(* The inductive invariant: the shape of the state, and what the tasks of  *)
(* a round are.                                                            *)

AnyTask == [op : {"ADD_SUB", "DEL_SUB", "ADD_MI", "DEL_MI", "PUBLISHING", "MONITORING"},
            url : Urls, sub : Subs,
            arg : NodeMaps \cup (SUBSET Nodes) \cup BOOLEAN]

ControlTypes ==
    /\ round \in [phase : {"idle", "subs", "nodes", "modes", "dead"},
                  targets : SUBSET Urls, tasks : SUBSET AnyTask, ok : BOOLEAN]
    /\ manager \in [at : {"update", "failover", "reconnect"},
                    primary : Urls \cup {NoClient}]
    /\ stop \in [at : {"no", "disconnecting", "done"}, left : SUBSET Urls]
    /\ faults \in Nat
    /\ round.phase = "idle" => round.tasks = {}

\* A subscription is in the real map when there is a Subscription object.
SameNames == \A u \in Urls : DOMAIN real_map[u] = DOMAIN name_to_subscription[u]

\* Tasks of the first phase; they are the only ones that change which
\* subscriptions the real map has.
SubTask(t) ==
    \/ t.op = "ADD_SUB" /\ t.sub \in DOMAIN ideal_map[t.url]
    \/ t.op = "DEL_SUB" /\ t.sub \notin DOMAIN ideal_map[t.url]

\* Tasks of the second phase: nodes to add are still in the ideal map unless
\* the server does not have them, and nodes to delete are not.
ItemTask(t) ==
    /\ t.sub \in DOMAIN ideal_map[t.url] \cap DOMAIN real_map[t.url]
    /\ \/ /\ t.op = "ADD_MI" /\ t.arg \in NodeMaps
          /\ \A n \in DOMAIN t.arg :
                /\ <<t.sub, n>> \in Subscribable
                /\ <<t.url, n>> \notin Absent =>
                        n \in DOMAIN ideal_map[t.url][t.sub].nodes
       \/ /\ t.op = "DEL_MI" /\ t.arg \in SUBSET Nodes
          /\ \A n \in t.arg :
                /\ <<t.sub, n>> \in Subscribable
                /\ n \notin DOMAIN ideal_map[t.url][t.sub].nodes

\* Tasks of the third phase.
ModeTask(t) ==
    /\ t.sub \in DOMAIN ideal_map[t.url] \cap DOMAIN real_map[t.url]
    /\ \/ t.op = "PUBLISHING" /\ t.arg = ideal_map[t.url][t.sub].publishing
       \/ t.op = "MONITORING" /\ t.arg = ideal_map[t.url][t.sub].monitoring

\* Tasks that a dead reconciliator has left behind: the maps may have changed
\* since.
LeftTask(t) ==
    /\ t.sub \in DOMAIN real_map[t.url]
    /\ \/ /\ t.op = "ADD_MI" /\ t.arg \in NodeMaps
          /\ \A n \in DOMAIN t.arg : <<t.sub, n>> \in Subscribable
       \/ /\ t.op = "DEL_MI" /\ t.arg \in SUBSET Nodes
          /\ \A n \in t.arg : <<t.sub, n>> \in Subscribable

TasksFit ==
    \A t \in round.tasks :
        /\ round.phase # "dead" => t.url \in round.targets
        /\ round.phase = "dead" => LeftTask(t)
        /\ round.phase = "subs" => SubTask(t)
        /\ round.phase = "nodes" => ItemTask(t)
        /\ round.phase = "modes" => ModeTask(t)

\* Subscriptions that are not wanted any more are gone after the first phase,
\* whether the server has confirmed or not.
Unwanted ==
    \A u \in round.targets : \A s \in DOMAIN real_map[u] \ DOMAIN ideal_map[u] :
        /\ round.phase \notin {"nodes", "modes"}
        /\ round.phase = "subs" =>
                \E t \in round.tasks : t.op = "DEL_SUB" /\ t.url = u /\ t.sub = s

\* Both maps hold what the user may ask for, and the real map nothing that the
\* server does not have.
OnlyWanted ==
    \A u \in Urls :
        /\ \A s \in DOMAIN ideal_map[u] : \A n \in DOMAIN ideal_map[u][s].nodes :
                <<s, n>> \in Subscribable
        /\ \A s \in DOMAIN real_map[u] : \A n \in DOMAIN real_map[u][s].nodes :
                <<s, n>> \in Subscribable /\ <<u, n>> \notin Absent

\* What is left to do, in a round without a failure, is what the tasks that
\* have not ended will do.
Covered ==
    round.ok => \A u \in round.targets :
        /\ round.phase = "subs" =>
              \A s \in DOMAIN ideal_map[u] \ DOMAIN real_map[u] :
                 \E t \in round.tasks : t.op = "ADD_SUB" /\ t.url = u /\ t.sub = s
        /\ round.phase \in {"nodes", "modes"} =>
              DOMAIN ideal_map[u] \subseteq DOMAIN real_map[u]
        /\ round.phase = "nodes" => \A s \in DOMAIN real_map[u] :
              /\ \A n \in DOMAIN ideal_map[u][s].nodes \ DOMAIN real_map[u][s].nodes :
                    \E t \in round.tasks : /\ t.op = "ADD_MI" /\ t.url = u /\ t.sub = s
                                           /\ n \in DOMAIN t.arg
              /\ \A n \in DOMAIN real_map[u][s].nodes \ DOMAIN ideal_map[u][s].nodes :
                    \E t \in round.tasks : /\ t.op = "DEL_MI" /\ t.url = u /\ t.sub = s
                                           /\ n \in t.arg
        /\ round.phase = "modes" => \A s \in DOMAIN real_map[u] :
              /\ DOMAIN ideal_map[u][s].nodes = DOMAIN real_map[u][s].nodes
              /\ \/ real_map[u][s].publishing = ideal_map[u][s].publishing
                 \/ \E t \in round.tasks : t.op = "PUBLISHING" /\ t.url = u /\ t.sub = s
              /\ \/ real_map[u][s].monitoring = ideal_map[u][s].monitoring
                 \/ \E t \in round.tasks : t.op = "MONITORING" /\ t.url = u /\ t.sub = s

Inv ==
    /\ TypeOK /\ ControlTypes /\ SameNames /\ OnlyWanted
    /\ TasksFit /\ Unwanted /\ Covered

-----------------------------------------------------------------------------
(* Steps that leave the rounds alone.                                      *)

\* A set of numbers that is not empty has a smallest one.
LEMMA SmallestElement ==
    ASSUME NEW S \in SUBSET Nat, S # {}
    PROVE  \E i \in S : \A j \in S : i <= j
<1> DEFINE R == OpToRel(<, Nat)
<1>1. \A i, j \in Nat : <<i, j>> \in R <=> i < j
  BY DEF OpToRel
<1>2. IsWellFoundedOn(R, Nat)
  BY NatLessThanWellFounded
<1> HIDE DEF R
<1>3. PICK i \in S : \A j \in S : ~ (<<j, i>> \in R)
  BY <1>2, WFMin
<1>4. \A j \in S : ~ (j < i)
  BY <1>1, <1>3
<1>5. \A j \in S : i <= j
  BY <1>4
<1>6. QED
  BY <1>5

\* While the lock is free, what a round needs holds trivially.
LEMMA NoRound ==
    ASSUME ControlTypes, LockFree,
           round.phase = "dead" => \A t \in round.tasks : LeftTask(t)
    PROVE  TasksFit /\ Unwanted /\ Covered
<1>1. round.phase \in {"idle", "dead"}
  BY DEF LockFree
<1>2. CASE round.phase = "idle"
  BY <1>2 DEF ControlTypes, TasksFit, Unwanted, Covered
<1>3. CASE round.phase = "dead"
  BY <1>3 DEF TasksFit, Unwanted, Covered
<1>4. QED
  BY <1>1, <1>2, <1>3

\* A step that leaves maps and round alone keeps what the round needs.
LEMMA SameRound ==
    ASSUME TasksFit, Unwanted, Covered, OnlyWanted,
           UNCHANGED <<ideal_map, real_map, round>>
    PROVE  TasksFit' /\ Unwanted' /\ Covered' /\ OnlyWanted'
BY DEF TasksFit, Unwanted, Covered, OnlyWanted, SubTask, ItemTask, ModeTask, LeftTask

\* The initial state has the invariant.
LEMMA InvInit == Init => Inv
<1> SUFFICES ASSUME Init PROVE Inv
  OBVIOUS
<1>1. TypeOK
  <2>1. ideal_map \in [Urls -> MapsOf(VirtualSubscriptions)]
        /\ real_map \in [Urls -> MapsOf(VirtualSubscriptions)]
        /\ name_to_subscription \in [Urls -> MapsOf({"live", "stale"})]
    BY NothingIsMap DEF Init
  <2>2. QED
    BY <2>1, HaAssumption DEF Init, TypeOK, Idle
<1>2. ControlTypes
  BY DEF Init, ControlTypes, Idle
<1>3. SameNames /\ OnlyWanted
  BY NothingIsMap DEF Init, SameNames, OnlyWanted
<1>4. LockFree /\ round.phase # "dead"
  BY DEF Init, LockFree, Idle
<1>5. QED
  BY <1>1, <1>2, <1>3, <1>4, NoRound DEF Inv

\* The end of a session.
LEMMA EndSessionTypes ==
    ASSUME TypeOK, NEW u \in Urls, NEW c \in {"closed", "dead"}, EndSession(u, c)
    PROVE  /\ conn' \in [Urls -> {"closed", "dead", "active"}]
           /\ name_to_subscription' \in [Urls -> MapsOf({"live", "stale"})]
           /\ \A x \in Urls : DOMAIN name_to_subscription'[x] = DOMAIN name_to_subscription[x]
<1> DEFINE f == [s \in DOMAIN name_to_subscription[u] |-> "stale"]
<1>1. name_to_subscription' = [name_to_subscription EXCEPT ![u] = f]
  BY DEF EndSession
<1>2. name_to_subscription \in [Urls -> MapsOf({"live", "stale"})]
  BY DEF TypeOK
<1>3. f \in MapsOf({"live", "stale"}) /\ DOMAIN f = DOMAIN name_to_subscription[u]
  BY <1>2, MapOf
<1> HIDE DEF f
<1>4. QED
  BY <1>1, <1>2, <1>3 DEF EndSession, TypeOK

\* The steps of the manager that touch no map keep the invariant.
LEMMA QuietSteps ==
    ASSUME Inv, NEW u \in Urls,
           \/ KeepAlive(u) \/ UpdateState \/ ReconnectWarm \/ Disconnect(u)
           \/ Connect(u) \/ SessionLost(u) \/ Stop \/ StopDisconnects(u)
           \/ UNCHANGED vars
    PROVE  Inv' /\ UNCHANGED <<ideal_map, real_map, node_to_handle, round, active_client>>
<1>1. UNCHANGED <<ideal_map, real_map, node_to_handle, round, active_client>>
  BY DEF KeepAlive, UpdateState, ReconnectWarm, Disconnect, Connect, SessionLost,
         Stop, StopDisconnects, vars, maps
<1>2. /\ name_to_subscription' \in [Urls -> MapsOf({"live", "stale"})]
      /\ \A x \in Urls : DOMAIN name_to_subscription'[x] = DOMAIN name_to_subscription[x]
      /\ conn' \in [Urls -> {"closed", "dead", "active"}]
  <2>1. CASE Disconnect(u) \/ SessionLost(u) \/ StopDisconnects(u)
    BY <2>1, EndSessionTypes DEF Disconnect, SessionLost, StopDisconnects, Inv
  <2>2. CASE KeepAlive(u) \/ UpdateState \/ ReconnectWarm \/ Connect(u) \/ Stop
               \/ UNCHANGED vars
    <3>1. name_to_subscription' = name_to_subscription
      BY <2>2 DEF KeepAlive, UpdateState, ReconnectWarm, Connect, Stop, maps, vars
    <3>2. conn' \in [Urls -> {"closed", "dead", "active"}]
      BY <2>2 DEF KeepAlive, UpdateState, ReconnectWarm, Connect, Stop, vars, Inv, TypeOK
    <3>3. QED
      BY <3>1, <3>2 DEF Inv, TypeOK
  <2>3. QED
    BY <2>1, <2>2
<1>3. ServingClient \in Urls \cup {NoClient}
  <2>1. \A i \in DOMAIN Clients : Clients[i] \in Urls
    BY DEF Urls, ToSet
  <2>2. DOMAIN Clients \subseteq Nat
    BY HaAssumption
  <2>3. active_client \in Urls \cup {NoClient}
    BY DEF Inv, TypeOK
  <2> DEFINE own == IF active_client = NoClient THEN NO_DATA ELSE status[active_client]
             better == {i \in DOMAIN Clients :
                            /\ status[Clients[i]] > own
                            /\ \A x \in Urls : status[x] <= status[Clients[i]]}
  <2>4. ASSUME better # {}
        PROVE  Clients[CHOOSE i \in better : \A j \in better : i <= j] \in Urls
    <3>1. better \subseteq Nat /\ better \subseteq DOMAIN Clients
      BY <2>2
    <3>2. \E i \in better : \A j \in better : i <= j
      BY <3>1, <2>4, SmallestElement
    <3>3. QED
      BY <3>1, <3>2, <2>1
  <2>5. QED
    BY <2>3, <2>4 DEF ServingClient
<1>4. /\ url_to_reset' \subseteq Urls /\ reconnecting' \subseteq Urls
      /\ status' \in [Urls -> Levels]
  BY HaAssumption DEF KeepAlive, UpdateState, ReconnectWarm, Disconnect, Connect, SessionLost,
         Stop, StopDisconnects, vars, Inv, TypeOK
<1>5. /\ manager' \in [at : {"update", "failover", "reconnect"}, primary : Urls \cup {NoClient}]
      /\ stop' \in [at : {"no", "disconnecting", "done"}, left : SUBSET Urls]
      /\ faults' \in Nat
  BY <1>3 DEF KeepAlive, UpdateState, ReconnectWarm, Disconnect, Connect, SessionLost,
         Stop, StopDisconnects, vars, Inv, ControlTypes
<1>6. TypeOK' /\ ControlTypes' /\ SameNames'
  BY <1>1, <1>2, <1>4, <1>5 DEF Inv, TypeOK, ControlTypes, SameNames, LockFree
<1>7. QED
  BY <1>1, <1>6, SameRound DEF Inv

-----------------------------------------------------------------------------
(* The calls of the user, and a failover: they have the lock.              *)

\* A new ideal map that is typed and wanted is all there is to show.
LEMMA IdealChanges ==
    ASSUME Inv, LockFree, UNCHANGED <<maps, round>>,
           ideal_map' \in [Urls -> MapsOf(VirtualSubscriptions)],
           \A u \in Urls : \A s \in DOMAIN ideal_map'[u] :
                \A n \in DOMAIN ideal_map'[u][s].nodes : <<s, n>> \in Subscribable,
           UNCHANGED <<url_to_reset, status, reconnecting, conn, stop, faults>>,
           manager' \in [at : {"update", "failover", "reconnect"},
                         primary : Urls \cup {NoClient}],
           active_client' \in Urls \cup {NoClient}
    PROVE  Inv'
<1>1. TypeOK' /\ ControlTypes' /\ SameNames'
  BY DEF Inv, TypeOK, ControlTypes, SameNames, LockFree, maps
<1>2. LockFree'
  BY DEF LockFree
<1>3. OnlyWanted'
  BY DEF Inv, OnlyWanted, maps
<1>4. (round.phase = "dead" => \A t \in round.tasks : LeftTask(t))'
  BY DEF Inv, TasksFit, LeftTask, maps
<1>5. TasksFit' /\ Unwanted' /\ Covered'
  BY <1>1, <1>2, <1>4, NoRound, PTL
<1>6. QED
  BY <1>1, <1>3, <1>5 DEF Inv

\* A subscription of the ideal map.
LEMMA IdealSub ==
    ASSUME TypeOK, NEW u \in Urls, NEW s \in DOMAIN ideal_map[u]
    PROVE  s \in Subs /\ ideal_map[u][s] \in VirtualSubscriptions
BY MapOf DEF TypeOK

\* A subscription of the real map.
LEMMA RealSub ==
    ASSUME TypeOK, NEW u \in Urls, NEW s \in DOMAIN real_map[u]
    PROVE  s \in Subs /\ real_map[u][s] \in VirtualSubscriptions
BY MapOf DEF TypeOK

\* What becomes of the ideal map of a url, subscription by subscription.
LEMMA CreateSubscriptionEffect ==
    ASSUME Inv, NEW s \in Subs, CreateSubscription(s), NEW u \in Urls
    PROVE  /\ ideal_map'[u] \in MapsOf(VirtualSubscriptions)
           /\ DOMAIN ideal_map'[u] = DOMAIN ideal_map[u] \cup {s}
           /\ ideal_map'[u][s] = VirtualSubscription(u = active_client)
           /\ \A r \in DOMAIN ideal_map[u] \ {s} : ideal_map'[u][r] = ideal_map[u][r]
<1> DEFINE v == VirtualSubscription(u = active_client)
<1>1. ideal_map'[u] = With(ideal_map[u], {s}, v)
  BY DEF CreateSubscription
<1>2. v \in VirtualSubscriptions
  BY FreshVirtualSub
<1>3. ideal_map[u] \in MapsOf(VirtualSubscriptions)
  BY DEF Inv, TypeOK
<1> HIDE DEF v
<1>4. With(ideal_map[u], {s}, v) \in MapsOf(VirtualSubscriptions)
      /\ DOMAIN With(ideal_map[u], {s}, v) = DOMAIN ideal_map[u] \cup {s}
  <2>1. DOMAIN ideal_map[u] \subseteq Subs
        /\ ideal_map[u] \in [DOMAIN ideal_map[u] -> VirtualSubscriptions]
    BY <1>3, MapOf
  <2>2. DOMAIN With(ideal_map[u], {s}, v) = DOMAIN ideal_map[u] \cup {s}
        /\ With(ideal_map[u], {s}, v) \in [DOMAIN ideal_map[u] \cup {s} -> VirtualSubscriptions]
    BY <1>2, <2>1 DEF With
  <2>3. QED
    BY <2>1, <2>2, MapOf
<1>5. \A r \in DOMAIN ideal_map[u] \cup {s} :
        With(ideal_map[u], {s}, v)[r] = IF r = s THEN v ELSE ideal_map[u][r]
  BY DEF With
<1>6. QED
  BY <1>1, <1>4, <1>5 DEF v

\* What subscribe_data_change does to the ideal map.
LEMMA SubscribeEffect ==
    ASSUME Inv, NEW s \in Subs, NEW n \in Nodes, NEW a \in Attrs,
           SubscribeDataChange(s, n, a), NEW u \in Urls
    PROVE  /\ ideal_map'[u] \in MapsOf(VirtualSubscriptions)
           /\ DOMAIN ideal_map'[u] = DOMAIN ideal_map[u]
           /\ \A r \in DOMAIN ideal_map[u] \ {s} : ideal_map'[u][r] = ideal_map[u][r]
           /\ ideal_map'[u][s].publishing = ideal_map[u][s].publishing
           /\ ideal_map'[u][s].monitoring = ideal_map[u][s].monitoring
           /\ DOMAIN ideal_map'[u][s].nodes = DOMAIN ideal_map[u][s].nodes \cup {n}
<1> DEFINE v == ideal_map[u][s]
           w == [v EXCEPT !.nodes = With(v.nodes, {n}, a)]
<1>1. s \in DOMAIN ideal_map[u]
  BY DEF SubscribeDataChange
<1>2. v \in VirtualSubscriptions
  BY <1>1, IdealSub DEF Inv
<1>3. v.nodes \in NodeMaps
  BY <1>2 DEF VirtualSubscriptions, NodeMaps
<1>4. With(v.nodes, {n}, a) \in NodeMaps
      /\ DOMAIN With(v.nodes, {n}, a) = DOMAIN v.nodes \cup {n}
  BY <1>3, NodesWith
<1>5. /\ w \in VirtualSubscriptions /\ w.nodes = With(v.nodes, {n}, a)
      /\ w.publishing = v.publishing /\ w.monitoring = v.monitoring
  BY <1>2, <1>4 DEF VirtualSubscriptions, NodeMaps
<1>6. ideal_map'[u] = [ideal_map[u] EXCEPT ![s] = w]
  BY DEF SubscribeDataChange
<1>7. ideal_map[u] \in [DOMAIN ideal_map[u] -> VirtualSubscriptions]
      /\ DOMAIN ideal_map[u] \subseteq Subs
  BY MapOf DEF Inv, TypeOK
<1> HIDE DEF w
<1>8. /\ ideal_map'[u] \in [DOMAIN ideal_map[u] -> VirtualSubscriptions]
      /\ ideal_map'[u][s] = w
      /\ \A r \in DOMAIN ideal_map[u] \ {s} : ideal_map'[u][r] = ideal_map[u][r]
  BY <1>1, <1>5, <1>6, <1>7
<1>9. DOMAIN ideal_map'[u] = DOMAIN ideal_map[u]
  BY <1>8
<1>10. ideal_map'[u] \in MapsOf(VirtualSubscriptions)
  BY <1>7, <1>8, <1>9, MapOf
<1>11. QED
  BY <1>4, <1>5, <1>8, <1>9, <1>10

\* What unsubscribe does to the ideal map.
LEMMA UnsubscribeEffect ==
    ASSUME Inv, NEW n \in Nodes, Unsubscribe(n), NEW u \in Urls
    PROVE  /\ ideal_map'[u] \in MapsOf(VirtualSubscriptions)
           /\ DOMAIN ideal_map'[u] = DOMAIN ideal_map[u]
           /\ \A r \in DOMAIN ideal_map[u] :
                /\ ideal_map'[u][r].publishing = ideal_map[u][r].publishing
                /\ ideal_map'[u][r].monitoring = ideal_map[u][r].monitoring
                /\ DOMAIN ideal_map'[u][r].nodes \subseteq DOMAIN ideal_map[u][r].nodes
<1> DEFINE first == ideal_map[Clients[1]]
           found == {s \in DOMAIN first : n \in DOMAIN first[s].nodes}
<1>1. ideal_map'[u] = [s \in DOMAIN ideal_map[u] |->
                IF s \in found
                THEN [ideal_map[u][s] EXCEPT !.nodes = Without(@, {n})]
                ELSE ideal_map[u][s]]
  BY DEF Unsubscribe
<1> HIDE DEF found
<1>2. ASSUME NEW r \in DOMAIN ideal_map[u]
      PROVE  /\ r \in Subs
             /\ ideal_map'[u][r] \in VirtualSubscriptions
             /\ ideal_map'[u][r].publishing = ideal_map[u][r].publishing
             /\ ideal_map'[u][r].monitoring = ideal_map[u][r].monitoring
             /\ DOMAIN ideal_map'[u][r].nodes \subseteq DOMAIN ideal_map[u][r].nodes
  <2> DEFINE v == ideal_map[u][r]
  <2>1. v \in VirtualSubscriptions /\ r \in Subs
    BY <1>2, IdealSub DEF Inv
  <2>2. v.nodes \in NodeMaps
    BY <2>1 DEF VirtualSubscriptions, NodeMaps
  <2>3. Without(v.nodes, {n}) \in NodeMaps
        /\ DOMAIN Without(v.nodes, {n}) = DOMAIN v.nodes \ {n}
    BY <2>2, NodesWithout
  <2>4. ideal_map'[u][r] = v \/ ideal_map'[u][r] = [v EXCEPT !.nodes = Without(v.nodes, {n})]
    BY <1>1, <1>2
  <2>5. /\ [v EXCEPT !.nodes = Without(v.nodes, {n})] \in VirtualSubscriptions
        /\ [v EXCEPT !.nodes = Without(v.nodes, {n})].nodes = Without(v.nodes, {n})
        /\ [v EXCEPT !.nodes = Without(v.nodes, {n})].publishing = v.publishing
        /\ [v EXCEPT !.nodes = Without(v.nodes, {n})].monitoring = v.monitoring
    BY <2>1, <2>3 DEF VirtualSubscriptions, NodeMaps
  <2>6. QED
    BY <2>1, <2>3, <2>4, <2>5
<1>3. DOMAIN ideal_map'[u] = DOMAIN ideal_map[u]
  BY <1>1
<1>4. ideal_map'[u] \in [DOMAIN ideal_map[u] -> VirtualSubscriptions]
  BY <1>1, <1>2, <1>3
<1>5. ideal_map'[u] \in MapsOf(VirtualSubscriptions)
  BY <1>2, <1>3, <1>4, MapOf
<1>6. QED
  BY <1>2, <1>3, <1>5

\* What delete_subscriptions does to the ideal map.
LEMMA DeleteSubscriptionEffect ==
    ASSUME Inv, NEW s \in Subs, DeleteSubscription(s), NEW u \in Urls
    PROVE  /\ ideal_map'[u] \in MapsOf(VirtualSubscriptions)
           /\ DOMAIN ideal_map'[u] = DOMAIN ideal_map[u] \ {s}
           /\ \A r \in DOMAIN ideal_map[u] \ {s} : ideal_map'[u][r] = ideal_map[u][r]
<1>1. ideal_map'[u] = Without(ideal_map[u], {s})
  BY DEF DeleteSubscription
<1>2. ideal_map[u] \in MapsOf(VirtualSubscriptions)
  BY DEF Inv, TypeOK
<1>3. QED
  BY <1>1, <1>2, WithoutIsMap

\* What failover_warm does to the ideal map.
LEMMA FailoverEffect ==
    ASSUME Inv, FailoverWarm, NEW u \in Urls
    PROVE  /\ ideal_map'[u] \in MapsOf(VirtualSubscriptions)
           /\ DOMAIN ideal_map'[u] = DOMAIN ideal_map[u]
           /\ \A r \in DOMAIN ideal_map[u] :
                /\ ideal_map'[u][r].publishing = (u = active_client')
                /\ ideal_map'[u][r].monitoring = (u = active_client')
                /\ ideal_map'[u][r].nodes = ideal_map[u][r].nodes
<1> DEFINE on == (u = manager.primary)
<1>1. ideal_map'[u] = [s \in DOMAIN ideal_map[u] |->
        [ideal_map[u][s] EXCEPT !.publishing = on, !.monitoring = on]]
  BY DEF FailoverWarm, SetModes
<1>2. on \in BOOLEAN /\ on = (u = active_client')
  BY DEF FailoverWarm
<1> HIDE DEF on
<1>3. ASSUME NEW r \in DOMAIN ideal_map[u]
      PROVE  /\ r \in Subs
             /\ ideal_map'[u][r] \in VirtualSubscriptions
             /\ ideal_map'[u][r].publishing = on
             /\ ideal_map'[u][r].monitoring = on
             /\ ideal_map'[u][r].nodes = ideal_map[u][r].nodes
  <2>1. ideal_map[u][r] \in VirtualSubscriptions /\ r \in Subs
    BY <1>3, IdealSub DEF Inv
  <2>2. ideal_map'[u][r] = [ideal_map[u][r] EXCEPT !.publishing = on, !.monitoring = on]
    BY <1>1, <1>3
  <2>3. QED
    BY <2>1, <2>2, <1>2 DEF VirtualSubscriptions
<1>4. DOMAIN ideal_map'[u] = DOMAIN ideal_map[u]
  BY <1>1
<1>5. ideal_map'[u] \in [DOMAIN ideal_map[u] -> VirtualSubscriptions]
  BY <1>1, <1>3, <1>4
<1>6. ideal_map'[u] \in MapsOf(VirtualSubscriptions)
  BY <1>3, <1>4, <1>5, MapOf
<1>7. QED
  BY <1>2, <1>3, <1>4, <1>6

\* The user's calls and the failover keep the invariant; they have the lock.
LEMMA IdealSteps ==
    ASSUME Inv, UserCalls \/ FailoverWarm
    PROVE  Inv' /\ LockFree /\ UNCHANGED <<maps, round>>
<1>1. /\ LockFree /\ UNCHANGED <<maps, round>>
      /\ UNCHANGED <<url_to_reset, status, reconnecting, conn, stop, faults>>
      /\ manager' \in [at : {"update", "failover", "reconnect"},
                       primary : Urls \cup {NoClient}]
      /\ active_client' \in Urls \cup {NoClient}
  <2>1. CASE UserCalls
    <3>1. Call
      BY <2>1 DEF UserCalls, CreateSubscription, DeleteSubscription,
                  SubscribeDataChange, Unsubscribe
    <3>2. QED
      BY <3>1 DEF Call, Inv, ControlTypes, TypeOK
  <2>2. CASE FailoverWarm
    BY <2>2 DEF FailoverWarm, Inv, ControlTypes, TypeOK
  <2>3. QED
    BY <2>1, <2>2
<1>2. \A u \in Urls : \A s \in DOMAIN ideal_map[u] :
        \A n \in DOMAIN ideal_map[u][s].nodes : <<s, n>> \in Subscribable
  BY DEF Inv, OnlyWanted
<1>3. /\ ideal_map' = [u \in Urls |-> ideal_map'[u]]
      /\ \A u \in Urls :
            /\ ideal_map'[u] \in MapsOf(VirtualSubscriptions)
            /\ \A s \in DOMAIN ideal_map'[u] :
                  \A n \in DOMAIN ideal_map'[u][s].nodes : <<s, n>> \in Subscribable
  <2>1. CASE \E s \in Subs : CreateSubscription(s)
    <3> PICK s \in Subs : CreateSubscription(s)
      BY <2>1
    <3>1. ideal_map' = [u \in Urls |-> ideal_map'[u]]
      BY DEF CreateSubscription
    <3>2. \A u \in Urls :
           /\ ideal_map'[u] \in MapsOf(VirtualSubscriptions)
           /\ DOMAIN ideal_map'[u] = DOMAIN ideal_map[u] \cup {s}
           /\ DOMAIN ideal_map'[u][s].nodes = {}
           /\ \A r \in DOMAIN ideal_map[u] \ {s} : ideal_map'[u][r] = ideal_map[u][r]
      BY CreateSubscriptionEffect, FreshVirtualSub
    <3>3. QED
      BY <1>2, <3>1, <3>2
  <2>2. CASE \E s \in Subs : DeleteSubscription(s)
    <3> PICK s \in Subs : DeleteSubscription(s)
      BY <2>2
    <3>1. ideal_map' = [u \in Urls |-> ideal_map'[u]]
      BY DEF DeleteSubscription
    <3>2. QED
      BY <1>2, <3>1, DeleteSubscriptionEffect
  <2>3. CASE \E s \in Subs, n \in Nodes, a \in Attrs : SubscribeDataChange(s, n, a)
    <3> PICK s \in Subs, n \in Nodes, a \in Attrs : SubscribeDataChange(s, n, a)
      BY <2>3
    <3>1. ideal_map' = [u \in Urls |-> ideal_map'[u]] /\ <<s, n>> \in Subscribable
          /\ \A u \in Urls : s \in DOMAIN ideal_map[u]
      BY DEF SubscribeDataChange
    <3>2. QED
      BY <1>2, <3>1, SubscribeEffect
  <2>4. CASE \E n \in Nodes : Unsubscribe(n)
    <3> PICK n \in Nodes : Unsubscribe(n)
      BY <2>4
    <3>1. ideal_map' = [u \in Urls |-> ideal_map'[u]]
      BY DEF Unsubscribe
    <3>2. QED
      BY <1>2, <3>1, UnsubscribeEffect
  <2>5. CASE FailoverWarm
    <3>1. ideal_map' = [u \in Urls |-> ideal_map'[u]]
      BY <2>5 DEF FailoverWarm
    <3>2. QED
      BY <1>2, <2>5, <3>1, FailoverEffect
  <2>6. QED
    BY <2>1, <2>2, <2>3, <2>4, <2>5 DEF UserCalls
<1>4. ideal_map' \in [Urls -> MapsOf(VirtualSubscriptions)]
  BY <1>3
<1>5. QED
  BY <1>1, <1>3, <1>4, IdealChanges

-----------------------------------------------------------------------------
(* The phases of a round.                                                  *)

\* Cancelling the reconciliator gives its lock back and keeps the invariant.
LEMMA StopCancelsStep ==
    ASSUME Inv, StopCancels
    PROVE  /\ Inv' /\ LockFree' /\ UNCHANGED <<ideal_map, maps, active_client>>
           /\ round'.phase = "dead" => round.phase = "dead"
<1>1. /\ UNCHANGED <<ideal_map, maps, active_client>>
      /\ \/ round' = Idle
         \/ round' = round /\ round.phase = "dead"
  BY DEF StopCancels
<1>2. LockFree' /\ (round'.phase = "dead" => round.phase = "dead")
  BY <1>1 DEF LockFree, Idle
<1>3. TypeOK' /\ SameNames' /\ OnlyWanted'
  BY <1>1 DEF Inv, TypeOK, SameNames, OnlyWanted, StopCancels, maps, Idle
<1>4. ControlTypes'
  BY <1>1 DEF Inv, ControlTypes, StopCancels, Idle
<1>5. (round.phase = "dead" => \A t \in round.tasks : LeftTask(t))'
  BY <1>1 DEF Inv, TasksFit, LeftTask, maps, Idle
<1>6. TasksFit' /\ Unwanted' /\ Covered'
  BY <1>2, <1>4, <1>5, NoRound, PTL
<1>7. QED
  BY <1>1, <1>2, <1>3, <1>4, <1>6 DEF Inv

\* The requests of the first phase have their shape.
LEMMA SubTasksFit ==
    ASSUME TypeOK, NEW u \in Urls, NEW real, DOMAIN real \subseteq Subs,
           NEW t \in SubTasks(u, real)
    PROVE  /\ t \in AnyTask /\ t.url = u /\ SubTask(t)
<1>1. DOMAIN ideal_map[u] \subseteq Subs
  BY MapOf DEF TypeOK
<1>2. CASE \E s \in DOMAIN real \ DOMAIN ideal_map[u] : t = Task("DEL_SUB", u, s, {})
  BY <1>1, <1>2 DEF Task, AnyTask, SubTask
<1>3. CASE \E s \in DOMAIN ideal_map[u] \ DOMAIN real : t = Task("ADD_SUB", u, s, {})
  BY <1>1, <1>3 DEF Task, AnyTask, SubTask
<1>4. QED
  BY <1>2, <1>3 DEF SubTasks

\* The start of a round, with resets, keeps the invariant.
LEMMA RoundBeginsStep ==
    ASSUME Inv, RoundBegins
    PROVE  /\ Inv' /\ ideal_map' = ideal_map /\ active_client' = active_client
           /\ \A u \in Urls : \/ real_map'[u] = real_map[u]
                                 /\ node_to_handle'[u] = node_to_handle[u]
                              \/ DOMAIN real_map'[u] = {}
           /\ round'.phase \in {"idle", "subs"}
<1> DEFINE cleared(f, empty) == [u \in Urls |-> IF u \in url_to_reset THEN empty ELSE f[u]]
           real == cleared(real_map, Nothing)
           targets == {u \in Urls : status[u] >= HEALTHY /\ real[u] # ideal_map[u]}
           tasks == UNION {SubTasks(u, real[u]) : u \in targets}
<1>1. /\ real_map' = real
      /\ name_to_subscription' = cleared(name_to_subscription, Nothing)
      /\ node_to_handle' = cleared(node_to_handle, {})
      /\ round' = IF targets = {} THEN Idle ELSE
                [phase |-> "subs", targets |-> targets, ok |-> TRUE, tasks |-> tasks]
      /\ url_to_reset' = {}
      /\ UNCHANGED <<ideal_map, status, active_client, manager, reconnecting,
                     conn, stop, sub_names, faults>>
  BY DEF RoundBegins
<1>2. /\ real \in [Urls -> MapsOf(VirtualSubscriptions)]
      /\ name_to_subscription' \in [Urls -> MapsOf({"live", "stale"})]
      /\ node_to_handle' \in [Urls -> SUBSET Nodes]
  BY <1>1, NothingIsMap DEF Inv, TypeOK
<1>3. \A u \in Urls : \/ real[u] = real_map[u] /\ node_to_handle'[u] = node_to_handle[u]
                         /\ name_to_subscription'[u] = name_to_subscription[u]
                      \/ DOMAIN real[u] = {} /\ DOMAIN name_to_subscription'[u] = {}
  BY <1>1, NothingIsMap
<1>4. \A u \in Urls : DOMAIN real[u] \subseteq Subs
  BY <1>2, MapOf
<1>5. targets \subseteq Urls
  OBVIOUS
<1>6. ASSUME NEW t \in tasks
      PROVE  t \in AnyTask /\ t.url \in targets /\ SubTask(t)
  <2>1. PICK u \in targets : t \in SubTasks(u, real[u])
    BY <1>6
  <2>2. TypeOK /\ u \in Urls /\ DOMAIN real[u] \subseteq Subs
    BY <1>4, <1>5 DEF Inv
  <2> HIDE DEF real, targets
  <2>3. QED
    BY <2>1, <2>2, SubTasksFit
<1>7. \A u \in targets :
        /\ \A s \in DOMAIN real[u] \ DOMAIN ideal_map[u] :
              \E t \in tasks : t.op = "DEL_SUB" /\ t.url = u /\ t.sub = s
        /\ \A s \in DOMAIN ideal_map[u] \ DOMAIN real[u] :
              \E t \in tasks : t.op = "ADD_SUB" /\ t.url = u /\ t.sub = s
  <2>1. TAKE u \in targets
  <2>2. SubTasks(u, real[u]) \subseteq tasks
    OBVIOUS
  <2> HIDE DEF real, targets, tasks
  <2>3. ASSUME NEW s \in DOMAIN real[u] \ DOMAIN ideal_map[u]
        PROVE  \E t \in tasks : t.op = "DEL_SUB" /\ t.url = u /\ t.sub = s
    <3>1. Task("DEL_SUB", u, s, {}) \in tasks
      BY <2>2 DEF SubTasks
    <3>2. QED
      BY <3>1 DEF Task
  <2>4. ASSUME NEW s \in DOMAIN ideal_map[u] \ DOMAIN real[u]
        PROVE  \E t \in tasks : t.op = "ADD_SUB" /\ t.url = u /\ t.sub = s
    <3>1. Task("ADD_SUB", u, s, {}) \in tasks
      BY <2>2 DEF SubTasks
    <3>2. QED
      BY <3>1 DEF Task
  <2>5. QED
    BY <2>3, <2>4
<1> HIDE DEF real, targets, tasks
<1>8. /\ round' \in [phase : {"idle", "subs", "nodes", "modes", "dead"},
                     targets : SUBSET Urls, tasks : SUBSET AnyTask, ok : BOOLEAN]
      /\ round'.phase \in {"idle", "subs"}
      /\ round'.phase = "idle" => round'.tasks = {}
      /\ round'.phase = "subs" => round'.tasks = tasks /\ round'.targets = targets
  BY <1>1, <1>5, <1>6 DEF Idle
<1>9. TypeOK'
  BY <1>1, <1>2, <1>8 DEF Inv, TypeOK
<1>10. ControlTypes'
  BY <1>1, <1>8 DEF Inv, ControlTypes, LockFree
<1>11. SameNames' /\ OnlyWanted'
  BY <1>1, <1>3 DEF Inv, SameNames, OnlyWanted
<1>12. TasksFit' /\ Unwanted' /\ Covered'
  <2>1. CASE round'.phase = "idle"
    <3>1. LockFree' /\ ~(round.phase = "dead")'
      BY <2>1 DEF LockFree
    <3>2. QED
      BY <1>10, <3>1, NoRound, PTL
  <2>2. CASE round'.phase = "subs"
    <3>1. round'.tasks = tasks /\ round'.targets = targets /\ ideal_map' = ideal_map
          /\ real_map' = real
      BY <1>1, <1>8, <2>2
    <3>2. TasksFit'
      BY <1>6, <2>2, <3>1 DEF TasksFit, SubTask
    <3>3. Unwanted' /\ Covered'
      BY <1>7, <2>2, <3>1 DEF Unwanted, Covered
    <3>4. QED
      BY <3>2, <3>3
  <2>3. QED
    BY <1>8, <2>1, <2>2
<1>13. QED
  BY <1>1, <1>3, <1>8, <1>9, <1>10, <1>11, <1>12 DEF Inv

\* The requests of the second phase have their shape and subscriptions both maps know.
LEMMA ItemTasksFit ==
    ASSUME TypeOK, SameNames, OnlyWanted, NEW u \in Urls,
           NEW s \in Existing(u), NEW t \in ItemTasks(u, s)
    PROVE  /\ t \in AnyTask /\ t.url = u /\ ItemTask(t)
<1> DEFINE real(r) == DOMAIN real_map[u][r].nodes
           ideal(r) == ideal_map[u][r].nodes
           add(r) == [n \in DOMAIN ideal(r) \ real(r) |-> ideal(r)[n]]
           part(r, a) == Without(add(r), {n \in DOMAIN add(r) : add(r)[n] # a})
           Of(r) == {Task("DEL_MI", u, r, nodes) : nodes \in {real(r) \ DOMAIN ideal(r)} \ {{}}}
                      \cup {Task("ADD_MI", u, r, part(r, a)) :
                               a \in {add(r)[n] : n \in DOMAIN add(r)}}
<1>0. ItemTasks(u, s) = Of(s)
  BY DEF ItemTasks
<1> HIDE DEF Of
<1>a. t \in Of(s)
  BY <1>0
<1> HIDE DEF add, part
<1>1. \/ t = Task("DEL_MI", u, s, real(s) \ DOMAIN ideal(s))
      \/ \E a \in {add(s)[n] : n \in DOMAIN add(s)} : t = Task("ADD_MI", u, s, part(s, a))
  BY <1>a DEF Of
<1> USE DEF add, part
<1>2. s \in DOMAIN ideal_map[u] /\ s \in DOMAIN real_map[u] /\ s \in Subs
  BY <1>1, IdealSub DEF SameNames, Existing
<1>3. ideal_map[u][s] \in VirtualSubscriptions /\ real_map[u][s] \in VirtualSubscriptions
  BY <1>2, IdealSub, RealSub
<1>4. ideal(s) \in NodeMaps /\ real_map[u][s].nodes \in NodeMaps
  BY <1>3 DEF VirtualSubscriptions, NodeMaps
<1>5. /\ DOMAIN ideal(s) \subseteq Nodes /\ ideal(s) \in [DOMAIN ideal(s) -> Attrs]
      /\ real(s) \subseteq Nodes
  BY <1>4, NodeMap
<1>6. /\ \A n \in DOMAIN ideal(s) : <<s, n>> \in Subscribable
      /\ \A n \in real(s) : <<s, n>> \in Subscribable
  BY <1>2 DEF OnlyWanted
<1>7. CASE t = Task("DEL_MI", u, s, real(s) \ DOMAIN ideal(s))
  <2>1. /\ t.op = "DEL_MI" /\ t.url = u /\ t.sub = s
        /\ t.arg = real(s) \ DOMAIN ideal(s) /\ t.arg \in SUBSET Nodes
        /\ t \in AnyTask
    BY <1>2, <1>5, <1>7 DEF Task, AnyTask
  <2>2. QED
    BY <1>2, <1>6, <2>1 DEF ItemTask
<1>8. ASSUME NEW a, t = Task("ADD_MI", u, s, part(s, a))
      PROVE  t \in AnyTask /\ t.url = u /\ ItemTask(t)
  <2>1. add(s) \in NodeMaps /\ DOMAIN add(s) \subseteq DOMAIN ideal(s)
    BY <1>5, NodeMap
  <2> HIDE DEF add
  <2>2. part(s, a) \in NodeMaps /\ DOMAIN part(s, a) \subseteq DOMAIN add(s)
    BY <2>1, NodesWithout
  <2> HIDE DEF part
  <2>3. t.op = "ADD_MI" /\ t.url = u /\ t.sub = s /\ t.arg = part(s, a) /\ t \in AnyTask
    BY <1>2, <1>8, <2>2 DEF Task, AnyTask
  <2>4. QED
    BY <1>2, <1>6, <2>1, <2>2, <2>3 DEF ItemTask
<1>9. QED
  BY <1>1, <1>7, <1>8

\* Every difference between the nodes of the maps has its task.
LEMMA NodeTasksCover ==
    ASSUME SameNames, NEW u \in Urls, NEW s \in DOMAIN real_map[u] \cap DOMAIN ideal_map[u]
    PROVE  /\ \A n \in DOMAIN ideal_map[u][s].nodes \ DOMAIN real_map[u][s].nodes :
                 \E t \in NodeTasks(u) : /\ t.op = "ADD_MI" /\ t.url = u /\ t.sub = s
                                         /\ n \in DOMAIN t.arg
           /\ \A n \in DOMAIN real_map[u][s].nodes \ DOMAIN ideal_map[u][s].nodes :
                 \E t \in NodeTasks(u) : /\ t.op = "DEL_MI" /\ t.url = u /\ t.sub = s
                                         /\ n \in t.arg
<1> DEFINE real == DOMAIN real_map[u][s].nodes
           ideal == ideal_map[u][s].nodes
           del == real \ DOMAIN ideal
           add == [n \in DOMAIN ideal \ real |-> ideal[n]]
           part(a) == Without(add, {n \in DOMAIN add : add[n] # a})
<1>1. s \in Existing(u)
  BY DEF SameNames, Existing
<1>2. {Task("DEL_MI", u, s, nodes) : nodes \in {del} \ {{}}}
        \cup {Task("ADD_MI", u, s, part(a)) : a \in {add[n] : n \in DOMAIN add}}
          \subseteq NodeTasks(u)
  <2>1. ItemTasks(u, s) = {Task("DEL_MI", u, s, nodes) : nodes \in {del} \ {{}}}
        \cup {Task("ADD_MI", u, s, part(a)) : a \in {add[n] : n \in DOMAIN add}}
    BY DEF ItemTasks
  <2> HIDE DEF del, add, part
  <2>2. ItemTasks(u, s) \subseteq NodeTasks(u)
    BY <1>1 DEF NodeTasks
  <2>3. QED
    BY <2>1, <2>2
<1>3. ASSUME NEW n \in DOMAIN ideal \ real
      PROVE  \E t \in NodeTasks(u) : /\ t.op = "ADD_MI" /\ t.url = u /\ t.sub = s
                                     /\ n \in DOMAIN t.arg
  <2>1. n \in DOMAIN add
    OBVIOUS
  <2> HIDE DEF add
  <2>2. Task("ADD_MI", u, s, part(add[n])) \in NodeTasks(u)
    BY <1>2, <2>1
  <2>3. n \in DOMAIN part(add[n])
    BY <2>1 DEF Without
  <2> HIDE DEF part
  <2>4. QED
    BY <2>2, <2>3 DEF Task
<1>4. ASSUME NEW n \in del
      PROVE  \E t \in NodeTasks(u) : /\ t.op = "DEL_MI" /\ t.url = u /\ t.sub = s
                                     /\ n \in t.arg
  <2>1. Task("DEL_MI", u, s, del) \in NodeTasks(u)
    BY <1>2, <1>4
  <2> HIDE DEF del
  <2>2. QED
    BY <2>1, <1>4 DEF Task
<1>5. QED
  BY <1>3, <1>4

\* A request for a mode has its shape.
LEMMA TaskType ==
    ASSUME NEW op \in {"PUBLISHING", "MONITORING"}, NEW u \in Urls, NEW s \in Subs,
           NEW b \in BOOLEAN
    PROVE  Task(op, u, s, b) \in AnyTask
<1> DEFINE args == NodeMaps \cup (SUBSET Nodes) \cup BOOLEAN
           ops == {"ADD_SUB", "DEL_SUB", "ADD_MI", "DEL_MI", "PUBLISHING", "MONITORING"}
<1>1. b \in args
  <2> DEFINE B == BOOLEAN
  <2>1. b \in B
    OBVIOUS
  <2> HIDE DEF B
  <2>2. b \in NodeMaps \cup (SUBSET Nodes) \cup B
    BY <2>1
  <2>3. QED
    BY <2>2, Zenon DEF B
<1>2. op \in ops
  OBVIOUS
<1>3. AnyTask = [op : ops, url : Urls, sub : Subs, arg : args]
  BY Zenon DEF AnyTask
<1> HIDE DEF args, ops
<1>4. QED
  BY <1>1, <1>2, <1>3 DEF Task

\* The requests of the third phase have their shape and subscriptions both maps know.
LEMMA ModeTasksFit ==
    ASSUME TypeOK, NEW u \in Urls, DOMAIN real_map[u] \subseteq DOMAIN ideal_map[u],
           NEW t \in ModeTasks(u)
    PROVE  /\ t \in AnyTask /\ t.url = u /\ ModeTask(t)
<1>1. PICK s \in DOMAIN real_map[u] :
        \/ t = Task("PUBLISHING", u, s, ideal_map[u][s].publishing)
        \/ t = Task("MONITORING", u, s, ideal_map[u][s].monitoring)
  BY DEF ModeTasks
<1>2. /\ s \in Subs /\ s \in DOMAIN ideal_map[u]
      /\ ideal_map[u][s].publishing \in BOOLEAN /\ ideal_map[u][s].monitoring \in BOOLEAN
  BY <1>1, IdealSub DEF VirtualSubscriptions
<1>3. CASE t = Task("PUBLISHING", u, s, ideal_map[u][s].publishing)
  <2>1. t \in AnyTask
    BY <1>2, <1>3, TaskType
  <2>2. /\ t.op = "PUBLISHING" /\ t.url = u /\ t.sub = s
        /\ t.arg = ideal_map[u][s].publishing
    BY <1>3 DEF Task
  <2>3. QED
    BY <1>1, <1>2, <2>1, <2>2 DEF ModeTask
<1>4. CASE t = Task("MONITORING", u, s, ideal_map[u][s].monitoring)
  <2>1. t \in AnyTask
    BY <1>2, <1>4, TaskType
  <2>2. /\ t.op = "MONITORING" /\ t.url = u /\ t.sub = s
        /\ t.arg = ideal_map[u][s].monitoring
    BY <1>4 DEF Task
  <2>3. QED
    BY <1>1, <1>2, <2>1, <2>2 DEF ModeTask
<1>5. QED
  BY <1>1, <1>3, <1>4

\* For every mode that differs the third phase has a request.
LEMMA ModeTasksCover ==
    ASSUME NEW u \in Urls, NEW s \in DOMAIN real_map[u]
    PROVE  /\ \/ real_map[u][s].publishing = ideal_map[u][s].publishing
              \/ \E t \in ModeTasks(u) : t.op = "PUBLISHING" /\ t.url = u /\ t.sub = s
           /\ \/ real_map[u][s].monitoring = ideal_map[u][s].monitoring
              \/ \E t \in ModeTasks(u) : t.op = "MONITORING" /\ t.url = u /\ t.sub = s
<1>1. ASSUME real_map[u][s].publishing # ideal_map[u][s].publishing
      PROVE  \E t \in ModeTasks(u) : t.op = "PUBLISHING" /\ t.url = u /\ t.sub = s
  <2>1. Task("PUBLISHING", u, s, ideal_map[u][s].publishing) \in ModeTasks(u)
    BY <1>1 DEF ModeTasks
  <2>2. QED
    BY <2>1 DEF Task
<1>2. ASSUME real_map[u][s].monitoring # ideal_map[u][s].monitoring
      PROVE  \E t \in ModeTasks(u) : t.op = "MONITORING" /\ t.url = u /\ t.sub = s
  <2>1. Task("MONITORING", u, s, ideal_map[u][s].monitoring) \in ModeTasks(u)
    BY <1>2 DEF ModeTasks
  <2>2. QED
    BY <2>1 DEF Task
<1>3. QED
  BY <1>1, <1>2

\* After the first phase the real map has no subscription that is not wanted;
\* after the second it has the same nodes, if nothing failed.
LEMMA NextPhaseStep ==
    ASSUME Inv, NextPhase
    PROVE  /\ Inv' /\ UNCHANGED <<ideal_map, maps, active_client>>
           /\ round'.phase = "dead" =>
                \E u \in round.targets : \E s \in Existing(u) : HandleMissing(u, s)
<1>1. /\ UNCHANGED <<ideal_map, maps, active_client>>
      /\ UNCHANGED <<url_to_reset, status, manager, reconnecting, conn, stop, faults>>
      /\ ~LockFree /\ round.tasks = {}
  BY DEF NextPhase
<1>2. /\ round.phase \in {"subs", "nodes", "modes"} /\ round.targets \subseteq Urls
      /\ round \in [phase : {"idle", "subs", "nodes", "modes", "dead"},
                    targets : SUBSET Urls, tasks : SUBSET AnyTask, ok : BOOLEAN]
  BY <1>1 DEF LockFree, Inv, ControlTypes
<1>3. \A u \in round.targets : DOMAIN real_map[u] \subseteq DOMAIN ideal_map[u]
  BY <1>1, <1>2 DEF Inv, Unwanted
<1>4. /\ UNCHANGED <<real_map, name_to_subscription, node_to_handle>>
      /\ SameNames' /\ OnlyWanted'
  BY <1>1 DEF Inv, SameNames, OnlyWanted, maps
<1>5. SUFFICES /\ round' \in [phase : {"idle", "subs", "nodes", "modes", "dead"},
                              targets : SUBSET Urls, tasks : SUBSET AnyTask, ok : BOOLEAN]
               /\ round'.phase = "idle" => round'.tasks = {}
               /\ round'.phase = "dead" =>
                    \E u \in round.targets : \E s \in Existing(u) : HandleMissing(u, s)
               /\ TasksFit' /\ Unwanted' /\ Covered'
  <2>1. TypeOK' /\ ControlTypes'
    BY <1>1, <1>4, <1>5 DEF Inv, TypeOK, ControlTypes
  <2>2. QED
    BY <1>1, <1>4, <1>5, <2>1 DEF Inv
<1>a. \A u \in round.targets : \A s \in Existing(u) : \A t \in ItemTasks(u, s) :
        t \in AnyTask /\ t.url = u /\ ItemTask(t)
  BY <1>2, ItemTasksFit DEF Inv
<1>6. CASE round.phase = "subs" /\ KeyErrors = {}
  <2> DEFINE tasks == UNION {NodeTasks(u) : u \in round.targets}
  <2>1. round' = [round EXCEPT !.phase = "nodes", !.tasks = tasks]
    BY <1>6 DEF NextPhase
  <2>2. \A t \in tasks : t \in AnyTask /\ t.url \in round.targets /\ ItemTask(t)
    BY <1>a DEF NodeTasks
  <2>3. \A u \in round.targets : NodeTasks(u) \subseteq tasks
    OBVIOUS
  <2> HIDE DEF tasks
  <2>4. /\ round'.phase = "nodes" /\ round'.tasks = tasks
        /\ round'.targets = round.targets /\ round'.ok = round.ok
        /\ round' \in [phase : {"idle", "subs", "nodes", "modes", "dead"},
                       targets : SUBSET Urls, tasks : SUBSET AnyTask, ok : BOOLEAN]
    BY <1>2, <2>1, <2>2
  <2>5. TasksFit' /\ Unwanted'
    BY <1>1, <1>3, <1>4, <2>2, <2>4 DEF TasksFit, Unwanted, ItemTask
  <2>6. Covered'
    <3>1. SUFFICES ASSUME round.ok, NEW u \in round.targets
          PROVE  /\ DOMAIN ideal_map[u] \subseteq DOMAIN real_map[u]
                 /\ \A s \in DOMAIN real_map[u] :
                      /\ \A n \in DOMAIN ideal_map[u][s].nodes \ DOMAIN real_map[u][s].nodes :
                           \E t \in tasks : /\ t.op = "ADD_MI" /\ t.url = u /\ t.sub = s
                                            /\ n \in DOMAIN t.arg
                      /\ \A n \in DOMAIN real_map[u][s].nodes \ DOMAIN ideal_map[u][s].nodes :
                           \E t \in tasks : /\ t.op = "DEL_MI" /\ t.url = u /\ t.sub = s
                                            /\ n \in t.arg
      BY <1>1, <1>4, <2>4 DEF Covered
    <3>2. DOMAIN ideal_map[u] \subseteq DOMAIN real_map[u]
      BY <1>1, <1>6, <3>1 DEF Inv, Covered
    <3>3. \A s \in DOMAIN real_map[u] : s \in DOMAIN ideal_map[u]
      BY <1>3, <3>1
    <3>4. u \in Urls /\ SameNames /\ NodeTasks(u) \subseteq tasks
      BY <1>2, <2>3, <3>1 DEF Inv
    <3>5. ASSUME NEW s \in DOMAIN real_map[u]
          PROVE  /\ \A n \in DOMAIN ideal_map[u][s].nodes \ DOMAIN real_map[u][s].nodes :
                           \E t \in tasks : /\ t.op = "ADD_MI" /\ t.url = u /\ t.sub = s
                                            /\ n \in DOMAIN t.arg
                 /\ \A n \in DOMAIN real_map[u][s].nodes \ DOMAIN ideal_map[u][s].nodes :
                           \E t \in tasks : /\ t.op = "DEL_MI" /\ t.url = u /\ t.sub = s
                                            /\ n \in t.arg
      BY <3>3, <3>4, <3>5, NodeTasksCover
    <3>6. QED
      BY <3>2, <3>5
  <2>7. QED
    BY <2>4, <2>5, <2>6 DEF LockFree
<1>7. CASE round.phase = "nodes"
  <2> DEFINE tasks == UNION {ModeTasks(u) : u \in round.targets}
  <2>1. round' = [round EXCEPT !.phase = "modes", !.tasks = tasks]
    BY <1>3, <1>7 DEF NextPhase
  <2>2. \A t \in tasks : t \in AnyTask /\ t.url \in round.targets /\ ModeTask(t)
    BY <1>2, <1>3, ModeTasksFit DEF Inv
  <2>3. \A u \in round.targets : ModeTasks(u) \subseteq tasks
    OBVIOUS
  <2> HIDE DEF tasks
  <2>4. /\ round'.phase = "modes" /\ round'.tasks = tasks
        /\ round'.targets = round.targets /\ round'.ok = round.ok
        /\ round' \in [phase : {"idle", "subs", "nodes", "modes", "dead"},
                       targets : SUBSET Urls, tasks : SUBSET AnyTask, ok : BOOLEAN]
    BY <1>2, <2>1, <2>2
  <2>5. TasksFit' /\ Unwanted'
    BY <1>1, <1>3, <1>4, <2>2, <2>4 DEF TasksFit, Unwanted, ModeTask
  <2>6. Covered'
    <3>1. SUFFICES ASSUME round.ok, NEW u \in round.targets
          PROVE  /\ DOMAIN ideal_map[u] \subseteq DOMAIN real_map[u]
                 /\ \A s \in DOMAIN real_map[u] :
                      /\ DOMAIN ideal_map[u][s].nodes = DOMAIN real_map[u][s].nodes
                      /\ \/ real_map[u][s].publishing = ideal_map[u][s].publishing
                         \/ \E t \in tasks : t.op = "PUBLISHING" /\ t.url = u /\ t.sub = s
                      /\ \/ real_map[u][s].monitoring = ideal_map[u][s].monitoring
                         \/ \E t \in tasks : t.op = "MONITORING" /\ t.url = u /\ t.sub = s
      BY <1>1, <1>4, <2>4 DEF Covered
    <3>2. /\ DOMAIN ideal_map[u] \subseteq DOMAIN real_map[u]
          /\ \A s \in DOMAIN real_map[u] :
                DOMAIN ideal_map[u][s].nodes = DOMAIN real_map[u][s].nodes
      BY <1>1, <1>7, <3>1 DEF Inv, Covered
    <3>3. u \in Urls /\ ModeTasks(u) \subseteq tasks
      BY <1>2, <2>3, <3>1
    <3>4. QED
      BY <3>2, <3>3, ModeTasksCover
  <2>7. QED
    BY <2>4, <2>5, <2>6 DEF LockFree
<1>8. CASE round.phase = "modes"
  <2>1. round' = Idle
    BY <1>8 DEF NextPhase
  <2>2. LockFree' /\ ControlTypes' /\ ~(round.phase = "dead")'
    BY <1>1, <2>1 DEF LockFree, Idle, Inv, ControlTypes
  <2>3. TasksFit' /\ Unwanted' /\ Covered'
    BY <2>2, NoRound, PTL
  <2>4. QED
    BY <2>1, <2>2, <2>3 DEF ControlTypes, Idle
<1>9. CASE round.phase = "subs" /\ KeyErrors # {}
  <2> DEFINE all == {p \in round.targets \X Subs : p[2] \in Existing(p[1])}
             failing == {p \in all : HandleMissing(p[1], p[2])}
             before(q) == {done \in SUBSET (all \ failing) :
                            \A p \in done, r \in all :
                                p[1] = r[1] => r \in done \/ r[1] = q[1]}
             Of(p) == ItemTasks(p[1], p[2])
  <2>1. PICK left \in KeyErrors : round' = Dead(left)
    BY <1>9 DEF NextPhase
  <2>2. KeyErrors = {UNION {Of(p) : p \in done} : done \in UNION {before(q) : q \in failing}}
    BY DEF KeyErrors
  <2> HIDE DEF Of, failing
  <2>3. PICK done \in UNION {before(q) : q \in failing} : left = UNION {Of(p) : p \in done}
    <3> HIDE DEF before
    <3>1. QED
      BY <2>1, <2>2
  <2>4. done \subseteq all /\ \E q \in failing : TRUE
    BY <2>3
  <2>5. \E u \in round.targets : \E s \in Existing(u) : HandleMissing(u, s)
    BY <2>4 DEF failing
  <2>a. ASSUME NEW t \in left PROVE t \in AnyTask /\ ItemTask(t)
    <3>1. PICK p \in done : t \in Of(p)
      BY <2>3, <2>a
    <3>2. p[1] \in round.targets /\ p[2] \in Existing(p[1]) /\ t \in ItemTasks(p[1], p[2])
      BY <2>4, <3>1 DEF Of
    <3>3. QED
      BY <1>a, <3>2
  <2> HIDE DEF all, before
  <2>6. round'.phase = "dead" /\ round'.tasks = left /\ round'.targets = {}
        /\ round' \in [phase : {"idle", "subs", "nodes", "modes", "dead"},
                       targets : SUBSET Urls, tasks : SUBSET AnyTask, ok : BOOLEAN]
    BY <2>1, <2>a DEF Dead, Idle
  <2>7. \A t \in left : LeftTask(t)'
    BY <1>4, <2>a DEF ItemTask, LeftTask
  <2>8. (round.phase = "dead" => \A t \in round.tasks : LeftTask(t))'
    BY <2>6, <2>7
  <2>9. LockFree' /\ ControlTypes'
    BY <1>1, <2>6 DEF LockFree, Inv, ControlTypes
  <2>10. TasksFit' /\ Unwanted' /\ Covered'
    BY <2>8, <2>9, NoRound, PTL
  <2>11. QED
    BY <2>5, <2>6, <2>10
<1>10. QED
  BY <1>2, <1>6, <1>7, <1>8, <1>9

-----------------------------------------------------------------------------
(* The requests of a round.                                                *)

\* The request that ends is one of the phase the round is in.
LEMMA TaskEndsStep ==
    ASSUME Inv, NEW t \in round.tasks, NEW good \in BOOLEAN, NEW refused,
           TaskEnds(t, good, refused)
    PROVE  /\ t \in AnyTask /\ t.url \in Urls /\ t.sub \in Subs
           /\ round.phase # "dead" => t.url \in round.targets
           /\ t.op \in {"ADD_SUB", "DEL_SUB"} => round.phase = "subs"
           /\ t.op \in {"ADD_MI", "DEL_MI"} => round.phase \in {"nodes", "dead"}
           /\ t.op \in {"PUBLISHING", "MONITORING"} => round.phase = "modes"
           /\ round'.phase = round.phase /\ round'.targets = round.targets
           /\ round'.tasks = round.tasks \ {t}
           /\ round'.ok => round.ok /\ good /\ refused = {}
           /\ ControlTypes'
           /\ UNCHANGED <<url_to_reset, status, active_client, manager, reconnecting, conn>>
<1>1. /\ round \in [phase : {"idle", "subs", "nodes", "modes", "dead"},
                    targets : SUBSET Urls, tasks : SUBSET AnyTask, ok : BOOLEAN]
      /\ round.phase = "idle" => round.tasks = {}
  BY DEF Inv, ControlTypes
<1>2. t \in AnyTask /\ t.url \in Urls /\ t.sub \in Subs
  BY <1>1 DEF AnyTask
<1>3. round.phase \in {"subs", "nodes", "modes", "dead"}
  BY <1>1
<1>4. /\ round.phase # "dead" => t.url \in round.targets
      /\ round.phase = "dead" => LeftTask(t)
      /\ round.phase = "subs" => SubTask(t)
      /\ round.phase = "nodes" => ItemTask(t)
      /\ round.phase = "modes" => ModeTask(t)
  BY DEF Inv, TasksFit
<1>5. /\ round.phase = "subs" => t.op \in {"ADD_SUB", "DEL_SUB"}
      /\ round.phase \in {"nodes", "dead"} => t.op \in {"ADD_MI", "DEL_MI"}
      /\ round.phase = "modes" => t.op \in {"PUBLISHING", "MONITORING"}
  BY <1>4 DEF SubTask, ItemTask, ModeTask, LeftTask
<1>6. round' = [round EXCEPT !.tasks = @ \ {t}, !.ok = @ /\ good /\ refused = {}]
  BY DEF TaskEnds
<1>7. /\ round'.phase = round.phase /\ round'.targets = round.targets
      /\ round'.tasks = round.tasks \ {t}
      /\ round'.ok => round.ok /\ good /\ refused = {}
      /\ round' \in [phase : {"idle", "subs", "nodes", "modes", "dead"},
                     targets : SUBSET Urls, tasks : SUBSET AnyTask, ok : BOOLEAN]
  BY <1>1, <1>6
<1>8. UNCHANGED <<url_to_reset, status, active_client, manager, reconnecting, conn, stop>>
      /\ faults' \in Nat
  BY DEF TaskEnds, Inv, ControlTypes
<1>9. ControlTypes'
  BY <1>3, <1>7, <1>8 DEF ControlTypes, Inv
<1>10. QED
  BY <1>2, <1>3, <1>4, <1>5, <1>7, <1>8, <1>9

\* Creating a subscription keeps the invariant.
LEMMA AddSubStep ==
    ASSUME Inv, NEW t \in round.tasks, NEW good \in BOOLEAN, AddSub(t, good)
    PROVE  /\ Inv' /\ UNCHANGED <<ideal_map, node_to_handle, active_client>>
           /\ \A x \in Urls : \A s \in DOMAIN real_map'[x] :
                \/ s \in DOMAIN real_map[x] /\ real_map'[x][s] = real_map[x][s]
                \/ DOMAIN real_map'[x][s].nodes = {}
<1> DEFINE u == t.url
           vs == [ideal_map[u][t.sub] EXCEPT !.nodes = Nothing]
<1>1. /\ t.op = "ADD_SUB" /\ TaskEnds(t, good, {})
      /\ UNCHANGED <<ideal_map, node_to_handle>>
      /\ \/ good /\ real_map' = [real_map EXCEPT ![u] = With(@, {t.sub}, vs)]
                 /\ name_to_subscription' =
                        [name_to_subscription EXCEPT ![u] = With(@, {t.sub}, "live")]
         \/ ~good /\ UNCHANGED <<real_map, name_to_subscription>>
  BY DEF AddSub
<1>2. /\ u \in round.targets /\ u \in Urls /\ t.sub \in Subs
      /\ round.phase = "subs"
      /\ round'.phase = round.phase /\ round'.targets = round.targets
      /\ round'.tasks = round.tasks \ {t}
      /\ round'.ok => round.ok /\ good
      /\ ControlTypes'
      /\ UNCHANGED <<url_to_reset, status, active_client, manager, reconnecting, conn>>
  BY <1>1, TaskEndsStep
<1>3. t.sub \in DOMAIN ideal_map[u]
  BY <1>1, <1>2 DEF Inv, TasksFit, SubTask
<1>4. vs \in VirtualSubscriptions /\ DOMAIN vs.nodes = {}
  <2>1. ideal_map[u][t.sub] \in VirtualSubscriptions
    BY <1>2, <1>3, IdealSub DEF Inv
  <2>2. QED
    BY <2>1, NothingIsMap DEF VirtualSubscriptions, NodeMaps
<1>5. /\ real_map \in [Urls -> MapsOf(VirtualSubscriptions)]
      /\ name_to_subscription \in [Urls -> MapsOf({"live", "stale"})]
  BY DEF Inv, TypeOK
<1>6. ASSUME good
      PROVE  /\ real_map' \in [Urls -> MapsOf(VirtualSubscriptions)]
             /\ DOMAIN real_map'[u] = DOMAIN real_map[u] \cup {t.sub}
             /\ real_map'[u][t.sub] = vs
             /\ \A s \in DOMAIN real_map[u] \ {t.sub} : real_map'[u][s] = real_map[u][s]
             /\ \A x \in Urls \ {u} : real_map'[x] = real_map[x]
  <2>1. real_map[u] \in MapsOf(VirtualSubscriptions)
    BY <1>2, <1>5
  <2> HIDE DEF vs, u
  <2> DEFINE f == With(real_map[u], {t.sub}, vs)
  <2>2. /\ f \in MapsOf(VirtualSubscriptions)
        /\ DOMAIN f = DOMAIN real_map[u] \cup {t.sub} /\ f[t.sub] = vs
        /\ \A s \in DOMAIN real_map[u] \ {t.sub} : f[s] = real_map[u][s]
    <3>1. /\ DOMAIN real_map[u] \subseteq Subs
          /\ real_map[u] \in [DOMAIN real_map[u] -> VirtualSubscriptions]
      BY <2>1, MapOf
    <3>2. /\ f \in [DOMAIN real_map[u] \cup {t.sub} -> VirtualSubscriptions]
          /\ DOMAIN f = DOMAIN real_map[u] \cup {t.sub} /\ f[t.sub] = vs
          /\ \A s \in DOMAIN real_map[u] \ {t.sub} : f[s] = real_map[u][s]
      BY <1>4, <3>1 DEF With
    <3> HIDE DEF f
    <3>3. QED
      BY <1>2, <3>1, <3>2, MapOf
  <2>3. real_map' = [real_map EXCEPT ![u] = f]
    BY <1>1, <1>6
  <2> HIDE DEF f
  <2>4. QED
    BY <1>2, <1>5, <2>2, <2>3
<1>7. ASSUME good
      PROVE  /\ name_to_subscription' \in [Urls -> MapsOf({"live", "stale"})]
             /\ DOMAIN name_to_subscription'[u] = DOMAIN name_to_subscription[u] \cup {t.sub}
             /\ \A x \in Urls \ {u} : name_to_subscription'[x] = name_to_subscription[x]
  <2>1. name_to_subscription[u] \in MapsOf({"live", "stale"})
    BY <1>2, <1>5
  <2> HIDE DEF u
  <2> DEFINE f == With(name_to_subscription[u], {t.sub}, "live")
  <2>2. f \in MapsOf({"live", "stale"}) /\ DOMAIN f = DOMAIN name_to_subscription[u] \cup {t.sub}
    <3>1. /\ DOMAIN name_to_subscription[u] \subseteq Subs
          /\ name_to_subscription[u] \in [DOMAIN name_to_subscription[u] -> {"live", "stale"}]
      BY <2>1, MapOf
    <3>2. /\ f \in [DOMAIN name_to_subscription[u] \cup {t.sub} -> {"live", "stale"}]
          /\ DOMAIN f = DOMAIN name_to_subscription[u] \cup {t.sub}
      BY <3>1 DEF With
    <3> HIDE DEF f
    <3>3. QED
      BY <1>2, <3>1, <3>2, MapOf
  <2>3. name_to_subscription' = [name_to_subscription EXCEPT ![u] = f]
    BY <1>1, <1>7
  <2> HIDE DEF f
  <2>4. QED
    BY <1>2, <1>5, <2>2, <2>3
<1>8. \A x \in Urls : \A s \in DOMAIN real_map'[x] :
        \/ s \in DOMAIN real_map[x] /\ real_map'[x][s] = real_map[x][s]
        \/ DOMAIN real_map'[x][s].nodes = {} /\ x = u /\ s = t.sub
  BY <1>1, <1>4, <1>6
<1> HIDE DEF u, vs
<1>9. TypeOK'
  BY <1>1, <1>2, <1>5, <1>6, <1>7 DEF Inv, TypeOK
<1>10. SameNames' /\ OnlyWanted'
  BY <1>1, <1>6, <1>7, <1>8 DEF Inv, SameNames, OnlyWanted
<1>11. TasksFit'
  BY <1>1, <1>2 DEF Inv, TasksFit, SubTask
<1>12. Unwanted'
  <2>1. ASSUME NEW x \in round.targets, NEW s \in DOMAIN real_map'[x] \ DOMAIN ideal_map[x]
        PROVE  \E r \in round.tasks \ {t} : r.op = "DEL_SUB" /\ r.url = x /\ r.sub = s
    <3>1. x \in Urls
      BY DEF Inv, ControlTypes
    <3>2. s \in DOMAIN real_map[x]
      BY <1>3, <1>8, <2>1, <3>1
    <3>3. QED
      BY <1>1, <1>2, <2>1, <3>2 DEF Inv, Unwanted
  <2>2. QED
    BY <1>1, <1>2, <2>1 DEF Unwanted
<1>13. Covered'
  <2>1. ASSUME round.ok, good,
               NEW x \in round.targets, NEW s \in DOMAIN ideal_map[x] \ DOMAIN real_map'[x]
        PROVE  \E r \in round.tasks \ {t} : r.op = "ADD_SUB" /\ r.url = x /\ r.sub = s
    <3>1. x \in Urls
      BY DEF Inv, ControlTypes
    <3>2. s \notin DOMAIN real_map[x] /\ <<x, s>> # <<u, t.sub>>
      BY <1>6, <2>1, <3>1
    <3>3. PICK r \in round.tasks : r.op = "ADD_SUB" /\ r.url = x /\ r.sub = s
      BY <1>2, <2>1, <3>2 DEF Inv, Covered
    <3>4. QED
      BY <3>2, <3>3 DEF u
  <2>2. QED
    BY <1>1, <1>2, <2>1 DEF Covered
<1>14. QED
  BY <1>1, <1>2, <1>8, <1>9, <1>10, <1>11, <1>12, <1>13 DEF Inv

\* So does deleting one,
LEMMA DelSubStep ==
    ASSUME Inv, NEW t \in round.tasks, NEW good \in BOOLEAN, DelSub(t, good)
    PROVE  /\ Inv' /\ UNCHANGED <<ideal_map, node_to_handle, active_client>>
           /\ \A x \in Urls : \A s \in DOMAIN real_map'[x] :
                s \in DOMAIN real_map[x] /\ real_map'[x][s] = real_map[x][s]
<1> DEFINE u == t.url
<1>1. /\ t.op = "DEL_SUB" /\ TaskEnds(t, good, {})
      /\ UNCHANGED <<ideal_map, node_to_handle>>
      /\ real_map' = [real_map EXCEPT ![u] = Without(@, {t.sub})]
      /\ name_to_subscription' = [name_to_subscription EXCEPT ![u] = Without(@, {t.sub})]
  BY DEF DelSub
<1>2. /\ u \in round.targets /\ u \in Urls /\ t.sub \in Subs
      /\ round.phase = "subs"
      /\ round'.phase = round.phase /\ round'.targets = round.targets
      /\ round'.tasks = round.tasks \ {t}
      /\ round'.ok => round.ok /\ good
      /\ ControlTypes'
      /\ UNCHANGED <<url_to_reset, status, active_client, manager, reconnecting, conn>>
  BY <1>1, TaskEndsStep
<1>a. UNCHANGED <<ideal_map, node_to_handle, active_client>>
  BY <1>1, <1>2
<1>3. t.sub \notin DOMAIN ideal_map[u]
  BY <1>1, <1>2 DEF Inv, TasksFit, SubTask
<1>4. /\ real_map \in [Urls -> MapsOf(VirtualSubscriptions)]
      /\ name_to_subscription \in [Urls -> MapsOf({"live", "stale"})]
  BY DEF Inv, TypeOK
<1> HIDE DEF u
<1>5. /\ real_map' \in [Urls -> MapsOf(VirtualSubscriptions)]
      /\ DOMAIN real_map'[u] = DOMAIN real_map[u] \ {t.sub}
      /\ \A s \in DOMAIN real_map[u] \ {t.sub} : real_map'[u][s] = real_map[u][s]
      /\ \A x \in Urls \ {u} : real_map'[x] = real_map[x]
  <2>1. real_map[u] \in MapsOf(VirtualSubscriptions)
    BY <1>2, <1>4
  <2> DEFINE f == Without(real_map[u], {t.sub})
  <2>2. /\ f \in MapsOf(VirtualSubscriptions)
        /\ DOMAIN f = DOMAIN real_map[u] \ {t.sub}
        /\ \A s \in DOMAIN real_map[u] \ {t.sub} : f[s] = real_map[u][s]
    BY <2>1, WithoutIsMap
  <2>3. real_map' = [real_map EXCEPT ![u] = f]
    BY <1>1
  <2> HIDE DEF f
  <2>4. QED
    BY <1>2, <1>4, <2>2, <2>3
<1>6. /\ name_to_subscription' \in [Urls -> MapsOf({"live", "stale"})]
      /\ DOMAIN name_to_subscription'[u] = DOMAIN name_to_subscription[u] \ {t.sub}
      /\ \A x \in Urls \ {u} : name_to_subscription'[x] = name_to_subscription[x]
  <2>1. name_to_subscription[u] \in MapsOf({"live", "stale"})
    BY <1>2, <1>4
  <2> DEFINE f == Without(name_to_subscription[u], {t.sub})
  <2>2. /\ f \in MapsOf({"live", "stale"})
        /\ DOMAIN f = DOMAIN name_to_subscription[u] \ {t.sub}
    BY <2>1, WithoutIsMap
  <2>3. name_to_subscription' = [name_to_subscription EXCEPT ![u] = f]
    BY <1>1
  <2> HIDE DEF f
  <2>4. QED
    BY <1>2, <1>4, <2>2, <2>3
<1>7. \A x \in Urls : \A s \in DOMAIN real_map'[x] :
        /\ s \in DOMAIN real_map[x] /\ real_map'[x][s] = real_map[x][s]
        /\ <<x, s>> # <<u, t.sub>>
  BY <1>5
<1>8. TypeOK'
  BY <1>1, <1>2, <1>5, <1>6 DEF Inv, TypeOK
<1>9. SameNames' /\ OnlyWanted'
  <2>1. SameNames'
    BY <1>2, <1>5, <1>6 DEF Inv, SameNames
  <2>2. OnlyWanted'
    BY <1>a, <1>7 DEF Inv, OnlyWanted
  <2>3. QED
    BY <2>1, <2>2
<1>10. TasksFit'
  BY <1>1, <1>2 DEF Inv, TasksFit, SubTask
<1>11. Unwanted'
  <2>1. ASSUME NEW x \in round.targets, NEW s \in DOMAIN real_map'[x] \ DOMAIN ideal_map[x]
        PROVE  \E r \in round.tasks \ {t} : r.op = "DEL_SUB" /\ r.url = x /\ r.sub = s
    <3>1. x \in Urls
      BY DEF Inv, ControlTypes
    <3>2. s \in DOMAIN real_map[x] /\ <<x, s>> # <<u, t.sub>>
      BY <1>7, <2>1, <3>1
    <3>3. PICK r \in round.tasks : r.op = "DEL_SUB" /\ r.url = x /\ r.sub = s
      BY <1>2, <2>1, <3>2 DEF Inv, Unwanted
    <3>4. QED
      BY <3>2, <3>3 DEF u
  <2>2. QED
    BY <1>a, <1>2, <2>1 DEF Unwanted
<1>12. Covered'
  <2>1. ASSUME round.ok, good,
               NEW x \in round.targets, NEW s \in DOMAIN ideal_map[x] \ DOMAIN real_map'[x]
        PROVE  \E r \in round.tasks \ {t} : r.op = "ADD_SUB" /\ r.url = x /\ r.sub = s
    <3>1. x \in Urls
      BY DEF Inv, ControlTypes
    <3>2. s \notin DOMAIN real_map[x]
      BY <1>3, <1>5, <2>1, <3>1
    <3>3. QED
      BY <1>1, <1>2, <2>1, <3>2 DEF Inv, Covered
  <2>2. QED
    BY <1>a, <1>2, <2>1 DEF Covered
<1>13. QED
  BY <1>1, <1>2, <1>7, <1>8, <1>9, <1>10, <1>11, <1>12 DEF Inv

\* deleting items,
LEMMA DelItemsStep ==
    ASSUME Inv, NEW t \in round.tasks, NEW good \in BOOLEAN, DelItems(t, good)
    PROVE  /\ Inv' /\ UNCHANGED <<ideal_map, active_client>>
           /\ t.url \in Urls /\ t.arg \in SUBSET Nodes
           /\ \A n \in t.arg : <<t.sub, n>> \in Subscribable
           /\ \A x \in Urls : node_to_handle[x] \ (IF x = t.url THEN t.arg ELSE {})
                                \subseteq node_to_handle'[x]
           /\ \A x \in Urls : DOMAIN real_map'[x] = DOMAIN real_map[x]
           /\ \A x \in Urls : \A s \in DOMAIN real_map[x] :
                DOMAIN real_map'[x][s].nodes =
                    IF <<x, s>> = <<t.url, t.sub>> THEN DOMAIN real_map[x][s].nodes \ t.arg
                                                   ELSE DOMAIN real_map[x][s].nodes
<1> DEFINE u == t.url
           v == real_map[u][t.sub]
           w == [v EXCEPT !.nodes = Without(v.nodes, t.arg)]
<1>1. /\ t.op = "DEL_MI" /\ TaskEnds(t, good, {})
      /\ UNCHANGED <<ideal_map, name_to_subscription>>
      /\ real_map' = [real_map EXCEPT ![u] = [real_map[u] EXCEPT ![t.sub] = w]]
  BY DEF DelItems
<1>0. PICK popped \in SUBSET t.arg :
        node_to_handle' = [node_to_handle EXCEPT ![u] = @ \ popped]
  BY DEF DelItems
<1>2. /\ u \in Urls /\ t.sub \in Subs
      /\ round.phase \in {"nodes", "dead"}
      /\ round'.phase = round.phase /\ round'.targets = round.targets
      /\ round'.tasks = round.tasks \ {t}
      /\ round'.ok => round.ok /\ good
      /\ ControlTypes'
      /\ UNCHANGED <<url_to_reset, status, active_client, manager, reconnecting, conn>>
  BY <1>1, TaskEndsStep
<1>3. /\ round.phase = "nodes" => ItemTask(t)
      /\ round.phase = "dead" => LeftTask(t)
  BY DEF Inv, TasksFit
<1>4. /\ t.sub \in DOMAIN real_map[u] /\ t.arg \in SUBSET Nodes
      /\ \A n \in t.arg :
            /\ <<t.sub, n>> \in Subscribable
            /\ round.phase = "nodes" => n \notin DOMAIN ideal_map[u][t.sub].nodes
  BY <1>1, <1>2, <1>3 DEF ItemTask, LeftTask
<1>5. v \in VirtualSubscriptions /\ v.nodes \in NodeMaps
  BY <1>2, <1>4, RealSub DEF Inv, VirtualSubscriptions, NodeMaps
<1>6. /\ Without(v.nodes, t.arg) \in NodeMaps
      /\ DOMAIN Without(v.nodes, t.arg) = DOMAIN v.nodes \ t.arg
  BY <1>5, NodesWithout
<1>7. /\ w \in VirtualSubscriptions
      /\ w.publishing = v.publishing /\ w.monitoring = v.monitoring
      /\ DOMAIN w.nodes = DOMAIN v.nodes \ t.arg
  BY <1>5, <1>6 DEF VirtualSubscriptions, NodeMaps
<1> HIDE DEF w
<1>8. /\ real_map' \in [Urls -> MapsOf(VirtualSubscriptions)]
      /\ \A x \in Urls : DOMAIN real_map'[x] = DOMAIN real_map[x]
      /\ real_map'[u][t.sub] = w
      /\ \A x \in Urls : \A s \in DOMAIN real_map[x] :
            <<x, s>> # <<u, t.sub>> => real_map'[x][s] = real_map[x][s]
  <2>1. real_map \in [Urls -> MapsOf(VirtualSubscriptions)]
    BY DEF Inv, TypeOK
  <2>2. QED
    <3>1. real_map' = Put(real_map, u, t.sub, w)
      BY <1>1 DEF Put
    <3>2. QED
      BY <1>2, <1>4, <1>7, <2>1, <3>1, PutOne
<1>9. UNCHANGED <<ideal_map, name_to_subscription, active_client>>
  BY <1>1, <1>2
<1>10. \A x \in Urls : \A s \in DOMAIN real_map[x] :
        /\ DOMAIN real_map'[x][s].nodes =
                    IF <<x, s>> = <<u, t.sub>> THEN DOMAIN real_map[x][s].nodes \ t.arg
                                               ELSE DOMAIN real_map[x][s].nodes
  BY <1>7, <1>8
<1> HIDE DEF u, v
<1>11. TypeOK'
  <2>1. node_to_handle' \in [Urls -> SUBSET Nodes]
    BY <1>0, <1>2 DEF Inv, TypeOK
  <2>2. QED
    BY <1>2, <1>8, <1>9, <2>1 DEF Inv, TypeOK
<1>12. SameNames'
  BY <1>8, <1>9 DEF Inv, SameNames
<1>13. OnlyWanted'
  BY <1>8, <1>9, <1>10 DEF Inv, OnlyWanted
<1>14. TasksFit'
  <2>1. \A r \in round.tasks : r.url \in Urls
    BY DEF Inv, ControlTypes, AnyTask
  <2>2. QED
    BY <1>2, <1>8, <1>9, <2>1 DEF Inv, TasksFit, ItemTask, LeftTask
<1>15. \A x \in round.targets : x \in Urls
  BY DEF Inv, ControlTypes
<1>16. Unwanted'
  BY <1>2, <1>8, <1>9, <1>15 DEF Inv, Unwanted
<1>17. Covered'
  <2>1. SUFFICES ASSUME round.ok, round.phase = "nodes", NEW x \in round.targets
        PROVE  /\ DOMAIN ideal_map[x] \subseteq DOMAIN real_map'[x]
               /\ \A s \in DOMAIN real_map'[x] :
                   /\ \A n \in DOMAIN ideal_map[x][s].nodes \ DOMAIN real_map'[x][s].nodes :
                        \E r \in round.tasks \ {t} : /\ r.op = "ADD_MI" /\ r.url = x /\ r.sub = s
                                                     /\ n \in DOMAIN r.arg
                   /\ \A n \in DOMAIN real_map'[x][s].nodes \ DOMAIN ideal_map[x][s].nodes :
                        \E r \in round.tasks \ {t} : /\ r.op = "DEL_MI" /\ r.url = x /\ r.sub = s
                                                     /\ n \in r.arg
    BY <1>2, <1>9 DEF Covered
  <2>2. x \in Urls /\ DOMAIN real_map'[x] = DOMAIN real_map[x]
    BY <1>8, <1>15
  <2>3. DOMAIN ideal_map[x] \subseteq DOMAIN real_map[x]
    BY <1>2, <2>1 DEF Inv, Covered
  <2>4. ASSUME NEW s \in DOMAIN real_map[x],
               NEW n \in DOMAIN ideal_map[x][s].nodes \ DOMAIN real_map'[x][s].nodes
        PROVE  \E r \in round.tasks \ {t} : /\ r.op = "ADD_MI" /\ r.url = x /\ r.sub = s
                                            /\ n \in DOMAIN r.arg
    <3>1. n \notin DOMAIN real_map[x][s].nodes
      BY <1>4, <1>10, <2>1, <2>2, <2>4
    <3>2. \E r \in round.tasks : /\ r.op = "ADD_MI" /\ r.url = x /\ r.sub = s
                                 /\ n \in DOMAIN r.arg
      BY <1>2, <2>1, <2>4, <3>1 DEF Inv, Covered
    <3>3. QED
      BY <1>1, <3>2
  <2>5. ASSUME NEW s \in DOMAIN real_map[x],
               NEW n \in DOMAIN real_map'[x][s].nodes \ DOMAIN ideal_map[x][s].nodes
        PROVE  \E r \in round.tasks \ {t} : /\ r.op = "DEL_MI" /\ r.url = x /\ r.sub = s
                                            /\ n \in r.arg
    <3>1. n \in DOMAIN real_map[x][s].nodes /\ (<<x, s>> = <<u, t.sub>> => n \notin t.arg)
      BY <1>10, <2>2, <2>5
    <3>2. PICK r \in round.tasks : /\ r.op = "DEL_MI" /\ r.url = x /\ r.sub = s
                                   /\ n \in r.arg
      BY <1>2, <2>1, <2>5, <3>1 DEF Inv, Covered
    <3>3. r # t
      BY <3>1, <3>2 DEF u
    <3>4. QED
      BY <3>2, <3>3
  <2>6. QED
    BY <2>2, <2>3, <2>4, <2>5
<1>18. \A x \in Urls : node_to_handle[x] \ (IF x = u THEN t.arg ELSE {})
                          \subseteq node_to_handle'[x]
  BY <1>0, <1>2 DEF Inv, TypeOK
<1>19. Inv'
  BY <1>2, <1>11, <1>12, <1>13, <1>14, <1>16, <1>17 DEF Inv
<1>20. QED
  BY <1>2, <1>4, <1>8, <1>9, <1>10, <1>18, <1>19 DEF u

\* A map of subscriptions after nodes of one were abandoned.
LEMMA AbandonEffect ==
    ASSUME NEW m \in MapsOf(VirtualSubscriptions), NEW s, NEW N
    PROVE  /\ Abandon(m, s, N) \in MapsOf(VirtualSubscriptions)
           /\ DOMAIN Abandon(m, s, N) = DOMAIN m
           /\ \A r \in DOMAIN m :
                /\ Abandon(m, s, N)[r].publishing = m[r].publishing
                /\ Abandon(m, s, N)[r].monitoring = m[r].monitoring
                /\ DOMAIN Abandon(m, s, N)[r].nodes =
                        IF r = s THEN DOMAIN m[r].nodes \ N ELSE DOMAIN m[r].nodes
<1> DEFINE new(r) == IF r = s THEN [m[r] EXCEPT !.nodes = Without(@, N)] ELSE m[r]
<1>1. DOMAIN m \subseteq Subs /\ m \in [DOMAIN m -> VirtualSubscriptions]
  BY MapOf
<1>2. ASSUME NEW r \in DOMAIN m
      PROVE  /\ new(r) \in VirtualSubscriptions
             /\ new(r).publishing = m[r].publishing
             /\ new(r).monitoring = m[r].monitoring
             /\ DOMAIN new(r).nodes = IF r = s THEN DOMAIN m[r].nodes \ N ELSE DOMAIN m[r].nodes
  <2>1. m[r] \in VirtualSubscriptions /\ m[r].nodes \in NodeMaps
    BY <1>1 DEF VirtualSubscriptions, NodeMaps
  <2>2. /\ Without(m[r].nodes, N) \in NodeMaps
        /\ DOMAIN Without(m[r].nodes, N) = DOMAIN m[r].nodes \ N
    BY <2>1, NodesWithout
  <2>3. QED
    BY <2>1, <2>2 DEF VirtualSubscriptions, NodeMaps
<1>3. Abandon(m, s, N) = [r \in DOMAIN m |-> new(r)]
  BY DEF Abandon
<1> HIDE DEF new
<1>4. /\ Abandon(m, s, N) \in [DOMAIN m -> VirtualSubscriptions]
      /\ DOMAIN Abandon(m, s, N) = DOMAIN m
      /\ \A r \in DOMAIN m : Abandon(m, s, N)[r] = new(r)
  BY <1>2, <1>3
<1>5. QED
  BY <1>1, <1>2, <1>4, MapOf

\* adding items, a node the server does not have or refuses included,
LEMMA AddItemsStep ==
    ASSUME Inv, NEW t \in round.tasks, NEW good \in BOOLEAN, AddItems(t, good)
    PROVE  /\ Inv' /\ active_client' = active_client
           /\ \A x \in Urls : /\ DOMAIN ideal_map'[x] = DOMAIN ideal_map[x]
                              /\ DOMAIN real_map'[x] = DOMAIN real_map[x]
                              /\ node_to_handle[x] \subseteq node_to_handle'[x]
           /\ \A x \in Urls : \A s \in DOMAIN ideal_map[x] :
                /\ ideal_map'[x][s].publishing = ideal_map[x][s].publishing
                /\ ideal_map'[x][s].monitoring = ideal_map[x][s].monitoring
           /\ \A x \in Urls : \A s \in DOMAIN real_map[x] :
                \A n \in DOMAIN real_map'[x][s].nodes :
                    n \in DOMAIN real_map[x][s].nodes \/ n \in node_to_handle'[x]
<1> DEFINE u == t.url
           unknown == {n \in DOMAIN t.arg : <<u, n>> \in Absent}
           known == DOMAIN t.arg \ unknown
           v == real_map[u][t.sub]
           i == ideal_map[u][t.sub]
<1>1. /\ t.op = "ADD_MI" /\ UNCHANGED name_to_subscription
      /\ good => \E refused \in SUBSET known :
                /\ TaskEnds(t, good, refused)
                /\ real_map' = [real_map EXCEPT ![u][t.sub].nodes =
                        [n \in DOMAIN @ \cup (known \ refused) |->
                            IF n \in (known \ refused) THEN t.arg[n] ELSE @[n]]]
                /\ node_to_handle' = [node_to_handle EXCEPT ![u] = @ \cup (known \ refused)]
                /\ ideal_map' = [ideal_map EXCEPT ![u] = Abandon(@, t.sub, unknown)]
      /\ ~good => /\ TaskEnds(t, good, {})
                  /\ UNCHANGED <<real_map, node_to_handle, ideal_map>>
  BY DEF AddItems
<1>2. PICK refused \in SUBSET known :
        /\ TaskEnds(t, good, refused)
        /\ good => /\ real_map' = [real_map EXCEPT ![u][t.sub].nodes =
                          [n \in DOMAIN @ \cup (known \ refused) |->
                            IF n \in (known \ refused) THEN t.arg[n] ELSE @[n]]]
                   /\ node_to_handle' = [node_to_handle EXCEPT ![u] = @ \cup (known \ refused)]
                   /\ ideal_map' = [ideal_map EXCEPT ![u] = Abandon(@, t.sub, unknown)]
  <2>1. CASE good
    BY <1>1, <2>1
  <2>2. CASE ~good
    <3>1. {} \in SUBSET known
      OBVIOUS
    <3>2. QED
      BY <1>1, <2>2, <3>1
  <2>3. QED
    BY <2>1, <2>2
<1> DEFINE added == known \ refused
           more == [n \in DOMAIN v.nodes \cup added |->
                        IF n \in added THEN t.arg[n] ELSE v.nodes[n]]
           w == [v EXCEPT !.nodes = more]
<1>3. /\ u \in Urls /\ t.sub \in Subs
      /\ round.phase \in {"nodes", "dead"}
      /\ round'.phase = round.phase /\ round'.targets = round.targets
      /\ round'.tasks = round.tasks \ {t}
      /\ round'.ok => round.ok /\ good /\ refused = {}
      /\ ControlTypes'
      /\ UNCHANGED <<url_to_reset, status, active_client, manager, reconnecting, conn>>
  BY <1>1, <1>2, TaskEndsStep
<1>a. /\ round.phase = "nodes" => ItemTask(t)
      /\ round.phase = "dead" => LeftTask(t)
  BY DEF Inv, TasksFit
<1>4. /\ t.sub \in DOMAIN real_map[u] /\ t.arg \in NodeMaps
      /\ \A n \in DOMAIN t.arg :
            /\ <<t.sub, n>> \in Subscribable
            /\ round.phase = "nodes" /\ <<u, n>> \notin Absent => n \in DOMAIN i.nodes
      /\ round.phase = "nodes" => t.sub \in DOMAIN ideal_map[u]
  BY <1>1, <1>3, <1>a DEF ItemTask, LeftTask
<1>5. v \in VirtualSubscriptions /\ v.nodes \in NodeMaps
  BY <1>3, <1>4, RealSub DEF Inv, VirtualSubscriptions, NodeMaps
<1>6. more \in NodeMaps /\ DOMAIN more = DOMAIN v.nodes \cup added
  <2>1. /\ v.nodes \in [DOMAIN v.nodes -> Attrs] /\ DOMAIN v.nodes \subseteq Nodes
        /\ t.arg \in [DOMAIN t.arg -> Attrs] /\ DOMAIN t.arg \subseteq Nodes
    BY <1>4, <1>5, NodeMap
  <2>2. more \in [DOMAIN v.nodes \cup added -> Attrs]
    BY <2>1
  <2>3. DOMAIN v.nodes \cup added \subseteq Nodes
    BY <2>1
  <2> HIDE DEF more, added
  <2>4. QED
    BY <2>2, <2>3, NodeMap
<1> HIDE DEF more, unknown
<1>8. w \in VirtualSubscriptions /\ DOMAIN w.nodes = DOMAIN v.nodes \cup added
  BY <1>5, <1>6 DEF VirtualSubscriptions, NodeMaps
<1>9. CASE good
  <2>1. /\ real_map' = Put(real_map, u, t.sub, w)
        /\ ideal_map' = [ideal_map EXCEPT ![u] = Abandon(ideal_map[u], t.sub, unknown)]
        /\ node_to_handle' = [node_to_handle EXCEPT ![u] = @ \cup added]
    BY <1>2, <1>9 DEF Put, more
  <2> HIDE DEF w
  <2>2. /\ real_map \in [Urls -> MapsOf(VirtualSubscriptions)]
        /\ ideal_map \in [Urls -> MapsOf(VirtualSubscriptions)]
    BY DEF Inv, TypeOK
  <2>3. /\ real_map' \in [Urls -> MapsOf(VirtualSubscriptions)]
        /\ \A x \in Urls : DOMAIN real_map'[x] = DOMAIN real_map[x]
        /\ real_map'[u][t.sub] = w
        /\ \A x \in Urls : \A s \in DOMAIN real_map[x] :
              <<x, s>> # <<u, t.sub>> => real_map'[x][s] = real_map[x][s]
    BY <1>3, <1>4, <1>8, <2>1, <2>2, PutOne
  <2>a. ideal_map[u] \in MapsOf(VirtualSubscriptions)
    BY <1>3, <2>2
  <2>b. /\ Abandon(ideal_map[u], t.sub, unknown) \in MapsOf(VirtualSubscriptions)
        /\ DOMAIN Abandon(ideal_map[u], t.sub, unknown) = DOMAIN ideal_map[u]
        /\ \A r \in DOMAIN ideal_map[u] :
              /\ Abandon(ideal_map[u], t.sub, unknown)[r].publishing = ideal_map[u][r].publishing
              /\ Abandon(ideal_map[u], t.sub, unknown)[r].monitoring = ideal_map[u][r].monitoring
              /\ DOMAIN Abandon(ideal_map[u], t.sub, unknown)[r].nodes =
                    IF r = t.sub THEN DOMAIN ideal_map[u][r].nodes \ unknown
                                 ELSE DOMAIN ideal_map[u][r].nodes
    <3> DEFINE k == ideal_map[u]
               s == t.sub
    <3>1. k \in MapsOf(VirtualSubscriptions)
      BY <2>a
    <3> HIDE DEF k, s
    <3>2. /\ Abandon(k, s, unknown) \in MapsOf(VirtualSubscriptions)
          /\ DOMAIN Abandon(k, s, unknown) = DOMAIN k
          /\ \A r \in DOMAIN k :
                /\ Abandon(k, s, unknown)[r].publishing = k[r].publishing
                /\ Abandon(k, s, unknown)[r].monitoring = k[r].monitoring
                /\ DOMAIN Abandon(k, s, unknown)[r].nodes =
                        IF r = s THEN DOMAIN k[r].nodes \ unknown ELSE DOMAIN k[r].nodes
      BY <3>1, AbandonEffect
    <3>3. QED
      BY <3>2 DEF k, s
  <2>4. /\ ideal_map' \in [Urls -> MapsOf(VirtualSubscriptions)]
        /\ \A x \in Urls : DOMAIN ideal_map'[x] = DOMAIN ideal_map[x]
        /\ \A x \in Urls \ {u} : ideal_map'[x] = ideal_map[x]
        /\ ideal_map'[u] = Abandon(ideal_map[u], t.sub, unknown)
    BY <1>3, <2>1, <2>2, <2>b
  <2>5. \A x \in Urls : \A s \in DOMAIN real_map[x] :
          DOMAIN real_map'[x][s].nodes =
              IF <<x, s>> = <<u, t.sub>> THEN DOMAIN real_map[x][s].nodes \cup added
                                         ELSE DOMAIN real_map[x][s].nodes
    BY <1>8, <2>3
  <2>6. \A x \in Urls : \A s \in DOMAIN ideal_map[x] :
          /\ DOMAIN ideal_map'[x][s].nodes =
                 IF <<x, s>> = <<u, t.sub>> THEN DOMAIN ideal_map[x][s].nodes \ unknown
                                            ELSE DOMAIN ideal_map[x][s].nodes
          /\ ideal_map'[x][s].publishing = ideal_map[x][s].publishing
          /\ ideal_map'[x][s].monitoring = ideal_map[x][s].monitoring
    <3>1. TAKE x \in Urls
    <3>2. CASE x = u
      BY <2>4, <2>b, <3>2
    <3>3. CASE x # u
      BY <2>4, <3>3
    <3>4. QED
      BY <3>2, <3>3
  <2>7. /\ unknown \subseteq DOMAIN t.arg /\ added \subseteq DOMAIN t.arg
        /\ DOMAIN t.arg \subseteq Nodes
        /\ \A n \in unknown : <<u, n>> \in Absent
        /\ \A n \in added : <<u, n>> \notin Absent
        /\ \A n \in added : round.phase = "nodes" => n \in DOMAIN i.nodes
        /\ refused = {} => DOMAIN t.arg \subseteq unknown \cup added
    BY <1>4, NodeMap DEF unknown
  <2> HIDE DEF u, v, i, added, known
  <2>8. /\ node_to_handle' \in [Urls -> SUBSET Nodes]
        /\ \A x \in Urls : node_to_handle[x] \subseteq node_to_handle'[x]
        /\ \A n \in added : n \in node_to_handle'[u]
    BY <1>3, <2>1, <2>7 DEF Inv, TypeOK
  <2>9. TypeOK' /\ SameNames'
    <3>1. TypeOK'
      BY <1>3, <1>1, <2>3, <2>4, <2>8 DEF Inv, TypeOK
    <3>2. SameNames'
      BY <1>1, <2>3 DEF Inv, SameNames
    <3>3. QED
      BY <3>1, <3>2
  <2>10. OnlyWanted'
    <3>1. ASSUME NEW x \in Urls, NEW s \in DOMAIN ideal_map[x],
                 NEW n \in DOMAIN ideal_map'[x][s].nodes
          PROVE  <<s, n>> \in Subscribable
      <4>1. n \in DOMAIN ideal_map[x][s].nodes
        BY <2>6
      <4>2. QED
        BY <4>1 DEF Inv, OnlyWanted
    <3>2. ASSUME NEW x \in Urls, NEW s \in DOMAIN real_map[x],
                 NEW n \in DOMAIN real_map'[x][s].nodes
          PROVE  <<s, n>> \in Subscribable /\ <<x, n>> \notin Absent
      <4>1. n \in DOMAIN real_map[x][s].nodes \/ (x = u /\ s = t.sub /\ n \in added)
        BY <2>5
      <4>2. QED
        <5>1. CASE n \in DOMAIN real_map[x][s].nodes
          BY <5>1 DEF Inv, OnlyWanted
        <5>2. CASE x = u /\ s = t.sub /\ n \in added
          BY <1>4, <2>7, <5>2
        <5>3. QED
          BY <4>1, <5>1, <5>2
    <3>3. QED
      BY <2>3, <2>4, <3>1, <3>2 DEF OnlyWanted
  <2>11. TasksFit'
    <3>0. ASSUME NEW r \in round.tasks, round.phase = "dead" PROVE LeftTask(r)'
      <4>1. r.url \in Urls /\ LeftTask(r)
        BY <3>0 DEF Inv, ControlTypes, AnyTask, TasksFit
      <4>2. QED
        BY <2>3, <4>1 DEF LeftTask
    <3>1. ASSUME NEW r \in round.tasks, round.phase = "nodes"
          PROVE  r.url \in round.targets /\ ItemTask(r)'
      <4>1. r.url \in Urls /\ r.url \in round.targets /\ ItemTask(r)
        BY <3>1 DEF Inv, ControlTypes, AnyTask, TasksFit
      <4>2. r.sub \in DOMAIN ideal_map[r.url] /\ r.sub \in DOMAIN real_map[r.url]
        BY <4>1 DEF ItemTask
      <4>3. /\ DOMAIN ideal_map'[r.url][r.sub].nodes \subseteq DOMAIN ideal_map[r.url][r.sub].nodes
            /\ \A n \in DOMAIN ideal_map[r.url][r.sub].nodes :
                 <<r.url, n>> \notin Absent => n \in DOMAIN ideal_map'[r.url][r.sub].nodes
        BY <2>6, <2>7, <4>1, <4>2
      <4>4. r.sub \in DOMAIN ideal_map'[r.url] /\ r.sub \in DOMAIN real_map'[r.url]
        BY <2>3, <2>4, <4>1, <4>2
      <4>5. QED
        BY <4>1, <4>3, <4>4 DEF ItemTask
    <3>2. QED
      BY <1>3, <3>0, <3>1 DEF TasksFit
  <2>12. \A x \in round.targets : x \in Urls
    BY DEF Inv, ControlTypes
  <2>13. Unwanted'
    BY <1>3, <2>3, <2>4, <2>12 DEF Inv, Unwanted
  <2>14. Covered'
    <3>1. SUFFICES ASSUME round.ok, round.phase = "nodes", refused = {},
                          NEW x \in round.targets
          PROVE  /\ DOMAIN ideal_map'[x] \subseteq DOMAIN real_map'[x]
                 /\ \A s \in DOMAIN real_map'[x] :
                     /\ \A n \in DOMAIN ideal_map'[x][s].nodes \ DOMAIN real_map'[x][s].nodes :
                          \E r \in round.tasks \ {t} : /\ r.op = "ADD_MI" /\ r.url = x /\ r.sub = s
                                                       /\ n \in DOMAIN r.arg
                     /\ \A n \in DOMAIN real_map'[x][s].nodes \ DOMAIN ideal_map'[x][s].nodes :
                          \E r \in round.tasks \ {t} : /\ r.op = "DEL_MI" /\ r.url = x /\ r.sub = s
                                                       /\ n \in r.arg
      BY <1>3 DEF Covered
    <3>2. /\ x \in Urls /\ DOMAIN real_map'[x] = DOMAIN real_map[x]
          /\ DOMAIN ideal_map'[x] = DOMAIN ideal_map[x]
      BY <2>3, <2>4, <2>12
    <3>3. DOMAIN ideal_map[x] = DOMAIN real_map[x]
      BY <3>1 DEF Inv, Covered, Unwanted
    <3>4. ASSUME NEW s \in DOMAIN real_map[x],
                 NEW n \in DOMAIN ideal_map'[x][s].nodes \ DOMAIN real_map'[x][s].nodes
          PROVE  \E r \in round.tasks \ {t} : /\ r.op = "ADD_MI" /\ r.url = x /\ r.sub = s
                                              /\ n \in DOMAIN r.arg
      <4>1. /\ n \in DOMAIN ideal_map[x][s].nodes \ DOMAIN real_map[x][s].nodes
            /\ x = u /\ s = t.sub => n \notin DOMAIN t.arg
        <5>1. CASE x = u /\ s = t.sub
          <6>1. /\ DOMAIN real_map'[x][s].nodes = DOMAIN real_map[x][s].nodes \cup added
                /\ DOMAIN ideal_map'[x][s].nodes = DOMAIN ideal_map[x][s].nodes \ unknown
            BY <2>5, <2>6, <3>2, <3>3, <5>1
          <6>2. QED
            BY <2>7, <3>1, <3>4, <6>1
        <5>2. CASE <<x, s>> # <<u, t.sub>>
          <6>1. /\ DOMAIN real_map'[x][s].nodes = DOMAIN real_map[x][s].nodes
                /\ DOMAIN ideal_map'[x][s].nodes = DOMAIN ideal_map[x][s].nodes
            BY <2>5, <2>6, <3>2, <3>3, <5>2
          <6>2. QED
            BY <3>4, <5>2, <6>1
        <5>3. QED
          BY <5>1, <5>2
      <4>2. PICK r \in round.tasks : /\ r.op = "ADD_MI" /\ r.url = x /\ r.sub = s
                                     /\ n \in DOMAIN r.arg
        BY <3>1, <3>4, <4>1 DEF Inv, Covered
      <4>3. r # t
        BY <4>1, <4>2 DEF u
      <4>4. QED
        BY <4>2, <4>3
    <3>5. ASSUME NEW s \in DOMAIN real_map[x],
                 NEW n \in DOMAIN real_map'[x][s].nodes \ DOMAIN ideal_map'[x][s].nodes
          PROVE  \E r \in round.tasks \ {t} : /\ r.op = "DEL_MI" /\ r.url = x /\ r.sub = s
                                              /\ n \in r.arg
      <4>1. n \in DOMAIN real_map[x][s].nodes \/ (x = u /\ s = t.sub /\ n \in added)
        BY <2>5, <3>2
      <4>2. <<x, n>> \notin Absent
        <5>1. CASE n \in DOMAIN real_map[x][s].nodes
          BY <3>2, <5>1 DEF Inv, OnlyWanted
        <5>2. CASE x = u /\ s = t.sub /\ n \in added
          BY <2>7, <5>2
        <5>3. QED
          BY <4>1, <5>1, <5>2
      <4>3. n \notin DOMAIN ideal_map[x][s].nodes
        BY <2>6, <2>7, <3>2, <3>3, <3>5, <4>2
      <4>4. n \in DOMAIN real_map[x][s].nodes
        <5>1. x = u /\ s = t.sub => ideal_map[x][s] = i
          BY DEF i
        <5>2. QED
          BY <2>7, <3>1, <4>1, <4>3, <5>1
      <4>5. PICK r \in round.tasks : r.op = "DEL_MI" /\ r.url = x /\ r.sub = s /\ n \in r.arg
        BY <3>1, <3>5, <4>3, <4>4 DEF Inv, Covered
      <4>6. QED
        BY <1>1, <4>5
    <3>6. QED
      BY <3>2, <3>3, <3>4, <3>5
  <2>15. \A x \in Urls : \A s \in DOMAIN real_map[x] :
            \A n \in DOMAIN real_map'[x][s].nodes :
                n \in DOMAIN real_map[x][s].nodes \/ n \in node_to_handle'[x]
    BY <2>5, <2>8
  <2>16. Inv'
    BY <1>3, <2>9, <2>10, <2>11, <2>13, <2>14 DEF Inv
  <2>17. \A x \in Urls : /\ DOMAIN ideal_map'[x] = DOMAIN ideal_map[x]
                          /\ DOMAIN real_map'[x] = DOMAIN real_map[x]
                          /\ node_to_handle[x] \subseteq node_to_handle'[x]
    BY <2>3, <2>4, <2>8
  <2>18. \A x \in Urls : \A s \in DOMAIN ideal_map[x] :
            /\ ideal_map'[x][s].publishing = ideal_map[x][s].publishing
            /\ ideal_map'[x][s].monitoring = ideal_map[x][s].monitoring
    BY <2>6
  <2>19. active_client' = active_client
    BY <1>3
  <2>20. QED
    BY <2>15, <2>16, <2>17, <2>18, <2>19
<1>10. CASE ~good
  <2>1. UNCHANGED <<ideal_map, real_map, node_to_handle, name_to_subscription>>
    BY <1>1, <1>10
  <2>2. TypeOK' /\ SameNames' /\ OnlyWanted'
    BY <1>3, <2>1 DEF Inv, TypeOK, SameNames, OnlyWanted
  <2>3. TasksFit' /\ Unwanted' /\ Covered'
    BY <1>3, <1>10, <2>1 DEF Inv, TasksFit, ItemTask, LeftTask, Unwanted, Covered
  <2>4. QED
    BY <1>3, <2>1, <2>2, <2>3 DEF Inv
<1>11. QED
  BY <1>9, <1>10

\* and changing a mode.
LEMMA ChangeModeStep ==
    ASSUME Inv, NEW t \in round.tasks, NEW good \in BOOLEAN, ChangeMode(t, good)
    PROVE  /\ Inv' /\ UNCHANGED <<ideal_map, node_to_handle, active_client>>
           /\ \A x \in Urls : /\ DOMAIN real_map'[x] = DOMAIN real_map[x]
                              /\ \A s \in DOMAIN real_map[x] :
                                    real_map'[x][s].nodes = real_map[x][s].nodes
<1> DEFINE u == t.url
           v == real_map[u][t.sub]
           i == ideal_map[u][t.sub]
           w == IF t.op = "PUBLISHING" THEN [v EXCEPT !.publishing = i.publishing]
                                       ELSE [v EXCEPT !.monitoring = i.monitoring]
<1>1. /\ t.op \in {"PUBLISHING", "MONITORING"} /\ TaskEnds(t, good, {})
      /\ UNCHANGED <<ideal_map, name_to_subscription, node_to_handle>>
  BY DEF ChangeMode
<1>2. /\ u \in round.targets /\ u \in Urls /\ t.sub \in Subs
      /\ round.phase = "modes"
      /\ round'.phase = round.phase /\ round'.targets = round.targets
      /\ round'.tasks = round.tasks \ {t}
      /\ round'.ok => round.ok /\ good
      /\ ControlTypes'
      /\ UNCHANGED <<url_to_reset, status, active_client, manager, reconnecting, conn>>
  BY <1>1, TaskEndsStep
<1>3. ModeTask(t)
  BY <1>2 DEF Inv, TasksFit
<1>4. /\ t.sub \in DOMAIN ideal_map[u] /\ t.sub \in DOMAIN real_map[u]
      /\ t.op = "PUBLISHING" => t.arg = i.publishing
      /\ t.op = "MONITORING" => t.arg = i.monitoring
  BY <1>3 DEF ModeTask
<1>5. v \in VirtualSubscriptions /\ i \in VirtualSubscriptions
  BY <1>2, <1>4, RealSub, IdealSub DEF Inv
<1>6. /\ w \in VirtualSubscriptions /\ w.nodes = v.nodes
      /\ w.publishing = IF t.op = "PUBLISHING" THEN i.publishing ELSE v.publishing
      /\ w.monitoring = IF t.op = "PUBLISHING" THEN v.monitoring ELSE i.monitoring
  BY <1>5 DEF VirtualSubscriptions
<1>7. real_map \in [Urls -> MapsOf(VirtualSubscriptions)]
  BY DEF Inv, TypeOK
<1>8. CASE good
  <2>1. real_map' = Put(real_map, u, t.sub, w)
    <3>1. /\ t.op = "PUBLISHING" =>
                real_map' = [real_map EXCEPT ![u] = [real_map[u] EXCEPT ![t.sub] =
                                [v EXCEPT !.publishing = t.arg]]]
          /\ t.op # "PUBLISHING" =>
                real_map' = [real_map EXCEPT ![u] = [real_map[u] EXCEPT ![t.sub] =
                                [v EXCEPT !.monitoring = t.arg]]]
      BY <1>8 DEF ChangeMode
    <3>2. CASE t.op = "PUBLISHING"
      BY <1>4, <3>1, <3>2 DEF Put
    <3>3. CASE t.op = "MONITORING"
      BY <1>4, <3>1, <3>3 DEF Put
    <3>4. QED
      BY <1>1, <3>2, <3>3
  <2> HIDE DEF w
  <2>2. /\ real_map' \in [Urls -> MapsOf(VirtualSubscriptions)]
        /\ \A x \in Urls : DOMAIN real_map'[x] = DOMAIN real_map[x]
        /\ real_map'[u][t.sub] = w
        /\ \A x \in Urls : \A s \in DOMAIN real_map[x] :
              <<x, s>> # <<u, t.sub>> => real_map'[x][s] = real_map[x][s]
    BY <1>2, <1>4, <1>6, <1>7, <2>1, PutOne
  <2>3. \A x \in Urls : \A s \in DOMAIN real_map[x] : real_map'[x][s].nodes = real_map[x][s].nodes
    BY <1>6, <2>2
  <2> HIDE DEF u, v, i
  <2>4. TypeOK' /\ SameNames' /\ OnlyWanted'
    BY <1>1, <1>2, <2>2, <2>3 DEF Inv, TypeOK, SameNames, OnlyWanted
  <2>5. \A x \in round.targets : x \in Urls
    BY DEF Inv, ControlTypes
  <2>6. Unwanted'
    BY <1>1, <1>2, <2>2, <2>5 DEF Inv, Unwanted
  <2>7. TasksFit'
    <3>1. \A r \in round.tasks : r.url \in Urls
      BY DEF Inv, ControlTypes, AnyTask
    <3>2. QED
      BY <1>1, <1>2, <2>2, <3>1 DEF Inv, TasksFit, ModeTask
  <2>8. Covered'
    <3>1. SUFFICES ASSUME round.ok, NEW x \in round.targets
          PROVE  /\ DOMAIN ideal_map[x] \subseteq DOMAIN real_map'[x]
                 /\ \A s \in DOMAIN real_map'[x] :
                      /\ DOMAIN ideal_map[x][s].nodes = DOMAIN real_map'[x][s].nodes
                      /\ \/ real_map'[x][s].publishing = ideal_map[x][s].publishing
                         \/ \E r \in round.tasks \ {t} : r.op = "PUBLISHING" /\ r.url = x /\ r.sub = s
                      /\ \/ real_map'[x][s].monitoring = ideal_map[x][s].monitoring
                         \/ \E r \in round.tasks \ {t} : r.op = "MONITORING" /\ r.url = x /\ r.sub = s
      BY <1>1, <1>2 DEF Covered
    <3>2. x \in Urls /\ DOMAIN real_map'[x] = DOMAIN real_map[x]
      BY <2>2, <2>5
    <3>3. /\ DOMAIN ideal_map[x] \subseteq DOMAIN real_map[x]
          /\ \A s \in DOMAIN real_map[x] :
                /\ DOMAIN ideal_map[x][s].nodes = DOMAIN real_map[x][s].nodes
                /\ \/ real_map[x][s].publishing = ideal_map[x][s].publishing
                   \/ \E r \in round.tasks : r.op = "PUBLISHING" /\ r.url = x /\ r.sub = s
                /\ \/ real_map[x][s].monitoring = ideal_map[x][s].monitoring
                   \/ \E r \in round.tasks : r.op = "MONITORING" /\ r.url = x /\ r.sub = s
      BY <1>2, <3>1 DEF Inv, Covered
    <3>4. ASSUME NEW s \in DOMAIN real_map[x]
          PROVE  /\ \/ real_map'[x][s].publishing = ideal_map[x][s].publishing
                    \/ \E r \in round.tasks \ {t} : r.op = "PUBLISHING" /\ r.url = x /\ r.sub = s
                 /\ \/ real_map'[x][s].monitoring = ideal_map[x][s].monitoring
                    \/ \E r \in round.tasks \ {t} : r.op = "MONITORING" /\ r.url = x /\ r.sub = s
      <4>1. CASE <<x, s>> # <<u, t.sub>>
        <5>1. real_map'[x][s] = real_map[x][s]
          BY <2>2, <3>2, <4>1
        <5>2. \A r \in round.tasks : r.url = x /\ r.sub = s => r # t
          BY <4>1 DEF u
        <5>3. QED
          BY <3>3, <5>1, <5>2
      <4>2. CASE x = u /\ s = t.sub /\ t.op = "PUBLISHING"
        <5>1. /\ real_map'[x][s].publishing = ideal_map[x][s].publishing
              /\ real_map'[x][s].monitoring = real_map[x][s].monitoring
          BY <1>6, <2>2, <4>2 DEF i, v, u
        <5>2. QED
          BY <3>3, <4>2, <5>1
      <4>3. CASE x = u /\ s = t.sub /\ t.op = "MONITORING"
        <5>1. /\ real_map'[x][s].publishing = real_map[x][s].publishing
              /\ real_map'[x][s].monitoring = ideal_map[x][s].monitoring
          BY <1>6, <2>2, <4>3 DEF i, v, u
        <5>2. QED
          BY <3>3, <4>3, <5>1
      <4>4. QED
        BY <1>1, <4>1, <4>2, <4>3
    <3>5. QED
      BY <2>3, <3>2, <3>3, <3>4
  <2>9. QED
    BY <1>1, <1>2, <2>2, <2>3, <2>4, <2>6, <2>7, <2>8 DEF Inv
<1>9. CASE ~good
  <2>1. UNCHANGED <<ideal_map, real_map, node_to_handle, name_to_subscription>>
    BY <1>1, <1>9 DEF ChangeMode
  <2>2. TypeOK' /\ SameNames' /\ OnlyWanted'
    BY <1>2, <2>1 DEF Inv, TypeOK, SameNames, OnlyWanted
  <2>3. TasksFit' /\ Unwanted' /\ Covered'
    BY <1>2, <1>9, <2>1 DEF Inv, TasksFit, ModeTask, Unwanted, Covered
  <2>4. QED
    BY <1>2, <2>1, <2>2, <2>3 DEF Inv
<1>10. QED
  BY <1>8, <1>9

-----------------------------------------------------------------------------
(* The theorems.                                                           *)

\* Every step keeps the invariant.
LEMMA InvStep == Inv /\ [Next]_vars => Inv'
<1> SUFFICES ASSUME Inv, [Next]_vars PROVE Inv'
  OBVIOUS
<1>1. Clients[1] \in Urls
  BY FirstIsUrl
<1>2. CASE UserCalls \/ FailoverWarm
  BY <1>2, IdealSteps
<1>3. CASE UpdateState \/ ReconnectWarm \/ Stop \/ UNCHANGED vars
  BY <1>1, <1>3, QuietSteps
<1>4. CASE \E u \in Urls : KeepAlive(u) \/ Reconnect(u) \/ SessionLost(u) \/ StopDisconnects(u)
  BY <1>4, QuietSteps DEF Reconnect
<1>5. CASE RoundBegins
  BY <1>5, RoundBeginsStep
<1>6. CASE NextPhase
  BY <1>6, NextPhaseStep
<1>7. CASE StopCancels
  BY <1>7, StopCancelsStep
<1>8. CASE Requests
  BY <1>8, AddSubStep, DelSubStep, AddItemsStep, DelItemsStep, ChangeModeStep DEF Requests
<1>9. QED
  BY <1>2, <1>3, <1>4, <1>5, <1>6, <1>7, <1>8 DEF Next, Manager, Reconciliate

\* The invariant holds throughout.
LEMMA InvHolds == Spec => []Inv
BY InvInit, InvStep, PTL DEF Spec

\* Every variable keeps its shape, through every interleaving of the manager,
\* the keep-alives, the reconnections, the rounds and the user.
THEOREM TypeCorrect == Spec => []TypeOK
<1>1. Inv => TypeOK
  BY DEF Inv
<1>2. QED
  BY <1>1, InvHolds, PTL

\* _update_servers and the failovers keep the ideal map in step with the active
\* client: whatever is created while a failover waits for the lock, exactly the
\* active client is to publish, and a subscription is wanted on all servers or
\* on none.
THEOREM IdealIsActive == Spec => []IdealFollowsActive
<1> DEFINE first == Clients[1]
<1>1. first \in Urls
  BY FirstIsUrl
<1>2. Init => IdealFollowsActive
  BY <1>1, NothingIsMap DEF Init, IdealFollowsActive
<1>3. ASSUME Inv, IdealFollowsActive, [Next]_vars PROVE IdealFollowsActive'
  <2>1. CASE UNCHANGED <<ideal_map, active_client>>
    BY <1>3, <2>1 DEF IdealFollowsActive
  <2>2. CASE \E s \in Subs : CreateSubscription(s)
    <3> PICK s \in Subs : CreateSubscription(s)
      BY <2>2
    <3>1. active_client' = active_client
      BY DEF CreateSubscription, Call
    <3>2. \A u \in Urls :
            /\ DOMAIN ideal_map'[u] = DOMAIN ideal_map[u] \cup {s}
            /\ ideal_map'[u][s].publishing = (u = active_client)
            /\ ideal_map'[u][s].monitoring = (u = active_client)
            /\ \A r \in DOMAIN ideal_map[u] \ {s} : ideal_map'[u][r] = ideal_map[u][r]
      BY <1>3, CreateSubscriptionEffect, FreshVirtualSub
    <3>3. /\ \A u \in Urls : DOMAIN ideal_map[u] = DOMAIN ideal_map[Clients[1]]
          /\ \A u \in Urls : \A r \in DOMAIN ideal_map[u] :
                /\ ideal_map[u][r].publishing = (u = active_client)
                /\ ideal_map[u][r].monitoring = (u = active_client)
      BY <1>3 DEF IdealFollowsActive
    <3>4. \A u \in Urls : DOMAIN ideal_map'[u] = DOMAIN ideal_map'[Clients[1]]
      BY <1>1, <3>2, <3>3
    <3>5. \A u \in Urls : \A r \in DOMAIN ideal_map'[u] :
                /\ ideal_map'[u][r].publishing = (u = active_client)
                /\ ideal_map'[u][r].monitoring = (u = active_client)
      BY <3>2, <3>3
    <3>6. QED
      BY <3>1, <3>4, <3>5 DEF IdealFollowsActive
  <2>3. CASE \E s \in Subs : DeleteSubscription(s)
    <3> PICK s \in Subs : DeleteSubscription(s)
      BY <2>3
    <3>1. active_client' = active_client
      BY DEF DeleteSubscription, Call
    <3>2. \A u \in Urls :
            /\ DOMAIN ideal_map'[u] = DOMAIN ideal_map[u] \ {s}
            /\ \A r \in DOMAIN ideal_map[u] \ {s} : ideal_map'[u][r] = ideal_map[u][r]
      BY <1>3, DeleteSubscriptionEffect
    <3>3. /\ \A u \in Urls : DOMAIN ideal_map[u] = DOMAIN ideal_map[Clients[1]]
          /\ \A u \in Urls : \A r \in DOMAIN ideal_map[u] :
                /\ ideal_map[u][r].publishing = (u = active_client)
                /\ ideal_map[u][r].monitoring = (u = active_client)
      BY <1>3 DEF IdealFollowsActive
    <3>4. \A u \in Urls : DOMAIN ideal_map'[u] = DOMAIN ideal_map'[Clients[1]]
      BY <1>1, <3>2, <3>3
    <3>5. \A u \in Urls : \A r \in DOMAIN ideal_map'[u] :
                /\ ideal_map'[u][r].publishing = (u = active_client)
                /\ ideal_map'[u][r].monitoring = (u = active_client)
      BY <3>2, <3>3
    <3>6. QED
      BY <3>1, <3>4, <3>5 DEF IdealFollowsActive
  <2>4. ASSUME active_client' = active_client,
               \A u \in Urls :
                    /\ DOMAIN ideal_map'[u] = DOMAIN ideal_map[u]
                    /\ \A r \in DOMAIN ideal_map[u] :
                          /\ ideal_map'[u][r].publishing = ideal_map[u][r].publishing
                          /\ ideal_map'[u][r].monitoring = ideal_map[u][r].monitoring
        PROVE  IdealFollowsActive'
    BY <1>1, <1>3, <2>4 DEF IdealFollowsActive
  <2>5. CASE \E s \in Subs, n \in Nodes, a \in Attrs : SubscribeDataChange(s, n, a)
    <3> PICK s \in Subs, n \in Nodes, a \in Attrs : SubscribeDataChange(s, n, a)
      BY <2>5
    <3>1. active_client' = active_client
      BY DEF SubscribeDataChange, Call
    <3>2. \A u \in Urls :
                    /\ DOMAIN ideal_map'[u] = DOMAIN ideal_map[u]
                    /\ \A r \in DOMAIN ideal_map[u] :
                          /\ ideal_map'[u][r].publishing = ideal_map[u][r].publishing
                          /\ ideal_map'[u][r].monitoring = ideal_map[u][r].monitoring
      BY <1>3, SubscribeEffect
    <3>3. QED
      BY <2>4, <3>1, <3>2
  <2>6. CASE \E n \in Nodes : Unsubscribe(n)
    <3> PICK n \in Nodes : Unsubscribe(n)
      BY <2>6
    <3>1. active_client' = active_client
      BY DEF Unsubscribe, Call
    <3>2. QED
      BY <1>3, <2>4, <3>1, UnsubscribeEffect
  <2>7. CASE FailoverWarm
    BY <1>1, <1>3, <2>7, FailoverEffect DEF IdealFollowsActive
  <2>8. CASE \E t \in round.tasks, good \in BOOLEAN : AddItems(t, good)
    BY <1>3, <2>4, <2>8, AddItemsStep
  <2>9. CASE \E t \in round.tasks, good \in BOOLEAN :
               AddSub(t, good) \/ DelSub(t, good) \/ DelItems(t, good) \/ ChangeMode(t, good)
    BY <1>3, <2>1, <2>9, AddSubStep, DelSubStep, DelItemsStep, ChangeModeStep
  <2>10. CASE RoundBegins \/ NextPhase \/ StopCancels
    BY <1>3, <2>1, <2>10, RoundBeginsStep, NextPhaseStep, StopCancelsStep
  <2>11. CASE \/ UpdateState \/ ReconnectWarm \/ Stop \/ UNCHANGED vars
              \/ \E u \in Urls : KeepAlive(u) \/ Reconnect(u) \/ SessionLost(u)
                                 \/ StopDisconnects(u)
    BY <1>1, <1>3, <2>1, <2>11, QuietSteps DEF Reconnect
  <2>12. QED
    BY <1>3, <2>2, <2>3, <2>5, <2>6, <2>7, <2>8, <2>9, <2>10, <2>11
       DEF Next, UserCalls, Manager, Reconciliate, Requests
<1>4. QED
  BY <1>2, <1>3, InvHolds, PTL DEF Spec

\* A node is subscribed in one subscription only.
NodesApart == \A p, q \in Subscribable : p[2] = q[2] => p = q

\* Where no node is in two subscriptions, the reconciliator finds the handle of
\* every node it is to delete, and the ideal subscription of every one it
\* compares: its task never ends with a KeyError.  Without the assumption it
\* does (the run ha_shared).
THEOREM LookupsAlwaysSucceed == NodesApart => (Spec => []LookupsSucceed)
<1> SUFFICES ASSUME NodesApart PROVE Spec => []LookupsSucceed
  OBVIOUS
<1> DEFINE Handles == \A u \in Urls : \A s \in DOMAIN real_map[u] :
                        DOMAIN real_map[u][s].nodes \subseteq node_to_handle[u]
           Alive == round.phase # "dead"
           Safe == Handles /\ Alive
<1>1. Init => Safe
  BY NothingIsMap DEF Init, Idle
<1>2. ASSUME Inv, Safe, [Next]_vars PROVE Safe'
  <2>1. CASE UserCalls \/ FailoverWarm
    <3>1. UNCHANGED <<real_map, node_to_handle, round>>
      BY <1>2, <2>1, IdealSteps DEF maps
    <3>2. QED
      BY <1>2, <3>1
  <2>2. CASE \/ UpdateState \/ ReconnectWarm \/ Stop \/ UNCHANGED vars
             \/ \E u \in Urls : KeepAlive(u) \/ Reconnect(u) \/ SessionLost(u)
                                \/ StopDisconnects(u)
    <3>1. UNCHANGED <<real_map, node_to_handle, round>>
      BY <1>2, <2>2, QuietSteps, FirstIsUrl DEF Reconnect
    <3>2. QED
      BY <1>2, <3>1
  <2>3. CASE RoundBegins
    BY <1>2, <2>3, RoundBeginsStep
  <2>4. CASE NextPhase
    <3>1. UNCHANGED <<real_map, node_to_handle>>
      BY <1>2, <2>4, NextPhaseStep DEF maps
    <3>2. \A u \in round.targets : u \in Urls
      BY <1>2 DEF Inv, ControlTypes
    <3>3. ~ \E u \in round.targets : \E s \in Existing(u) : HandleMissing(u, s)
      BY <1>2, <3>2 DEF HandleMissing, Existing, Inv, SameNames
    <3>4. round'.phase # "dead"
      BY <1>2, <2>4, <3>3, NextPhaseStep
    <3>5. QED
      BY <1>2, <3>1, <3>4
  <2>5. CASE StopCancels
    <3>1. UNCHANGED <<real_map, node_to_handle>> /\ round'.phase # "dead"
      BY <1>2, <2>5, StopCancelsStep DEF maps
    <3>2. QED
      BY <1>2, <3>1
  <2>6. ASSUME NEW t \in round.tasks, NEW good \in BOOLEAN,
               \/ AddSub(t, good) \/ DelSub(t, good) \/ DelItems(t, good)
               \/ AddItems(t, good) \/ ChangeMode(t, good)
        PROVE  Safe'
    <3>1. Alive'
      <4>1. \E refused : TaskEnds(t, good, refused)
        BY <2>6, Zenon DEF AddSub, DelSub, DelItems, AddItems, ChangeMode
      <4>2. QED
        BY <1>2, <4>1, TaskEndsStep
    <3>2. CASE AddSub(t, good)
      BY <1>2, <3>1, <3>2, AddSubStep
    <3>3. CASE DelSub(t, good)
      BY <1>2, <3>1, <3>3, DelSubStep
    <3>4. CASE AddItems(t, good)
      BY <1>2, <3>1, <3>4, AddItemsStep
    <3>5. CASE ChangeMode(t, good)
      BY <1>2, <3>1, <3>5, ChangeModeStep
    <3>6. CASE DelItems(t, good)
      <4>1. /\ t.url \in Urls
            /\ \A n \in t.arg : <<t.sub, n>> \in Subscribable
            /\ \A x \in Urls : node_to_handle[x] \ (IF x = t.url THEN t.arg ELSE {})
                                 \subseteq node_to_handle'[x]
            /\ \A x \in Urls : DOMAIN real_map'[x] = DOMAIN real_map[x]
            /\ \A x \in Urls : \A s \in DOMAIN real_map[x] :
                 DOMAIN real_map'[x][s].nodes =
                    IF <<x, s>> = <<t.url, t.sub>> THEN DOMAIN real_map[x][s].nodes \ t.arg
                                                   ELSE DOMAIN real_map[x][s].nodes
        BY <1>2, <3>6, DelItemsStep
      <4>2. node_to_handle \in [Urls -> SUBSET Nodes]
        BY <1>2 DEF Inv, TypeOK
      <4>3. ASSUME NEW x \in Urls, NEW s \in DOMAIN real_map[x],
                   NEW n \in DOMAIN real_map'[x][s].nodes
            PROVE  n \in node_to_handle'[x]
        <5>1. n \in DOMAIN real_map[x][s].nodes
          BY <4>1, <4>3
        <5>2. n \in node_to_handle[x]
          BY <1>2, <5>1
        <5>3. CASE x # t.url
          BY <4>1, <4>2, <5>2, <5>3
        <5>4. CASE x = t.url /\ s = t.sub
          <6>1. n \notin t.arg
            BY <4>1, <4>3, <5>4
          <6>2. QED
            BY <4>1, <4>2, <5>2, <5>4, <6>1
        <5>5. CASE x = t.url /\ s # t.sub
          <6>1. <<s, n>> \in Subscribable
            BY <1>2, <5>1 DEF Inv, OnlyWanted
          <6>2. n \notin t.arg
            <7>1. SUFFICES ASSUME n \in t.arg PROVE FALSE
              OBVIOUS
            <7>2. <<t.sub, n>> \in Subscribable
              BY <4>1, <7>1
            <7>3. <<s, n>>[2] = <<t.sub, n>>[2]
              OBVIOUS
            <7>4. <<s, n>> = <<t.sub, n>>
              BY <6>1, <7>2, <7>3 DEF NodesApart
            <7>5. QED
              BY <5>5, <7>4
          <6>3. QED
            BY <4>1, <4>2, <5>2, <5>5, <6>2
        <5>6. QED
          BY <5>3, <5>4, <5>5
      <4>4. QED
        BY <3>1, <4>1, <4>3
    <3>7. QED
      BY <2>6, <3>2, <3>3, <3>4, <3>5, <3>6
  <2>7. QED
    BY <1>2, <2>1, <2>2, <2>3, <2>4, <2>5, <2>6
       DEF Next, Manager, Reconciliate, Requests
<1>3. Inv /\ Safe => LookupsSucceed
  BY DEF LookupsSucceed, Inv, SameNames
<1> HIDE DEF Safe
<1>4. QED
  BY <1>1, <1>2, <1>3, InvHolds, PTL DEF Spec

\* A round in which no request failed and no node was refused makes the real
\* map agree with the ideal one, on every server it was for, about which
\* subscriptions there are, with which nodes and in which modes: what the users
\* ask for, what the servers do not have and what a reset has emptied included.
\* (About the attributes of nodes it need not: a change of an attribute is not
\* seen by _nodes_to_add.)
THEOREM RoundsAchieve == Spec => []RoundAchieves
<1>1. ASSUME Inv PROVE RoundAchieves
  <2>1. SUFFICES ASSUME round.phase = "modes", round.tasks = {}, round.ok,
                        NEW u \in round.targets
                 PROVE  Agree(u)
    BY DEF RoundAchieves
  <2>2. DOMAIN real_map[u] = DOMAIN ideal_map[u]
    BY <1>1, <2>1 DEF Inv, Unwanted, Covered
  <2>3. \A s \in DOMAIN real_map[u] :
          /\ DOMAIN real_map[u][s].nodes = DOMAIN ideal_map[u][s].nodes
          /\ real_map[u][s].publishing = ideal_map[u][s].publishing
          /\ real_map[u][s].monitoring = ideal_map[u][s].monitoring
    BY <1>1, <2>1 DEF Inv, Covered
  <2>4. QED
    BY <2>2, <2>3 DEF Agree
<1>2. QED
  BY <1>1, InvHolds, PTL

=============================================================================
