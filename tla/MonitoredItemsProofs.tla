------------------------ MODULE MonitoredItemsProofs ------------------------
(***************************************************************************)
(* Theorems about MonitoredItems, for every number of nodes,               *)
(* subscriptions, tasks that write and items, and all values and deadbands.*)
(***************************************************************************)
EXTENDS MonitoredItems, FiniteSetTheorems, SequenceTheorems, WellFoundedInduction, TLAPS

-----------------------------------------------------------------------------
(* The inductive invariant.                                                *)

\* A callback is where its item says.
Placed ==
    \A p \in Places : \A i \in callbacks[p] : i \in DOMAIN item /\ item[i].at = p

\* A handle that is known has its callback.
Known == \A i \in handles : i \in callbacks[item[i].at]

\* Only attributes other than Value keep handles of a node that is gone.
DeadNodes ==
    \A i \in handles : item[i].at[1] \notin nodes => item[i].at[2] = "Other"

\* An item without a filter was notified of the value it saw last.
Notified == \A i \in DOMAIN item : item[i].band = 0 => told[i] = seen[i]

\* A place that was not disturbed has one write at most, of the value it has,
\* and the items up to the one whose callback is suspended have seen it.
Progress ==
    \A p \in Places \ disturbed :
        /\ \A w \in Writers : write[w].at = p =>
              /\ write[w].new = value[p] /\ write[w].size = Cardinality(callbacks[p])
              /\ \A i \in callbacks[p] : i <= write[w].after => seen[i] = value[p]
        /\ \A w, v \in Writers : write[w].at = p /\ write[v].at = p => w = v
        /\ ~Writing(p) => \A i \in callbacks[p] : seen[i] = value[p]

Inv == TypeOK /\ Placed /\ Known /\ DeadNodes /\ Notified /\ Progress

-----------------------------------------------------------------------------
(* Sets of items.                                                          *)

\* Every set of items has a first one.
LEMMA FirstItem ==
    ASSUME NEW S, S \subseteq Nat, S # {}
    PROVE  \E i \in S : \A j \in S : i <= j
<1> DEFINE R == OpToRel(<, Nat)
<1>1. \A i, j \in Nat : <<i, j>> \in R <=> i < j
  BY DEF OpToRel
<1>2. IsWellFoundedOn(R, Nat)
  BY NatLessThanWellFounded
<1> HIDE DEF R
<1>3. PICK i \in S : \A j \in S : ~(<<j, i>> \in R)
  BY <1>2, WFMin
<1>4. \A j \in S : ~(j < i)
  BY <1>1, <1>3
<1>5. \A j \in S : i <= j
  BY <1>4
<1>6. QED
  BY <1>5

\* The number of callbacks of a place is a number.
LEMMA CallbacksFinite ==
    ASSUME MonitoredItemsAssumption, NEW S \in SUBSET Items
    PROVE  Cardinality(S) \in Nat
<1>1. IsFiniteSet(Items)
  BY FS_Interval DEF Items, MonitoredItemsAssumption
<1>2. QED
  BY <1>1, FS_Subset, FS_CardinalityType

\* What a write calls next: all items after k, up to the first that suspends.
LEMMA CalledNext ==
    ASSUME MonitoredItemsAssumption, TypeOK, NEW p \in Places, NEW new \in Values,
           NEW k \in Nat
    PROVE  /\ Called(p, new, k) \subseteq callbacks[p]
           /\ \A i \in Called(p, new, k) : i > k
           /\ (\A i \in Called(p, new, k) : ~Suspends(i, new)) =>
                 \A i \in callbacks[p] : i > k => i \in Called(p, new, k)
           /\ \A j \in Called(p, new, k) : Suspends(j, new) =>
                 \A i \in callbacks[p] : i > k /\ i <= j => i \in Called(p, new, k)
<1> DEFINE todo == {i \in callbacks[p] : i > k}
           stops == {i \in todo : Suspends(i, new)}
<1>1. Called(p, new, k) = {i \in todo : \A j \in stops : i <= j}
  BY DEF Called
<1>2. callbacks[p] \subseteq Nat
  BY DEF TypeOK, Items, MonitoredItemsAssumption
<1>3. ASSUME \A i \in Called(p, new, k) : ~Suspends(i, new)
      PROVE  stops = {}
  <2>1. SUFFICES ASSUME stops # {} PROVE FALSE
    OBVIOUS
  <2>2. PICK i \in stops : \A j \in stops : i <= j
    BY <1>2, <2>1, FirstItem
  <2>3. QED
    BY <1>1, <1>3, <2>2
<1>4. \A j \in Called(p, new, k) : Suspends(j, new) =>
         \A i \in callbacks[p] : i > k /\ i <= j => i \in Called(p, new, k)
  BY <1>1, <1>2
<1>5. QED
  BY <1>1, <1>3, <1>4

-----------------------------------------------------------------------------
(* Writing.                                                                *)

\* The types of what a write changes.
LEMMA ContinuesTypes ==
    ASSUME MonitoredItemsAssumption, TypeOK, NEW w \in Writers, NEW p \in Places,
           NEW new \in Values, NEW k \in Nat, NEW size \in Nat,
           Continues(w, p, new, k, size)
    PROVE  /\ seen' \in [DOMAIN item -> Values] /\ told' \in [DOMAIN item -> Values]
           /\ write' \in [Writers -> {NoWrite} \cup
                  [at : Places, new : Values, after : Items, size : Nat]]
<1> DEFINE stop == {i \in Called(p, new, k) : Suspends(i, new)}
<1>1. seen' \in [DOMAIN item -> Values] /\ told' \in [DOMAIN item -> Values]
  BY DEF Continues, TypeOK
<1>2. stop \subseteq Items
  BY CalledNext DEF TypeOK
<1>3. stop # {} => [at |-> p, new |-> new, after |-> CHOOSE i \in stop : TRUE, size |-> size]
                   \in [at : Places, new : Values, after : Items, size : Nat]
  BY <1>2
<1>4. write' = [write EXCEPT ![w] =
              IF stop = {} THEN NoWrite
              ELSE [at |-> p, new |-> new, after |-> CHOOSE i \in stop : TRUE,
                    size |-> size]]
  BY DEF Continues
<1>5. QED
  <2> HIDE DEF stop
  <2>1. CASE stop = {}
    BY <1>1, <1>4, <2>1 DEF TypeOK
  <2>2. CASE stop # {}
    BY <1>1, <1>3, <1>4, <2>2 DEF TypeOK
  <2>3. QED
    BY <2>1, <2>2

\* The items without a filter are notified of what they see.
LEMMA ContinuesNotified ==
    ASSUME MonitoredItemsAssumption, TypeOK, Notified, NEW w \in Writers, NEW p \in Places,
           NEW new \in Values, NEW k \in Nat, NEW size \in Nat,
           Continues(w, p, new, k, size), item' = item
    PROVE  Notified'
<1>1. SUFFICES ASSUME NEW i \in DOMAIN item, item[i].band = 0
      PROVE  told'[i] = seen'[i]
  BY DEF Notified
<1>2. told[i] = seen[i]
  BY <1>1 DEF Notified
<1>3. Passes(i, new) <=> seen[i] # new
  BY <1>1 DEF Passes
<1>4. /\ seen'[i] = IF i \in Called(p, new, k) THEN new ELSE seen[i]
      /\ told'[i] = IF i \in Called(p, new, k) /\ Passes(i, new) THEN new ELSE told[i]
  BY DEF Continues
<1>5. QED
  BY <1>2, <1>3, <1>4

\* A write that goes on leaves no item behind: those before k have seen the
\* value, the others see it now, up to the one that suspends, if one does.
LEMMA ContinuesProgress ==
    ASSUME MonitoredItemsAssumption, TypeOK, Placed, NEW w \in Writers, NEW p \in Places,
           NEW new \in Values, NEW k \in Nat, NEW size,
           Continues(w, p, new, k, size),
           \A i \in callbacks[p] : i <= k => seen[i] = new
    PROVE  /\ \A v \in Writers \ {w} : write'[v] = write[v]
           /\ \A i \in DOMAIN item : item[i].at # p => seen'[i] = seen[i]
           /\ \/ write'[w] = NoWrite /\ \A i \in callbacks[p] : seen'[i] = new
              \/ /\ write'[w].at = p /\ write'[w].new = new /\ write'[w].size = size
                 /\ \A i \in callbacks[p] : i <= write'[w].after => seen'[i] = new
<1> DEFINE stop == {i \in Called(p, new, k) : Suspends(i, new)}
<1>1. \A v \in Writers \ {w} : write'[v] = write[v]
  BY DEF Continues, TypeOK
<1>2. \A i \in DOMAIN item : seen'[i] = IF i \in Called(p, new, k) THEN new ELSE seen[i]
  BY DEF Continues
<1>3. \A i \in DOMAIN item : item[i].at # p => seen'[i] = seen[i]
  BY <1>2, CalledNext DEF Placed
<1>4. write'[w] = IF stop = {} THEN NoWrite
                  ELSE [at |-> p, new |-> new, after |-> CHOOSE i \in stop : TRUE,
                        size |-> size]
  BY DEF Continues, TypeOK
<1>5. callbacks[p] \subseteq Nat /\ callbacks[p] \subseteq DOMAIN item
  BY DEF TypeOK, Items, MonitoredItemsAssumption, Placed
<1>6. CASE stop = {}
  <2>1. \A i \in callbacks[p] : i > k => i \in Called(p, new, k)
    BY <1>6, CalledNext
  <2>2. \A i \in callbacks[p] : seen'[i] = new
    BY <1>2, <1>5, <2>1
  <2>3. QED
    BY <1>1, <1>3, <1>4, <1>6, <2>2
<1>7. CASE stop # {}
  <2>1. PICK j \in stop : j = CHOOSE i \in stop : TRUE
    BY <1>7
  <2>2. \A i \in callbacks[p] : i > k /\ i <= j => i \in Called(p, new, k)
    BY <2>1, CalledNext
  <2>3. \A i \in callbacks[p] : i <= j => seen'[i] = new
    BY <1>2, <1>5, <2>2
  <2>4. write'[w] = [at |-> p, new |-> new, after |-> j, size |-> size]
    BY <1>4, <1>7, <2>1
  <2>5. QED
    BY <1>1, <1>3, <2>3, <2>4
<1>8. QED
  BY <1>6, <1>7

\* A write begins or goes on: if the place was not disturbed, all its items
\* up to k have seen the value, and no other write is under way.
LEMMA WritesPreserve ==
    ASSUME MonitoredItemsAssumption, Inv, NEW w \in Writers, NEW p \in Places,
           NEW new \in Values, NEW k \in Nat, NEW size \in Nat,
           Continues(w, p, new, k, size),
           UNCHANGED <<nodes, callbacks, handles, item, items, live, batch>>,
           disturbed \subseteq disturbed', disturbed' \subseteq Places,
           value' \in [Places -> Values], \A q \in Places \ {p} : value'[q] = value[q],
           write[w] = NoWrite \/ write[w].at = p,
           p \notin disturbed' =>
               /\ value'[p] = new /\ size = Cardinality(callbacks[p])
               /\ \A v \in Writers \ {w} : write[v].at # p
               /\ \A i \in callbacks[p] : i <= k => seen[i] = new
    PROVE  Inv'
<1>1. TypeOK'
  BY ContinuesTypes DEF Inv, TypeOK
<1>2. Placed' /\ Known' /\ DeadNodes'
  BY DEF Inv, Placed, Known, DeadNodes
<1>3. Notified'
  BY ContinuesNotified DEF Inv
<1>4. Progress'
  <2>1. SUFFICES ASSUME NEW q \in Places, q \notin disturbed'
        PROVE  /\ \A u \in Writers : write'[u].at = q =>
                    /\ write'[u].new = value'[q]
                    /\ write'[u].size = Cardinality(callbacks[q])
                    /\ \A i \in callbacks[q] : i <= write'[u].after => seen'[i] = value'[q]
               /\ \A u, v \in Writers : write'[u].at = q /\ write'[v].at = q => u = v
               /\ ~Writing(q)' => \A i \in callbacks[q] : seen'[i] = value'[q]
    BY DEF Progress
  <2>2. << >> # q /\ << >> # p
    BY DEF Places
  <2>3. NoWrite.at = << >>
    BY DEF NoWrite
  <2>4. CASE q = p
    <3>1. /\ \A v \in Writers \ {w} : write'[v] = write[v] /\ write[v].at # p
          /\ \/ write'[w] = NoWrite /\ \A i \in callbacks[p] : seen'[i] = new
             \/ /\ write'[w].at = p /\ write'[w].new = new /\ write'[w].size = size
                /\ \A i \in callbacks[p] : i <= write'[w].after => seen'[i] = new
      <4>1. /\ \A i \in callbacks[p] : i <= k => seen[i] = new
            /\ \A v \in Writers \ {w} : write[v].at # p
        BY <2>1, <2>4
      <4>2. TypeOK /\ Placed
        BY DEF Inv
      <4>3. /\ \A v \in Writers \ {w} : write'[v] = write[v]
            /\ \A i \in DOMAIN item : item[i].at # p => seen'[i] = seen[i]
            /\ \/ write'[w] = NoWrite /\ \A i \in callbacks[p] : seen'[i] = new
               \/ /\ write'[w].at = p /\ write'[w].new = new /\ write'[w].size = size
                  /\ \A i \in callbacks[p] : i <= write'[w].after => seen'[i] = new
        BY <4>1, <4>2, ContinuesProgress
      <4>4. QED
        BY <4>1, <4>3
    <3>2. value'[p] = new /\ size = Cardinality(callbacks[p])
      BY <2>1, <2>4
    <3>3. CASE write'[w] = NoWrite /\ \A i \in callbacks[p] : seen'[i] = new
      BY <2>2, <2>3, <2>4, <3>1, <3>2, <3>3
    <3>4. CASE /\ write'[w].at = p /\ write'[w].new = new /\ write'[w].size = size
               /\ \A i \in callbacks[p] : i <= write'[w].after => seen'[i] = new
      BY <2>4, <3>1, <3>2, <3>4 DEF Writing
    <3>5. QED
      BY <3>1, <3>3, <3>4
  <2>5. CASE q # p
    <3>1. \A v \in Writers \ {w} : write'[v] = write[v]
      BY DEF Continues, Inv, TypeOK
    <3>2. write'[w] = NoWrite \/ write'[w].at = p
      <4> DEFINE stop == {i \in Called(p, new, k) : Suspends(i, new)}
      <4>1. write'[w] = IF stop = {} THEN NoWrite
                        ELSE [at |-> p, new |-> new, after |-> CHOOSE i \in stop : TRUE,
                              size |-> size]
        BY DEF Continues, Inv, TypeOK
      <4> HIDE DEF stop
      <4>2. QED
        BY <4>1
    <3>3. /\ \A u \in Writers : write'[u].at = q <=> write[u].at = q
          /\ \A u \in Writers : write[u].at = q => write'[u] = write[u]
      BY <2>2, <2>3, <2>5, <3>1, <3>2
    <3>4. \A i \in callbacks[q] : seen'[i] = seen[i]
      <4>1. \A i \in callbacks[q] : i \in DOMAIN item /\ item[i].at = q
        BY DEF Inv, Placed
      <4>2. \A i \in DOMAIN item :
               seen'[i] = IF i \in Called(p, new, k) THEN new ELSE seen[i]
        BY DEF Continues
      <4>3. \A i \in Called(p, new, k) : item[i].at = p
        BY CalledNext DEF Inv, Placed
      <4>4. QED
        BY <2>5, <4>1, <4>2, <4>3
    <3>5. /\ \A u \in Writers : write[u].at = q =>
                /\ write[u].new = value[q] /\ write[u].size = Cardinality(callbacks[q])
                /\ \A i \in callbacks[q] : i <= write[u].after => seen[i] = value[q]
          /\ \A u, v \in Writers : write[u].at = q /\ write[v].at = q => u = v
          /\ ~Writing(q) => \A i \in callbacks[q] : seen[i] = value[q]
      BY <2>1 DEF Inv, Progress
    <3>6. Writing(q)' <=> Writing(q)
      BY <3>3 DEF Writing
    <3>7. value'[q] = value[q]
      BY <2>5
    <3>8. QED
      BY <3>3, <3>4, <3>5, <3>6, <3>7
  <2>6. QED
    BY <2>4, <2>5
<1>5. QED
  BY <1>1, <1>2, <1>3, <1>4 DEF Inv

\* A write, up to the first callback that suspends, keeps the invariant.
LEMMA WritePreserves ==
    ASSUME MonitoredItemsAssumption, Inv, NEW w \in Writers, NEW p \in Places,
           NEW new \in Values, Write(w, p, new)
    PROVE  Inv'
<1>1. Cardinality(callbacks[p]) \in Nat /\ callbacks[p] \subseteq Nat \ {0}
  BY CallbacksFinite DEF Inv, TypeOK, Items, MonitoredItemsAssumption
<1>2. p \notin disturbed' => \A v \in Writers : write[v].at # p
  BY DEF Write, Writing
<1>3. value' \in [Places -> Values] /\ value'[p] = new /\ \A q \in Places \ {p} : value'[q] = value[q]
  BY DEF Write, Inv, TypeOK
<1>4. disturbed \subseteq disturbed' /\ disturbed' \subseteq Places
  BY DEF Write, Inv, TypeOK
<1>5. /\ Continues(w, p, new, 0, Cardinality(callbacks[p])) /\ write[w] = NoWrite
      /\ UNCHANGED <<nodes, callbacks, handles, item, items, live, batch>>
  BY DEF Write
<1>6. \A i \in callbacks[p] : ~(i <= 0)
  BY <1>1
<1>7. QED
  BY <1>1, <1>2, <1>3, <1>4, <1>5, <1>6, WritesPreserve

\* So does the rest of its loop over callbacks,
LEMMA ResumePreserves ==
    ASSUME MonitoredItemsAssumption, Inv, NEW w \in Writers, Resume(w)
    PROVE  Inv'
<1> DEFINE p == write[w].at
<1>1. /\ p \in Places /\ write[w].new \in Values /\ write[w].after \in Nat
      /\ write[w].size \in Nat /\ write[w] # NoWrite
  BY DEF Resume, Inv, TypeOK, Items, MonitoredItemsAssumption
<1>2. UNCHANGED <<nodes, value, callbacks, handles, item, items, live, batch, disturbed>>
  BY DEF Resume
<1>3. p \notin disturbed =>
        /\ value[p] = write[w].new /\ write[w].size = Cardinality(callbacks[p])
        /\ \A v \in Writers \ {w} : write[v].at # p
        /\ \A i \in callbacks[p] : i <= write[w].after => seen[i] = write[w].new
  BY <1>1 DEF Inv, Progress
<1>4. CASE Continues(w, p, write[w].new, write[w].after, write[w].size)
  <2>1. /\ disturbed \subseteq disturbed' /\ disturbed' \subseteq Places
        /\ value' \in [Places -> Values] /\ \A q \in Places \ {p} : value'[q] = value[q]
    BY <1>2 DEF Inv, TypeOK
  <2> HIDE DEF p
  <2>2. write[w].at = p
    BY DEF p
  <2>3. QED
    BY <1>1, <1>2, <1>3, <1>4, <2>1, <2>2, WritesPreserve
<1>5. CASE /\ Cardinality(callbacks[p]) # write[w].size
           /\ write' = [write EXCEPT ![w] = NoWrite] /\ UNCHANGED <<seen, told>>
  <2>1. p \in disturbed
    BY <1>3, <1>5
  <2>2. TypeOK'
    BY <1>2, <1>5 DEF Inv, TypeOK
  <2>3. Placed' /\ Known' /\ DeadNodes' /\ Notified'
    BY <1>2, <1>5 DEF Inv, Placed, Known, DeadNodes, Notified
  <2>4. Progress'
    <3>1. SUFFICES ASSUME NEW q \in Places, q \notin disturbed
          PROVE  /\ \A u \in Writers : write'[u].at = q =>
                      /\ write'[u].new = value[q]
                      /\ write'[u].size = Cardinality(callbacks[q])
                      /\ \A i \in callbacks[q] : i <= write'[u].after => seen[i] = value[q]
                 /\ \A u, v \in Writers : write'[u].at = q /\ write'[v].at = q => u = v
                 /\ ~Writing(q)' => \A i \in callbacks[q] : seen[i] = value[q]
      BY <1>2, <1>5 DEF Progress
    <3>2. \A u \in Writers : write'[u] = IF u = w THEN NoWrite ELSE write[u]
      BY <1>5 DEF Inv, TypeOK
    <3>3. NoWrite.at # q /\ p # q
      <4>1. << >> # q
        BY DEF Places
      <4>2. NoWrite.at = << >>
        BY DEF NoWrite
      <4>3. QED
        BY <2>1, <3>1, <4>1, <4>2
    <3>4. /\ \A u \in Writers : write'[u].at = q => write'[u] = write[u]
          /\ Writing(q)' <=> Writing(q)
      BY <3>2, <3>3 DEF Writing
    <3>5. QED
      BY <3>1, <3>4 DEF Inv, Progress
  <2>5. QED
    BY <2>2, <2>3, <2>4 DEF Inv
<1>6. QED
  BY <1>4, <1>5 DEF Resume

-----------------------------------------------------------------------------
(* Items, subscriptions and nodes come and go.                             *)

\* An item is at a place.
LEMMA ItemTypes ==
    ASSUME TypeOK
    PROVE  /\ handles \subseteq DOMAIN item /\ items \subseteq DOMAIN item
           /\ \A i \in DOMAIN item : item[i].at \in Places
<1>1. item \in Seq([sub : Subs, at : Places, band : Bands, late : BOOLEAN])
  BY DEF TypeOK
<1>2. \A i \in DOMAIN item : item[i] \in [sub : Subs, at : Places, band : Bands, late : BOOLEAN]
  BY <1>1, ElementOfSeq, LenProperties
<1>3. QED
  BY <1>2 DEF TypeOK

\* Callbacks are removed together with their handles: a place that loses one
\* while it is written is disturbed, the others are as before.
LEMMA RemovalPreserves ==
    ASSUME MonitoredItemsAssumption, Inv, NEW gone \in SUBSET handles,
           handles' \subseteq handles \ gone, nodes' \subseteq nodes,
           items' \subseteq items, live' \subseteq live,
           UNCHANGED <<value, item, seen, told, batch, write>>,
           callbacks' \in [Places -> SUBSET Items],
           \A p \in Places : callbacks'[p] = callbacks[p] \ gone,
           disturbed \subseteq disturbed', disturbed' \subseteq Places,
           \A i \in gone : Writing(item[i].at) => item[i].at \in disturbed',
           DeadNodes'
    PROVE  Inv'
<1>1. TypeOK'
  BY DEF Inv, TypeOK
<1>2. Placed' /\ Notified'
  BY DEF Inv, Placed, Notified
<1>3. Known'
  <2>1. \A i \in handles : item[i].at \in Places
    BY ItemTypes DEF Inv
  <2>2. QED
    BY <2>1 DEF Inv, Known
<1>4. Progress'
  <2>1. SUFFICES ASSUME NEW p \in Places, p \notin disturbed'
        PROVE  /\ \A u \in Writers : write[u].at = p =>
                    /\ write[u].new = value[p]
                    /\ write[u].size = Cardinality(callbacks'[p])
                    /\ \A i \in callbacks'[p] : i <= write[u].after => seen[i] = value[p]
               /\ \A u, v \in Writers : write[u].at = p /\ write[v].at = p => u = v
               /\ ~Writing(p) => \A i \in callbacks'[p] : seen[i] = value[p]
    BY DEF Progress, Writing
  <2>2. Writing(p) => callbacks'[p] = callbacks[p]
    <3>1. \A i \in callbacks[p] : item[i].at = p
      BY DEF Inv, Placed
    <3>2. Writing(p) => \A i \in callbacks[p] : i \notin gone
      BY <2>1, <3>1
    <3>3. QED
      BY <3>2
  <2>3. callbacks'[p] \subseteq callbacks[p]
    OBVIOUS
  <2>4. /\ \A u \in Writers : write[u].at = p =>
              /\ write[u].new = value[p] /\ write[u].size = Cardinality(callbacks[p])
              /\ \A i \in callbacks[p] : i <= write[u].after => seen[i] = value[p]
        /\ \A u, v \in Writers : write[u].at = p /\ write[v].at = p => u = v
        /\ ~Writing(p) => \A i \in callbacks[p] : seen[i] = value[p]
    BY <2>1 DEF Inv, Progress
  <2>5. \A u \in Writers : write[u].at = p => callbacks'[p] = callbacks[p]
    BY <2>2 DEF Writing
  <2>6. QED
    BY <2>3, <2>4, <2>5
<1>5. QED
  BY <1>1, <1>2, <1>3, <1>4 DEF Inv

\* The nodes stay: so do the handles of those that are gone.
LEMMA NodesStay ==
    ASSUME Inv, handles' \subseteq handles, UNCHANGED <<nodes, item>>
    PROVE  DeadNodes'
BY DEF Inv, DeadNodes

\* deleting an item,
LEMMA DeleteItemPreserves ==
    ASSUME MonitoredItemsAssumption, Inv, NEW i \in Items, DeleteItem(i)
    PROVE  Inv'
<1>1. /\ handles' = handles \ {i} /\ UNCHANGED <<nodes, value, item, seen, told, live, batch, write>>
  BY DEF DeleteItem
<1>2. DeadNodes'
  BY <1>1, NodesStay
<1>3. callbacks \in [Places -> SUBSET Items] /\ disturbed \subseteq Places
  BY DEF Inv, TypeOK
<1>4. CASE UNCHANGED <<items, callbacks, disturbed>>
  <2>1. {} \in SUBSET handles
    OBVIOUS
  <2>2. QED
    BY <1>1, <1>2, <1>3, <1>4, <2>1, RemovalPreserves
<1>5. CASE /\ items' = items \ {i} /\ callbacks' = Without({i})
           /\ Disturbs(PlacesOf({i} \cap handles))
  <2> DEFINE gone == {i} \cap handles
  <2>1. gone \in SUBSET handles
    OBVIOUS
  <2>2. callbacks' \in [Places -> SUBSET Items] /\ \A p \in Places : callbacks'[p] = callbacks[p] \ gone
    BY <1>3, <1>5 DEF Without
  <2>3. \A j \in gone : item[j].at \in Places
    BY ItemTypes DEF Inv
  <2>4. /\ disturbed \subseteq disturbed' /\ disturbed' \subseteq Places
        /\ \A j \in gone : Writing(item[j].at) => item[j].at \in disturbed'
    BY <1>3, <1>5, <2>3 DEF Disturbs, PlacesOf
  <2> HIDE DEF gone
  <2>5. handles' \subseteq handles \ gone
    BY <1>1 DEF gone
  <2>6. QED
    BY <1>1, <1>2, <1>5, <2>1, <2>2, <2>4, <2>5, RemovalPreserves
<1>6. QED
  BY <1>4, <1>5 DEF DeleteItem

\* deleting a subscription with its items, an early end included,
LEMMA StopSubscriptionPreserves ==
    ASSUME MonitoredItemsAssumption, Inv, NEW s \in Subs, StopSubscription(s)
    PROVE  Inv'
<1> DEFINE mine == {i \in items : item[i].sub = s}
           bad == {i \in mine : Raises(i)}
           done == {i \in mine : \A j \in bad : i < j}
           first == {i \in bad : \A j \in bad : i <= j}
           gone == done \cap handles
<1>1. /\ live' = live \ {s} /\ items' = items \ done /\ handles' = handles \ (done \cup first)
      /\ callbacks' = Without(done) /\ Disturbs(PlacesOf(gone))
      /\ UNCHANGED <<nodes, value, item, seen, told, batch, write>>
  BY DEF StopSubscription
<1> HIDE DEF done, first
<1>2. DeadNodes'
  BY <1>1, NodesStay
<1>3. callbacks \in [Places -> SUBSET Items] /\ disturbed \subseteq Places
  BY DEF Inv, TypeOK
<1>4. callbacks' \in [Places -> SUBSET Items] /\ \A p \in Places : callbacks'[p] = callbacks[p] \ gone
  BY <1>1, <1>3 DEF Without
<1>5. \A j \in gone : item[j].at \in Places
  BY ItemTypes DEF Inv
<1>6. gone \in SUBSET handles /\ handles' \subseteq handles \ gone
  BY <1>1
<1> HIDE DEF gone
<1>7. /\ disturbed \subseteq disturbed' /\ disturbed' \subseteq Places
      /\ \A j \in gone : Writing(item[j].at) => item[j].at \in disturbed'
  BY <1>1, <1>3, <1>5 DEF Disturbs, PlacesOf
<1>8. QED
  BY <1>1, <1>2, <1>4, <1>6, <1>7, RemovalPreserves

\* deleting a node with its callbacks,
LEMMA DeleteNodePreserves ==
    ASSUME MonitoredItemsAssumption, Inv, NEW n \in Nodes, DeleteNode(n)
    PROVE  Inv'
<1> DEFINE p == <<n, "Value">>
           gone == callbacks[p] \cap handles
<1>1. /\ nodes' = nodes \ {n} /\ handles' = handles \ callbacks[p]
      /\ callbacks' = Without(callbacks[p]) /\ Disturbs({p})
      /\ UNCHANGED <<value, item, items, seen, told, live, batch, write>>
  BY DEF DeleteNode
<1>2. p \in Places /\ callbacks \in [Places -> SUBSET Items] /\ disturbed \subseteq Places
  BY DEF Inv, TypeOK, Places, Attrs
<1>3. DeadNodes'
  <2>1. SUFFICES ASSUME NEW i \in handles, i \notin callbacks[p],
                        item[i].at[1] \notin nodes \ {n}
        PROVE  item[i].at[2] = "Other"
    BY <1>1 DEF DeadNodes
  <2>2. CASE item[i].at[1] \notin nodes
    BY <2>2 DEF Inv, DeadNodes
  <2>3. CASE item[i].at[1] = n
    <3>1. item[i].at \in Places /\ item[i].at # p
      BY <2>1, ItemTypes DEF Inv, Known
    <3>2. PICK m \in Nodes, a \in Attrs : item[i].at = <<m, a>>
      BY <3>1 DEF Places
    <3>3. QED
      BY <2>3, <3>1, <3>2 DEF Attrs
  <2>4. QED
    BY <2>1, <2>2, <2>3
<1>4. callbacks' \in [Places -> SUBSET Items] /\ \A q \in Places : callbacks'[q] = callbacks[q] \ gone
  BY <1>1, <1>2 DEF Without
<1>5. \A j \in gone : item[j].at = p
  BY <1>2 DEF Inv, Placed
<1>6. gone \in SUBSET handles /\ handles' \subseteq handles \ gone
  BY <1>1
<1> HIDE DEF gone
<1>7. /\ disturbed \subseteq disturbed' /\ disturbed' \subseteq Places
      /\ \A j \in gone : Writing(item[j].at) => item[j].at \in disturbed'
  BY <1>1, <1>2, <1>5 DEF Disturbs
<1>8. nodes' \subseteq nodes /\ items' \subseteq items /\ live' \subseteq live
  BY <1>1
<1>9. QED
  BY <1>1, <1>3, <1>4, <1>6, <1>7, <1>8, RemovalPreserves

\* and creating an item.
LEMMA CreateItemPreserves ==
    ASSUME MonitoredItemsAssumption, Inv, NEW s \in Subs, NEW p \in Places,
           NEW band \in Bands, NEW more \in BOOLEAN, CreateItem(s, p, band, more)
    PROVE  Inv'
<1> DEFINE new == [sub |-> s, at |-> p, band |-> band, late |-> s \notin live]
           n == Len(item) + 1
<1>1. /\ p[1] \in nodes /\ Len(item) < MaxItems
      /\ item' = Append(item, new) /\ seen' = Append(seen, value[p])
      /\ told' = Append(told, value[p]) /\ Disturbs({p})
      /\ UNCHANGED <<nodes, value, live, write>>
  BY DEF CreateItem
<1>2. batch' \subseteq Subs
  BY DEF CreateItem, Inv, TypeOK
<1>3. item \in Seq([sub : Subs, at : Places, band : Bands, late : BOOLEAN])
  BY DEF Inv, TypeOK
<1>4. new \in [sub : Subs, at : Places, band : Bands, late : BOOLEAN]
  OBVIOUS
<1> HIDE DEF new
<1>5. /\ item' \in Seq([sub : Subs, at : Places, band : Bands, late : BOOLEAN])
      /\ Len(item') = n /\ DOMAIN item' = 1 .. n /\ DOMAIN item = 1 .. Len(item)
      /\ item'[n] = new /\ \A i \in DOMAIN item : item'[i] = item[i]
      /\ n \in Nat /\ n <= MaxItems /\ n \notin DOMAIN item
      /\ DOMAIN item' = DOMAIN item \cup {n}
  BY <1>1, <1>3, <1>4 DEF MonitoredItemsAssumption
<1>6. /\ items' = items \cup {n} /\ handles' = handles \cup {n}
      /\ callbacks' = [callbacks EXCEPT ![p] = callbacks[p] \cup {n}]
  BY <1>5 DEF CreateItem
<1>7. value[p] \in Values /\ callbacks \in [Places -> SUBSET Items] /\ disturbed \subseteq Places
  BY DEF Inv, TypeOK
<1>8. \A f \in [DOMAIN item -> Values], v \in Values :
         /\ Append(f, v) \in [DOMAIN item' -> Values] /\ Append(f, v)[n] = v
         /\ \A i \in DOMAIN item : Append(f, v)[i] = f[i]
  <2>1. SUFFICES ASSUME NEW f \in [DOMAIN item -> Values], NEW v \in Values
        PROVE  /\ Append(f, v) \in [DOMAIN item' -> Values] /\ Append(f, v)[n] = v
               /\ \A i \in DOMAIN item : Append(f, v)[i] = f[i]
    OBVIOUS
  <2>2. Len(item) \in Nat /\ f \in [1 .. Len(item) -> Values]
    BY <1>3, <1>5
  <2>3. f \in Seq(Values) /\ Len(f) = Len(item)
    BY <2>2, IsASeq, LenProperties
  <2>4. /\ Append(f, v) \in Seq(Values) /\ Len(Append(f, v)) = Len(item) + 1
        /\ Append(f, v)[Len(item) + 1] = v
        /\ \A i \in 1 .. Len(item) : Append(f, v)[i] = f[i]
    BY <2>3, AppendProperties
  <2>5. Append(f, v) \in [1 .. Len(item) + 1 -> Values]
    BY <2>4, LenProperties
  <2>6. QED
    BY <1>5, <2>4, <2>5
<1>9. /\ seen' \in [DOMAIN item' -> Values] /\ seen'[n] = value[p]
      /\ \A i \in DOMAIN item : seen'[i] = seen[i]
  BY <1>1, <1>7, <1>8 DEF Inv, TypeOK
<1>10. /\ told' \in [DOMAIN item' -> Values] /\ told'[n] = value[p]
       /\ \A i \in DOMAIN item : told'[i] = told[i]
  BY <1>1, <1>7, <1>8 DEF Inv, TypeOK
<1>11. new.at = p /\ new.band = band
  BY DEF new
<1> HIDE DEF n
<1>12. /\ callbacks' \in [Places -> SUBSET Items]
       /\ callbacks'[p] = callbacks[p] \cup {n}
       /\ \A q \in Places \ {p} : callbacks'[q] = callbacks[q]
  <2>1. n \in Items
    BY <1>5 DEF Items, MonitoredItemsAssumption, n
  <2>2. QED
    BY <1>6, <1>7, <2>1
<1>13. disturbed' \subseteq Places /\ disturbed \subseteq disturbed' /\ (Writing(p) => p \in disturbed')
  BY <1>1, <1>7 DEF Disturbs
<1>14. TypeOK'
  <2>1. handles' \subseteq DOMAIN item' /\ items' \subseteq DOMAIN item'
    BY <1>5, <1>6 DEF Inv, TypeOK
  <2>2. QED
    BY <1>1, <1>2, <1>5, <1>9, <1>10, <1>12, <1>13, <2>1 DEF Inv, TypeOK
<1>15. Placed'
  BY <1>5, <1>11, <1>12 DEF Inv, Placed
<1>16. Known'
  <2>1. handles \subseteq DOMAIN item /\ \A i \in handles : item[i].at \in Places
    BY ItemTypes DEF Inv
  <2>2. QED
    BY <1>5, <1>6, <1>11, <1>12, <2>1 DEF Inv, Known
<1>17. DeadNodes'
  <2>1. handles \subseteq DOMAIN item
    BY DEF Inv, TypeOK
  <2>2. QED
    BY <1>1, <1>5, <1>6, <1>11, <2>1 DEF Inv, DeadNodes
<1>18. Notified'
  BY <1>5, <1>9, <1>10 DEF Inv, Notified
<1>19. Progress'
  <2>1. SUFFICES ASSUME NEW q \in Places, q \notin disturbed'
        PROVE  /\ \A u \in Writers : write[u].at = q =>
                    /\ write[u].new = value[q]
                    /\ write[u].size = Cardinality(callbacks'[q])
                    /\ \A i \in callbacks'[q] : i <= write[u].after => seen'[i] = value[q]
               /\ \A u, v \in Writers : write[u].at = q /\ write[v].at = q => u = v
               /\ ~Writing(q) => \A i \in callbacks'[q] : seen'[i] = value[q]
    BY <1>1 DEF Progress, Writing
  <2>2. /\ \A u \in Writers : write[u].at = q =>
              /\ write[u].new = value[q] /\ write[u].size = Cardinality(callbacks[q])
              /\ \A i \in callbacks[q] : i <= write[u].after => seen[i] = value[q]
        /\ \A u, v \in Writers : write[u].at = q /\ write[v].at = q => u = v
        /\ ~Writing(q) => \A i \in callbacks[q] : seen[i] = value[q]
    BY <1>13, <2>1 DEF Inv, Progress
  <2>3. \A i \in callbacks[q] : seen'[i] = seen[i]
    BY <1>9 DEF Inv, Placed
  <2>4. CASE q = p
    <3>1. \A u \in Writers : write[u].at # q
      BY <1>13, <2>1, <2>4 DEF Writing
    <3>2. ~Writing(q)
      BY <3>1 DEF Writing
    <3>3. QED
      BY <1>9, <1>12, <2>2, <2>3, <2>4, <3>1, <3>2
  <2>5. CASE q # p
    BY <1>12, <2>2, <2>3, <2>5
  <2>6. QED
    BY <2>4, <2>5
<1>20. QED
  BY <1>14, <1>15, <1>16, <1>17, <1>18, <1>19 DEF Inv

-----------------------------------------------------------------------------
(* The theorems.                                                           *)

\* The initial state has the invariant.
LEMMA InvInit == MonitoredItemsAssumption /\ Init => Inv
<1> SUFFICES ASSUME MonitoredItemsAssumption, Init PROVE Inv
  OBVIOUS
<1>1. item = << >> /\ seen = << >> /\ told = << >> /\ handles = {} /\ items = {}
  BY DEF Init
<1>2. TypeOK
  <2>1. item \in Seq([sub : Subs, at : Places, band : Bands, late : BOOLEAN]) /\ Len(item) = 0
    BY <1>1
  <2>2. seen \in [DOMAIN item -> Values] /\ told \in [DOMAIN item -> Values]
    BY <1>1
  <2>3. QED
    BY <1>1, <2>1, <2>2 DEF Init, TypeOK, MonitoredItemsAssumption
<1>3. Placed /\ Known /\ DeadNodes /\ Notified
  BY <1>1 DEF Init, Placed, Known, DeadNodes, Notified
<1>4. Progress
  <2>1. SUFFICES ASSUME NEW p \in Places
        PROVE  \A w \in Writers : write[w].at # p
    BY DEF Progress, Init
  <2>2. << >> # p
    BY DEF Places
  <2>3. NoWrite.at = << >>
    BY DEF NoWrite
  <2>4. QED
    BY <2>2, <2>3 DEF Init
<1>5. QED
  BY <1>2, <1>3, <1>4 DEF Inv

\* Every step keeps the invariant.
LEMMA InvNext == MonitoredItemsAssumption /\ Inv /\ [Next]_vars => Inv'
<1> SUFFICES ASSUME MonitoredItemsAssumption, Inv, [Next]_vars PROVE Inv'
  OBVIOUS
<1>1. CASE \E w \in Writers, p \in Places, new \in Values : Write(w, p, new)
  BY <1>1, WritePreserves
<1>2. CASE \E w \in Writers : Resume(w)
  BY <1>2, ResumePreserves
<1>3. CASE \E s \in Subs, p \in Places, band \in Bands, more \in BOOLEAN :
               CreateItem(s, p, band, more)
  BY <1>3, CreateItemPreserves
<1>4. CASE \E i \in Items : DeleteItem(i)
  BY <1>4, DeleteItemPreserves
<1>5. CASE \E s \in Subs : StopSubscription(s)
  BY <1>5, StopSubscriptionPreserves
<1>6. CASE \E n \in Nodes : DeleteNode(n)
  BY <1>6, DeleteNodePreserves
<1>7. CASE UNCHANGED vars
  BY <1>7 DEF vars, Inv, TypeOK, Placed, Known, DeadNodes, Notified, Progress, Writing
<1>8. QED
  BY <1>1, <1>2, <1>3, <1>4, <1>5, <1>6, <1>7 DEF Next

\* The invariant holds throughout.
LEMMA Invariance == Spec => []Inv
BY InvInit, InvNext, MonitoredItemsAssumption, PTL DEF Spec

\* Every variable of the address space and of the MonitoredItemServices keeps
\* its shape, whatever writes, items, subscriptions and nodes come and go.
THEOREM TypeCorrect == Spec => []TypeOK
<1>1. Inv => TypeOK
  BY DEF Inv
<1>2. QED
  BY <1>1, Invariance, PTL

\* write_attribute_value misses no item: where no write is under way, and none
\* overlapped with another or with a change of the callbacks, every item has
\* seen the value of its attribute, and without a filter was notified of it.
THEOREM ItemsUpToDate == Spec => []ItemsAreUpToDate
<1>1. Inv => ItemsAreUpToDate
  BY DEF Inv, ItemsAreUpToDate, Progress, Placed, Notified
<1>2. QED
  BY <1>1, Invariance, PTL

\* Leftovers of a subscription stay explained: the items of one that is gone
\* are never deleted, and a node that is gone does not come back.
LEMMA LeftoversInit == Init => LeftoversNeedDeletedNode
BY DEF Init, LeftoversNeedDeletedNode

\* A step that ends no subscription leaves no more behind.
LEMMA LeftoversStay ==
    ASSUME LeftoversNeedDeletedNode, UNCHANGED <<item, live>>,
           handles' \subseteq handles, nodes' \subseteq nodes, items' \subseteq items,
           \A i \in items \ items' : item[i].sub \in live
    PROVE  LeftoversNeedDeletedNode'
<1>1. SUFFICES ASSUME NEW i \in items', item[i].sub \notin live, ~item[i].late
      PROVE  \E j \in items' : /\ item[j].sub = item[i].sub /\ j \notin handles'
                               /\ item[j].at[2] = "Other" /\ item[j].at[1] \notin nodes'
  BY DEF LeftoversNeedDeletedNode
<1>2. PICK j \in items : /\ item[j].sub = item[i].sub /\ j \notin handles
                         /\ item[j].at[2] = "Other" /\ item[j].at[1] \notin nodes
  BY <1>1 DEF LeftoversNeedDeletedNode
<1>3. QED
  BY <1>1, <1>2

\* A subscription leaves items behind only when the node of one was deleted.
LEMMA LeftoversOfStop ==
    ASSUME MonitoredItemsAssumption, Inv, LeftoversNeedDeletedNode,
           NEW s \in Subs, StopSubscription(s)
    PROVE  LeftoversNeedDeletedNode'
<1> DEFINE mine == {i \in items : item[i].sub = s}
           bad == {i \in mine : Raises(i)}
           done == {i \in mine : \A j \in bad : i < j}
           first == {i \in bad : \A j \in bad : i <= j}
<1>1. /\ live' = live \ {s} /\ items' = items \ done /\ handles' = handles \ (done \cup first)
      /\ UNCHANGED <<nodes, item>>
  BY DEF StopSubscription
<1>2. SUFFICES ASSUME NEW i \in items, i \notin done, item[i].sub \notin live \ {s}, ~item[i].late
      PROVE  \E j \in items \ done : /\ item[j].sub = item[i].sub
                                     /\ j \notin handles \ (done \cup first)
                                     /\ item[j].at[2] = "Other" /\ item[j].at[1] \notin nodes
  BY <1>1 DEF LeftoversNeedDeletedNode
<1>3. items \subseteq Nat
  BY DEF Inv, TypeOK
<1>4. CASE item[i].sub = s
  <2>1. i \in mine /\ bad # {} /\ bad \subseteq Nat
    BY <1>2, <1>3, <1>4
  <2>2. PICK j \in bad : \A k \in bad : j <= k
    BY <2>1, FirstItem
  <2>3. j \in first /\ j \notin done /\ j \in items /\ item[j].sub = s
    BY <1>3, <2>2
  <2>4. item[j].at[2] = "Other" /\ item[j].at[1] \notin nodes
    BY <2>2 DEF Raises, Inv, DeadNodes
  <2>5. QED
    BY <1>4, <2>3, <2>4
<1>5. CASE item[i].sub # s
  <2>1. PICK j \in items : /\ item[j].sub = item[i].sub /\ j \notin handles
                           /\ item[j].at[2] = "Other" /\ item[j].at[1] \notin nodes
    BY <1>2, <1>5 DEF LeftoversNeedDeletedNode
  <2>2. QED
    BY <1>5, <2>1
<1>6. QED
  BY <1>4, <1>5

\* A new item is none of a deleted subscription.
LEMMA LeftoversOfCreate ==
    ASSUME MonitoredItemsAssumption, Inv, LeftoversNeedDeletedNode, NEW s \in Subs,
           NEW p \in Places, NEW band \in Bands, NEW more \in BOOLEAN,
           CreateItem(s, p, band, more)
    PROVE  LeftoversNeedDeletedNode'
<1> DEFINE new == [sub |-> s, at |-> p, band |-> band, late |-> s \notin live]
           n == Len(item) + 1
<1>1. item \in Seq([sub : Subs, at : Places, band : Bands, late : BOOLEAN])
  BY DEF Inv, TypeOK
<1>2. new \in [sub : Subs, at : Places, band : Bands, late : BOOLEAN]
  OBVIOUS
<1>3. new.sub = s /\ new.late = (s \notin live)
  OBVIOUS
<1>4. item' = Append(item, new) /\ live' = live /\ nodes' = nodes
  BY DEF CreateItem
<1> HIDE DEF new
<1>5. /\ Len(item') = n /\ item'[n] = new /\ n \notin DOMAIN item
      /\ \A i \in DOMAIN item : item'[i] = item[i]
  BY <1>1, <1>2, <1>4
<1>6. items' = items \cup {n} /\ handles' = handles \cup {n}
  BY <1>5 DEF CreateItem
<1>7. items \subseteq DOMAIN item
  BY DEF Inv, TypeOK
<1> HIDE DEF n
<1>8. SUFFICES ASSUME NEW i \in items', item'[i].sub \notin live, ~item'[i].late
      PROVE  \E j \in items' : /\ item'[j].sub = item'[i].sub /\ j \notin handles'
                               /\ item'[j].at[2] = "Other" /\ item'[j].at[1] \notin nodes
  BY <1>4 DEF LeftoversNeedDeletedNode
<1>9. i \in items /\ item'[i] = item[i]
  BY <1>3, <1>5, <1>6, <1>7, <1>8
<1>10. PICK j \in items : /\ item[j].sub = item[i].sub /\ j \notin handles
                          /\ item[j].at[2] = "Other" /\ item[j].at[1] \notin nodes
  BY <1>8, <1>9 DEF LeftoversNeedDeletedNode
<1>11. QED
  BY <1>5, <1>6, <1>7, <1>9, <1>10

\* Every step keeps the explanation of what is left.
LEMMA LeftoversNext ==
    MonitoredItemsAssumption /\ Inv /\ LeftoversNeedDeletedNode /\ [Next]_vars
        => LeftoversNeedDeletedNode'
<1> SUFFICES ASSUME MonitoredItemsAssumption, Inv, LeftoversNeedDeletedNode, [Next]_vars
             PROVE  LeftoversNeedDeletedNode'
  OBVIOUS
<1>1. CASE \E w \in Writers, p \in Places, new \in Values : Write(w, p, new)
  BY <1>1, LeftoversStay DEF Write
<1>2. CASE \E w \in Writers : Resume(w)
  BY <1>2, LeftoversStay DEF Resume
<1>3. CASE \E s \in Subs, p \in Places, band \in Bands, more \in BOOLEAN :
               CreateItem(s, p, band, more)
  BY <1>3, LeftoversOfCreate
<1>4. CASE \E i \in Items : DeleteItem(i)
  <2>1. PICK i \in Items : DeleteItem(i)
    BY <1>4
  <2>2. /\ UNCHANGED <<item, live, nodes>> /\ handles' \subseteq handles
        /\ item[i].sub \in live /\ items' \subseteq items /\ items \ items' \subseteq {i}
    BY <2>1 DEF DeleteItem
  <2>3. QED
    BY <2>2, LeftoversStay
<1>5. CASE \E s \in Subs : StopSubscription(s)
  BY <1>5, LeftoversOfStop
<1>6. CASE \E n \in Nodes : DeleteNode(n)
  <2>1. /\ UNCHANGED <<item, live, items>> /\ handles' \subseteq handles /\ nodes' \subseteq nodes
    BY <1>6 DEF DeleteNode
  <2>2. QED
    BY <2>1, LeftoversStay
<1>7. CASE UNCHANGED vars
  BY <1>7, LeftoversStay DEF vars
<1>8. QED
  BY <1>1, <1>2, <1>3, <1>4, <1>5, <1>6, <1>7 DEF Next

\* "If you delete the subscription, you do not need to unsubscribe"
\* (subscription.py): delete_all_monitored_items leaves an item and its
\* callback behind only if it met an item of a node that was deleted, on an
\* attribute other than Value, or if the item was created after the deletion.
THEOREM LeftoversExplained == Spec => []LeftoversNeedDeletedNode
BY LeftoversInit, LeftoversNext, Invariance, MonitoredItemsAssumption, PTL DEF Spec

=============================================================================
