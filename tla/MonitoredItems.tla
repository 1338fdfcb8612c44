--------------------------- MODULE MonitoredItems ---------------------------
(***************************************************************************)
(* The way from a write to the monitored items: the attributes of the      *)
(* address space with their data change callbacks, and the                 *)
(* MonitoredItemService of each subscription that registers them.          *)
(*                                                                         *)
(* write_attribute_value awaits one callback after the other.  The         *)
(* callback of an item really suspends when its subscription publishes     *)
(* immediately to a coroutine of the server's own application; other       *)
(* tasks then find the write half done.  A node that is deleted and added  *)
(* again is another node here.                                             *)
(***************************************************************************)
EXTENDS Integers, Sequences, FiniteSets

CONSTANTS
    Nodes,       \* nodes of the address space
    Subs,        \* subscriptions
    Suspending,  \* those whose callback suspends the write
    Writers,     \* tasks that write
    Values,      \* values of an attribute, integers
    Bands,       \* absolute deadbands of items, 0 = item without a filter
    MaxItems     \* bound: monitored items ever created

ASSUME MonitoredItemsAssumption ==
    /\ Suspending \subseteq Subs
    /\ Values \subseteq Int /\ Values # {} /\ Bands \subseteq Nat
    /\ MaxItems \in Nat

\* The attribute all nodes of interest have, and the others.
Attrs == {"Value", "Other"}
Places == Nodes \X Attrs
Items == 1 .. MaxItems

VARIABLES
    nodes,      \* AddressSpace._nodes
    value,      \* value[p]: AttributeValue.value
    callbacks,  \* callbacks[p]: keys of AttributeValue.datachange_callbacks, in the
                \* order they were added, which is that of the handles
    handles,    \* keys of AddressSpace._handle_to_attribute_map
    item,       \* the items ever created, a handle and its item have the same
                \* number: what was asked for, and whether the subscription
                \* had been deleted in the middle of the call
    items,      \* keys of MonitoredItemService._monitored_items
    seen,       \* seen[i]: MonitoredItemValues.current_dvalue
    told,       \* told[i]: the value last given to enqueue_datachange_event
    live,       \* subscriptions of the SubscriptionService
    batch,      \* subscriptions in the middle of create_monitored_items
    write,      \* write[w]: the write task w has begun and not finished
    disturbed   \* places where another write, or a change of the callbacks,
                \* came between two callbacks of a write

vars == <<nodes, value, callbacks, handles, item, items, seen, told, live,
          batch, write, disturbed>>

NoWrite == [at |-> << >>, new |-> 0, after |-> 0, size |-> 0]

Init ==
    /\ nodes = Nodes
    /\ \E v \in Values : value = [p \in Places |-> v]
    /\ callbacks = [p \in Places |-> {}]
    /\ handles = {} /\ items = {}
    /\ item = << >> /\ seen = << >> /\ told = << >>
    /\ live = Subs /\ batch = {}
    /\ write = [w \in Writers |-> NoWrite]
    /\ disturbed = {}

-----------------------------------------------------------------------------
(* Writing.                                                                *)

Abs(n) == IF n < 0 THEN -n ELSE n

\* Mutation of Passes: the deadband is applied to every item.
Passes_Always(i, new) ==
    seen[i] # new /\ Abs(new - seen[i]) > 1

\* datachange_callback of item i: _is_data_changed and _is_deadband_exceeded
\* compare with the value the item saw before, notified or not.
Passes(i, new) ==
    /\ seen[i] # new
    /\ item[i].band = 0 \/ Abs(new - seen[i]) > item[i].band

Suspends(i, new) == item[i].sub \in Suspending /\ Passes(i, new)

\* The items of place p that a write calls after item k, in order: up to the
\* first whose callback suspends.
Called(p, new, k) ==
    LET todo == {i \in callbacks[p] : i > k}
        stops == {i \in todo : Suspends(i, new)}
    IN {i \in todo : \A j \in stops : i <= j}

\* The write of new to p by task w goes on after item k.
Continues(w, p, new, k, size) ==
    LET now == Called(p, new, k)
        stop == {i \in now : Suspends(i, new)}
    IN /\ seen' = [i \in DOMAIN item |-> IF i \in now THEN new ELSE seen[i]]
       /\ told' = [i \in DOMAIN item |->
              IF i \in now /\ Passes(i, new) THEN new ELSE told[i]]
       /\ write' = [write EXCEPT ![w] =
              IF stop = {} THEN NoWrite
              ELSE [at |-> p, new |-> new, after |-> CHOOSE i \in stop : TRUE,
                    size |-> size]]

Writing(p) == \E w \in Writers : write[w].at = p

\* write_attribute_value up to the first callback that suspends.
Write(w, p, new) ==
    /\ write[w] = NoWrite /\ p[1] \in nodes
    /\ value' = [value EXCEPT ![p] = new]
    /\ Continues(w, p, new, 0, Cardinality(callbacks[p]))
    /\ disturbed' = IF Writing(p) THEN disturbed \cup {p} ELSE disturbed
    /\ UNCHANGED <<nodes, callbacks, handles, item, items, live,
                   batch>>

\* The callback is done: the write goes on with the next one, unless the
\* dictionary it iterates over has another size than before.
Resume(w) ==
    /\ write[w] # NoWrite
    /\ LET p == write[w].at
       IN \/ /\ Cardinality(callbacks[p]) = write[w].size
             /\ Continues(w, p, write[w].new, write[w].after, write[w].size)
          \/ /\ Cardinality(callbacks[p]) # write[w].size
             /\ write' = [write EXCEPT ![w] = NoWrite]
             /\ UNCHANGED <<seen, told>>
    /\ UNCHANGED <<nodes, value, callbacks, handles, item, items,
                   live, batch, disturbed>>

-----------------------------------------------------------------------------
(* Items, subscriptions and nodes come and go.                             *)

Disturbs(ps) == disturbed' = disturbed \cup {p \in ps : Writing(p)}

\* create_monitored_items, one item of it: the callback is added, then called
\* with the value the attribute has, which always passes.  If that suspends,
\* more items of the same call follow, whatever happened to the subscription.
CreateItem(s, p, band, more) ==
    /\ s \in live \cup batch /\ p[1] \in nodes /\ Len(item) < MaxItems
    /\ more => s \in Suspending
    /\ batch' = IF more THEN batch \cup {s} ELSE batch \ {s}
    /\ item' = Append(item, [sub |-> s, at |-> p, band |-> band,
                            late |-> s \notin live])
    /\ items' = items \cup {Len(item')}
    /\ handles' = handles \cup {Len(item')}
    /\ callbacks' = [callbacks EXCEPT ![p] = @ \cup {Len(item')}]
    /\ seen' = Append(seen, value[p])
    /\ told' = Append(told, value[p])
    /\ Disturbs({p})
    /\ UNCHANGED <<nodes, value, live, write>>

\* delete_datachange_callback of a handle whose node is gone is a KeyError,
\* but by then the handle is gone, too.
Raises(i) == i \in handles /\ item[i].at[1] \notin nodes

\* The callbacks without those of the items in is whose handle is known.
Without(is) == [p \in Places |-> callbacks[p] \ (is \cap handles)]

PlacesOf(is) == {item[i].at : i \in is}

\* DeleteMonitoredItems.
DeleteItem(i) ==
    /\ i \in items /\ item[i].sub \in live
    /\ handles' = handles \ {i}
    /\ \/ /\ Raises(i)
          /\ UNCHANGED <<items, callbacks, disturbed>>
       \/ /\ ~Raises(i)
          /\ items' = items \ {i}
          /\ callbacks' = Without({i})
          /\ Disturbs(PlacesOf({i} \cap handles))
    /\ UNCHANGED <<nodes, value, item, seen, told, live, batch, write>>

\* Mutation of StopSubscription: the last item is left out.
StopSubscription_LeavesOne(s) ==
    /\ s \in live
    /\ live' = live \ {s}
    /\ LET mine == {i \in items : item[i].sub = s}
           done == {i \in mine : \E j \in mine : i < j}
       IN /\ items' = items \ done
          /\ handles' = handles \ done
          /\ callbacks' = Without(done)
          /\ Disturbs(PlacesOf(done \cap handles))
    /\ UNCHANGED <<nodes, value, item, seen, told, batch, write>>

\* delete_subscriptions and stop(): delete_all_monitored_items ends at the
\* first item that raises, and gather() keeps the exception to itself.
StopSubscription(s) ==
    /\ s \in live
    /\ live' = live \ {s}
    /\ LET mine == {i \in items : item[i].sub = s}
           bad == {i \in mine : Raises(i)}
           done == {i \in mine : \A j \in bad : i < j}
           first == {i \in bad : \A j \in bad : i <= j}
       IN /\ items' = items \ done
          /\ handles' = handles \ (done \cup first)
          /\ callbacks' = Without(done)
          /\ Disturbs(PlacesOf(done \cap handles))
    /\ UNCHANGED <<nodes, value, item, seen, told, batch, write>>

\* _delete_node: the callbacks of the Value attribute are removed (they are
\* coroutine functions and called without await, so they do not run); those
\* of other attributes are not.
DeleteNode(n) ==
    /\ n \in nodes
    /\ nodes' = nodes \ {n}
    /\ LET gone == callbacks[<<n, "Value">>]
       IN /\ handles' = handles \ gone
          /\ callbacks' = Without(gone)
    /\ Disturbs({<<n, "Value">>})
    /\ UNCHANGED <<value, item, items, seen, told, live, batch, write>>

Next ==
    \/ \E w \in Writers :
          \/ \E p \in Places, new \in Values : Write(w, p, new)
          \/ Resume(w)
    \/ \E s \in Subs, p \in Places, band \in Bands, more \in BOOLEAN :
          CreateItem(s, p, band, more)
    \/ \E i \in Items : DeleteItem(i)
    \/ \E s \in Subs : StopSubscription(s)
    \/ \E n \in Nodes : DeleteNode(n)

Spec == Init /\ [][Next]_vars

-----------------------------------------------------------------------------
(* Properties.                                                             *)

\* Every variable has its shape.
TypeOK ==
    /\ nodes \subseteq Nodes /\ value \in [Places -> Values]
    /\ callbacks \in [Places -> SUBSET Items]
    /\ item \in Seq([sub : Subs, at : Places, band : Bands, late : BOOLEAN])
    /\ Len(item) <= MaxItems
    /\ handles \subseteq DOMAIN item /\ items \subseteq DOMAIN item
    /\ seen \in [DOMAIN item -> Values] /\ told \in [DOMAIN item -> Values]
    /\ live \subseteq Subs /\ batch \subseteq Subs /\ disturbed \subseteq Places
    /\ write \in [Writers -> {NoWrite} \cup
                  [at : Places, new : Values, after : Items, size : Nat]]

\* When no write is under way, every item has seen the value its attribute
\* has, and without a filter was notified of it, unless two writes overlapped
\* or callbacks came or went while a callback was suspended.
ItemsAreUpToDate ==
    \A p \in Places : \A i \in callbacks[p] :
        p[1] \in nodes /\ ~Writing(p) /\ p \notin disturbed =>
            /\ seen[i] = value[p]
            /\ item[i].band = 0 => told[i] = value[p]

\* "If you delete the subscription, you do not need to unsubscribe"
\* (subscription.py): a subscription that has stopped leaves items and their
\* callbacks behind only if it monitored an attribute other than Value of a
\* node that was deleted, or if it was deleted in the middle of a call that
\* creates items.
LeftoversNeedDeletedNode ==
    \A i \in items : item[i].sub \notin live =>
        \/ item[i].late
        \/ \E j \in items : /\ item[j].sub = item[i].sub /\ j \notin handles
                            /\ item[j].at[2] = "Other" /\ item[j].at[1] \notin nodes

=============================================================================
