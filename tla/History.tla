------------------------------ MODULE History -------------------------------
(***************************************************************************)
(* The history of a variable in memory (HistoryDict), and a client that    *)
(* reads it page by page (Node.read_raw_history) while values are added    *)
(* and evicted.  A continuation point is the timestamp of the first value  *)
(* that did not fit, and the next page is a read that starts there: the    *)
(* server keeps no state of the read.                                      *)
(*                                                                         *)
(* The history of events is not modelled: read_event_history makes one     *)
(* request and does not follow the continuation point of the answer.       *)
(*                                                                         *)
(* The timestamps are those of the data source and need not be ordered.    *)
(***************************************************************************)
EXTENDS Integers, Sequences, FiniteSets

CONSTANTS
    Period,     \* period of historize_data_change, 0 = no limit
    Count,      \* count of historize_data_change, 0 = no limit
    PageSize,   \* max_history_data_response_size
    Limits,     \* numvalues clients ask for, 0 = all
    MaxTime,    \* bound: time
    MaxDelay,   \* bound: by how much a timestamp is older than its save
    MaxSaved,   \* bound: values saved
    MaxPages    \* bound: pages of a read that repeats some of them

ASSUME HistoryAssumption ==
    /\ Period \in Nat /\ Count \in Nat /\ PageSize \in Nat \ {0}
    /\ Limits \subseteq Nat /\ MaxTime \in Nat \ {0} /\ MaxDelay \in Nat
    /\ MaxSaved \in Nat /\ MaxPages \in Nat

\* The windows epoch, which stands for a time that is not given.
Epoch == 0
Times == 1 .. MaxTime

VARIABLES
    now,    \* the clock of the server
    saved,  \* timestamps of all values ever saved
    at,     \* when the last value was saved
    first,  \* _datachanges[node_id] holds the values first .. Len(saved)
    read    \* the read of the client

vars == <<now, saved, at, first, read>>

\* What a read that is not under way looks like.
NoRead == [on |-> FALSE, start |-> Epoch, end |-> Epoch, num |-> 0,
           from |-> Epoch, got |-> << >>, kept |-> {}]

Init ==
    /\ now = 1 /\ saved = << >> /\ at = 0 /\ first = 1
    /\ read = NoRead

Stored == first .. Len(saved)

-----------------------------------------------------------------------------
(* HistoryDict.save_node_value.                                            *)

Tick == now < MaxTime /\ now' = now + 1 /\ UNCHANGED <<saved, at, first, read>>

\* Mutation of Young: one value at most is popped.
Young_One(stamps, k) ==
    IF Period > 0 /\ k <= Len(stamps) /\ now - stamps[k] > Period THEN k + 1 ELSE k

\* Values that are too old are popped from the front, up to the first that
\* is not: k is the first of the list before, the result the one after.
Young(stamps, k) ==
    LET fresh == {i \in k .. Len(stamps) : now - stamps[i] <= Period}
    IN IF Period = 0 THEN k
       ELSE CHOOSE i \in fresh \cup {Len(stamps) + 1} : \A j \in fresh : i <= j

\* Then one more if there are too many.
Few(n, k) == IF Count > 0 /\ n + 1 - k > Count THEN k + 1 ELSE k

Save(stamp) ==
    /\ Len(saved) < MaxSaved
    /\ saved' = Append(saved, stamp)
    /\ first' = Few(Len(saved'), Young(saved', first))
    /\ at' = now
    /\ UNCHANGED <<now, read>>

-----------------------------------------------------------------------------
(* Reading.                                                                *)

\* Values are numbered as they are saved, and a list of values is a set of
\* numbers that is read upwards or downwards: it is filtered, never sorted.
Down(start, end) == start = Epoch \/ (end # Epoch /\ start > end)
Before(down, i, j) == IF down THEN i > j ELSE i < j

\* results[:n]
Firsts(results, n, down) ==
    {i \in results : Cardinality({j \in results : Before(down, j, i)}) < n}

\* read_node_history: what is selected, by the times that are given.  If the
\* start is not, all values are selected.
Selected(start, end) ==
    {i \in Stored :
        \/ start = Epoch
        \/ start # Epoch /\ end = Epoch /\ start <= saved[i]
        \/ start # Epoch /\ end # Epoch /\ saved[i] \in start .. end \cup end .. start}

\* Mutation of Answer: the continuation point is the last value of the page.
Answer_LastOfPage(start, end, num) ==
    LET down == Down(start, end)
        all == Selected(start, end)
        some == IF num > 0 THEN Firsts(all, num, down) ELSE all
        page == Firsts(some, PageSize, down)
    IN [values |-> page,
        cont |-> IF page = some THEN Epoch
                 ELSE saved[CHOOSE i \in page : \A j \in page \ {i} : Before(down, j, i)]]

\* What one request is answered with: a page of the values, and the
\* continuation point, Epoch for None.
Answer(start, end, num) ==
    LET down == Down(start, end)
        all == Selected(start, end)
        some == IF num > 0 THEN Firsts(all, num, down) ELSE all
        page == Firsts(some, PageSize, down)
        rest == some \ page
    IN [values |-> page,
        cont |-> IF rest = {} THEN Epoch
                 ELSE saved[CHOOSE i \in rest : \A j \in rest \ {i} : Before(down, i, j)]]

\* read_raw_history begins.  One read is enough: the server keeps nothing of it.
BeginRead(start, end, num) ==
    /\ read = NoRead
    /\ read' = [NoRead EXCEPT !.on = TRUE, !.start = start, !.end = end, !.num = num,
                              !.from = start, !.kept = Selected(start, end)]
    /\ UNCHANGED <<now, saved, at, first>>

\* Its loop: one request, _read_datavalue_history and the answer.  kept are
\* the values that were stored and selected since the read began.
Page ==
    /\ read.on /\ Len(read.got) <= MaxPages
    /\ LET answer == Answer(read.from, read.end, read.num)
       IN read' = [read EXCEPT !.got = Append(@, answer.values),
                               !.kept = @ \cap Stored,
                               !.from = answer.cont,
                               !.on = answer.cont # Epoch /\ read.num = 0]
    /\ UNCHANGED <<now, saved, at, first>>

Next ==
    \/ Tick
    \/ \E stamp \in Times : stamp \in now - MaxDelay .. now /\ Save(stamp)
    \/ \E start, end \in Times \cup {Epoch}, num \in Limits : BeginRead(start, end, num)
    \/ Page

Spec == Init /\ [][Next]_vars

\* A read goes on: its requests are answered.
FairSpec == Spec /\ WF_vars(Page)

-----------------------------------------------------------------------------
(* Properties.                                                             *)

\* Every variable has its shape.
TypeOK ==
    /\ now \in Times /\ at \in 0 .. now
    /\ saved \in Seq(Times) /\ first \in 1 .. Len(saved) + 1
    /\ read \in [on : BOOLEAN, start : Times \cup {Epoch}, end : Times \cup {Epoch},
                 num : Limits \cup {0}, from : Times \cup {Epoch},
                 got : Seq(SUBSET (1 .. Len(saved))), kept : SUBSET (1 .. Len(saved))]

\* Values of one source at different times, in their order.
Ordered == \A i, j \in DOMAIN saved : i < j => saved[i] < saved[j]

\* The history holds exactly the values that period and count of
\* historize_data_change ask for, at the time of the last save, if values are
\* saved in the order of their times.  (If they are not, a value that is too
\* old stays behind a younger one.)
RetentionIsExact ==
    Ordered => Stored = {i \in DOMAIN saved :
                            /\ Count > 0 => i > Len(saved) - Count
                            /\ Period > 0 => at - saved[i] <= Period}

\* read_raw_history ends with every value of the range that was stored all
\* the time, once and in order, whatever was saved and evicted between its
\* pages, if the values have different times and a start is given.
ReadIsComplete ==
    Ordered /\ ~read.on /\ read.start # Epoch =>
        /\ read.num = 0 => read.kept \subseteq UNION {read.got[k] : k \in DOMAIN read.got}
        /\ \A k, m \in DOMAIN read.got : k < m =>
              \A i \in read.got[k], j \in read.got[m] :
                  Before(Down(read.start, read.end), i, j)

\* A read ends.  (It need not when more values than a page have the same time:
\* the continuation point then leads to the page it came from.)
ReadEnds == (read.on /\ Ordered) ~> (~read.on \/ ~Ordered)

=============================================================================
