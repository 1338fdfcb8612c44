--------------------------- MODULE SessionsProofs ---------------------------
(***************************************************************************)
(* Theorems about Sessions, for every number of connections, sessions and  *)
(* subscriptions and every limit of connections.                           *)
(***************************************************************************)
EXTENDS Sessions, FiniteSetTheorems, TLAPS

-----------------------------------------------------------------------------
(* Type correctness.                                                       *)

\* Numbers are given out one after the other: those in use are 1 .. k.
SessionsCounted ==
    \E k \in 0 .. MaxSessions : \A n \in SessionIds : sess[n] # "none" <=> n <= k

SubsCounted ==
    \E k \in 0 .. MaxSubs : \A s \in SubIds : subs[s].state # "none" <=> s <= k

\* A processor has a session of its own, and the tasks that close sessions
\* have one to close.
Owns ==
    \A c \in Conns :
        /\ conn[c].created \subseteq SessionIds
        /\ \A n \in conn[c].created : sess[n] # "none"
        /\ conn[c].session # 0 => conn[c].session \in conn[c].created
        /\ conn[c].session = 0 => /\ conn[c].asleep = 0 /\ conn[c].awaiting = {}
                                 /\ conn[c].handler # "create"

\* The number of a new session or subscription is that of no other.
LEMMA Fresh ==
    ASSUME SessionsAssumption, SessionsCounted, SubsCounted
    PROVE  /\ NextSession \in Nat \ {0} /\ NextSub \in Nat \ {0}
           /\ \A n \in SessionIds : sess[n] # "none" <=> n < NextSession
           /\ \A s \in SubIds : subs[s].state # "none" <=> s < NextSub
<1>1. PICK k \in 0 .. MaxSessions : \A n \in SessionIds : sess[n] # "none" <=> n <= k
  BY DEF SessionsCounted
<1>2. {n \in SessionIds : sess[n] # "none"} = 1 .. k
  BY <1>1 DEF SessionsAssumption, SessionIds
<1>3. PICK j \in 0 .. MaxSubs : \A s \in SubIds : subs[s].state # "none" <=> s <= j
  BY DEF SubsCounted
<1>4. {s \in SubIds : subs[s].state # "none"} = 1 .. j
  BY <1>3 DEF SessionsAssumption, SubIds
<1>5. NextSession = k + 1 /\ NextSub = j + 1
  <2>1. \A i \in Nat : Cardinality(1 .. i) = i
    BY FS_Interval
  <2>2. k \in Nat /\ j \in Nat
    BY DEF SessionsAssumption
  <2>3. QED
    BY <1>2, <1>4, <2>1, <2>2 DEF NextSession, NextSub
<1>6. QED
  BY <1>1, <1>3, <1>5 DEF SessionsAssumption, SessionIds, SubIds

TypeInv == TypeOK /\ SessionsCounted /\ SubsCounted /\ Owns

\* The initial state is well typed.
LEMMA TypeInit == SessionsAssumption /\ Init => TypeInv
<1> SUFFICES ASSUME SessionsAssumption, Init PROVE TypeInv
  OBVIOUS
<1>1. TypeOK
  BY DEF Init, TypeOK, Connection, Subscription
<1>2. SessionsCounted
  <2>1. \A n \in SessionIds : sess[n] # "none" <=> n <= 0
    BY DEF Init, SessionIds, SessionsAssumption
  <2>2. QED
    BY <2>1 DEF SessionsCounted, SessionsAssumption
<1>3. SubsCounted
  <2>1. \A s \in SubIds : subs[s].state # "none" <=> s <= 0
    BY DEF Init, SubIds, SessionsAssumption
  <2>2. QED
    BY <2>1 DEF SubsCounted, SessionsAssumption
<1>4. Owns
  BY DEF Init, Owns
<1>5. QED
  BY <1>1, <1>2, <1>3, <1>4 DEF TypeInv

\* Closing a session leaves the shape of everything alone.
LEMMA CloseTypes ==
    ASSUME SessionsAssumption, TypeInv,
           NEW n \in SessionIds, NEW deletes \in BOOLEAN,
           NEW by \in {"handler", "other"},
           Close(n, deletes, by), sess[n] # "none"
    PROVE  /\ sess' \in [SessionIds -> {"none", "created", "activated", "closed"}]
           /\ subs' \in [SubIds -> Subscription]
           /\ current' \in Nat
           /\ \A m \in SessionIds : sess'[m] = "none" <=> sess[m] = "none"
           /\ \A s \in SubIds : subs'[s].state = "none" <=> subs[s].state = "none"
<1> USE DEF TypeInv, TypeOK, Close
<1>1. sess' \in [SessionIds -> {"none", "created", "activated", "closed"}]
      /\ \A m \in SessionIds : sess'[m] = "none" <=> sess[m] = "none"
  OBVIOUS
<1>2. current' \in Nat
  BY DEF Released
<1>3. Popped(n, by) \in [SubIds -> Subscription]
      /\ \A s \in SubIds : Popped(n, by)[s].state = "none" <=> subs[s].state = "none"
  BY DEF Popped, Subscription, OwnedBy
<1>4. QED
  BY <1>1, <1>2, <1>3

\* The numbers in use after a step that gives out none.
LEMMA CountedStays ==
    ASSUME SessionsCounted, SubsCounted,
           \A m \in SessionIds : sess'[m] = "none" <=> sess[m] = "none",
           \A s \in SubIds : subs'[s].state = "none" <=> subs[s].state = "none"
    PROVE  SessionsCounted' /\ SubsCounted'
<1>1. PICK k \in 0 .. MaxSessions : \A n \in SessionIds : sess[n] # "none" <=> n <= k
  BY DEF SessionsCounted
<1>2. PICK j \in 0 .. MaxSubs : \A s \in SubIds : subs[s].state # "none" <=> s <= j
  BY DEF SubsCounted
<1>3. QED
  BY <1>1, <1>2 DEF SessionsCounted, SubsCounted

\* A step that changes one connection.
LEMMA OneConnection ==
    ASSUME TypeOK, NEW c \in Conns, NEW v \in Connection,
           conn' = [conn EXCEPT ![c] = v]
    PROVE  /\ conn' \in [Conns -> Connection] /\ conn'[c] = v
           /\ \A d \in Conns \ {c} : conn'[d] = conn[d]
BY DEF TypeOK

\* The closing task changes its own state and _closing.
LEMMA CloserConnection ==
    ASSUME TypeOK, NEW c \in Conns, CloserRuns(c)
    PROVE  /\ conn' \in [Conns -> Connection]
           /\ conn'[c].created = conn[c].created /\ conn'[c].session = conn[c].session
           /\ conn'[c].asleep = conn[c].asleep /\ conn'[c].awaiting = conn[c].awaiting
           /\ conn'[c].handler = conn[c].handler
           /\ \A d \in Conns \ {c} : conn'[d] = conn[d]
<1> DEFINE v == [conn[c] EXCEPT !.closer = "done", !.closing = TRUE]
<1>1. conn' = [conn EXCEPT ![c] = v]
  BY DEF CloserRuns
<1>2. conn[c] \in Connection
  BY DEF TypeOK
<1>3. /\ v \in Connection
      /\ v.created = conn[c].created /\ v.session = conn[c].session
      /\ v.asleep = conn[c].asleep /\ v.awaiting = conn[c].awaiting
      /\ v.handler = conn[c].handler
  BY <1>2 DEF Connection
<1> HIDE DEF v
<1>4. QED
  BY <1>1, <1>3, OneConnection

\* Every step keeps the types.
LEMMA TypeStep == SessionsAssumption /\ TypeInv /\ [Next]_vars => TypeInv'
<1> SUFFICES ASSUME SessionsAssumption, TypeInv, [Next]_vars PROVE TypeInv'
  OBVIOUS
<1> USE DEF TypeInv
<1>1. CASE \E c \in Conns : \/ Connect(c) \/ CreateSessionReturns(c)
                            \/ CloseSessionReturns(c) \/ WatchdogReturns(c) \/ WatchdogEnds(c)
  <2> PICK c \in Conns : \/ Connect(c) \/ CreateSessionReturns(c)
                         \/ CloseSessionReturns(c) \/ WatchdogReturns(c) \/ WatchdogEnds(c)
    BY <1>1
  <2>1. sess' = sess /\ subs' = subs /\ current' = current
    BY DEF Connect, CreateSessionReturns, CloseSessionReturns, WatchdogReturns, WatchdogEnds
  <2>2. /\ conn'[c].created = conn[c].created /\ conn'[c].session = conn[c].session
        /\ \A d \in Conns \ {c} : conn'[d] = conn[d]
        /\ conn' \in [Conns -> Connection]
        /\ conn[c].session = 0 => /\ conn'[c].asleep = 0 /\ conn'[c].awaiting = {}
                                 /\ conn'[c].handler # "create"
    <3>1. CASE Connect(c) \/ CreateSessionReturns(c) \/ CloseSessionReturns(c)
      BY <3>1 DEF Connect, CreateSessionReturns, CloseSessionReturns,
                  TypeOK, Connection, Owns
    <3>2. CASE WatchdogReturns(c)
      <4> DEFINE a(w) == conn[c].awaiting \ {w}
                 n == IF conn[c].closing THEN conn[c].asleep ELSE conn[c].asleep + 1
      <4>1. PICK w \in conn[c].awaiting : conn' = [conn EXCEPT ![c] =
                [conn[c] EXCEPT !.awaiting = a(w), !.asleep = n]]
        BY <3>2 DEF WatchdogReturns
      <4> DEFINE v == [conn[c] EXCEPT !.awaiting = a(w), !.asleep = n]
      <4>2. /\ conn[c] \in Connection
            /\ a(w) \in SUBSET (SUBSET SubIds) /\ n \in Nat
        <5>1. conn[c] \in Connection
          BY DEF TypeOK
        <5>2. conn[c].awaiting \in SUBSET (SUBSET SubIds) /\ conn[c].asleep \in Nat
          BY <5>1 DEF Connection
        <5>3. QED
          BY <5>1, <5>2
      <4> HIDE DEF a, n
      <4>3. v \in Connection /\ v.created = conn[c].created /\ v.session = conn[c].session
        BY <4>2 DEF Connection
      <4>4. conn[c].session # 0
        BY DEF Owns
      <4> HIDE DEF v
      <4>5. QED
        BY <4>1, <4>3, <4>4, OneConnection DEF v
    <3>3. CASE WatchdogEnds(c)
      BY <3>3 DEF WatchdogEnds, TypeOK, Connection, Owns
    <3>4. QED
      BY <3>1, <3>2, <3>3
  <2>3. SessionsCounted' /\ SubsCounted'
    BY <2>1, CountedStays
  <2>4. QED
    BY <2>1, <2>2, <2>3 DEF TypeOK, Owns
<1>2. ASSUME NEW c \in Conns, CreateSession(c) PROVE TypeInv'
  <2>1. /\ NextSession \in SessionIds /\ sess[NextSession] = "none"
        /\ \A n \in SessionIds : sess[n] # "none" <=> n < NextSession
    BY <1>2, Fresh DEF CreateSession, SessionIds, SessionsAssumption
  <2>2. /\ sess' = [sess EXCEPT ![NextSession] = "created"]
        /\ UNCHANGED <<subs, current>>
        /\ \A d \in Conns \ {c} : conn'[d] = conn[d]
        /\ conn'[c].session = NextSession
        /\ conn'[c].created = conn[c].created \cup {NextSession}
    BY <1>2 DEF CreateSession, TypeOK, Connection
  <2>3. TypeOK'
    <3> DEFINE v == [conn[c] EXCEPT !.session = NextSession,
                        !.created = conn[c].created \cup {NextSession},
                        !.replaced = conn[c].replaced \cup InUse(c),
                        !.handler = "create"]
    <3>1. conn' = [conn EXCEPT ![c] = v]
      BY <1>2 DEF CreateSession
    <3>2. conn[c] \in Connection
      BY DEF TypeOK
    <3>3. InUse(c) \subseteq Nat /\ NextSession \in Nat
      BY <2>1 DEF InUse, SessionIds
    <3>4. v \in Connection
      BY <3>2, <3>3 DEF Connection
    <3> HIDE DEF v
    <3>5. conn' \in [Conns -> Connection]
      BY <3>1, <3>4, OneConnection
    <3>6. QED
      BY <2>1, <2>2, <3>5 DEF TypeOK
  <2>4. SessionsCounted'
    <3>1. \A n \in SessionIds : sess'[n] # "none" <=> n <= NextSession
      BY <2>1, <2>2 DEF TypeOK, SessionIds, SessionsAssumption
    <3>2. NextSession \in 0 .. MaxSessions
      BY <2>1 DEF SessionIds, SessionsAssumption
    <3>3. QED
      BY <3>1, <3>2 DEF SessionsCounted
  <2>5. SubsCounted'
    BY <2>2 DEF SubsCounted
  <2>6. Owns'
    BY <2>1, <2>2 DEF Owns, TypeOK, SessionIds
  <2>7. QED
    BY <2>3, <2>4, <2>5, <2>6
<1>3. ASSUME NEW c \in Conns, ActivateSession(c) PROVE TypeInv'
  <2>1. conn[c].session \in SessionIds
    BY <1>3 DEF ActivateSession, Owns
  <2>2. TypeOK' /\ Owns'
    BY <1>3, <2>1 DEF ActivateSession, TypeOK, Owns
  <2>3. SessionsCounted' /\ SubsCounted'
    BY <1>3, <2>1, CountedStays DEF ActivateSession, TypeOK
  <2>4. QED
    BY <2>2, <2>3
<1>4. ASSUME NEW c \in Conns, CreateSubscription(c) PROVE TypeInv'
  <2>1. /\ NextSub \in SubIds
        /\ \A s \in SubIds : subs[s].state # "none" <=> s < NextSub
    BY <1>4, Fresh DEF CreateSubscription, SubIds, SessionsAssumption
  <2>2. TypeOK' /\ Owns'
    BY <1>4, <2>1 DEF CreateSubscription, TypeOK, Owns, Subscription, Connection
  <2>3. \A s \in SubIds : subs'[s].state # "none" <=> s <= NextSub
    BY <1>4, <2>1 DEF CreateSubscription, TypeOK, SubIds, SessionsAssumption
  <2>4. SubsCounted' /\ SessionsCounted'
    <3>1. NextSub \in 0 .. MaxSubs /\ sess' = sess
      BY <1>4, <2>1 DEF CreateSubscription, SubIds, SessionsAssumption
    <3>2. QED
      BY <2>3, <3>1 DEF SubsCounted, SessionsCounted
  <2>5. QED
    BY <2>2, <2>4
<1>5. ASSUME NEW c \in Conns,
             \/ \E deletes \in BOOLEAN : CloseSession(c, deletes)
             \/ CloserRuns(c) /\ conn[c].session # 0
             \/ WatchdogCloses(c)
      PROVE  TypeInv'
  <2>1. PICK deletes \in BOOLEAN, by \in {"handler", "other"} :
             Close(conn[c].session, deletes, by)
    BY <1>5 DEF CloseSession, CloserRuns, WatchdogCloses
  <2>2. /\ conn'[c].created = conn[c].created /\ conn'[c].session = conn[c].session
        /\ \A d \in Conns \ {c} : conn'[d] = conn[d]
        /\ conn' \in [Conns -> Connection]
        /\ conn[c].session # 0
    <3>1. CASE \E d \in BOOLEAN : CloseSession(c, d)
      BY <3>1 DEF CloseSession, TypeOK, Connection
    <3>2. CASE CloserRuns(c) /\ conn[c].session # 0
      BY <3>2, CloserConnection
    <3>3. CASE WatchdogCloses(c)
      <4>1. conn[c].session # 0
        BY <3>3 DEF WatchdogCloses, Owns
      <4>2. QED
        BY <3>3, <4>1 DEF WatchdogCloses, TypeOK, Connection
    <3>4. QED
      BY <1>5, <3>1, <3>2, <3>3
  <2>3. conn[c].session \in SessionIds /\ sess[conn[c].session] # "none"
    BY <2>2 DEF Owns
  <2>4. /\ sess' \in [SessionIds -> {"none", "created", "activated", "closed"}]
        /\ subs' \in [SubIds -> Subscription]
        /\ current' \in Nat
        /\ \A m \in SessionIds : sess'[m] = "none" <=> sess[m] = "none"
        /\ \A s \in SubIds : subs'[s].state = "none" <=> subs[s].state = "none"
    BY <2>1, <2>3, CloseTypes
  <2>5. SessionsCounted' /\ SubsCounted'
    BY <2>4, CountedStays
  <2>6. QED
    BY <2>2, <2>4, <2>5 DEF TypeOK, Owns
<1>6. ASSUME NEW c \in Conns, CloserRuns(c), conn[c].session = 0 PROVE TypeInv'
  <2>1. sess' = sess /\ subs' = subs /\ current' = current
    BY <1>6 DEF CloserRuns
  <2>2. TypeOK' /\ Owns'
    <3>1. /\ conn' \in [Conns -> Connection]
          /\ conn'[c].created = conn[c].created /\ conn'[c].session = conn[c].session
          /\ conn'[c].asleep = conn[c].asleep /\ conn'[c].awaiting = conn[c].awaiting
          /\ conn'[c].handler \in {conn[c].handler, "none"}
          /\ \A d \in Conns \ {c} : conn'[d] = conn[d]
      BY <1>6, CloserConnection
    <3>2. QED
      BY <2>1, <3>1 DEF TypeOK, Owns
  <2>3. QED
    BY <2>1, <2>2, CountedStays
<1>7. ASSUME NEW c \in Conns, ConnectionLost(c) PROVE TypeInv'
  <2>1. /\ sess' = sess /\ current' = current
        /\ subs' \in [SubIds -> Subscription]
        /\ \A s \in SubIds : subs'[s].state = "none" <=> subs[s].state = "none"
    BY <1>7 DEF ConnectionLost, TypeOK, Subscription
  <2>2. TypeOK' /\ Owns'
    <3>1. /\ conn' \in [Conns -> Connection]
          /\ conn'[c].created = conn[c].created /\ conn'[c].session = conn[c].session
          /\ conn'[c].asleep = conn[c].asleep /\ conn'[c].awaiting = conn[c].awaiting
          /\ conn'[c].handler \in {conn[c].handler, "none"}
          /\ \A d \in Conns \ {c} : conn'[d] = conn[d]
      <4>1. conn' = [conn EXCEPT ![c].socket = "lost", ![c].closer = "ready",
                                 ![c].handler = "none"]
        BY <1>7 DEF ConnectionLost
      <4>2. conn' \in [Conns -> Connection]
        <5>1. conn[c] \in Connection
          BY DEF TypeOK
        <5>2. [conn[c] EXCEPT !.socket = "lost", !.closer = "ready",
                              !.handler = "none"] \in Connection
          BY <5>1 DEF Connection
        <5>3. conn' = [conn EXCEPT ![c] =
                  [conn[c] EXCEPT !.socket = "lost", !.closer = "ready",
                                  !.handler = "none"]]
          BY <4>1
        <5>4. QED
          BY <5>2, <5>3 DEF TypeOK
      <4>3. QED
        BY <4>1, <4>2 DEF TypeOK, Connection
    <3>2. QED
      BY <2>1, <3>1 DEF TypeOK, Owns
  <2>3. QED
    BY <2>1, <2>2, CountedStays
<1>8. ASSUME NEW s \in SubIds, StopRuns(s) \/ Expires(s) PROVE TypeInv'
  <2>1. /\ sess' = sess /\ current' = current /\ conn' = conn
        /\ subs' \in [SubIds -> Subscription]
        /\ \A r \in SubIds : subs'[r].state = "none" <=> subs[r].state = "none"
    BY <1>8 DEF StopRuns, Expires, TypeOK, Subscription
  <2>2. TypeOK' /\ Owns'
    BY <2>1 DEF TypeOK, Owns
  <2>3. QED
    BY <2>1, <2>2, CountedStays
<1>9. CASE UNCHANGED vars
  BY <1>9 DEF vars, TypeOK, SessionsCounted, SubsCounted, Owns
<1>10. QED
  BY <1>1, <1>2, <1>3, <1>4, <1>5, <1>6, <1>7, <1>8, <1>9 DEF Next

\* The types hold throughout.
LEMMA Types == Spec => []TypeInv
BY TypeInit, TypeStep, SessionsAssumption, PTL DEF Spec

\* Every variable has the shape the code gives it, and sessions and
\* subscriptions are known by numbers in use.
THEOREM TypeCorrect == Spec => []TypeOK
BY Types, PTL DEF TypeInv

-----------------------------------------------------------------------------
(* The count of connections.                                               *)

Activated == {n \in SessionIds : sess[n] = "activated"}

\* The activated sessions are finitely many, so they can be counted.
LEMMA ActivatedFinite == SessionsAssumption => IsFiniteSet(Activated)
<1> SUFFICES ASSUME SessionsAssumption PROVE IsFiniteSet(Activated)
  OBVIOUS
<1>1. IsFiniteSet(SessionIds)
  BY FS_Interval DEF SessionIds, SessionsAssumption
<1>2. Activated \in SUBSET SessionIds
  BY DEF Activated
<1>3. QED
  BY <1>1, <1>2, FS_Subset

\* Closing a session releases its connection once.
LEMMA CloseCounts ==
    ASSUME SessionsAssumption, TypeInv, CountIsExact,
           NEW n \in SessionIds, sess' = [sess EXCEPT ![n] = "closed"],
           current' = Released(n)
    PROVE  CountIsExact'
<1>1. IsFiniteSet(Activated) /\ current = Cardinality(Activated)
  BY ActivatedFinite DEF CountIsExact, Activated
<1>2. Activated' = Activated \ {n}
  BY DEF TypeInv, TypeOK, Activated
<1>3. CASE sess[n] = "activated"
  <2>1. n \in Activated
    BY <1>3 DEF Activated
  <2>2. Cardinality(Activated \ {n}) = Cardinality(Activated) - 1
    BY <1>1, <2>1, FS_RemoveElement
  <2>3. current > 0
    BY <1>1, <2>1, FS_EmptySet, FS_CardinalityType
  <2>4. QED
    BY <1>1, <1>2, <1>3, <2>2, <2>3 DEF Released, CountIsExact, Activated
<1>4. CASE sess[n] # "activated"
  <2>1. Activated \ {n} = Activated
    BY <1>4 DEF Activated
  <2>2. QED
    BY <1>1, <1>2, <1>4, <2>1 DEF Released, CountIsExact, Activated
<1>5. QED
  BY <1>3, <1>4

\* Every step keeps the count exact.
LEMMA CountStep ==
    SessionsAssumption /\ TypeInv /\ CountIsExact /\ [Next]_vars => CountIsExact'
<1> SUFFICES ASSUME SessionsAssumption, TypeInv, CountIsExact, [Next]_vars
             PROVE  CountIsExact'
  OBVIOUS
<1>1. ASSUME NEW c \in Conns, CreateSession(c) PROVE CountIsExact'
  <2>1. NextSession \in SessionIds /\ sess[NextSession] = "none"
    BY <1>1, Fresh DEF CreateSession, SessionIds, SessionsAssumption, TypeInv
  <2>2. Activated' = Activated
    BY <1>1, <2>1 DEF CreateSession, Activated, TypeInv, TypeOK
  <2>3. QED
    BY <1>1, <2>2 DEF CreateSession, CountIsExact, Activated
<1>2. ASSUME NEW c \in Conns, ActivateSession(c) PROVE CountIsExact'
  <2>1. conn[c].session \in SessionIds \ Activated
    BY <1>2 DEF ActivateSession, Activated, TypeInv, Owns
  <2>2. Activated' = Activated \cup {conn[c].session}
    BY <1>2, <2>1 DEF ActivateSession, Activated, TypeInv, TypeOK
  <2>3. Cardinality(Activated \cup {conn[c].session}) = Cardinality(Activated) + 1
    BY <2>1, ActivatedFinite, FS_AddElement
  <2>4. QED
    BY <1>2, <2>2, <2>3 DEF ActivateSession, CountIsExact, Activated
<1>3. ASSUME NEW c \in Conns,
             \/ \E deletes \in BOOLEAN : CloseSession(c, deletes)
             \/ CloserRuns(c) /\ conn[c].session # 0
             \/ WatchdogCloses(c)
      PROVE  CountIsExact'
  <2>1. /\ sess' = [sess EXCEPT ![conn[c].session] = "closed"]
        /\ current' = Released(conn[c].session)
    BY <1>3 DEF CloseSession, CloserRuns, WatchdogCloses, Close
  <2>2. conn[c].session \in SessionIds
    <3>1. conn[c].session # 0
      <4>1. CASE WatchdogCloses(c)
        BY <4>1 DEF WatchdogCloses, TypeInv, Owns
      <4>2. QED
        BY <1>3, <4>1 DEF CloseSession
    <3>2. QED
      BY <3>1 DEF TypeInv, Owns
  <2>3. QED
    BY <2>1, <2>2, CloseCounts
<1>4. CASE UNCHANGED <<sess, current>>
  BY <1>4 DEF CountIsExact
<1>5. QED
  BY <1>1, <1>2, <1>3, <1>4
     DEF Next, vars, Connect, CreateSessionReturns, CreateSubscription,
         CloseSessionReturns, ConnectionLost, CloserRuns, WatchdogReturns, WatchdogEnds,
         StopRuns, Expires

\* _current_connections is the number of activated sessions, in whatever
\* order clients, watchdogs and lost connections close them.
THEOREM CountExact == Spec => []CountIsExact
<1>1. Init => CountIsExact
  <2>1. Init => Activated = {}
    BY DEF Init, Activated
  <2>2. QED
    BY <2>1, FS_EmptySet DEF Init, CountIsExact, Activated
<1>2. QED
  BY <1>1, CountStep, Types, SessionsAssumption, PTL DEF Spec

-----------------------------------------------------------------------------
(* The end of a connection.                                                *)

\* Session n is not active and has no subscription in the service.
Clean(n) ==
    /\ sess[n] # "activated"
    /\ \A s \in SubIds : subs[s].state = "live" => subs[s].owner # n

\* What OnlyReplacedAreLeft needs to be inductive: a connection without a
\* socket takes no request, no two connections share a session, subscriptions
\* belong to sessions that exist, and a session that was not in use when it was
\* replaced stays clean.
LeftInv ==
    /\ \A c \in Conns : conn[c].socket # "open" => conn[c].handler = "none"
    /\ \A c \in Conns : conn[c].closer # "none" => conn[c].socket = "lost"
    /\ \A c, d \in Conns : c # d => conn[c].created \cap conn[d].created = {}
    /\ \A s \in SubIds : subs[s].state = "live" =>
           subs[s].owner \in SessionIds /\ sess[subs[s].owner] # "none"
    /\ \A c \in Conns : conn[c].closer = "done" /\ conn[c].session # 0 =>
           Clean(conn[c].session)
    /\ \A c \in Conns : \A n \in conn[c].created \ conn[c].replaced :
           n # conn[c].session => Clean(n)

\* Steps that neither activate a session nor create a subscription keep
\* sessions clean.
LEMMA CleanStays ==
    ASSUME NEW n \in SessionIds, Clean(n),
           sess'[n] = "activated" => sess[n] = "activated",
           \A s \in SubIds : subs'[s].state = "live" => subs'[s] = subs[s]
    PROVE  Clean(n)'
BY DEF Clean

\* What closing a session does to it and to its subscriptions.
LEMMA CloseCleans ==
    ASSUME TypeInv, NEW n \in SessionIds, NEW deletes \in BOOLEAN, NEW by,
           Close(n, deletes, by)
    PROVE  /\ sess'[n] = "closed"
           /\ \A m \in SessionIds \ {n} : sess'[m] = sess[m]
           /\ \A s \in SubIds : subs'[s].state = "live" => subs'[s] = subs[s]
           /\ deletes => Clean(n)'
<1>1. sess' = [sess EXCEPT ![n] = "closed"]
  BY DEF Close
<1>2. /\ \A s \in SubIds : Popped(n, by)[s].state = "live" =>
             Popped(n, by)[s] = subs[s] /\ subs[s].owner # n
  BY DEF Popped, OwnedBy, TypeInv, TypeOK, Subscription
<1>3. subs' = IF deletes THEN Popped(n, by) ELSE subs
  BY DEF Close
<1>4. sess'[n] = "closed" /\ \A m \in SessionIds \ {n} : sess'[m] = sess[m]
  BY <1>1 DEF TypeInv, TypeOK
<1>5. deletes => Clean(n)'
  BY <1>2, <1>3, <1>4 DEF Clean
<1>6. QED
  BY <1>2, <1>3, <1>4, <1>5

\* Every step keeps LeftInv.
LEMMA LeftStep ==
    SessionsAssumption /\ TypeInv /\ LeftInv /\ [Next]_vars => LeftInv'
<1> SUFFICES ASSUME SessionsAssumption, TypeInv, LeftInv, [Next]_vars
             PROVE  LeftInv'
  OBVIOUS
<1>0. /\ \A c \in Conns : conn[c].created \subseteq SessionIds
      /\ \A c \in Conns : conn[c].session # 0 => conn[c].session \in SessionIds
  BY DEF TypeInv, Owns
\* What most steps leave alone.
<1>a. ASSUME NEW c \in Conns,
             \A d \in Conns \ {c} : conn'[d] = conn[d],
             conn'[c].created = conn[c].created, conn'[c].session = conn[c].session,
             conn'[c].replaced = conn[c].replaced,
             conn'[c].socket # "open" => conn'[c].handler = "none",
             conn'[c].closer # "none" => conn'[c].socket = "lost",
             \A n \in SessionIds : sess'[n] = "activated" => sess[n] = "activated",
             \A n \in SessionIds : sess'[n] = "none" => sess[n] = "none",
             \A s \in SubIds : subs'[s].state = "live" => subs'[s] = subs[s],
             conn'[c].closer = "done" /\ conn[c].session # 0 =>
                 conn[c].closer = "done" \/ Clean(conn[c].session)'
      PROVE  LeftInv'
  <2>1. \A n \in SessionIds : Clean(n) => Clean(n)'
    BY <1>a, CleanStays
  <2>2. \A d \in Conns : /\ conn'[d].created = conn[d].created
                         /\ conn'[d].session = conn[d].session
                         /\ conn'[d].replaced = conn[d].replaced
    BY <1>a
  <2>3. \A d \in Conns : conn'[d].closer = "done" /\ conn'[d].session # 0 =>
           Clean(conn[d].session)'
    BY <1>0, <1>a, <2>1 DEF LeftInv
  <2>4. \A d \in Conns : \A n \in conn'[d].created \ conn'[d].replaced :
           n # conn'[d].session => Clean(n)'
    BY <1>0, <2>1, <2>2 DEF LeftInv
  <2>5. \A s \in SubIds : subs'[s].state = "live" =>
           subs'[s].owner \in SessionIds /\ sess'[subs'[s].owner] # "none"
    BY <1>a DEF LeftInv
  <2>6. \A d \in Conns : /\ conn'[d].socket # "open" => conn'[d].handler = "none"
                         /\ conn'[d].closer # "none" => conn'[d].socket = "lost"
    BY <1>a DEF LeftInv
  <2>7. \A d, e \in Conns : d # e => conn'[d].created \cap conn'[e].created = {}
    BY <2>2 DEF LeftInv
  <2>8. QED
    BY <2>2, <2>3, <2>4, <2>5, <2>6, <2>7 DEF LeftInv, Clean
<1>1. ASSUME NEW c \in Conns, \/ Connect(c) \/ CreateSessionReturns(c)
                              \/ CloseSessionReturns(c) \/ WatchdogReturns(c) \/ WatchdogEnds(c)
      PROVE  LeftInv'
  <2>1. sess' = sess /\ subs' = subs
    BY <1>1 DEF Connect, CreateSessionReturns, CloseSessionReturns, WatchdogReturns, WatchdogEnds
  <2>2. /\ \A d \in Conns \ {c} : conn'[d] = conn[d]
        /\ conn'[c].created = conn[c].created /\ conn'[c].session = conn[c].session
        /\ conn'[c].replaced = conn[c].replaced
        /\ conn'[c].closer = conn[c].closer
        /\ conn'[c].socket # "open" => conn'[c].handler = "none"
        /\ conn'[c].closer # "none" => conn'[c].socket = "lost"
    <3>1. CASE Connect(c)
      BY <3>1 DEF Connect, TypeInv, TypeOK, Connection, LeftInv
    <3>2. CASE CreateSessionReturns(c)
      BY <3>2 DEF CreateSessionReturns, TypeInv, TypeOK, Connection, LeftInv
    <3>3. CASE CloseSessionReturns(c)
      BY <3>3 DEF CloseSessionReturns, TypeInv, TypeOK, Connection, LeftInv
    <3>4. CASE WatchdogReturns(c)
      BY <3>4 DEF WatchdogReturns, TypeInv, TypeOK, Connection, LeftInv
    <3>5. CASE WatchdogEnds(c)
      BY <3>5 DEF WatchdogEnds, TypeInv, TypeOK, Connection, LeftInv
    <3>6. QED
      BY <1>1, <3>1, <3>2, <3>3, <3>4, <3>5
  <2>3. QED
    BY <1>a, <2>1, <2>2
<1>2. ASSUME NEW c \in Conns, CreateSession(c) PROVE LeftInv'
  <2>1. NextSession \in SessionIds /\ sess[NextSession] = "none"
    BY <1>2, Fresh DEF CreateSession, SessionIds, SessionsAssumption, TypeInv
  <2>2. /\ sess' = [sess EXCEPT ![NextSession] = "created"] /\ subs' = subs
        /\ \A d \in Conns \ {c} : conn'[d] = conn[d]
        /\ conn'[c].session = NextSession
        /\ conn'[c].created = conn[c].created \cup {NextSession}
        /\ conn'[c].replaced = conn[c].replaced \cup InUse(c)
        /\ conn'[c].socket = conn[c].socket /\ conn'[c].closer = conn[c].closer
        /\ conn[c].handler = "queue"
    BY <1>2 DEF CreateSession, TypeInv, TypeOK, Connection
  <2>3. conn[c].socket = "open" /\ conn[c].closer = "none"
    BY <2>2 DEF LeftInv, TypeInv, TypeOK, Connection
  <2>4. \A n \in SessionIds : Clean(n) => Clean(n)'
    BY <2>1, <2>2 DEF Clean, TypeInv, TypeOK
  <2>5. \A d \in Conns : NextSession \notin conn[d].created
    BY <2>1 DEF TypeInv, Owns
  <2>6. \A d, e \in Conns : d # e => conn'[d].created \cap conn'[e].created = {}
    BY <2>2, <2>5 DEF LeftInv
  <2>7. \A s \in SubIds : subs'[s].state = "live" =>
           subs'[s].owner \in SessionIds /\ sess'[subs'[s].owner] # "none"
    BY <2>1, <2>2 DEF LeftInv, TypeInv, TypeOK
  <2>8. \A d \in Conns : conn'[d].closer = "done" /\ conn'[d].session # 0 =>
           Clean(conn[d].session)'
    <3> SUFFICES ASSUME NEW d \in Conns, conn'[d].closer = "done", conn'[d].session # 0
                 PROVE  Clean(conn[d].session)'
      OBVIOUS
    <3>1. d # c /\ conn'[d] = conn[d]
      BY <2>2, <2>3
    <3>2. PICK n \in SessionIds : n = conn[d].session
      BY <1>0, <3>1
    <3>3. Clean(n)'
      BY <2>4, <3>1, <3>2 DEF LeftInv
    <3>4. QED
      BY <3>1, <3>2, <3>3 DEF Clean
  <2>9. \A d \in Conns : \A n \in conn'[d].created \ conn'[d].replaced :
           n # conn'[d].session => Clean(n)'
    <3> SUFFICES ASSUME NEW d \in Conns, NEW n \in conn'[d].created \ conn'[d].replaced,
                        n # conn'[d].session
                 PROVE  Clean(n)'
      OBVIOUS
    <3>1. CASE d # c
      BY <1>0, <2>2, <2>4, <3>1 DEF LeftInv
    <3>2. CASE d = c /\ n # conn[c].session
      BY <1>0, <2>2, <2>4, <3>2 DEF LeftInv
    <3>3. CASE d = c /\ n = conn[c].session
      <4>1. n # 0 /\ n \in SessionIds
        BY <1>0, <2>2, <3>3 DEF SessionIds
      <4>2. Clean(n)
        BY <2>2, <3>3, <4>1 DEF InUse, OwnedBy, Clean
      <4>3. QED
        BY <2>4, <4>1, <4>2
    <3>4. QED
      BY <3>1, <3>2, <3>3
  <2>10. \A d \in Conns : /\ conn'[d].socket # "open" => conn'[d].handler = "none"
                          /\ conn'[d].closer # "none" => conn'[d].socket = "lost"
    BY <2>2, <2>3 DEF LeftInv
  <2>11. QED
    BY <2>6, <2>7, <2>8, <2>9, <2>10 DEF LeftInv, Clean
\* Only the session of a connection that takes requests is activated or gets
\* a subscription: it is no session that must stay clean.
<1>b. ASSUME NEW c \in Conns, conn[c].handler = "queue", conn[c].session # 0,
             conn' = conn,
             \A n \in SessionIds \ {conn[c].session} : Clean(n) => Clean(n)',
             \A s \in SubIds : subs'[s].state = "live" =>
                 subs'[s].owner \in SessionIds /\ sess'[subs'[s].owner] # "none"
      PROVE  LeftInv'
  <2>1. conn[c].socket = "open" /\ conn[c].closer = "none"
    BY <1>b DEF LeftInv, TypeInv, TypeOK, Connection
  <2>2. \A d \in Conns \ {c} : conn[c].session \notin conn[d].created
    BY <1>b DEF LeftInv, TypeInv, Owns
  <2>3. \A d \in Conns : conn[d].closer = "done" /\ conn[d].session # 0 =>
           Clean(conn[d].session)'
    <3> SUFFICES ASSUME NEW d \in Conns, conn[d].closer = "done", conn[d].session # 0
                 PROVE  Clean(conn[d].session)'
      OBVIOUS
    <3>1. d # c
      BY <2>1
    <3>2. PICK n \in SessionIds : n = conn[d].session /\ n # conn[c].session
      BY <1>0, <2>2, <3>1 DEF TypeInv, Owns
    <3>3. Clean(n)'
      BY <1>b, <3>2 DEF LeftInv
    <3>4. QED
      BY <1>b, <3>2, <3>3 DEF Clean
  <2>4. \A d \in Conns : \A n \in conn[d].created \ conn[d].replaced :
           n # conn[d].session => Clean(n)'
    BY <1>0, <1>b, <2>2 DEF LeftInv
  <2>5. QED
    BY <1>b, <2>3, <2>4 DEF LeftInv, Clean
<1>3. ASSUME NEW c \in Conns, ActivateSession(c) PROVE LeftInv'
  <2>1. conn[c].session \in SessionIds
    BY <1>0, <1>3 DEF ActivateSession
  <2>2. sess' = [sess EXCEPT ![conn[c].session] = "activated"] /\ subs' = subs
    BY <1>3 DEF ActivateSession
  <2>3. \A n \in SessionIds \ {conn[c].session} : Clean(n) => Clean(n)'
    BY <2>1, <2>2 DEF Clean, TypeInv, TypeOK
  <2>4. \A s \in SubIds : subs'[s].state = "live" =>
           subs'[s].owner \in SessionIds /\ sess'[subs'[s].owner] # "none"
    BY <2>1, <2>2 DEF LeftInv, TypeInv, TypeOK
  <2>5. QED
    BY <1>3, <1>b, <2>3, <2>4 DEF ActivateSession
<1>4. ASSUME NEW c \in Conns, CreateSubscription(c) PROVE LeftInv'
  <2>1. conn[c].session \in SessionIds /\ sess[conn[c].session] # "none"
    BY <1>4 DEF CreateSubscription, TypeInv, Owns
  <2>2. NextSub \in SubIds
    BY <1>4, Fresh DEF CreateSubscription, SubIds, SessionsAssumption, TypeInv
  <2>3. /\ sess' = sess
        /\ subs'[NextSub].owner = conn[c].session
        /\ \A s \in SubIds \ {NextSub} : subs'[s] = subs[s]
    BY <1>4, <2>2 DEF CreateSubscription, TypeInv, TypeOK
  <2>4. \A n \in SessionIds \ {conn[c].session} : Clean(n) => Clean(n)'
    BY <2>3 DEF Clean
  <2>5. \A s \in SubIds : subs'[s].state = "live" =>
           subs'[s].owner \in SessionIds /\ sess'[subs'[s].owner] # "none"
    BY <2>1, <2>3 DEF LeftInv
  <2>6. QED
    BY <1>4, <1>b, <2>4, <2>5 DEF CreateSubscription
<1>5. ASSUME NEW c \in Conns,
             \/ \E deletes \in BOOLEAN : CloseSession(c, deletes)
             \/ CloserRuns(c) /\ conn[c].session # 0
             \/ WatchdogCloses(c)
      PROVE  LeftInv'
  <2>1. PICK deletes \in BOOLEAN, by \in {"handler", "other"} :
             /\ Close(conn[c].session, deletes, by)
             /\ CloserRuns(c) => deletes
             /\ ~deletes => conn'[c].closer # "done"
    <3>1. CASE \E deletes \in BOOLEAN : CloseSession(c, deletes)
      <4>1. conn[c].closer = "none" /\ conn'[c].closer = conn[c].closer
        BY <3>1 DEF CloseSession, LeftInv, TypeInv, TypeOK, Connection
      <4>2. ~CloserRuns(c)
        BY <4>1 DEF CloserRuns
      <4>3. QED
        BY <3>1, <4>1, <4>2 DEF CloseSession
    <3>2. CASE CloserRuns(c) /\ conn[c].session # 0
      BY <3>2 DEF CloserRuns
    <3>3. CASE WatchdogCloses(c)
      BY <3>3 DEF WatchdogCloses
    <3>4. QED
      BY <1>5, <3>1, <3>2, <3>3
  <2>2. conn[c].session \in SessionIds /\ sess[conn[c].session] # "none"
    <3>1. conn[c].session # 0
      <4>1. CASE WatchdogCloses(c)
        BY <4>1 DEF WatchdogCloses, TypeInv, Owns
      <4>2. QED
        BY <1>5, <4>1 DEF CloseSession
    <3>2. QED
      BY <3>1 DEF TypeInv, Owns
  <2>n. PICK n \in SessionIds : n = conn[c].session
    BY <2>2
  <2>3. /\ sess'[n] = "closed"
        /\ \A m \in SessionIds \ {n} : sess'[m] = sess[m]
        /\ \A s \in SubIds : subs'[s].state = "live" => subs'[s] = subs[s]
        /\ deletes => Clean(n)'
    BY <2>1, <2>n, CloseCleans
  <2>4. /\ \A d \in Conns \ {c} : conn'[d] = conn[d]
        /\ conn'[c].created = conn[c].created /\ conn'[c].session = conn[c].session
        /\ conn'[c].replaced = conn[c].replaced
        /\ conn'[c].socket # "open" => conn'[c].handler = "none"
        /\ conn'[c].closer # "none" => conn'[c].socket = "lost"
    <3>1. CASE \E d \in BOOLEAN : CloseSession(c, d)
      BY <3>1 DEF CloseSession, TypeInv, TypeOK, Connection, LeftInv
    <3>2. CASE CloserRuns(c)
      BY <3>2 DEF CloserRuns, TypeInv, TypeOK, Connection, LeftInv
    <3>3. CASE WatchdogCloses(c)
      BY <3>3 DEF WatchdogCloses, TypeInv, TypeOK, Connection, LeftInv
    <3>4. QED
      BY <1>5, <3>1, <3>2, <3>3
  <2>5. conn'[c].closer = "done" => Clean(conn[c].session)'
    BY <2>1, <2>n, <2>3, <2>4 DEF Clean
  <2>6. \A m \in SessionIds : /\ sess'[m] = "activated" => sess[m] = "activated"
                              /\ sess'[m] = "none" => sess[m] = "none"
    BY <2>3
  <2>7. QED
    BY <1>a, <2>3, <2>4, <2>5, <2>6
<1>6. ASSUME NEW c \in Conns, CloserRuns(c), conn[c].session = 0 PROVE LeftInv'
  <2>1. /\ \A d \in Conns \ {c} : conn'[d] = conn[d]
        /\ conn'[c].created = conn[c].created /\ conn'[c].session = conn[c].session
        /\ conn'[c].replaced = conn[c].replaced
        /\ conn'[c].socket = conn[c].socket /\ conn'[c].handler = conn[c].handler
        /\ conn[c].closer = "ready" /\ sess' = sess /\ subs' = subs
    BY <1>6 DEF CloserRuns, TypeInv, TypeOK, Connection
  <2>2. conn[c].socket = "lost" /\ conn[c].handler = "none"
    BY <2>1 DEF LeftInv
  <2>3. QED
    BY <1>6, <1>a, <2>1, <2>2
<1>7. ASSUME NEW c \in Conns, ConnectionLost(c) PROVE LeftInv'
  <2>1. conn' = [conn EXCEPT ![c].socket = "lost", ![c].closer = "ready",
                             ![c].handler = "none"]
        /\ sess' = sess
    BY <1>7 DEF ConnectionLost
  <2>2. \A s \in SubIds : subs'[s].state = "live" => subs'[s] = subs[s]
    BY <1>7 DEF ConnectionLost, TypeInv, TypeOK, Subscription
  <2>3. /\ \A d \in Conns \ {c} : conn'[d] = conn[d]
        /\ conn'[c].created = conn[c].created /\ conn'[c].session = conn[c].session
        /\ conn'[c].replaced = conn[c].replaced
        /\ conn'[c].socket = "lost" /\ conn'[c].handler = "none"
        /\ conn'[c].closer = "ready"
    BY <2>1 DEF TypeInv, TypeOK, Connection
  <2>4. QED
    BY <1>a, <2>1, <2>2, <2>3
<1>8. ASSUME NEW s \in SubIds, StopRuns(s) \/ Expires(s) PROVE LeftInv'
  <2>1. /\ conn' = conn /\ sess' = sess
        /\ \A r \in SubIds : subs'[r].state = "live" => subs'[r] = subs[r]
    BY <1>8 DEF StopRuns, Expires, TypeInv, TypeOK, Subscription
  <2>2. \A n \in SessionIds : Clean(n) => Clean(n)'
    BY <2>1, CleanStays
  <2>3. \A r \in SubIds : subs'[r].state = "live" =>
           subs'[r].owner \in SessionIds /\ sess'[subs'[r].owner] # "none"
    BY <2>1 DEF LeftInv
  <2>4. \A c \in Conns : conn[c].closer = "done" /\ conn[c].session # 0 =>
           Clean(conn[c].session)'
    BY <2>1 DEF LeftInv, Clean
  <2>5. \A c \in Conns : \A n \in conn[c].created \ conn[c].replaced :
           n # conn[c].session => Clean(n)'
    BY <1>0, <2>2 DEF LeftInv
  <2>6. QED
    BY <2>1, <2>3, <2>4, <2>5 DEF LeftInv, Clean
<1>9. CASE UNCHANGED vars
  BY <1>9 DEF vars, LeftInv, Clean
<1>10. QED
  BY <1>1, <1>2, <1>3, <1>4, <1>5, <1>6, <1>7, <1>8, <1>9 DEF Next

\* LeftInv holds throughout.
LEMMA Left == Spec => []LeftInv
<1>1. Init => LeftInv
  BY DEF Init, LeftInv, Clean
<1>2. QED
  BY <1>1, LeftStep, Types, SessionsAssumption, PTL DEF Spec

\* After UaProcessor.close() the service holds no subscription of a session the
\* connection ever had, and no such session is active, the ones excepted that
\* CreateSession replaced in use: whatever the clients do, whichever watchdogs
\* wake up late, and whoever closed the session before.
THEOREM OnlyReplacedRemain == Spec => []OnlyReplacedAreLeft
<1>1. TypeInv /\ LeftInv => OnlyReplacedAreLeft
  <2> SUFFICES ASSUME TypeInv, LeftInv, NEW c \in Conns, conn[c].closer = "done",
                      NEW n \in conn[c].created \ conn[c].replaced
               PROVE  sess[n] # "activated" /\ OwnedBy(n) = {}
    BY DEF OnlyReplacedAreLeft
  <2>1. n # 0
    BY DEF TypeInv, Owns, SessionIds, SessionsAssumption
  <2>2. Clean(n)
    BY <2>1 DEF LeftInv
  <2>3. QED
    BY <2>2 DEF Clean, OwnedBy
<1>2. QED
  BY <1>1, Left, Types, PTL

=============================================================================
