------------------------ MODULE SecureChannelProofs ------------------------
(***************************************************************************)
(* Theorems about SecureChannel, for every lifetime, timeout, delay and    *)
(* limit of the sequence numbers.                                          *)
(***************************************************************************)
EXTENDS SecureChannel, TLAPS

-----------------------------------------------------------------------------
(* Queues.                                                                 *)

\* Append, by length and element.
LEMMA AppendIs ==
    ASSUME NEW q \in Seq(Message), NEW m \in Message
    PROVE  /\ Append(q, m) \in Seq(Message)
           /\ DOMAIN Append(q, m) = DOMAIN q \cup {Len(q) + 1}
           /\ Len(q) + 1 \notin DOMAIN q
           /\ \A i \in DOMAIN q : Append(q, m)[i] = q[i]
           /\ Append(q, m)[Len(q) + 1] = m
OBVIOUS

\* Tail, by length and element.
LEMMA TailIs ==
    ASSUME NEW q \in Seq(Message), q # << >>
    PROVE  /\ Tail(q) \in Seq(Message)
           /\ 1 \in DOMAIN q /\ Head(q) = q[1] /\ Head(q) \in Message
           /\ \A i \in DOMAIN Tail(q) : /\ i \in Nat /\ i >= 1
                                        /\ i + 1 \in DOMAIN q /\ Tail(q)[i] = q[i + 1]
<1>1. Len(q) \in Nat /\ Len(q) >= 1 /\ DOMAIN q = 1 .. Len(q)
  OBVIOUS
<1>2. Tail(q) \in Seq(Message) /\ DOMAIN Tail(q) = 1 .. Len(q) - 1
      /\ \A i \in 1 .. Len(q) - 1 : Tail(q)[i] = q[i + 1]
  OBVIOUS
<1>3. Head(q) = q[1]
  OBVIOUS
<1>4. QED
  BY <1>1, <1>2, <1>3

-----------------------------------------------------------------------------
(* Type correctness.                                                       *)

\* What deriving keys and revolving the tokens leaves alone.
LEMMA MakeKeysIs ==
    ASSUME SecureChannelAssumption, now \in Nat, NEW c \in Connection
    PROVE  /\ MakeKeys(c) \in Connection
           /\ MakeKeys(c).token = c.token /\ MakeKeys(c).next = c.next
           /\ MakeKeys(c).seq = c.seq
<1>1. now + KeyLife \in Nat
  BY DEF SecureChannelAssumption
<1> DEFINE x == now + KeyLife
<1> HIDE DEF x
<1>2. MakeKeys(c) = [c EXCEPT !.prevKey = c.key, !.prevKeyExpiration = c.keyExpiration,
                              !.key = c.nonces, !.keyExpiration = x]
  BY DEF MakeKeys, x
<1>3. c.key \in Nat /\ c.keyExpiration \in Nat /\ c.nonces \in Nat /\ x \in Nat
  BY <1>1 DEF Connection, x
<1>4. QED
  BY <1>2, <1>3 DEF Connection

\* Revolving and dropping an expired key keep the shape of a connection.
LEMMA ConnectionFields ==
    ASSUME SecureChannelAssumption, now \in Nat, NEW c \in Connection
    PROVE  /\ Revolve(c) \in Connection
           /\ Revolve(c).token = c.next /\ Revolve(c).next = NoToken
           /\ Revolve(c).seq = c.seq
           /\ DropExpiredKey(c) \in Connection
           /\ DropExpiredKey(c).token = c.token /\ DropExpiredKey(c).next = c.next
           /\ DropExpiredKey(c).seq = c.seq
<1> DEFINE d == [c EXCEPT !.prev = c.token, !.token = c.next, !.next = NoToken]
<1>1. NoToken \in Token
  BY DEF NoToken, Token
<1>2. d \in Connection /\ d.token = c.next /\ d.next = NoToken /\ d.seq = c.seq
  BY <1>1 DEF Connection
<1>3. Revolve(c) = MakeKeys(d)
  BY DEF Revolve
<1> HIDE DEF d
<1>4. DropExpiredKey(c) \in Connection
      /\ DropExpiredKey(c).token = c.token /\ DropExpiredKey(c).next = c.next
      /\ DropExpiredKey(c).seq = c.seq
  BY DEF DropExpiredKey, Connection
<1>5. QED
  BY <1>2, <1>3, <1>4, MakeKeysIs

\* The connection after decryption keeps its tokens, or has revolved to the next.
LEMMA OpenedIs ==
    ASSUME SecureChannelAssumption, now \in Nat, NEW c \in Connection, NEW m \in Message
    PROVE  /\ Opened(c, m) \in Connection
           /\ Opened(c, m).seq = c.seq
           /\ \/ Opened(c, m).token = c.token /\ Opened(c, m).next = c.next
              \/ /\ m.id # c.token.id /\ m.id = c.next.id /\ m.kind # "OPN"
                 /\ Opened(c, m).token = c.next /\ Opened(c, m).next = NoToken
<1>1. AfterHeader(c, m) \in Connection
      /\ AfterHeader(c, m).seq = c.seq
      /\ \/ AfterHeader(c, m) = c
         \/ /\ m.id # c.token.id /\ m.id = c.next.id
            /\ AfterHeader(c, m).token = c.next /\ AfterHeader(c, m).next = NoToken
  BY ConnectionFields DEF AfterHeader
<1>2. QED
  BY <1>1, ConnectionFields DEF Opened

\* A message that is sent, and the connection after it, have their shape.
LEMMA SentIs ==
    ASSUME SecureChannelAssumption, now \in Nat, NEW c \in Connection,
           c.seq \in 1 .. SeqLimit - 1,
           NEW kind \in {"OPN", "READ", "MSG"}, NEW n \in Nat, NEW t \in Token
    PROVE  /\ Sent(c) \in Connection /\ Sent(c).seq \in 1 .. SeqLimit - 1
           /\ Sent(c).token = c.token /\ Sent(c).next = c.next
           /\ Chunk(c, kind, n, t) \in Message
           /\ Chunk(c, kind, n, t).kind = kind
           /\ Chunk(c, kind, n, t).id = c.token.id
           /\ Chunk(c, kind, n, t).token = t
<1>1. NextSeq(c.seq) \in 1 .. SeqLimit - 1 /\ NextSeq(c.seq) \in Nat
  BY DEF NextSeq, SecureChannelAssumption
<1>2. QED
  BY <1>1 DEF Sent, Chunk, Connection, Message, Token

\* A client about to send has no token left to change to.
LEMMA PreparedIs ==
    ASSUME SecureChannelAssumption, now \in Nat, NEW c \in Connection
    PROVE  /\ Prepared(c) \in Connection /\ Prepared(c).seq = c.seq
           /\ Prepared(c).next.id = 0
           /\ \/ c.next.id = 0 /\ Prepared(c) = c
              \/ c.next.id # 0 /\ Prepared(c).token = c.next
BY ConnectionFields DEF Prepared, NoToken

\* The initial state is well typed.
LEMMA TypeInit == SecureChannelAssumption /\ Init => TypeOK
<1> SUFFICES ASSUME SecureChannelAssumption, Init PROVE TypeOK
  OBVIOUS
<1>1. SeqLimit - 2 \in Nat /\ SeqLimit - 2 \in 1 .. SeqLimit - 1
  BY DEF SecureChannelAssumption
<1>2. Fresh \in Connection /\ Fresh.seq = SeqLimit - 2
  BY <1>1 DEF Fresh, Connection, Token, NoToken, SecureChannelAssumption
<1>3. client \in Connection /\ client.seq = SeqLimit - 2 /\ server = Fresh
  BY <1>2 DEF Init, Connection
<1>4. c2s \in Seq(Message) /\ s2c \in Seq(Message)
  BY DEF Init
<1>5. now \in 0 .. MaxTime
  BY DEF Init, SecureChannelAssumption
<1>6. QED
  BY <1>1, <1>2, <1>3, <1>4, <1>5 DEF Init, TypeOK

\* Sending by the client keeps the types.
LEMMA ClientSendsTypes ==
    ASSUME SecureChannelAssumption, TypeOK,
           NEW kind \in {"OPN", "READ", "MSG"}, NEW n \in Nat, ClientSends(kind, n)
    PROVE  /\ client' \in Connection /\ client'.seq \in 1 .. SeqLimit - 1
           /\ client'.token = Prepared(client).token /\ client'.next.id = 0
           /\ c2s' \in Seq(Message)
           /\ \E m \in Message : /\ c2s' = Append(c2s, m) /\ m.kind = kind
                                 /\ m.id = client'.token.id
<1>1. now \in Nat /\ client \in Connection /\ client.seq \in 1 .. SeqLimit - 1
      /\ c2s \in Seq(Message)
  BY DEF TypeOK
<1>2. Prepared(client) \in Connection /\ Prepared(client).seq = client.seq
      /\ Prepared(client).next.id = 0
  BY <1>1, PreparedIs
<1>3. NoToken \in Token
  BY DEF NoToken, Token
<1> DEFINE c == Prepared(client)
           t == NoToken
           m == Chunk(c, kind, n, t)
<1>4. client' = Sent(c) /\ c2s' = Append(c2s, m) /\ t \in Token
  BY <1>3 DEF ClientSends
<1>5. c \in Connection /\ c.seq \in 1 .. SeqLimit - 1 /\ c.next.id = 0
  BY <1>1, <1>2
<1> HIDE DEF c, t
<1>6. /\ Sent(c) \in Connection /\ Sent(c).seq \in 1 .. SeqLimit - 1
      /\ Sent(c).token = c.token /\ Sent(c).next = c.next
      /\ m \in Message /\ m.kind = kind /\ m.id = c.token.id
  BY <1>1, <1>4, <1>5, SentIs
<1> HIDE DEF m
<1>7. c2s' \in Seq(Message)
  BY <1>1, <1>4, <1>6, AppendIs
<1>8. QED
  BY <1>4, <1>5, <1>6, <1>7 DEF c

\* Sending by the server keeps the types.
LEMMA ServerSendsTypes ==
    ASSUME SecureChannelAssumption, TypeOK,
           NEW c \in Connection, c.seq \in 1 .. SeqLimit - 1,
           NEW kind \in {"OPN", "READ", "MSG"}, NEW n \in Nat, NEW t \in Token,
           ServerSends(c, kind, n, t)
    PROVE  /\ server' \in Connection /\ server'.seq \in 1 .. SeqLimit - 1
           /\ server'.token = c.token /\ server'.next = c.next
           /\ s2c' \in Seq(Message)
           /\ \E m \in Message : /\ s2c' = Append(s2c, m) /\ m.kind = kind
                                 /\ m.id = c.token.id /\ m.token = t
<1>1. now \in Nat /\ s2c \in Seq(Message)
  BY DEF TypeOK
<1> DEFINE m == Chunk(c, kind, n, t)
<1>2. server' = Sent(c) /\ s2c' = Append(s2c, m)
  BY DEF ServerSends
<1>3. /\ Sent(c) \in Connection /\ Sent(c).seq \in 1 .. SeqLimit - 1
      /\ Sent(c).token = c.token /\ Sent(c).next = c.next
      /\ m \in Message /\ m.kind = kind /\ m.id = c.token.id /\ m.token = t
  BY <1>1, SentIs
<1> HIDE DEF m
<1>4. s2c' \in Seq(Message)
  BY <1>1, <1>2, <1>3, AppendIs
<1>5. QED
  BY <1>2, <1>3, <1>4

\* The connection after a message, an answer to a renewal or a renewal.
LEMMA ReceivedIs ==
    ASSUME SecureChannelAssumption, now \in Nat, NEW c \in Connection, NEW m \in Message
    PROVE  /\ Received(c, m) \in Connection /\ Received(c, m).seq = c.seq
           /\ Received(c, m).token = Opened(c, m).token
           /\ Received(c, m).next = Opened(c, m).next
           /\ SetChannel(Received(c, m), m) \in Connection
           /\ SetChannel(Received(c, m), m).seq = c.seq
           /\ SetChannel(Received(c, m), m).token = Opened(c, m).token
           /\ SetChannel(Received(c, m), m).next = m.token
           /\ Open(Received(c, m), m) \in Connection
           /\ Open(Received(c, m), m).seq = c.seq
           /\ Open(Received(c, m), m).token = Opened(c, m).token
           /\ Open(Received(c, m), m).next = [id |-> Opened(c, m).token.id + 1, created |-> now]
<1>1. Opened(c, m) \in Connection /\ Opened(c, m).seq = c.seq
  BY OpenedIs
<1>2. m.seq \in Nat /\ m.token \in Token /\ m.nonces \in Nat
  BY DEF Message
<1> DEFINE r == Received(c, m)
<1>3. /\ r \in Connection /\ r.seq = c.seq
      /\ r.token = Opened(c, m).token /\ r.next = Opened(c, m).next
  BY <1>1, <1>2 DEF Received, Connection
<1> HIDE DEF r
<1>4. /\ SetChannel(r, m) \in Connection /\ SetChannel(r, m).seq = r.seq
      /\ SetChannel(r, m).token = r.token /\ SetChannel(r, m).next = m.token
  BY <1>2, <1>3 DEF SetChannel, Connection
<1>5. [id |-> r.token.id + 1, created |-> now] \in Token
  BY <1>3 DEF Connection, Token
<1> DEFINE t == [id |-> r.token.id + 1, created |-> now]
<1>6. Open(r, m) = [r EXCEPT !.nonces = m.nonces, !.next = t] /\ t \in Token
  BY <1>5 DEF Open
<1> HIDE DEF t
<1>7. /\ Open(r, m) \in Connection /\ Open(r, m).seq = r.seq
      /\ Open(r, m).token = r.token /\ Open(r, m).next = t
  BY <1>2, <1>3, <1>6 DEF Connection
<1>8. QED
  BY <1>3, <1>4, <1>7 DEF r, t

\* Every step keeps the types.
LEMMA TypeStep == SecureChannelAssumption /\ TypeOK /\ [Next]_vars => TypeOK'
<1> SUFFICES ASSUME SecureChannelAssumption, TypeOK, [Next]_vars PROVE TypeOK'
  OBVIOUS
<1>1. now \in Nat /\ client \in Connection /\ server \in Connection
      /\ client.nonces + 1 \in Nat
  BY DEF TypeOK, Connection
<1>2. CASE ClientRequest
  <2>1. client' \in Connection /\ client'.seq \in 1 .. SeqLimit - 1 /\ c2s' \in Seq(Message)
    BY <1>2, ClientSendsTypes DEF ClientRequest
  <2>2. QED
    BY <1>2, <2>1 DEF ClientRequest, TypeOK
<1>3. ASSUME NEW who \in Renewers, Renew(who) PROVE TypeOK'
  <2>1. CASE exchange = "none"
    <3>1. ClientSends("OPN", client.nonces + 1)
      BY <1>3, <2>1 DEF Renew
    <3>2. client' \in Connection /\ client'.seq \in 1 .. SeqLimit - 1 /\ c2s' \in Seq(Message)
      BY <1>1, <3>1, ClientSendsTypes
    <3>3. QED
      BY <1>1, <1>3, <2>1, <3>2 DEF Renew, TypeOK
  <2>2. CASE exchange # "none"
    BY <1>3, <2>2 DEF Renew, TypeOK
  <2>3. QED
    BY <2>1, <2>2
<1>4. CASE RenewReturns
  <2>1. CASE waiter = "loop"
    <3>1. client' \in Connection /\ client'.seq \in 1 .. SeqLimit - 1 /\ c2s' \in Seq(Message)
      BY <1>4, <2>1, ClientSendsTypes DEF RenewReturns
    <3>2. QED
      BY <1>1, <1>4, <2>1, <3>1 DEF RenewReturns, TypeOK
  <2>2. CASE waiter # "loop"
    BY <1>4, <2>2 DEF RenewReturns, TypeOK
  <2>3. QED
    BY <2>1, <2>2
<1>5. CASE RenewTimesOut \/ ReadTimesOut
  <2>1. UNCHANGED <<client, server, c2s, s2c, exchange, since, rejected, now>>
    BY <1>5 DEF RenewTimesOut, ReadTimesOut
  <2>2. /\ waiter' \in {"none"} \cup Renewers /\ asked' \in Nat
        /\ loop' \in {"asleep", "renewing", "reading", "failed"}
    BY <1>5 DEF RenewTimesOut, ReadTimesOut, TypeOK
  <2>3. QED
    BY <2>1, <2>2 DEF TypeOK
<1>6. CASE ClientReceives
  <2> DEFINE m == Head(s2c)
  <2>1. m \in Message /\ s2c' \in Seq(Message)
    BY <1>6, TailIs DEF ClientReceives, TypeOK
  <2>2. client' \in {Opened(client, m), SetChannel(Received(client, m), m), Received(client, m)}
    BY <1>6 DEF ClientReceives
  <2>3. client' \in Connection /\ client'.seq = client.seq
    <3> HIDE DEF m
    <3>1. CASE client' = Opened(client, m)
      BY <1>1, <2>1, <3>1, OpenedIs
    <3>2. CASE client' = SetChannel(Received(client, m), m)
      BY <1>1, <2>1, <3>2, ReceivedIs
    <3>3. CASE client' = Received(client, m)
      BY <1>1, <2>1, <3>3, ReceivedIs
    <3>4. QED
      BY <2>2, <3>1, <3>2, <3>3
  <2> HIDE DEF m
  <2>4. QED
    BY <1>1, <1>6, <2>1, <2>3 DEF ClientReceives, TypeOK
<1>7. CASE ServerReceives
  <2> DEFINE m == Head(c2s)
  <2>1. m \in Message /\ c2s' \in Seq(Message) /\ m.nonces \in Nat
        /\ m.kind \in {"OPN", "READ", "MSG"}
    BY <1>7, TailIs DEF ServerReceives, TypeOK, Message
  <2>2. NoToken \in Token /\ [id |-> server.token.id + 1, created |-> now] \in Token
    BY <1>1 DEF NoToken, Token, Connection
  <2>3. /\ server' \in Connection /\ server'.seq \in 1 .. SeqLimit - 1
        /\ s2c' \in Seq(Message)
    <3>1. CASE server' = Opened(server, m) /\ s2c' = s2c
      BY <1>1, <2>1, <3>1, OpenedIs DEF TypeOK
    <3>2. CASE ServerSends(Open(Received(server, m), m), "OPN", m.nonces,
                           [id |-> server.token.id + 1, created |-> now])
      <4>1. Open(Received(server, m), m) \in Connection
            /\ Open(Received(server, m), m).seq \in 1 .. SeqLimit - 1
        BY <1>1, <2>1, ReceivedIs DEF TypeOK
      <4> HIDE DEF m
      <4>2. QED
        BY <2>1, <2>2, <3>2, <4>1, ServerSendsTypes
    <3>3. CASE ServerSends(Received(server, m), m.kind, 0, NoToken)
      <4>1. Received(server, m) \in Connection /\ Received(server, m).seq \in 1 .. SeqLimit - 1
        BY <1>1, <2>1, ReceivedIs DEF TypeOK
      <4> HIDE DEF m
      <4>2. QED
        BY <2>1, <2>2, <3>3, <4>1, ServerSendsTypes
    <3>4. QED
      BY <1>7, <3>1, <3>2, <3>3 DEF ServerReceives
  <2> HIDE DEF m
  <2>4. UNCHANGED <<client, exchange, waiter, loop, since, asked, now>>
        /\ rejected' \in {rejected, rejected \cup {"server"}}
    BY <1>7 DEF ServerReceives
  <2>5. QED
    BY <2>1, <2>3, <2>4 DEF TypeOK
<1>8. CASE ServerPublishes
  <2>1. NoToken \in Token /\ server.seq \in 1 .. SeqLimit - 1
    BY DEF NoToken, Token, TypeOK
  <2>2. server' \in Connection /\ server'.seq \in 1 .. SeqLimit - 1 /\ s2c' \in Seq(Message)
    BY <1>1, <1>8, <2>1, ServerSendsTypes DEF ServerPublishes
  <2>3. QED
    BY <1>8, <2>2 DEF ServerPublishes, TypeOK
<1>9. CASE Tick
  BY <1>9 DEF Tick, TypeOK, SecureChannelAssumption
<1>10. CASE UNCHANGED vars
  BY <1>10 DEF vars, TypeOK
<1>11. QED
  BY <1>2, <1>3, <1>4, <1>5, <1>6, <1>7, <1>8, <1>9, <1>10 DEF Next

\* The tokens, keys and messages keep their shape, and a sequence number that
\* is sent is at least 1 and below SeqLimit, so that it fits its 32 bits.
THEOREM TypeCorrect == Spec => []TypeOK
BY SecureChannelAssumption, TypeInit, TypeStep, PTL DEF Spec

-----------------------------------------------------------------------------
(* Who changes to a new token first.                                       *)

IsOpn(q, i) == i \in DOMAIN q /\ q[i].kind = "OPN"

\* The tokens of the two sides and of what is under way are at most one apart,
\* and neither side is offered a token older than the one it has.
TokenIds ==
    /\ 1 <= server.token.id /\ server.token.id <= client.token.id
    /\ client.token.id <= server.token.id + 1
    /\ client.next.id # 0 =>
            client.token.id <= client.next.id /\ client.next.id <= server.token.id + 1
    /\ server.next.id \in {0, server.token.id + 1}

MessageIds ==
    /\ \A i \in DOMAIN c2s : 1 <= c2s[i].id /\ c2s[i].id <= client.token.id
    /\ \A i \in DOMAIN s2c : 1 <= s2c[i].id /\ s2c[i].id <= client.token.id
    /\ \A i \in DOMAIN s2c : s2c[i].kind = "OPN" =>
            /\ client.token.id <= s2c[i].token.id
            /\ s2c[i].token.id <= server.token.id + 1

\* One renewal at a time: its request or its response is under way while the
\* client keeps the parameters, and has no other token to change to.
OneRenewal ==
    /\ \A i : IsOpn(c2s, i) =>
            /\ exchange = "params" /\ client.next.id = 0
            /\ \A j : IsOpn(c2s, j) => i = j
            /\ \A j : ~IsOpn(s2c, j)
    /\ \A i : IsOpn(s2c, i) =>
            /\ exchange = "params" /\ client.next.id = 0
            /\ \A j : IsOpn(s2c, j) => i = j

IdInv == TypeOK /\ TokenIds /\ MessageIds /\ OneRenewal

\* The OPN messages of a queue after a message was added.
LEMMA OpnOfAppend ==
    ASSUME NEW q \in Seq(Message), NEW m \in Message, NEW i
    PROVE  IsOpn(Append(q, m), i) <=> IsOpn(q, i) \/ (i = Len(q) + 1 /\ m.kind = "OPN")
BY AppendIs DEF IsOpn

\* The OPN messages of a queue after its first was taken.
LEMMA OpnOfTail ==
    ASSUME NEW q \in Seq(Message), q # << >>, NEW i, IsOpn(Tail(q), i)
    PROVE  i \in Nat /\ i >= 1 /\ IsOpn(q, i + 1)
BY TailIs DEF IsOpn

\* Tokens of both ends and of the messages have numbers for ids.
LEMMA TokenTypes ==
    ASSUME TypeOK
    PROVE  /\ client.token.id \in Nat /\ client.next.id \in Nat
           /\ server.token.id \in Nat /\ server.next.id \in Nat
           /\ \A i \in DOMAIN c2s : c2s[i] \in Message /\ c2s[i].id \in Nat
           /\ \A i \in DOMAIN s2c : /\ s2c[i] \in Message /\ s2c[i].id \in Nat
                                    /\ s2c[i].token.id \in Nat
<1>1. \A i \in DOMAIN c2s : c2s[i] \in Message
  BY DEF TypeOK
<1>2. \A i \in DOMAIN s2c : s2c[i] \in Message
  BY DEF TypeOK
<1>3. QED
  BY <1>1, <1>2 DEF TypeOK, Connection, Token, Message

\* What the client sends, under its token or the next, keeps the order of the ids.
LEMMA ClientSendsIds ==
    ASSUME SecureChannelAssumption, IdInv,
           NEW kind \in {"OPN", "READ", "MSG"}, NEW n \in Nat, ClientSends(kind, n),
           UNCHANGED <<server, s2c>>,
           kind = "OPN" => exchange = "none" /\ exchange' = "params",
           kind # "OPN" => exchange' = exchange \/ exchange # "params"
    PROVE  TokenIds' /\ MessageIds' /\ OneRenewal'
<1>1. /\ client' \in Connection /\ client'.token = Prepared(client).token /\ client'.next.id = 0
      /\ \E m \in Message : /\ c2s' = Append(c2s, m) /\ m.kind = kind
                            /\ m.id = client'.token.id
  BY ClientSendsTypes DEF IdInv
<1>2. PICK m \in Message : c2s' = Append(c2s, m) /\ m.kind = kind /\ m.id = client'.token.id
  BY <1>1
<1>3. \/ client.next.id = 0 /\ client'.token = client.token
      \/ client.next.id # 0 /\ client'.token = client.next
  BY <1>1, PreparedIs DEF IdInv, TypeOK
<1>4. c2s \in Seq(Message) /\ s2c \in Seq(Message)
  BY DEF IdInv, TypeOK
<1>5. /\ client.token.id \in Nat /\ client.next.id \in Nat /\ client'.token.id \in Nat
      /\ server.token.id \in Nat
      /\ client.token.id <= client'.token.id
  BY <1>1, <1>3, TokenTypes DEF IdInv, TokenIds, Connection, Token
<1>6. TokenIds'
  BY <1>1, <1>3, <1>5 DEF IdInv, TokenIds
<1>7. MessageIds'
  <2>1. \A i \in DOMAIN c2s' : 1 <= c2s'[i].id /\ c2s'[i].id <= client'.token.id
    <3>1. \A i \in DOMAIN c2s : c2s[i].id \in Nat
      BY TokenTypes DEF IdInv
    <3>2. \A i \in DOMAIN c2s : 1 <= c2s[i].id /\ c2s[i].id <= client'.token.id
      BY <1>5, <3>1 DEF IdInv, MessageIds
    <3>3. 1 <= m.id /\ m.id <= client'.token.id
      BY <1>2, <1>5 DEF IdInv, TokenIds
    <3>4. QED
      BY <1>2, <1>4, <3>2, <3>3, AppendIs
  <2>2. \A i \in DOMAIN s2c : 1 <= s2c[i].id /\ s2c[i].id <= client'.token.id
    <3>1. \A i \in DOMAIN s2c : s2c[i].id \in Nat
      BY TokenTypes DEF IdInv
    <3>2. QED
      BY <1>5, <3>1 DEF IdInv, MessageIds
  <2>3. \A i \in DOMAIN s2c : s2c[i].kind = "OPN" =>
            client'.token.id <= s2c[i].token.id /\ s2c[i].token.id <= server.token.id + 1
    BY <1>3 DEF IdInv, MessageIds, OneRenewal, IsOpn
  <2>4. QED
    BY <2>1, <2>2, <2>3 DEF MessageIds
<1>8. OneRenewal'
  <2>1. CASE kind # "OPN"
    <3>1. \A i : IsOpn(c2s', i) <=> IsOpn(c2s, i)
      BY <1>2, <1>4, <2>1, OpnOfAppend
    <3>2. \A i : IsOpn(c2s, i) \/ IsOpn(s2c, i) => exchange' = "params"
      BY <2>1 DEF IdInv, OneRenewal
    <3>3. QED
      BY <1>1, <3>1, <3>2 DEF IdInv, OneRenewal
  <2>2. CASE kind = "OPN"
    <3>1. \A i : ~IsOpn(c2s, i) /\ ~IsOpn(s2c, i)
      BY <2>2 DEF IdInv, OneRenewal
    <3>2. \A i : IsOpn(c2s', i) => i = Len(c2s) + 1
      BY <1>2, <1>4, <3>1, OpnOfAppend
    <3>3. QED
      BY <1>1, <2>2, <3>1, <3>2 DEF OneRenewal
  <2>3. QED
    BY <2>1, <2>2
<1>9. QED
  BY <1>6, <1>7, <1>8

\* The server never changes to a token before the client does, so what it
\* sends never makes the client change.
LEMMA ClientReceivesIds ==
    ASSUME SecureChannelAssumption, IdInv, ClientReceives
    PROVE  TokenIds' /\ MessageIds' /\ OneRenewal'
<1> DEFINE m == Head(s2c)
<1>1. s2c # << >> /\ s2c' = Tail(s2c) /\ UNCHANGED <<server, c2s>>
  BY DEF ClientReceives
<1>2. /\ s2c \in Seq(Message) /\ 1 \in DOMAIN s2c /\ m = s2c[1] /\ m \in Message
      /\ \A i \in DOMAIN Tail(s2c) : i \in Nat /\ i >= 1 /\ i + 1 \in DOMAIN s2c
                                     /\ Tail(s2c)[i] = s2c[i + 1]
  BY <1>1, TailIs DEF IdInv, TypeOK
<1>3. client \in Connection /\ now \in Nat
  BY DEF IdInv, TypeOK
<1>4. Opened(client, m).token = client.token /\ Opened(client, m).next = client.next
  <2>1. ~ (m.id # client.token.id /\ m.id = client.next.id)
    <3>1. m.id \in Nat /\ client.token.id \in Nat /\ client.next.id \in Nat
      BY <1>2, TokenTypes DEF IdInv
    <3>2. 1 <= m.id /\ m.id <= client.token.id
      BY <1>2 DEF IdInv, MessageIds
    <3>3. client.next.id = 0 \/ client.token.id <= client.next.id
      BY DEF IdInv, TokenIds
    <3>4. QED
      BY <3>1, <3>2, <3>3
  <2>2. QED
    BY <1>2, <1>3, <2>1, OpenedIs
<1>5. \/ /\ client'.token = client.token /\ client'.next = client.next
         /\ exchange' = exchange
      \/ /\ client'.token = client.token /\ client'.next = m.token
         /\ m.kind = "OPN"
  <2>1. \/ client' \in {Opened(client, m), Received(client, m)} /\ exchange' = exchange
        \/ client' = SetChannel(Received(client, m), m) /\ m.kind = "OPN"
    BY DEF ClientReceives
  <2>2. /\ Received(client, m).token = client.token /\ Received(client, m).next = client.next
        /\ SetChannel(Received(client, m), m).token = client.token
        /\ SetChannel(Received(client, m), m).next = m.token
    BY <1>2, <1>3, <1>4, ReceivedIs
  <2>3. QED
    BY <1>4, <2>1, <2>2
<1> HIDE DEF m
<1>6. m.kind = "OPN" => client.token.id <= m.token.id /\ m.token.id <= server.token.id + 1
  BY <1>2 DEF IdInv, MessageIds
<1>7. TokenIds'
  BY <1>1, <1>5, <1>6 DEF IdInv, TokenIds
<1>8. MessageIds'
  BY <1>1, <1>2, <1>5 DEF IdInv, MessageIds
<1>9. OneRenewal'
  <2>1. \A i : IsOpn(s2c', i) => i \in Nat /\ i >= 1 /\ IsOpn(s2c, i + 1)
    BY <1>1, <1>2, OpnOfTail
  <2>2. CASE m.kind = "OPN"
    <3>1. IsOpn(s2c, 1)
      BY <1>2, <2>2 DEF IsOpn
    <3>2. \A i : ~IsOpn(c2s, i)
      BY <3>1 DEF IdInv, OneRenewal
    <3>3. \A i : IsOpn(s2c, i) => i = 1
      BY <3>1 DEF IdInv, OneRenewal
    <3>4. \A i : ~IsOpn(s2c', i)
      BY <2>1, <3>3
    <3>5. QED
      BY <1>1, <3>2, <3>4 DEF OneRenewal
  <2>3. CASE m.kind # "OPN"
    <3>1. client'.next = client.next /\ exchange' = exchange
      BY <1>5, <2>3
    <3>2. ASSUME NEW i, IsOpn(s2c', i)
          PROVE  /\ exchange = "params" /\ client.next.id = 0
                 /\ \A j : IsOpn(s2c', j) => i = j
      <4>1. i \in Nat /\ IsOpn(s2c, i + 1)
        BY <2>1, <3>2
      <4>2. \A j : IsOpn(s2c', j) => j \in Nat /\ i + 1 = j + 1
        BY <2>1, <4>1 DEF IdInv, OneRenewal
      <4>3. \A j : IsOpn(s2c', j) => i = j
        BY <4>1, <4>2
      <4>4. QED
        BY <4>1, <4>3 DEF IdInv, OneRenewal
    <3>3. \A i : IsOpn(c2s, i) => \A j : ~IsOpn(s2c', j)
      BY <2>1 DEF IdInv, OneRenewal
    <3>4. QED
      BY <1>1, <3>1, <3>2, <3>3 DEF IdInv, OneRenewal
  <2>4. QED
    BY <2>2, <2>3
<1>10. QED
  BY <1>7, <1>8, <1>9

\* The server changes its token only when a message of the client shows that
\* the client has.
LEMMA ServerReceivesIds ==
    ASSUME SecureChannelAssumption, IdInv, ServerReceives
    PROVE  TokenIds' /\ MessageIds' /\ OneRenewal'
<1> DEFINE m == Head(c2s)
<1>1. c2s # << >> /\ c2s' = Tail(c2s) /\ UNCHANGED <<client, exchange>>
  BY DEF ServerReceives
<1>2. /\ c2s \in Seq(Message) /\ 1 \in DOMAIN c2s /\ m = c2s[1] /\ m \in Message
      /\ \A i \in DOMAIN Tail(c2s) : i \in Nat /\ i >= 1 /\ i + 1 \in DOMAIN c2s
                                     /\ Tail(c2s)[i] = c2s[i + 1]
  BY <1>1, TailIs DEF IdInv, TypeOK
<1>3. /\ server \in Connection /\ now \in Nat /\ server.seq \in 1 .. SeqLimit - 1
      /\ TypeOK /\ s2c \in Seq(Message)
  BY DEF IdInv, TypeOK
<1>4. /\ m.kind \in {"OPN", "READ", "MSG"} /\ m.nonces \in Nat
      /\ NoToken \in Token /\ NoToken.id = 0
      /\ [id |-> server.token.id + 1, created |-> now] \in Token
  <2>1. m.kind \in {"OPN", "READ", "MSG"} /\ m.nonces \in Nat
    BY <1>2 DEF Message
  <2>2. NoToken \in Token /\ NoToken.id = 0
    BY DEF NoToken, Token
  <2>3. [id |-> server.token.id + 1, created |-> now] \in Token
    BY <1>3 DEF Token, Connection
  <2>4. QED
    BY <2>1, <2>2, <2>3
<1> DEFINE o == Opened(server, m)
           nt == [id |-> server.token.id + 1, created |-> now]
<1>5. \/ o.token = server.token /\ o.next = server.next
      \/ /\ m.id # server.token.id /\ m.id = server.next.id /\ m.kind # "OPN"
         /\ o.token = server.next /\ o.next = NoToken
  BY <1>2, <1>3, OpenedIs
<1>6. \/ /\ server'.token = o.token /\ server'.next = o.next
         /\ \/ s2c' = s2c
            \/ \E r \in Message : /\ s2c' = Append(s2c, r) /\ r.kind # "OPN"
                                  /\ r.id = o.token.id
      \/ /\ m.kind = "OPN" /\ server'.token = o.token
         /\ server'.next.id = o.token.id + 1
         /\ \E r \in Message : /\ s2c' = Append(s2c, r) /\ r.kind = "OPN"
                               /\ r.id = o.token.id /\ r.token = nt
  <2>1. CASE server' = Opened(server, m) /\ s2c' = s2c
    BY <2>1
  <2>2. CASE /\ m.kind = "OPN"
             /\ ServerSends(Open(Received(server, m), m), "OPN", m.nonces, nt)
    <3> DEFINE c == Open(Received(server, m), m)
    <3>1. /\ c \in Connection /\ c.seq \in 1 .. SeqLimit - 1
          /\ c.token = o.token /\ c.next.id = o.token.id + 1
      <4>1. /\ c \in Connection /\ c.seq = server.seq /\ c.token = o.token
            /\ c.next = [id |-> o.token.id + 1, created |-> now]
        BY <1>2, <1>3, ReceivedIs
      <4> HIDE DEF c, o
      <4>2. QED
        BY <1>3, <4>1
    <3> HIDE DEF c, m, nt
    <3>2. ServerSends(c, "OPN", m.nonces, nt) /\ nt \in Token
      BY <1>4, <2>2 DEF c, nt
    <3>3. /\ server'.token = c.token /\ server'.next = c.next
          /\ \E r \in Message : /\ s2c' = Append(s2c, r) /\ r.kind = "OPN"
                                /\ r.id = c.token.id /\ r.token = nt
      BY <1>3, <1>4, <3>1, <3>2, ServerSendsTypes
    <3>4. QED
      BY <2>2, <3>1, <3>3
  <2>3. CASE /\ m.kind # "OPN"
             /\ ServerSends(Received(server, m), m.kind, 0, NoToken)
    <3> DEFINE c == Received(server, m)
    <3>1. /\ c \in Connection /\ c.seq \in 1 .. SeqLimit - 1
          /\ c.token = o.token /\ c.next = o.next
      BY <1>2, <1>3, ReceivedIs
    <3> HIDE DEF c, m
    <3>2. ServerSends(c, m.kind, 0, NoToken)
      BY <2>3 DEF c
    <3>3. /\ server'.token = c.token /\ server'.next = c.next
          /\ \E r \in Message : /\ s2c' = Append(s2c, r) /\ r.kind = m.kind
                                /\ r.id = c.token.id /\ r.token = NoToken
      BY <1>3, <1>4, <3>1, <3>2, ServerSendsTypes
    <3>4. QED
      BY <2>3, <3>1, <3>3
  <2>4. QED
    BY <2>1, <2>2, <2>3 DEF ServerReceives
<1>7. /\ m.id \in Nat /\ client.token.id \in Nat /\ client.next.id \in Nat
      /\ server.token.id \in Nat /\ server.next.id \in Nat
      /\ 1 <= m.id /\ m.id <= client.token.id
  BY <1>2, TokenTypes DEF IdInv, MessageIds
<1> HIDE DEF m, o
<1>8. /\ o.token.id \in Nat /\ server.token.id <= o.token.id
      /\ o.token.id <= client.token.id
      /\ o.next.id \in {0, o.token.id + 1}
      /\ m.kind = "OPN" => o.token = server.token
  BY <1>4, <1>5, <1>7 DEF IdInv, TokenIds
<1>9. TokenIds'
  <2>1. server'.token = o.token /\ server'.next.id \in {0, o.token.id + 1}
    BY <1>6, <1>8
  <2>2. QED
    BY <1>1, <1>7, <1>8, <2>1 DEF IdInv, TokenIds
<1>10. nt.id = server.token.id + 1
  OBVIOUS
<1> HIDE DEF nt
<1>11. /\ server'.token.id = o.token.id
       /\ \/ s2c' = s2c
          \/ \E r \in Message :
                /\ s2c' = Append(s2c, r) /\ r.id = o.token.id
                /\ r.kind = "OPN" => m.kind = "OPN" /\ r.token.id = server.token.id + 1
  BY <1>6, <1>10
<1>12. MessageIds'
  <2>1. \A i \in DOMAIN c2s' : 1 <= c2s'[i].id /\ c2s'[i].id <= client.token.id
    BY <1>1, <1>2 DEF IdInv, MessageIds
  <2>2. \A i \in DOMAIN s2c :
            /\ 1 <= s2c[i].id /\ s2c[i].id <= client.token.id
            /\ s2c[i].kind = "OPN" => /\ client.token.id <= s2c[i].token.id
                                      /\ s2c[i].token.id <= o.token.id + 1
    <3>1. \A i \in DOMAIN s2c : s2c[i].token.id \in Nat
      BY <1>3, TokenTypes
    <3>2. QED
      BY <1>7, <1>8, <3>1 DEF IdInv, MessageIds
  <2>3. ASSUME NEW r \in Message, s2c' = Append(s2c, r), r.id = o.token.id,
               r.kind = "OPN" => m.kind = "OPN" /\ r.token.id = server.token.id + 1
        PROVE  \A i \in DOMAIN s2c' :
            /\ 1 <= s2c'[i].id /\ s2c'[i].id <= client.token.id
            /\ s2c'[i].kind = "OPN" => /\ client.token.id <= s2c'[i].token.id
                                       /\ s2c'[i].token.id <= o.token.id + 1
    <3>1. /\ 1 <= r.id /\ r.id <= client.token.id
          /\ r.kind = "OPN" => /\ client.token.id <= r.token.id
                               /\ r.token.id <= o.token.id + 1
      BY <1>7, <1>8, <2>3 DEF IdInv, TokenIds
    <3>2. QED
      BY <1>3, <2>2, <2>3, <3>1, AppendIs
  <2>4. QED
    BY <1>1, <1>11, <2>1, <2>2, <2>3 DEF MessageIds
<1>13. OneRenewal'
  <2>1. \A i : IsOpn(c2s', i) => i \in Nat /\ i >= 1 /\ IsOpn(c2s, i + 1)
    BY <1>1, <1>2, OpnOfTail
  <2>2. CASE m.kind = "OPN"
    <3>1. IsOpn(c2s, 1)
      BY <1>2, <2>2 DEF IsOpn
    <3>2. /\ \A i : ~IsOpn(s2c, i) /\ \A j : IsOpn(c2s, j) => j = 1
          /\ exchange = "params" /\ client.next.id = 0
      BY <3>1 DEF IdInv, OneRenewal
    <3>3. \A i : ~IsOpn(c2s', i)
      BY <2>1, <3>2
    <3>4. \A i : IsOpn(s2c', i) => i = Len(s2c) + 1
      <4>1. CASE s2c' = s2c
        BY <3>2, <4>1
      <4>2. ASSUME NEW r \in Message, s2c' = Append(s2c, r)
            PROVE  \A i : IsOpn(s2c', i) => i = Len(s2c) + 1
        BY <1>3, <3>2, <4>2, OpnOfAppend
      <4>3. QED
        BY <1>11, <4>1, <4>2
    <3>5. QED
      BY <1>1, <3>2, <3>3, <3>4 DEF OneRenewal
  <2>3. CASE m.kind # "OPN"
    <3>1. \A i : IsOpn(s2c', i) <=> IsOpn(s2c, i)
      <4>1. CASE s2c' = s2c
        BY <4>1
      <4>2. ASSUME NEW r \in Message, s2c' = Append(s2c, r), r.kind # "OPN"
            PROVE  \A i : IsOpn(s2c', i) <=> IsOpn(s2c, i)
        BY <1>3, <4>2, OpnOfAppend
      <4>3. QED
        BY <1>11, <2>3, <4>1, <4>2
    <3>2. ASSUME NEW i, IsOpn(c2s', i)
          PROVE  /\ exchange = "params" /\ client.next.id = 0
                 /\ \A j : IsOpn(c2s', j) => i = j
                 /\ \A j : ~IsOpn(s2c, j)
      <4>1. i \in Nat /\ IsOpn(c2s, i + 1)
        BY <2>1, <3>2
      <4>2. \A j : IsOpn(c2s', j) => j \in Nat /\ i + 1 = j + 1
        BY <2>1, <4>1 DEF IdInv, OneRenewal
      <4>3. \A j : IsOpn(c2s', j) => i = j
        BY <4>1, <4>2
      <4>4. QED
        BY <4>1, <4>3 DEF IdInv, OneRenewal
    <3>3. QED
      BY <1>1, <3>1, <3>2 DEF IdInv, OneRenewal
  <2>4. QED
    BY <2>2, <2>3
<1>14. QED
  BY <1>9, <1>12, <1>13

\* A publish response keeps the order of the token ids.
LEMMA ServerPublishesIds ==
    ASSUME SecureChannelAssumption, IdInv, ServerPublishes
    PROVE  TokenIds' /\ MessageIds' /\ OneRenewal'
<1>1. /\ server \in Connection /\ server.seq \in 1 .. SeqLimit - 1
      /\ TypeOK /\ s2c \in Seq(Message) /\ NoToken \in Token
  BY DEF IdInv, TypeOK, NoToken, Token
<1>2. UNCHANGED <<client, c2s, exchange>> /\ ServerSends(server, "MSG", 0, NoToken)
  BY DEF ServerPublishes
<1>3. /\ server'.token = server.token /\ server'.next = server.next
      /\ \E r \in Message : /\ s2c' = Append(s2c, r) /\ r.kind = "MSG"
                            /\ r.id = server.token.id /\ r.token = NoToken
  BY <1>1, <1>2, ServerSendsTypes
<1>4. PICK r \in Message : /\ s2c' = Append(s2c, r) /\ r.kind = "MSG"
                           /\ r.id = server.token.id
  BY <1>3
<1>5. TokenIds'
  BY <1>2, <1>3 DEF IdInv, TokenIds
<1>6. MessageIds'
  <2>1. 1 <= r.id /\ r.id <= client.token.id
    BY <1>4 DEF IdInv, TokenIds
  <2>2. QED
    BY <1>1, <1>2, <1>3, <1>4, <2>1, AppendIs DEF IdInv, MessageIds
<1>7. OneRenewal'
  <2>1. \A i : IsOpn(s2c', i) <=> IsOpn(s2c, i)
    BY <1>1, <1>4, OpnOfAppend
  <2>2. QED
    BY <1>2, <2>1 DEF IdInv, OneRenewal
<1>8. QED
  BY <1>5, <1>6, <1>7

\* The initial state has IdInv.
LEMMA IdInit == SecureChannelAssumption /\ Init => IdInv
<1> SUFFICES ASSUME SecureChannelAssumption, Init PROVE IdInv
  OBVIOUS
<1>1. TypeOK
  BY TypeInit
<1>2. TokenIds
  BY DEF Init, TokenIds, Fresh, NoToken
<1>3. MessageIds /\ OneRenewal
  BY DEF Init, MessageIds, OneRenewal, IsOpn
<1>4. QED
  BY <1>1, <1>2, <1>3 DEF IdInv

\* Every step keeps IdInv.
LEMMA IdStep == SecureChannelAssumption /\ IdInv /\ [Next]_vars => IdInv'
<1> SUFFICES ASSUME SecureChannelAssumption, IdInv, [Next]_vars
             PROVE  TokenIds' /\ MessageIds' /\ OneRenewal'
  BY TypeStep DEF IdInv
<1>1. CASE ClientRequest
  BY <1>1, ClientSendsIds DEF ClientRequest
<1>2. ASSUME NEW who \in Renewers, Renew(who) PROVE TokenIds' /\ MessageIds' /\ OneRenewal'
  <2>1. CASE exchange = "none"
    <3>1. client.nonces + 1 \in Nat
      BY DEF IdInv, TypeOK, Connection
    <3>2. ClientSends("OPN", client.nonces + 1) /\ exchange' = "params"
          /\ UNCHANGED <<server, s2c>>
      BY <1>2, <2>1 DEF Renew
    <3>3. QED
      BY <2>1, <3>1, <3>2, ClientSendsIds
  <2>2. CASE exchange # "none"
    <3>1. UNCHANGED <<client, server, c2s, s2c, exchange>>
      BY <1>2, <2>2 DEF Renew
    <3>2. QED
      BY <3>1 DEF IdInv, TokenIds, MessageIds, OneRenewal
  <2>3. QED
    BY <2>1, <2>2
<1>3. CASE RenewReturns
  <2>1. CASE waiter = "loop"
    <3>1. ClientSends("READ", 0) /\ exchange # "params" /\ UNCHANGED <<server, s2c>>
      BY <1>3, <2>1 DEF RenewReturns
    <3>2. QED
      BY <3>1, ClientSendsIds
  <2>2. CASE waiter # "loop"
    <3>1. UNCHANGED <<client, server, c2s, s2c>> /\ exchange # "params"
      BY <1>3, <2>2 DEF RenewReturns
    <3>2. QED
      BY <3>1 DEF IdInv, TokenIds, MessageIds, OneRenewal
  <2>3. QED
    BY <2>1, <2>2
<1>4. CASE RenewTimesOut \/ ReadTimesOut \/ Tick \/ UNCHANGED vars
  <2>1. UNCHANGED <<client, server, c2s, s2c, exchange>>
    BY <1>4 DEF RenewTimesOut, ReadTimesOut, Tick, vars
  <2>2. QED
    BY <2>1 DEF IdInv, TokenIds, MessageIds, OneRenewal
<1>5. QED
  BY <1>1, <1>2, <1>3, <1>4, ClientReceivesIds, ServerReceivesIds, ServerPublishesIds DEF Next

\* The server secures nothing with a token before the client has: through
\* renewals by the loop and by the application, requests that time out, tokens
\* that are offered twice and messages that are rejected.
THEOREM ServerFollows == Spec => []ClientRevolvesFirst
<1>1. IdInv => ClientRevolvesFirst
  BY DEF IdInv, TokenIds, MessageIds, ClientRevolvesFirst
<1>2. QED
  BY <1>1, SecureChannelAssumption, IdInit, IdStep, PTL DEF Spec

-----------------------------------------------------------------------------
(* No message is rejected, where only the loop renews and the network is   *)
(* fast enough for the margins of the code: it renews at 75 % of the       *)
(* lifetime, and the old token is good for 125 %.                          *)

LoopRenews == Renewers = {"loop"}

FastNetwork ==
    /\ 20 * MaxDelay <= Lifetime
    /\ 24 * MaxDelay + 3 * Lifetime <= 4 * KeyLife

\* Queues keep the order of sending, and their messages arrive in time.
Timely(q) ==
    \A i \in DOMAIN q : /\ q[i].sent <= now /\ now <= q[i].sent + MaxDelay
                        /\ \A j \in DOMAIN q : i <= j => q[i].sent <= q[j].sent

\* The numbers of q lead from p, the last that was received, to n, the last
\* that was sent.
Chained(q, p, n) ==
    /\ p \in 1 .. SeqLimit - 1
    /\ \A i \in DOMAIN q : q[i].seq = NextSeq(IF i = 1 THEN p ELSE q[i - 1].seq)
    /\ n = IF q = << >> THEN p ELSE q[Len(q)].seq

Chains ==
    /\ Chained(c2s, server.peerSeq, client.seq)
    /\ Chained(s2c, client.peerSeq, server.seq)

\* The message is secured with the token and the key of c.
Under(c, m) == m.id = c.token.id /\ m.key = c.key

AllUnder(c, q) == \A i \in DOMAIN q : Under(c, q[i])

\* After a message under the token of c come no others.
OnlyThen(c, q) == \A i, j \in DOMAIN q : i <= j /\ Under(c, q[i]) => Under(c, q[j])

\* When c revolved last.
Made(c) == c.keyExpiration - KeyLife

\* The previous token and key of c are good until no message under them can be
\* on its way any more.
Window(c) ==
    /\ c.prev.id # 0 /\ c.prevKey # 0
    /\ 4 * (Made(c) + 2 * MaxDelay) <= 4 * c.prev.created + 5 * Lifetime
    /\ Made(c) + 2 * MaxDelay <= c.prevKeyExpiration

\* A message under the previous token of c.
Late(c, m) ==
    /\ m.id = c.prev.id /\ m.key = c.prevKey
    /\ m.sent <= Made(c) + MaxDelay /\ Window(c)

Opens(q) == {i \in DOMAIN q : q[i].kind = "OPN"}

Reading(q) == {i \in DOMAIN q : q[i].kind = "READ"}

\* The loop, the future it awaits and the exchange.
Tasks ==
    /\ (loop = "renewing") <=> (waiter = "loop")
    /\ loop \in {"asleep", "reading"} => exchange = "none"
    /\ loop = "renewing" => exchange # "none"
    /\ exchange = "params" => Opens(c2s) # {} \/ Opens(s2c) # {}

\* The server has a token to change to.
Pending == server.next.id = server.token.id + 1 /\ server.nonces > 0

\* No renewal has reached the server.
Idle ==
    /\ client.next = NoToken /\ server.next = NoToken
    /\ server.nonces = client.nonces
    /\ Opens(s2c) = {}
    /\ \A i \in Opens(c2s) : c2s[i].nonces > 0

\* The answer to a renewal is on its way.
Offered ==
    /\ Pending /\ client.next = NoToken
    /\ Opens(s2c) # {}
    /\ \A i \in Opens(s2c) : s2c[i].token = server.next /\ s2c[i].nonces = server.nonces

\* The client has the answer and has sent nothing since.
Known ==
    /\ Pending /\ client.next = server.next /\ client.nonces = server.nonces
    /\ exchange = "response"

\* Client and server use the same token.
Level ==
    /\ server.token = client.token /\ server.key = client.key
    /\ AllUnder(client, c2s)
    /\ \A i \in DOMAIN s2c : Under(client, s2c[i]) \/ Late(client, s2c[i])
    /\ OnlyThen(client, s2c)
    /\ Idle \/ Offered \/ Known
    /\ loop = "asleep" \/ exchange = "params" \/ Known => AllUnder(client, s2c)

\* The client has changed to the new token and the server has not noticed.
Ahead ==
    /\ Pending /\ client.token = server.next
    /\ client.key = server.nonces /\ client.nonces = server.nonces
    /\ client.next = NoToken
    /\ client.prev = server.token /\ client.prevKey = server.key
    /\ exchange # "params" /\ loop # "asleep"
    /\ \A i \in DOMAIN c2s : Under(server, c2s[i]) \/ Under(client, c2s[i])
    /\ OnlyThen(client, c2s)
    /\ \E i \in DOMAIN c2s : Under(client, c2s[i]) /\ c2s[i].sent <= Made(client)
    /\ AllUnder(server, s2c)
    /\ Window(client)

\* The request of the loop that completes the renewal, or its answer.
Completion ==
    /\ \A i \in Reading(c2s) :
            /\ Under(client, c2s[i]) /\ loop \in {"reading", "failed"}
            /\ Reading(s2c) = {} /\ \A j \in Reading(c2s) : i = j
    /\ \A i \in Reading(s2c) :
            /\ Under(client, s2c[i]) /\ loop \in {"reading", "failed"}
            /\ server.token = client.token /\ \A j \in Reading(s2c) : i = j
    /\ loop = "reading" =>
            /\ since = Made(client)
            /\ \A i \in Reading(c2s) : c2s[i].sent <= since
            /\ \A i \in Reading(s2c) : s2c[i].sent <= since + MaxDelay
            /\ Reading(c2s) # {} \/ Reading(s2c) # {}

\* The request for a token, or its answer.
Renewal ==
    /\ \A i \in Opens(s2c) : s2c[i].token.created = s2c[i].sent
    /\ loop = "renewing" =>
            /\ \A i \in Opens(c2s) : c2s[i].sent <= asked
            /\ \A i \in Opens(s2c) : s2c[i].sent <= asked + MaxDelay

\* The client has revolved, and the loop is about to return from the renewal.
Revolved == exchange = "response" /\ client.next = NoToken

\* When the client got its token, went to sleep and asked for the next one.
Clock ==
    /\ KeyLife <= client.keyExpiration /\ Made(client) <= now
    /\ client.key > 0 /\ client.nonces > 0 /\ client.allowPrev = TRUE
    /\ Made(client) <= client.token.created + MaxDelay
    /\ since <= now /\ asked <= now
    /\ loop = "asleep" =>
            /\ since <= Made(client) + 2 * MaxDelay
            /\ 4 * (now - since) <= 3 * Lifetime + 3
    /\ loop = "renewing" =>
            /\ Revolved => Made(client) = now
            /\ ~Revolved => /\ since <= Made(client) + 2 * MaxDelay /\ since <= asked
                            /\ 4 * (asked - since) <= 3 * Lifetime + 3
            /\ exchange = "response" /\ ~Revolved =>
                  /\ now <= asked + 2 * MaxDelay
                  /\ now <= client.next.created + MaxDelay

SafeInv ==
    /\ IdInv /\ rejected = {}
    /\ Timely(c2s) /\ Timely(s2c)
    /\ Chains /\ Tasks /\ (Level \/ Ahead) /\ Completion /\ Renewal /\ Clock

\* What stays the same when no token is involved: a previous key is dropped
\* only when it has expired.
Alike(c, d) ==
    /\ d.token = c.token /\ d.next = c.next /\ d.prev = c.prev
    /\ d.allowPrev = c.allowPrev /\ d.nonces = c.nonces
    /\ d.key = c.key /\ d.keyExpiration = c.keyExpiration
    /\ d.prevKeyExpiration = c.prevKeyExpiration
    /\ now <= c.prevKeyExpiration => d.prevKey = c.prevKey

\* d is c after its tokens revolved.
Turned(c, d) ==
    /\ d.token = c.next /\ d.next = NoToken /\ d.prev = c.token
    /\ d.allowPrev = c.allowPrev /\ d.nonces = c.nonces
    /\ d.key = c.nonces /\ d.keyExpiration = now + KeyLife
    /\ d.prevKey = c.key /\ d.prevKeyExpiration = c.keyExpiration

\* The fields of a connection.
LEMMA ConnectionTypes ==
    ASSUME NEW c \in Connection
    PROVE  /\ c.token \in Token /\ c.next \in Token /\ c.prev \in Token
           /\ c.token.id \in Nat /\ c.token.created \in Nat
           /\ c.next.id \in Nat /\ c.next.created \in Nat
           /\ c.prev.id \in Nat /\ c.prev.created \in Nat
           /\ c.allowPrev \in BOOLEAN /\ c.nonces \in Nat /\ c.key \in Nat
           /\ c.keyExpiration \in Nat /\ c.prevKey \in Nat /\ c.prevKeyExpiration \in Nat
           /\ c.seq \in Nat /\ c.peerSeq \in Nat
<1>1. c.token \in Token /\ c.next \in Token /\ c.prev \in Token
  BY DEF Connection
<1>2. \A t \in Token : t.id \in Nat /\ t.created \in Nat
  BY DEF Token
<1>3. QED
  BY <1>1, <1>2 DEF Connection

\* The fields of the messages of a queue.
LEMMA MessageTypes ==
    ASSUME NEW q \in Seq(Message)
    PROVE  \A i \in DOMAIN q :
               /\ i \in Nat /\ i >= 1 /\ i <= Len(q)
               /\ q[i] \in Message /\ q[i].kind \in {"OPN", "READ", "MSG"}
               /\ q[i].id \in Nat /\ q[i].key \in Nat /\ q[i].seq \in Nat
               /\ q[i].nonces \in Nat /\ q[i].sent \in Nat
               /\ q[i].token \in Token /\ q[i].token.created \in Nat
<1>1. \A i \in DOMAIN q : i \in Nat /\ i >= 1 /\ i <= Len(q) /\ q[i] \in Message
  OBVIOUS
<1>2. \A m \in Message : /\ m.kind \in {"OPN", "READ", "MSG"}
                         /\ m.id \in Nat /\ m.key \in Nat /\ m.seq \in Nat
                         /\ m.nonces \in Nat /\ m.sent \in Nat
                         /\ m.token \in Token /\ m.token.created \in Nat
  BY DEF Message, Token
<1>3. QED
  BY <1>1, <1>2

\* Revolving turns the tokens and keys of a connection.
LEMMA RevolveIs ==
    ASSUME SecureChannelAssumption, now \in Nat, NEW c \in Connection
    PROVE  /\ Turned(c, Revolve(c))
           /\ Revolve(c).seq = c.seq /\ Revolve(c).peerSeq = c.peerSeq
<1> DEFINE d == [c EXCEPT !.prev = c.token, !.token = c.next, !.next = NoToken]
<1>1. NoToken \in Token
  BY DEF NoToken, Token
<1>2. /\ d \in Connection /\ d.token = c.next /\ d.next = NoToken /\ d.prev = c.token
      /\ d.allowPrev = c.allowPrev /\ d.nonces = c.nonces /\ d.key = c.key
      /\ d.keyExpiration = c.keyExpiration /\ d.seq = c.seq /\ d.peerSeq = c.peerSeq
  BY <1>1 DEF Connection
<1>3. Revolve(c) = MakeKeys(d)
  BY DEF Revolve
<1> HIDE DEF d
<1> DEFINE x == now + KeyLife
           r == [d EXCEPT !.prevKey = d.key, !.prevKeyExpiration = d.keyExpiration,
                          !.key = d.nonces, !.keyExpiration = x]
<1>4. MakeKeys(d) = r
  BY DEF MakeKeys
<1> HIDE DEF x
<1>5. /\ r.token = d.token /\ r.next = d.next /\ r.prev = d.prev
      /\ r.allowPrev = d.allowPrev /\ r.nonces = d.nonces
      /\ r.key = d.nonces /\ r.keyExpiration = x
      /\ r.prevKey = d.key /\ r.prevKeyExpiration = d.keyExpiration
      /\ r.seq = d.seq /\ r.peerSeq = d.peerSeq
  BY <1>2 DEF Connection
<1>6. QED
  BY <1>2, <1>3, <1>4, <1>5 DEF Turned, x

\* Dropping an expired key changes nothing else.
LEMMA DropIs ==
    ASSUME now \in Nat, NEW c \in Connection
    PROVE  /\ Alike(c, DropExpiredKey(c))
           /\ DropExpiredKey(c).seq = c.seq /\ DropExpiredKey(c).peerSeq = c.peerSeq
<1> DEFINE k == IF now > c.prevKeyExpiration THEN 0 ELSE c.prevKey
           d == [c EXCEPT !.prevKey = k]
<1>1. DropExpiredKey(c) = d
  BY DEF DropExpiredKey
<1>2. now <= c.prevKeyExpiration => k = c.prevKey
  BY ConnectionTypes
<1> HIDE DEF k
<1>3. /\ d.token = c.token /\ d.next = c.next /\ d.prev = c.prev
      /\ d.allowPrev = c.allowPrev /\ d.nonces = c.nonces
      /\ d.key = c.key /\ d.keyExpiration = c.keyExpiration
      /\ d.prevKeyExpiration = c.prevKeyExpiration /\ d.prevKey = k
      /\ d.seq = c.seq /\ d.peerSeq = c.peerSeq
  BY DEF Connection
<1>4. QED
  BY <1>1, <1>2, <1>3 DEF Alike

\* Sending changes the sequence number and nothing else.
LEMMA SendIs ==
    ASSUME SecureChannelAssumption, now \in Nat, NEW c \in Connection,
           c.seq \in 1 .. SeqLimit - 1,
           NEW kind \in {"OPN", "READ", "MSG"}, NEW n \in Nat, NEW t \in Token
    PROVE  LET m == Chunk(c, kind, n, t)
           IN /\ Alike(c, Sent(c)) /\ Sent(c).prevKey = c.prevKey
              /\ Sent(c).peerSeq = c.peerSeq /\ Sent(c).seq = NextSeq(c.seq)
              /\ m \in Message /\ m.kind = kind /\ Under(c, m) /\ m.nonces = n
              /\ m.token = t /\ m.sent = now /\ m.seq = NextSeq(c.seq)
<1> DEFINE x == NextSeq(c.seq)
           d == [c EXCEPT !.seq = x]
           m == Chunk(c, kind, n, t)
<1>1. Sent(c) = d
  BY DEF Sent
<1>2. m \in Message
  BY SentIs
<1>3. /\ m.kind = kind /\ m.id = c.token.id /\ m.key = c.key /\ m.nonces = n
      /\ m.token = t /\ m.sent = now /\ m.seq = x
  BY DEF Chunk
<1> HIDE DEF x, m
<1>4. /\ d.token = c.token /\ d.next = c.next /\ d.prev = c.prev
      /\ d.allowPrev = c.allowPrev /\ d.nonces = c.nonces
      /\ d.key = c.key /\ d.keyExpiration = c.keyExpiration
      /\ d.prevKeyExpiration = c.prevKeyExpiration /\ d.prevKey = c.prevKey
      /\ d.seq = x /\ d.peerSeq = c.peerSeq
  BY DEF Connection
<1>5. QED
  BY <1>1, <1>2, <1>3, <1>4 DEF Alike, Under, x, m

-----------------------------------------------------------------------------
(* The two queues.                                                         *)

\* A message sent now keeps a queue timely.
LEMMA TimelyAppend ==
    ASSUME now \in Nat, SecureChannelAssumption,
           NEW q \in Seq(Message), Timely(q), NEW m \in Message, m.sent = now
    PROVE  Timely(Append(q, m))
<1> DEFINE a == Append(q, m)
<1>1. /\ DOMAIN a = DOMAIN q \cup {Len(q) + 1} /\ Len(q) + 1 \notin DOMAIN q
      /\ \A i \in DOMAIN q : a[i] = q[i]
      /\ a[Len(q) + 1] = m
  BY AppendIs
<1>2. \A i \in DOMAIN q : i \in Nat /\ i <= Len(q) /\ q[i].sent \in Nat
  BY MessageTypes
<1>3. Len(q) \in Nat /\ MaxDelay \in Nat
  BY DEF SecureChannelAssumption
<1> HIDE DEF a
<1>4. \A i \in DOMAIN a : a[i].sent <= now /\ now <= a[i].sent + MaxDelay
  BY <1>1, <1>3 DEF Timely
<1>5. ASSUME NEW i \in DOMAIN a, NEW j \in DOMAIN a, i <= j
      PROVE  a[i].sent <= a[j].sent
  <2>1. CASE j = Len(q) + 1
    BY <1>1, <1>4, <2>1
  <2>2. CASE j # Len(q) + 1
    <3>1. j \in DOMAIN q /\ i \in DOMAIN q
      BY <1>1, <1>2, <1>3, <1>5, <2>2
    <3>2. QED
      BY <1>1, <1>5, <3>1 DEF Timely
  <2>3. QED
    BY <2>1, <2>2
<1>6. QED
  BY <1>4, <1>5 DEF Timely, a

\* Taking the first message keeps a queue timely.
LEMMA TimelyTail ==
    ASSUME NEW q \in Seq(Message), Timely(q), q # << >>
    PROVE  /\ Timely(Tail(q))
           /\ Head(q).sent <= now /\ now <= Head(q).sent + MaxDelay
<1>1. /\ 1 \in DOMAIN q /\ Head(q) = q[1]
      /\ \A i \in DOMAIN Tail(q) : /\ i \in Nat /\ i + 1 \in DOMAIN q
                                   /\ Tail(q)[i] = q[i + 1]
  BY TailIs
<1>2. \A i, j \in DOMAIN Tail(q) : i <= j => i + 1 <= j + 1
  BY <1>1
<1>3. QED
  BY <1>1, <1>2 DEF Timely

\* So does a tick, which waits for a message that is due.
LEMMA TimelyTick ==
    ASSUME SecureChannelAssumption, now \in Nat, now' = now + 1,
           NEW q \in Seq(Message), Timely(q),
           q # << >> => ~(now - Head(q).sent >= MaxDelay)
    PROVE  \A i \in DOMAIN q : /\ q[i].sent <= now' /\ now' <= q[i].sent + MaxDelay
                               /\ \A j \in DOMAIN q : i <= j => q[i].sent <= q[j].sent
<1> SUFFICES ASSUME NEW i \in DOMAIN q
             PROVE  q[i].sent <= now' /\ now' <= q[i].sent + MaxDelay
  BY DEF Timely
<1>1. q # << >> /\ i \in Nat /\ i >= 1 /\ q[i].sent \in Nat /\ MaxDelay \in Nat
  BY MessageTypes DEF SecureChannelAssumption
<1>2. 1 \in DOMAIN q /\ Head(q) = q[1] /\ q[1].sent \in Nat
  BY <1>1, TailIs, MessageTypes
<1>3. q[1].sent <= q[i].sent /\ q[i].sent <= now
  BY <1>1, <1>2 DEF Timely
<1>4. now < q[1].sent + MaxDelay
  BY <1>1, <1>2
<1>5. QED
  BY <1>1, <1>2, <1>3, <1>4

\* Sequence numbers are at least 1 and below the limit.
LEMMA NextSeqRange ==
    ASSUME SecureChannelAssumption, NEW p \in 1 .. SeqLimit - 1
    PROVE  NextSeq(p) \in 1 .. SeqLimit - 1
BY DEF NextSeq, SecureChannelAssumption

\* A message with the next number keeps the chain.
LEMMA ChainedAppend ==
    ASSUME NEW q \in Seq(Message), NEW p, NEW n, Chained(q, p, n),
           NEW m \in Message, m.seq = NextSeq(n)
    PROVE  Chained(Append(q, m), p, m.seq)
<1> DEFINE a == Append(q, m)
<1>1. /\ DOMAIN a = DOMAIN q \cup {Len(q) + 1} /\ Len(q) + 1 \notin DOMAIN q
      /\ \A i \in DOMAIN q : a[i] = q[i]
      /\ a[Len(q) + 1] = m /\ a # << >> /\ Len(a) = Len(q) + 1
  <2>1. Len(a) = Len(q) + 1 /\ Len(q) \in Nat
    OBVIOUS
  <2>2. a # << >>
    <3>1. a = << >> => Len(a) = 0
      OBVIOUS
    <3> HIDE DEF a
    <3>2. QED
      BY <2>1, <3>1
  <2>3. QED
    BY <2>1, <2>2, AppendIs
<1>2. DOMAIN q = 1 .. Len(q) /\ Len(q) \in Nat
  OBVIOUS
<1>3. q # << >> => Len(q) \in DOMAIN q
  BY <1>2
<1>4. q = << >> => Len(q) = 0
  OBVIOUS
<1> HIDE DEF a
<1>5. a[Len(a)].seq = m.seq
  BY <1>1
<1>6. ASSUME NEW i \in DOMAIN a
      PROVE  a[i].seq = NextSeq(IF i = 1 THEN p ELSE a[i - 1].seq)
  <2>1. CASE i \in DOMAIN q
    <3>1. i = 1 \/ i - 1 \in DOMAIN q
      BY <1>2, <2>1
    <3>2. q[i].seq = NextSeq(IF i = 1 THEN p ELSE q[i - 1].seq)
      BY <2>1 DEF Chained
    <3>3. QED
      BY <1>1, <2>1, <3>1, <3>2
  <2>2. CASE i = Len(q) + 1 /\ q = << >>
    <3>1. i = 1 /\ n = p
      BY <1>4, <2>2 DEF Chained
    <3>2. QED
      BY <1>1, <2>2, <3>1
  <2>3. CASE i = Len(q) + 1 /\ q # << >>
    <3>1. i # 1 /\ i - 1 = Len(q) /\ Len(q) \in DOMAIN q
      BY <1>2, <1>3, <2>3
    <3>2. n = q[Len(q)].seq
      BY <2>3 DEF Chained
    <3>3. a[i - 1] = q[Len(q)]
      BY <1>1, <3>1
    <3>4. QED
      BY <1>1, <2>3, <3>1, <3>2, <3>3
  <2>4. QED
    BY <1>1, <2>1, <2>2, <2>3
<1>7. p \in 1 .. SeqLimit - 1
  BY DEF Chained
<1>8. QED
  BY <1>1, <1>5, <1>6, <1>7 DEF Chained, a

\* Receiving the first message keeps the chain.
LEMMA ChainedTail ==
    ASSUME SecureChannelAssumption, NEW q \in Seq(Message), q # << >>,
           NEW p, NEW n, Chained(q, p, n)
    PROVE  /\ Chained(Tail(q), Head(q).seq, n)
           /\ Head(q).seq = NextSeq(p) /\ p \in 1 .. SeqLimit - 1
<1>1. /\ DOMAIN q = 1 .. Len(q) /\ Len(q) \in Nat /\ Len(q) >= 1 /\ Head(q) = q[1]
      /\ Len(Tail(q)) = Len(q) - 1 /\ DOMAIN Tail(q) = 1 .. Len(q) - 1
      /\ \A i \in 1 .. Len(q) - 1 : Tail(q)[i] = q[i + 1]
  OBVIOUS
<1>2. p \in 1 .. SeqLimit - 1 /\ n = q[Len(q)].seq
  BY DEF Chained
<1>3. Head(q).seq = NextSeq(p)
  <2>1. 1 \in DOMAIN q
    BY <1>1
  <2>2. q[1].seq = NextSeq(IF 1 = 1 THEN p ELSE q[1 - 1].seq)
    BY <2>1 DEF Chained
  <2>3. QED
    BY <1>1, <2>2
<1>4. ASSUME NEW i \in DOMAIN Tail(q)
      PROVE  Tail(q)[i].seq = NextSeq(IF i = 1 THEN Head(q).seq ELSE Tail(q)[i - 1].seq)
  <2>1. i + 1 \in DOMAIN q /\ i + 1 # 1 /\ (i + 1) - 1 = i /\ i \in Nat
    BY <1>1
  <2>2. q[i + 1].seq = NextSeq(IF i + 1 = 1 THEN p ELSE q[(i + 1) - 1].seq)
    BY <2>1 DEF Chained
  <2>3. Tail(q)[i].seq = NextSeq(q[i].seq)
    BY <1>1, <2>1, <2>2
  <2>4. CASE i = 1
    BY <1>1, <2>3, <2>4
  <2>5. CASE i # 1
    <3>1. i - 1 \in 1 .. Len(q) - 1 /\ (i - 1) + 1 = i
      BY <1>1, <2>1, <2>5
    <3>2. Tail(q)[i - 1] = q[i]
      BY <1>1, <3>1
    <3>3. QED
      BY <2>3, <2>5, <3>2
  <2>6. QED
    BY <2>4, <2>5
<1>5. n = IF Tail(q) = << >> THEN Head(q).seq ELSE Tail(q)[Len(Tail(q))].seq
  <2>1. CASE Tail(q) = << >>
    <3>1. Len(q) = 1
      <4> DEFINE t == Tail(q)
      <4>1. t = << >> /\ Len(t) = Len(q) - 1
        BY <1>1, <2>1
      <4> HIDE DEF t
      <4>2. Len(t) = 0
        BY <4>1
      <4>3. 0 = Len(q) - 1
        BY <4>1, <4>2, Zenon
      <4>4. Len(q) \in Nat
        BY <1>1
      <4>5. QED
        BY <4>3, <4>4
    <3>2. QED
      BY <1>1, <1>2, <2>1, <3>1
  <2>2. CASE Tail(q) # << >>
    <3>1. Len(q) - 1 \in 1 .. Len(q) - 1 /\ (Len(q) - 1) + 1 = Len(q)
      BY <1>1, <2>2
    <3>2. Tail(q)[Len(Tail(q))] = q[Len(q)]
      BY <1>1, <3>1
    <3>3. QED
      BY <1>2, <2>2, <3>2
  <2>3. QED
    BY <2>1, <2>2
<1>6. Head(q).seq \in 1 .. SeqLimit - 1
  BY <1>2, <1>3, NextSeqRange
<1>7. QED
  BY <1>2, <1>3, <1>4, <1>5, <1>6 DEF Chained

\* The first number of a chain passes the test of the receiver, the wrap included.
LEMMA ChainAccepted ==
    ASSUME SecureChannelAssumption, NEW c, NEW m, c.peerSeq \in 1 .. SeqLimit - 1,
           m.seq = NextSeq(c.peerSeq)
    PROVE  SeqOK(c, m)
BY DEF SeqOK, NextSeq, SecureChannelAssumption

-----------------------------------------------------------------------------
(* What a step does to either side as long as SafeInv holds.               *)

\* The types that SafeInv implies, for arithmetic.
LEMMA SafeTypes ==
    ASSUME SecureChannelAssumption, SafeInv
    PROVE  /\ TypeOK /\ now \in Nat /\ since \in Nat /\ asked \in Nat
           /\ client \in Connection /\ server \in Connection
           /\ client.seq \in 1 .. SeqLimit - 1 /\ server.seq \in 1 .. SeqLimit - 1
           /\ c2s \in Seq(Message) /\ s2c \in Seq(Message)
           /\ MaxDelay \in Nat /\ Lifetime \in Nat /\ KeyLife \in Nat
           /\ Made(client) \in Nat
<1>1. TypeOK /\ KeyLife <= client.keyExpiration
  BY DEF SafeInv, IdInv, Clock
<1>2. client \in Connection /\ client.keyExpiration \in Nat
  BY <1>1, ConnectionTypes DEF TypeOK
<1>3. MaxDelay \in Nat /\ Lifetime \in Nat /\ KeyLife \in Nat
  BY DEF SecureChannelAssumption
<1>4. Made(client) \in Nat
  BY <1>1, <1>2, <1>3 DEF Made
<1>5. QED
  BY <1>1, <1>2, <1>3, <1>4 DEF TypeOK

\* While the client is ahead, its first message under the new token is on its
\* way.
LEMMA AheadIsShort ==
    ASSUME SecureChannelAssumption, SafeInv, Ahead
    PROVE  now <= Made(client) + MaxDelay /\ now <= client.prevKeyExpiration
<1>1. PICK i \in DOMAIN c2s : c2s[i].sent <= Made(client)
  BY DEF Ahead
<1>2. now <= c2s[i].sent + MaxDelay /\ c2s[i].sent \in Nat
  BY SafeTypes, MessageTypes DEF SafeInv, Timely
<1>3. now <= Made(client) + MaxDelay
  BY <1>1, <1>2, SafeTypes
<1>4. Made(client) + 2 * MaxDelay <= client.prevKeyExpiration /\ client.prevKeyExpiration \in Nat
  BY SafeTypes, ConnectionTypes DEF Ahead, Window
<1>5. QED
  BY <1>3, <1>4, SafeTypes

\* What expires after e, at 125 % of a lifetime l from f, is valid at n.
LEMMA Longer ==
    ASSUME NEW n \in Nat, NEW e \in Nat, NEW f \in Nat, NEW l \in Nat,
           n <= e, 4 * e <= 4 * f + 5 * l
    PROVE  4 * n <= 4 * f + 5 * l
OBVIOUS

\* Neither have the previous token and key expired when a late message comes.
LEMMA LateIsShort ==
    ASSUME SecureChannelAssumption, SafeInv, NEW i \in DOMAIN s2c, Late(client, s2c[i])
    PROVE  /\ now <= client.prevKeyExpiration
           /\ 4 * now <= 4 * client.prev.created + 5 * Lifetime
<1>1. now <= s2c[i].sent + MaxDelay /\ s2c[i].sent \in Nat
  BY SafeTypes, MessageTypes DEF SafeInv, Timely
<1>2. s2c[i].sent <= Made(client) + MaxDelay
  BY DEF Late
<1>3. now <= Made(client) + 2 * MaxDelay
  BY <1>1, <1>2, SafeTypes
<1>4. /\ 4 * (Made(client) + 2 * MaxDelay) <= 4 * client.prev.created + 5 * Lifetime
      /\ Made(client) + 2 * MaxDelay <= client.prevKeyExpiration
      /\ client.prev.created \in Nat /\ client.prevKeyExpiration \in Nat
  BY SafeTypes, ConnectionTypes DEF Late, Window
<1> DEFINE e == Made(client) + 2 * MaxDelay
<1>5. now \in Nat /\ Lifetime \in Nat /\ MaxDelay \in Nat /\ Made(client) \in Nat
  BY SafeTypes
<1>6. e \in Nat
  BY <1>5
<1>7. now <= e /\ 4 * e <= 4 * client.prev.created + 5 * Lifetime
      /\ e <= client.prevKeyExpiration
  BY <1>3, <1>4
<1> HIDE DEF e
<1>8. now <= client.prevKeyExpiration
  BY <1>4, <1>5, <1>6, <1>7
<1>9. QED
  BY <1>4, <1>5, <1>6, <1>7, <1>8, Longer

\* A message under the current or the previous token opens without a change
\* of tokens.
LEMMA OpensAlike ==
    ASSUME SecureChannelAssumption, now \in Nat, NEW c \in Connection, NEW m \in Message,
           m.kind # "OPN", HeaderOK(c, m), m.id = c.token.id \/ m.id # c.next.id
    PROVE  /\ Opened(c, m) = DropExpiredKey(c)
           /\ Alike(c, Opened(c, m))
           /\ Opened(c, m).seq = c.seq /\ Opened(c, m).peerSeq = c.peerSeq
<1>1. AfterHeader(c, m) = c
  BY DEF AfterHeader
<1>2. Opened(c, m) = DropExpiredKey(c)
  BY <1>1 DEF Opened
<1>3. QED
  BY <1>2, DropIs

\* The client accepts whatever is first in its queue.
LEMMA ClientAccepts ==
    ASSUME SecureChannelAssumption, SafeInv, s2c # << >>
    PROVE  LET m == Head(s2c)
           IN /\ Accepts(client, m)
              /\ m.kind # "OPN" => /\ Alike(client, Opened(client, m))
                                   /\ Opened(client, m).seq = client.seq
<1> DEFINE m == Head(s2c)
<1>1. s2c \in Seq(Message) /\ 1 \in DOMAIN s2c /\ m = s2c[1] /\ m \in Message
  BY SafeTypes, TailIs
<1>2. SeqOK(client, m)
  <2>1. Head(s2c).seq = NextSeq(client.peerSeq) /\ client.peerSeq \in 1 .. SeqLimit - 1
    BY <1>1, ChainedTail DEF SafeInv, Chains
  <2> HIDE DEF m
  <2>2. QED
    BY <2>1, ChainAccepted DEF m
<1>3. now \in Nat /\ client \in Connection /\ NoToken.id = 0 /\ m.id >= 1 /\ m.id \in Nat
  BY <1>1, SafeTypes, MessageTypes DEF NoToken, SafeInv, IdInv, MessageIds
<1> HIDE DEF m
<1>4. ASSUME m.kind # "OPN", Under(client, m)
      PROVE  HeaderOK(client, m) /\ KeyOK(Opened(client, m), m) /\ Alike(client, Opened(client, m))
             /\ Opened(client, m).seq = client.seq
  <2>1. HeaderOK(client, m) /\ m.id = client.token.id
    BY <1>4 DEF HeaderOK, Under
  <2>2. Alike(client, Opened(client, m)) /\ Opened(client, m).seq = client.seq
    BY <1>1, <1>3, <1>4, <2>1, OpensAlike
  <2>3. KeyOK(Opened(client, m), m)
    BY <1>4, <2>2 DEF KeyOK, Alike, Under
  <2>4. QED
    BY <2>1, <2>2, <2>3
<1>5. ASSUME m.kind # "OPN", m.id = client.prev.id, m.key = client.prevKey,
             client.prevKey # 0, client.next = NoToken, now <= client.prevKeyExpiration,
             4 * now <= 4 * client.prev.created + 5 * Lifetime
      PROVE  HeaderOK(client, m) /\ KeyOK(Opened(client, m), m) /\ Alike(client, Opened(client, m))
             /\ Opened(client, m).seq = client.seq
  <2>1. client.allowPrev
    BY DEF SafeInv, Clock
  <2>2. HeaderOK(client, m) /\ m.id # client.next.id
    BY <1>3, <1>5, <2>1 DEF HeaderOK
  <2>3. Alike(client, Opened(client, m)) /\ Opened(client, m).seq = client.seq
    BY <1>1, <1>3, <1>5, <2>2, OpensAlike
  <2>4. KeyOK(Opened(client, m), m)
    BY <1>5, <2>3 DEF KeyOK, Alike
  <2>5. QED
    BY <2>2, <2>3, <2>4
<1>6. ASSUME m.kind # "OPN"
      PROVE  HeaderOK(client, m) /\ KeyOK(Opened(client, m), m) /\ Alike(client, Opened(client, m))
             /\ Opened(client, m).seq = client.seq
  <2>1. CASE Under(client, m)
    BY <1>4, <1>6, <2>1
  <2>2. CASE Level /\ ~Under(client, m)
    <3>1. Late(client, s2c[1])
      BY <1>1, <2>2 DEF Level
    <3>2. client.next = NoToken
      <4>1. ~AllUnder(client, s2c)
        BY <1>1, <2>2 DEF AllUnder
      <4>2. Idle \/ Offered
        BY <2>2, <4>1 DEF Level
      <4>3. QED
        BY <4>2 DEF Idle, Offered
    <3>3. m.id = client.prev.id /\ m.key = client.prevKey /\ client.prevKey # 0
      BY <1>1, <3>1 DEF Late, Window
    <3>4. /\ now <= client.prevKeyExpiration
          /\ 4 * now <= 4 * client.prev.created + 5 * Lifetime
      BY <1>1, <3>1, LateIsShort
    <3>5. QED
      BY <1>5, <1>6, <3>2, <3>3, <3>4
  <2>3. CASE Ahead
    <3>1. /\ m.id = client.prev.id /\ m.key = client.prevKey /\ client.prevKey # 0
          /\ client.next = NoToken
      BY <1>1, <2>3 DEF Ahead, AllUnder, Under, Window
    <3>2. now <= Made(client) + MaxDelay /\ now <= client.prevKeyExpiration
      BY <2>3, AheadIsShort
    <3>3. 4 * now <= 4 * client.prev.created + 5 * Lifetime
      <4>1. /\ 4 * (Made(client) + 2 * MaxDelay) <= 4 * client.prev.created + 5 * Lifetime
            /\ client.prev.created \in Nat
        BY <2>3, SafeTypes, ConnectionTypes DEF Ahead, Window
      <4>2. now \in Nat /\ Lifetime \in Nat /\ MaxDelay \in Nat /\ Made(client) \in Nat
        BY SafeTypes
      <4>3. Made(client) + 2 * MaxDelay \in Nat /\ now <= Made(client) + 2 * MaxDelay
        BY <3>2, <4>2
      <4>4. QED
        BY <4>1, <4>2, <4>3, Longer
    <3>4. QED
      BY <1>5, <1>6, <3>1, <3>2, <3>3
  <2>4. QED
    BY <2>1, <2>2, <2>3 DEF SafeInv
<1>7. QED
  BY <1>2, <1>6 DEF Accepts, m

\* What set_channel changes.
Given(c, d, m) ==
    /\ d.token = c.token /\ d.next = m.token /\ d.prev = c.prev
    /\ d.allowPrev = c.allowPrev /\ d.nonces = m.nonces
    /\ d.key = c.key /\ d.keyExpiration = c.keyExpiration
    /\ d.prevKeyExpiration = c.prevKeyExpiration /\ d.prevKey = c.prevKey

\* What a message the client receives does to it.
LEMMA ClientReceivesIs ==
    ASSUME SecureChannelAssumption, SafeInv, ClientReceives
    PROVE  LET m == Head(s2c)
           IN /\ s2c # << >> /\ s2c' = Tail(s2c)
              /\ UNCHANGED <<server, c2s, waiter, asked, rejected, now>>
              /\ client'.seq = client.seq /\ client'.peerSeq = m.seq
              /\ \/ /\ m.kind # "OPN" /\ Alike(client, client') /\ exchange' = exchange
                    /\ \/ m.kind = "READ" /\ loop = "reading" /\ loop' = "asleep" /\ since' = now
                       \/ ~(m.kind = "READ" /\ loop = "reading") /\ UNCHANGED <<loop, since>>
                 \/ /\ m.kind = "OPN" /\ Given(client, client', m) /\ exchange' = "response"
                    /\ UNCHANGED <<loop, since>>
<1> DEFINE m == Head(s2c)
<1>1. s2c # << >> /\ s2c' = Tail(s2c) /\ UNCHANGED <<server, c2s, waiter, asked, now>>
  BY DEF ClientReceives
<1>2. /\ Accepts(client, m)
      /\ m.kind # "OPN" => /\ Alike(client, Opened(client, m))
                           /\ Opened(client, m).seq = client.seq
  BY <1>1, ClientAccepts
<1>3. m \in Message /\ client \in Connection /\ now \in Nat
  BY <1>1, SafeTypes, TailIs
<1>4. \/ /\ m.kind = "OPN" /\ client' = SetChannel(Received(client, m), m)
         /\ exchange' = "response" /\ UNCHANGED <<loop, since, rejected>>
      \/ /\ m.kind # "OPN" /\ client' = Received(client, m)
         /\ loop' = (IF m.kind = "READ" /\ loop = "reading" THEN "asleep" ELSE loop)
         /\ since' = (IF loop' # loop THEN now ELSE since)
         /\ UNCHANGED <<exchange, rejected>>
  BY <1>2 DEF ClientReceives
<1> HIDE DEF m
<1> DEFINE o == Opened(client, m)
           r == [o EXCEPT !.peerSeq = m.seq]
<1>5. o \in Connection /\ Received(client, m) = r
  BY <1>3, OpenedIs DEF Received
<1>6. m.kind = "OPN" => o = client
  BY DEF Opened
<1> HIDE DEF o
<1>7. /\ r.token = o.token /\ r.next = o.next /\ r.prev = o.prev
      /\ r.allowPrev = o.allowPrev /\ r.nonces = o.nonces
      /\ r.key = o.key /\ r.keyExpiration = o.keyExpiration
      /\ r.prevKeyExpiration = o.prevKeyExpiration /\ r.prevKey = o.prevKey
      /\ r.seq = o.seq /\ r.peerSeq = m.seq /\ r \in Connection
  BY <1>3, <1>5 DEF Connection, Message
<1> HIDE DEF r
<1>8. CASE m.kind = "OPN"
  <2> DEFINE s == [r EXCEPT !.next = m.token, !.nonces = m.nonces]
  <2>1. client' = s /\ exchange' = "response" /\ UNCHANGED <<loop, since, rejected>>
    BY <1>4, <1>5, <1>8 DEF SetChannel
  <2>2. /\ s.token = r.token /\ s.next = m.token /\ s.prev = r.prev
        /\ s.allowPrev = r.allowPrev /\ s.nonces = m.nonces
        /\ s.key = r.key /\ s.keyExpiration = r.keyExpiration
        /\ s.prevKeyExpiration = r.prevKeyExpiration /\ s.prevKey = r.prevKey
        /\ s.seq = r.seq /\ s.peerSeq = r.peerSeq
    BY <1>7 DEF Connection
  <2> HIDE DEF s
  <2>3. Given(client, client', m) /\ client'.seq = client.seq /\ client'.peerSeq = m.seq
    BY <1>6, <1>7, <1>8, <2>1, <2>2 DEF Given
  <2>4. QED
    BY <1>1, <1>8, <2>1, <2>3 DEF m
<1>9. CASE m.kind # "OPN"
  <2>1. client' = r /\ UNCHANGED <<exchange, rejected>>
    BY <1>4, <1>5, <1>9
  <2>2. Alike(client, o) /\ o.seq = client.seq
    BY <1>2, <1>9 DEF o
  <2>3. Alike(client, client') /\ client'.seq = client.seq /\ client'.peerSeq = m.seq
    BY <1>7, <2>1, <2>2 DEF Alike
  <2>4. \/ m.kind = "READ" /\ loop = "reading" /\ loop' = "asleep" /\ since' = now
        \/ ~(m.kind = "READ" /\ loop = "reading") /\ UNCHANGED <<loop, since>>
    BY <1>4, <1>9
  <2>5. QED
    BY <1>1, <1>9, <2>1, <2>3, <2>4 DEF m
<1>10. QED
  BY <1>8, <1>9

\* The server accepts whatever is first in its queue.
LEMMA ServerAccepts ==
    ASSUME SecureChannelAssumption, SafeInv, c2s # << >>
    PROVE  LET m == Head(c2s)
               o == Opened(server, m)
           IN /\ Accepts(server, m)
              /\ o.seq = server.seq
              /\ \/ m.kind = "OPN" /\ o = server
                 \/ m.kind # "OPN" /\ Under(server, m) /\ Alike(server, o)
                 \/ /\ m.kind # "OPN" /\ Ahead /\ Under(client, m)
                    /\ o.token = server.next /\ o.next = NoToken
                    /\ o.nonces = server.nonces /\ o.key = server.nonces
<1> DEFINE m == Head(c2s)
<1>1. c2s \in Seq(Message) /\ 1 \in DOMAIN c2s /\ m = c2s[1] /\ m \in Message
  BY SafeTypes, TailIs
<1>2. SeqOK(server, m)
  <2>1. Head(c2s).seq = NextSeq(server.peerSeq) /\ server.peerSeq \in 1 .. SeqLimit - 1
    BY <1>1, ChainedTail DEF SafeInv, Chains
  <2> HIDE DEF m
  <2>2. QED
    BY <2>1, ChainAccepted DEF m
<1>3. now \in Nat /\ server \in Connection
  BY SafeTypes
<1> HIDE DEF m
<1>4. CASE m.kind = "OPN"
  BY <1>2, <1>4 DEF Accepts, Opened, m
<1>5. CASE m.kind # "OPN" /\ Under(server, m)
  <2>1. HeaderOK(server, m) /\ m.id = server.token.id
    BY <1>5 DEF HeaderOK, Under
  <2>2. Alike(server, Opened(server, m)) /\ Opened(server, m).seq = server.seq
    BY <1>1, <1>3, <1>5, <2>1, OpensAlike
  <2>3. KeyOK(Opened(server, m), m)
    BY <1>5, <2>2 DEF KeyOK, Alike, Under
  <2>4. QED
    BY <1>2, <1>5, <2>1, <2>2, <2>3 DEF Accepts, m
<1>6. CASE m.kind # "OPN" /\ ~Under(server, m)
  <2>1. Ahead /\ Under(client, m)
    <3>1. Level => Under(server, m)
      BY <1>1 DEF Level, AllUnder, Under
    <3>2. Ahead => Under(client, m)
      BY <1>1, <1>6 DEF Ahead
    <3>3. QED
      BY <1>6, <3>1, <3>2 DEF SafeInv
  <2>2. /\ m.id = server.next.id /\ m.id # server.token.id /\ m.key = server.nonces
    <3>1. /\ m.id = client.token.id /\ client.token = server.next /\ m.key = client.key
          /\ client.key = server.nonces /\ server.next.id = server.token.id + 1
      BY <2>1 DEF Ahead, Under, Pending
    <3>2. server.token.id \in Nat
      BY <1>3, ConnectionTypes
    <3>3. QED
      BY <3>1, <3>2
  <2> DEFINE v == Revolve(server)
  <2>3. HeaderOK(server, m) /\ AfterHeader(server, m) = v
    BY <2>2 DEF HeaderOK, AfterHeader
  <2>4. Opened(server, m) = DropExpiredKey(v)
    BY <1>6, <2>3 DEF Opened
  <2>5. v \in Connection /\ Turned(server, v) /\ v.seq = server.seq
    BY <1>3, ConnectionFields, RevolveIs
  <2> HIDE DEF v
  <2>6. Alike(v, DropExpiredKey(v)) /\ DropExpiredKey(v).seq = v.seq
    BY <1>3, <2>5, DropIs
  <2> DEFINE o == Opened(server, m)
  <2>7. /\ o.token = server.next /\ o.next = NoToken
        /\ o.nonces = server.nonces /\ o.key = server.nonces /\ o.seq = server.seq
    BY <2>4, <2>5, <2>6 DEF Alike, Turned
  <2>8. KeyOK(o, m)
    BY <2>2, <2>7 DEF KeyOK
  <2>9. QED
    BY <1>2, <1>6, <2>1, <2>3, <2>7, <2>8 DEF Accepts, m
<1>7. QED
  BY <1>4, <1>5, <1>6

\* The server sends r under its token, and its own part of the connection is
\* that of c.
Answers(c, r) ==
    /\ s2c' = Append(s2c, r) /\ r.sent = now /\ r.seq = NextSeq(server.seq)
    /\ Under(server', r) /\ server'.seq = r.seq /\ server'.peerSeq = c.peerSeq
    /\ server'.token = c.token /\ server'.next = c.next
    /\ server'.nonces = c.nonces /\ server'.key = c.key

\* What sending does to the server.
LEMMA ServerSendsIs ==
    ASSUME SecureChannelAssumption, SafeInv, NEW c \in Connection, c.seq = server.seq,
           NEW kind \in {"OPN", "READ", "MSG"}, NEW n \in Nat, NEW t \in Token,
           ServerSends(c, kind, n, t)
    PROVE  \E r \in Message : Answers(c, r) /\ r.kind = kind /\ r.nonces = n /\ r.token = t
<1> DEFINE r == Chunk(c, kind, n, t)
<1>1. server' = Sent(c) /\ s2c' = Append(s2c, r)
  BY DEF ServerSends
<1>2. now \in Nat /\ c.seq \in 1 .. SeqLimit - 1
  BY SafeTypes
<1>3. /\ Alike(c, Sent(c)) /\ Sent(c).peerSeq = c.peerSeq /\ Sent(c).seq = NextSeq(c.seq)
      /\ r \in Message /\ r.kind = kind /\ Under(c, r) /\ r.nonces = n
      /\ r.token = t /\ r.sent = now /\ r.seq = NextSeq(c.seq)
  BY <1>2, SendIs
<1> HIDE DEF r
<1>4. Answers(c, r)
  BY <1>1, <1>3 DEF Answers, Alike, Under
<1>5. QED
  BY <1>3, <1>4

\* What a message the server receives does to it and to its queue.
LEMMA ServerReceivesIs ==
    ASSUME SecureChannelAssumption, SafeInv, ServerReceives
    PROVE  LET m == Head(c2s)
           IN /\ c2s # << >> /\ c2s' = Tail(c2s)
              /\ UNCHANGED <<client, exchange, waiter, loop, since, asked, rejected, now>>
              /\ server'.peerSeq = m.seq
              /\ \E r \in Message :
                    /\ s2c' = Append(s2c, r) /\ r.sent = now /\ r.seq = NextSeq(server.seq)
                    /\ Under(server', r) /\ server'.seq = r.seq /\ r.kind = m.kind
                    /\ \/ /\ m.kind # "OPN" /\ Under(server, m)
                          /\ server'.token = server.token /\ server'.next = server.next
                          /\ server'.nonces = server.nonces /\ server'.key = server.key
                       \/ /\ m.kind # "OPN" /\ Ahead /\ Under(client, m)
                          /\ server'.token = server.next /\ server'.next = NoToken
                          /\ server'.nonces = server.nonces /\ server'.key = server.nonces
                       \/ /\ m.kind = "OPN" /\ r.token = server'.next /\ r.nonces = m.nonces
                          /\ server'.next = [id |-> server.token.id + 1, created |-> now]
                          /\ server'.token = server.token
                          /\ server'.nonces = m.nonces /\ server'.key = server.key
<1> DEFINE m == Head(c2s)
           o == Opened(server, m)
           c == [o EXCEPT !.peerSeq = m.seq]
           t == [id |-> server.token.id + 1, created |-> now]
<1>1. /\ c2s # << >> /\ c2s' = Tail(c2s)
      /\ UNCHANGED <<client, exchange, waiter, loop, since, asked, now>>
  BY DEF ServerReceives
<1>2. /\ Accepts(server, m) /\ o.seq = server.seq
      /\ \/ m.kind = "OPN" /\ o = server
         \/ m.kind # "OPN" /\ Under(server, m) /\ Alike(server, o)
         \/ /\ m.kind # "OPN" /\ Ahead /\ Under(client, m)
            /\ o.token = server.next /\ o.next = NoToken
            /\ o.nonces = server.nonces /\ o.key = server.nonces
  BY <1>1, ServerAccepts
<1>3. /\ m \in Message /\ server \in Connection /\ now \in Nat
      /\ m.kind \in {"OPN", "READ", "MSG"} /\ m.nonces \in Nat /\ m.seq \in Nat
  <2>1. m \in Message /\ server \in Connection /\ now \in Nat
    BY <1>1, SafeTypes, TailIs
  <2>2. QED
    BY <2>1 DEF Message
<1>4. /\ UNCHANGED rejected
      /\ \/ /\ m.kind = "OPN"
            /\ ServerSends(Open(Received(server, m), m), "OPN", m.nonces, t)
         \/ m.kind # "OPN" /\ ServerSends(Received(server, m), m.kind, 0, NoToken)
  BY <1>2 DEF ServerReceives
<1>5. o \in Connection /\ Received(server, m) = c
  BY <1>3, OpenedIs DEF Received
<1>6. NoToken \in Token /\ t \in Token
  BY <1>3, ConnectionTypes DEF NoToken, Token
<1> HIDE DEF m, o, t
<1>7. /\ c \in Connection /\ c.token = o.token /\ c.next = o.next /\ c.nonces = o.nonces
      /\ c.key = o.key /\ c.seq = o.seq /\ c.peerSeq = m.seq
  BY <1>3, <1>5 DEF Connection
<1> HIDE DEF c
<1>8. CASE m.kind # "OPN"
  <2>1. PICK r \in Message : Answers(c, r) /\ r.kind = m.kind
    BY <1>2, <1>3, <1>4, <1>5, <1>6, <1>7, <1>8, ServerSendsIs
  <2>2. /\ s2c' = Append(s2c, r) /\ r.sent = now /\ r.seq = NextSeq(server.seq)
        /\ Under(server', r) /\ server'.seq = r.seq /\ server'.peerSeq = m.seq
        /\ server'.token = o.token /\ server'.next = o.next
        /\ server'.nonces = o.nonces /\ server'.key = o.key
    BY <1>7, <2>1 DEF Answers
  <2>3. \/ /\ m.kind # "OPN" /\ Under(server, m)
           /\ server'.token = server.token /\ server'.next = server.next
           /\ server'.nonces = server.nonces /\ server'.key = server.key
        \/ /\ m.kind # "OPN" /\ Ahead /\ Under(client, m)
           /\ server'.token = server.next /\ server'.next = NoToken
           /\ server'.nonces = server.nonces /\ server'.key = server.nonces
    BY <1>2, <1>8, <2>2 DEF Alike
  <2>4. QED
    BY <1>1, <1>4, <2>1, <2>2, <2>3 DEF m
<1>9. CASE m.kind = "OPN"
  <2> DEFINE d == [c EXCEPT !.nonces = m.nonces, !.next = t]
  <2>1. o = server
    BY <1>2, <1>9
  <2>2. Open(c, m) = d
    BY <1>7, <2>1 DEF Open, t
  <2>3. /\ d \in Connection /\ d.token = c.token /\ d.next = t /\ d.nonces = m.nonces
        /\ d.key = c.key /\ d.seq = c.seq /\ d.peerSeq = c.peerSeq
    BY <1>3, <1>6, <1>7 DEF Connection
  <2> HIDE DEF d
  <2>4. ServerSends(d, "OPN", m.nonces, t) /\ d.seq = server.seq
    BY <1>4, <1>5, <1>7, <1>9, <2>1, <2>2, <2>3
  <2>5. PICK r \in Message : /\ Answers(d, r) /\ r.kind = "OPN" /\ r.nonces = m.nonces
                             /\ r.token = t
    BY <1>3, <1>6, <2>3, <2>4, ServerSendsIs
  <2>6. /\ s2c' = Append(s2c, r) /\ r.sent = now /\ r.seq = NextSeq(server.seq)
        /\ Under(server', r) /\ server'.seq = r.seq /\ server'.peerSeq = m.seq
        /\ server'.token = server.token /\ server'.next = t
        /\ server'.nonces = m.nonces /\ server'.key = server.key
    BY <1>7, <2>1, <2>3, <2>5 DEF Answers
  <2>7. QED
    BY <1>1, <1>4, <1>9, <2>5, <2>6 DEF m, t
<1>10. QED
  BY <1>8, <1>9

\* The client sends m.
Asks(m) ==
    /\ c2s' = Append(c2s, m) /\ m.sent = now /\ m.seq = NextSeq(client.seq)
    /\ Under(client', m) /\ client'.seq = m.seq /\ client'.peerSeq = client.peerSeq

\* What sending does to the client: it revolves when it has a token to change to.
LEMMA ClientSendsIs ==
    ASSUME SecureChannelAssumption, SafeInv,
           NEW kind \in {"OPN", "READ", "MSG"}, NEW n \in Nat, ClientSends(kind, n)
    PROVE  \E m \in Message :
               /\ Asks(m) /\ m.kind = kind /\ m.nonces = n
               /\ \/ /\ client.next.id = 0 /\ Alike(client, client')
                     /\ client'.prevKey = client.prevKey
                  \/ client.next.id # 0 /\ Turned(client, client')
<1> DEFINE c == Prepared(client)
           m == Chunk(c, kind, n, NoToken)
<1>1. client' = Sent(c) /\ c2s' = Append(c2s, m)
  BY DEF ClientSends
<1>2. now \in Nat /\ client \in Connection /\ client.seq \in 1 .. SeqLimit - 1
      /\ NoToken \in Token
  BY SafeTypes DEF NoToken, Token
<1>3. c \in Connection /\ c.seq = client.seq /\ c.peerSeq = client.peerSeq
      /\ (client.next.id = 0 => c = client) /\ (client.next.id # 0 => Turned(client, c))
  BY <1>2, PreparedIs, RevolveIs DEF Prepared
<1> HIDE DEF c
<1>4. /\ Alike(c, Sent(c)) /\ Sent(c).prevKey = c.prevKey
      /\ Sent(c).peerSeq = c.peerSeq /\ Sent(c).seq = NextSeq(c.seq)
      /\ m \in Message /\ m.kind = kind /\ Under(c, m) /\ m.nonces = n
      /\ m.sent = now /\ m.seq = NextSeq(c.seq)
  BY <1>2, <1>3, SendIs
<1> HIDE DEF m
<1>5. Asks(m)
  BY <1>1, <1>3, <1>4 DEF Asks, Alike, Under
<1>6. CASE client.next.id = 0
  <2>1. Alike(client, client') /\ client'.prevKey = client.prevKey
    BY <1>1, <1>3, <1>4, <1>6
  <2>2. QED
    BY <1>4, <1>5, <1>6, <2>1
<1>7. CASE client.next.id # 0
  <2>1. Turned(client, client')
    BY <1>1, <1>3, <1>4, <1>7 DEF Turned, Alike
  <2>2. QED
    BY <1>4, <1>5, <1>7, <2>1
<1>8. QED
  BY <1>6, <1>7

-----------------------------------------------------------------------------
(* What is under way, after a message was sent or received.                *)

\* Renewals and reads of a queue after a message was added.
LEMMA SetsOfAppend ==
    ASSUME NEW q \in Seq(Message), NEW m \in Message
    PROVE  /\ Opens(Append(q, m)) = IF m.kind = "OPN" THEN Opens(q) \cup {Len(q) + 1} ELSE Opens(q)
           /\ Reading(Append(q, m)) =
                 IF m.kind = "READ" THEN Reading(q) \cup {Len(q) + 1} ELSE Reading(q)
           /\ Opens(q) \subseteq DOMAIN q /\ Reading(q) \subseteq DOMAIN q
           /\ Len(q) + 1 \notin DOMAIN q
           /\ \A i \in DOMAIN q : Append(q, m)[i] = q[i]
           /\ Append(q, m)[Len(q) + 1] = m
<1> DEFINE a == Append(q, m)
           l == Len(q) + 1
<1>1. /\ DOMAIN a = DOMAIN q \cup {l} /\ l \notin DOMAIN q
      /\ \A i \in DOMAIN q : a[i] = q[i]
      /\ a[l] = m
  BY AppendIs
<1> HIDE DEF a, l
<1>2. /\ Opens(a) = IF m.kind = "OPN" THEN Opens(q) \cup {l} ELSE Opens(q)
      /\ Reading(a) = IF m.kind = "READ" THEN Reading(q) \cup {l} ELSE Reading(q)
      /\ Opens(q) \subseteq DOMAIN q /\ Reading(q) \subseteq DOMAIN q
  BY <1>1 DEF Opens, Reading
<1>3. QED
  BY <1>1, <1>2 DEF a, l

\* Renewals and reads of a queue after its first was taken.
LEMMA SetsOfTail ==
    ASSUME NEW q \in Seq(Message), q # << >>
    PROVE  /\ \A i \in Opens(Tail(q)) : i \in Nat /\ i + 1 \in Opens(q) /\ Tail(q)[i] = q[i + 1]
           /\ \A i \in Reading(Tail(q)) : i \in Nat /\ i + 1 \in Reading(q) /\ Tail(q)[i] = q[i + 1]
           /\ \A i \in Opens(Tail(q)) : i + 1 # 1
           /\ \A i \in Reading(Tail(q)) : i + 1 # 1
           /\ (1 \in Opens(q)) <=> (Head(q).kind = "OPN")
           /\ (1 \in Reading(q)) <=> (Head(q).kind = "READ")
           /\ Opens(q) # {} /\ Head(q).kind # "OPN" => Opens(Tail(q)) # {}
           /\ Reading(q) # {} /\ Head(q).kind # "READ" => Reading(Tail(q)) # {}
<1>1. /\ 1 \in DOMAIN q /\ Head(q) = q[1] /\ DOMAIN q = 1 .. Len(q) /\ Len(q) \in Nat
      /\ DOMAIN Tail(q) = 1 .. Len(q) - 1
      /\ \A i \in 1 .. Len(q) - 1 : Tail(q)[i] = q[i + 1]
  OBVIOUS
<1> DEFINE t == Tail(q)
<1>2. DOMAIN t = 1 .. Len(q) - 1 /\ \A i \in 1 .. Len(q) - 1 : t[i] = q[i + 1]
  BY <1>1
<1> HIDE DEF t
<1>3. /\ \A i \in DOMAIN t : /\ i \in Nat /\ i + 1 \in DOMAIN q /\ i + 1 # 1
                             /\ t[i] = q[i + 1]
  BY <1>1, <1>2
<1>4. ASSUME NEW i \in DOMAIN q, i # 1
      PROVE  i - 1 \in DOMAIN t /\ t[i - 1] = q[i]
  <2>1. i - 1 \in 1 .. Len(q) - 1 /\ (i - 1) + 1 = i
    BY <1>1, <1>4
  <2>2. QED
    BY <1>2, <2>1
<1>5. /\ \A i \in Opens(t) : i \in Nat /\ i + 1 \in Opens(q) /\ t[i] = q[i + 1] /\ i + 1 # 1
      /\ \A i \in Reading(t) : i \in Nat /\ i + 1 \in Reading(q) /\ t[i] = q[i + 1] /\ i + 1 # 1
  BY <1>3 DEF Opens, Reading
<1>6. ASSUME Opens(q) # {}, Head(q).kind # "OPN" PROVE Opens(t) # {}
  <2>1. PICK i \in DOMAIN q : q[i].kind = "OPN"
    BY <1>6 DEF Opens
  <2>2. i # 1
    BY <1>1, <1>6, <2>1
  <2>3. QED
    BY <1>4, <2>1, <2>2 DEF Opens
<1>7. ASSUME Reading(q) # {}, Head(q).kind # "READ" PROVE Reading(t) # {}
  <2>1. PICK i \in DOMAIN q : q[i].kind = "READ"
    BY <1>7 DEF Reading
  <2>2. i # 1
    BY <1>1, <1>7, <2>1
  <2>3. QED
    BY <1>4, <2>1, <2>2 DEF Reading
<1>8. /\ (1 \in Opens(q)) <=> (Head(q).kind = "OPN")
      /\ (1 \in Reading(q)) <=> (Head(q).kind = "READ")
  BY <1>1 DEF Opens, Reading
<1>9. QED
  BY <1>5, <1>6, <1>7, <1>8 DEF t

\* One request for a token at a time, as OneRenewal says.
LEMMA OneOpen ==
    ASSUME IdInv
    PROVE  /\ \A i \in Opens(c2s) : /\ exchange = "params" /\ client.next.id = 0
                                    /\ Opens(s2c) = {} /\ \A j \in Opens(c2s) : i = j
           /\ \A i \in Opens(s2c) : /\ exchange = "params" /\ client.next.id = 0
                                    /\ Opens(c2s) = {} /\ \A j \in Opens(s2c) : i = j
<1>1. \A q, i : i \in Opens(q) <=> IsOpn(q, i)
  BY DEF Opens, IsOpn
<1>2. QED
  BY <1>1 DEF IdInv, OneRenewal

\* Tokens of a queue after a message was added.
LEMMA UnderAppend ==
    ASSUME NEW q \in Seq(Message), NEW m \in Message, NEW c
    PROVE  /\ AllUnder(c, q) /\ Under(c, m) => AllUnder(c, Append(q, m))
           /\ OnlyThen(c, q) /\ Under(c, m) => OnlyThen(c, Append(q, m))
           /\ (\A i \in DOMAIN q : ~Under(c, q[i])) => OnlyThen(c, Append(q, m))
<1> DEFINE a == Append(q, m)
<1>1. /\ DOMAIN a = DOMAIN q \cup {Len(q) + 1} /\ Len(q) + 1 \notin DOMAIN q
      /\ \A i \in DOMAIN q : a[i] = q[i]
      /\ a[Len(q) + 1] = m
  BY AppendIs
<1>2. \A i \in DOMAIN q : i \in Nat /\ i <= Len(q)
  BY MessageTypes
<1>3. Len(q) \in Nat
  OBVIOUS
<1> HIDE DEF a
<1>4. AllUnder(c, q) /\ Under(c, m) => AllUnder(c, a)
  BY <1>1 DEF AllUnder
<1>5. OnlyThen(c, q) /\ Under(c, m) => OnlyThen(c, a)
  <2> SUFFICES ASSUME OnlyThen(c, q), Under(c, m), NEW i \in DOMAIN a, NEW j \in DOMAIN a,
                      i <= j, Under(c, a[i])
               PROVE  Under(c, a[j])
    BY DEF OnlyThen
  <2>1. CASE j = Len(q) + 1
    BY <1>1, <2>1
  <2>2. CASE j # Len(q) + 1
    <3>1. j \in DOMAIN q /\ i \in DOMAIN q
      BY <1>1, <1>2, <1>3, <2>2
    <3>2. QED
      BY <1>1, <3>1 DEF OnlyThen
  <2>3. QED
    BY <2>1, <2>2
<1>6. (\A i \in DOMAIN q : ~Under(c, q[i])) => OnlyThen(c, a)
  <2> SUFFICES ASSUME \A i \in DOMAIN q : ~Under(c, q[i]), NEW i \in DOMAIN a, NEW j \in DOMAIN a,
                      i <= j, Under(c, a[i])
               PROVE  Under(c, a[j])
    BY DEF OnlyThen
  <2>1. i = Len(q) + 1
    BY <1>1
  <2>2. j = i
    BY <1>1, <1>2, <1>3, <2>1
  <2>3. QED
    BY <2>2
<1>7. QED
  BY <1>4, <1>5, <1>6 DEF a

\* Tokens of a queue after its first was taken.
LEMMA UnderTail ==
    ASSUME NEW q \in Seq(Message), q # << >>, NEW c
    PROVE  /\ AllUnder(c, q) => AllUnder(c, Tail(q))
           /\ OnlyThen(c, q) => OnlyThen(c, Tail(q))
           /\ OnlyThen(c, q) /\ Under(c, Head(q)) => AllUnder(c, Tail(q))
<1> DEFINE t == Tail(q)
<1>1. /\ 1 \in DOMAIN q /\ Head(q) = q[1]
      /\ \A i \in DOMAIN t : i \in Nat /\ i >= 1 /\ i + 1 \in DOMAIN q /\ t[i] = q[i + 1]
  BY TailIs
<1> HIDE DEF t
<1>2. \A i, j \in DOMAIN t : i <= j => i + 1 <= j + 1
  BY <1>1
<1>3. \A i \in DOMAIN t : 1 <= i + 1
  BY <1>1
<1>4. QED
  BY <1>1, <1>2, <1>3 DEF AllUnder, OnlyThen, t

\* Connections that are alike secure the same messages.
LEMMA AlikeUnder ==
    ASSUME NEW c, NEW d, d.token = c.token, d.key = c.key
    PROVE  /\ \A m : Under(d, m) <=> Under(c, m)
           /\ \A q : AllUnder(d, q) <=> AllUnder(c, q)
           /\ \A q : OnlyThen(d, q) <=> OnlyThen(c, q)
BY DEF Under, AllUnder, OnlyThen

\* A connection whose tokens stay accepts the same late messages.
LEMMA AlikeLate ==
    ASSUME NEW c, NEW d, Alike(c, d), d.prevKey = c.prevKey
    PROVE  /\ \A m : Late(c, m) => Late(d, m)
           /\ Window(c) => Window(d)
           /\ Made(d) = Made(c)
BY DEF Alike, Late, Window, Made

-----------------------------------------------------------------------------
(* The tokens of both sides, step by step.                                 *)

\* In both phases the client has no next token unless it is Known.
LEMMA NextToken ==
    ASSUME SecureChannelAssumption, SafeInv
    PROVE  /\ client.next.id = 0 => client.next = NoToken /\ ~Known
           /\ client.next.id # 0 => Level /\ Known /\ client.next # NoToken
           /\ Ahead => client.token.id # server.token.id /\ ~Level
<1>1. server.token.id \in Nat /\ NoToken.id = 0
  BY SafeTypes, ConnectionTypes DEF NoToken
<1>2. Known => client.next.id # 0
  BY <1>1 DEF Known, Pending
<1>3. Ahead => client.token.id # server.token.id /\ ~Level
  BY <1>1 DEF Ahead, Pending, Level
<1>4. Idle \/ Offered \/ Ahead => client.next = NoToken
  BY DEF Idle, Offered, Ahead
<1>5. QED
  BY <1>1, <1>2, <1>3, <1>4 DEF SafeInv, Level

\* The client sends a message and keeps its token.
LEMMA SendKeeps ==
    ASSUME SecureChannelAssumption, SafeInv, NEW m \in Message, Asks(m),
           client.next.id = 0, Alike(client, client'), client'.prevKey = client.prevKey,
           UNCHANGED <<server, s2c>>,
           exchange' = "params" => exchange = "params" \/ loop = "asleep",
           loop' = "asleep" => loop = "asleep",
           m.kind = "OPN" => m.nonces > 0
    PROVE  (Level \/ Ahead)'
<1>1. /\ c2s' = Append(c2s, m) /\ c2s \in Seq(Message) /\ s2c \in Seq(Message)
      /\ client'.token = client.token /\ client'.key = client.key
      /\ client'.next = client.next /\ client'.nonces = client.nonces /\ client'.prev = client.prev
  BY SafeTypes DEF Asks, Alike
<1>2. Under(client, m)
  BY <1>1, AlikeUnder DEF Asks
<1>3. /\ \A x : Late(client, x) => Late(client', x)
      /\ Window(client) => Window(client')
      /\ Made(client') = Made(client)
  BY AlikeLate
<1>4. client.next = NoToken /\ ~Known
  BY NextToken
<1>5. CASE Level
  <2>1. server'.token = client'.token /\ server'.key = client'.key
    BY <1>1, <1>5 DEF Level
  <2>2. AllUnder(client', c2s')
    <3>1. AllUnder(client, c2s')
      BY <1>1, <1>2, <1>5, UnderAppend DEF Level
    <3>2. QED
      BY <1>1, <3>1, AlikeUnder
  <2>3. \A i \in DOMAIN s2c : Under(client', s2c[i]) \/ Late(client', s2c[i])
    BY <1>1, <1>3, <1>5, AlikeUnder DEF Level
  <2>4. OnlyThen(client', s2c)
    BY <1>1, <1>5, AlikeUnder DEF Level
  <2>5. Idle' \/ Offered'
    <3>1. CASE Idle
      <4>1. \A i \in Opens(c2s') : c2s'[i].nonces > 0
        BY <1>1, <3>1, SetsOfAppend DEF Idle
      <4>2. QED
        BY <1>1, <3>1, <4>1 DEF Idle
    <3>2. CASE Offered
      BY <1>1, <3>2 DEF Offered, Pending
    <3>3. QED
      BY <1>4, <1>5, <3>1, <3>2 DEF Level
  <2>6. ~Known'
    <3>1. client'.next.id = 0 /\ server.token.id \in Nat
      BY <1>1, SafeTypes, ConnectionTypes
    <3>2. QED
      BY <3>1 DEF Known, Pending
  <2>7. loop' = "asleep" \/ exchange' = "params" => AllUnder(client', s2c)
    <3>1. loop = "asleep" \/ exchange = "params" => AllUnder(client, s2c)
      BY <1>5 DEF Level
    <3>2. QED
      BY <1>1, <3>1, AlikeUnder
  <2>8. QED
    BY <2>1, <2>2, <2>3, <2>4, <2>5, <2>6, <2>7 DEF Level
<1>6. CASE Ahead
  <2>1. OnlyThen(client', c2s')
    <3>1. OnlyThen(client, c2s')
      BY <1>1, <1>2, <1>6, UnderAppend DEF Ahead
    <3>2. QED
      BY <1>1, <3>1, AlikeUnder
  <2>2. \A i \in DOMAIN c2s' : Under(server, c2s'[i]) \/ Under(client', c2s'[i])
    <3>1. \A i \in DOMAIN c2s' : Under(server, c2s'[i]) \/ Under(client, c2s'[i])
      BY <1>1, <1>2, <1>6, AppendIs DEF Ahead
    <3>2. QED
      BY <1>1, <3>1, AlikeUnder
  <2>3. \E i \in DOMAIN c2s' : Under(client', c2s'[i]) /\ c2s'[i].sent <= Made(client')
    <3>1. PICK i \in DOMAIN c2s : Under(client, c2s[i]) /\ c2s[i].sent <= Made(client)
      BY <1>6 DEF Ahead
    <3>2. i \in DOMAIN c2s' /\ c2s'[i] = c2s[i]
      BY <1>1, AppendIs
    <3>3. QED
      BY <1>1, <1>3, <3>1, <3>2, AlikeUnder
  <2>4. exchange' # "params" /\ loop' # "asleep"
    BY <1>6 DEF Ahead
  <2>5. QED
    BY <1>1, <1>3, <1>6, <2>1, <2>2, <2>3, <2>4 DEF Ahead, Pending
<1>7. QED
  BY <1>5, <1>6 DEF SafeInv

\* The margins of 75 % and 125 %: when the client revolves at n, its old token (of
\* time t, in use since r) and key outlive what is under way, after a sleep from s to a.
LEMMA Margins ==
    ASSUME NEW D \in Nat, NEW L \in Nat, NEW K \in Nat, NEW t \in Nat, NEW s \in Nat, NEW a \in Nat,
           NEW r \in Nat, NEW n \in Nat,
           20 * D <= L, 24 * D + 3 * L <= 4 * K,
           r <= t + D, s <= r + 2 * D, s <= a, 4 * (a - s) <= 3 * L + 3, n <= a + 2 * D
    PROVE  /\ 4 * (n + 2 * D) <= 4 * t + 5 * L
           /\ n + 2 * D <= r + K
           /\ n <= t + L
<1>1. 4 * n <= 4 * s + 3 * L + 3 + 8 * D
  OBVIOUS
<1>2. 4 * n <= 4 * r + 3 * L + 3 + 16 * D
  BY <1>1
<1>3. 4 * n <= 4 * t + 3 * L + 3 + 20 * D
  BY <1>2
<1>4. n <= t + L
  BY <1>3
<1>5. 4 * (n + 2 * D) <= 4 * t + 5 * L
  BY <1>4
<1>6. n + 2 * D <= r + K
  BY <1>2
<1>7. QED
  BY <1>4, <1>5, <1>6

\* The client sends its first message under the new token.
LEMMA SendTurns ==
    ASSUME SecureChannelAssumption, FastNetwork, SafeInv, NEW m \in Message, Asks(m),
           client.next.id # 0, Turned(client, client'), UNCHANGED <<server, s2c, now>>,
           loop = "renewing", exchange' # "params", loop' # "asleep"
    PROVE  /\ Ahead' /\ Made(client') = now
           /\ Made(client') <= client'.token.created + MaxDelay
<1>1. Level /\ Known /\ client.next # NoToken
  BY NextToken
<1>2. /\ c2s' = Append(c2s, m) /\ c2s \in Seq(Message) /\ s2c \in Seq(Message)
      /\ m.sent = now /\ Under(client', m)
  BY SafeTypes DEF Asks
<1>3. /\ client'.token = client.next /\ client'.next = NoToken /\ client'.prev = client.token
      /\ client'.nonces = client.nonces /\ client'.key = client.nonces
      /\ client'.keyExpiration = now + KeyLife
      /\ client'.prevKey = client.key /\ client'.prevKeyExpiration = client.keyExpiration
  BY DEF Turned
<1>4. Made(client') = now
  BY <1>3, SafeTypes DEF Made
<1>5. ~Revolved /\ exchange = "response"
  BY <1>1 DEF Revolved, Known
<1>6. /\ since <= Made(client) + 2 * MaxDelay /\ since <= asked
      /\ 4 * (asked - since) <= 3 * Lifetime + 3
      /\ now <= asked + 2 * MaxDelay /\ now <= client.next.created + MaxDelay
      /\ Made(client) <= client.token.created + MaxDelay
      /\ client.key > 0
  BY <1>5 DEF SafeInv, Clock
<1>7. client.token.created \in Nat /\ client.keyExpiration \in Nat /\ client.token.id # 0
  <2>1. 1 <= client.token.id
    BY SafeTypes, TokenTypes DEF SafeInv, IdInv, TokenIds
  <2>2. QED
    BY <2>1, SafeTypes, ConnectionTypes
<1>8. /\ now \in Nat /\ MaxDelay \in Nat /\ Lifetime \in Nat /\ KeyLife \in Nat
      /\ since \in Nat /\ asked \in Nat /\ Made(client) \in Nat
  BY SafeTypes
<1>9. /\ 4 * (now + 2 * MaxDelay) <= 4 * client.token.created + 5 * Lifetime
      /\ now + 2 * MaxDelay <= Made(client) + KeyLife
  BY <1>6, <1>7, <1>8, Margins DEF FastNetwork
<1>10. Window(client')
  <2>1. Made(client) + KeyLife = client.keyExpiration
    BY <1>7, <1>8 DEF Made
  <2>2. client.key # 0
    BY <1>6
  <2>3. now + 2 * MaxDelay <= client.keyExpiration
    BY <1>9, <2>1
  <2>4. QED
    BY <1>3, <1>4, <1>7, <1>9, <2>2, <2>3 DEF Window
<1>11. AllUnder(server, s2c) /\ AllUnder(server, c2s) /\ server.token = client.token
       /\ server.key = client.key
  BY <1>1, AlikeUnder DEF Level
<1>12. client'.token.id = server.token.id + 1 /\ server.token.id \in Nat
  BY <1>1, <1>3, SafeTypes, ConnectionTypes DEF Known, Pending
<1>13. \A i \in DOMAIN c2s : ~Under(client', c2s[i])
  BY <1>11, <1>12 DEF AllUnder, Under
<1>14. OnlyThen(client', c2s')
  BY <1>2, <1>13, UnderAppend
<1>15. \A i \in DOMAIN c2s' : Under(server, c2s'[i]) \/ Under(client', c2s'[i])
  BY <1>2, <1>11, AppendIs DEF AllUnder
<1>16. \E i \in DOMAIN c2s' : Under(client', c2s'[i]) /\ c2s'[i].sent <= Made(client')
  <2>1. Len(c2s) + 1 \in DOMAIN c2s' /\ c2s'[Len(c2s) + 1] = m
    BY <1>2, AppendIs
  <2>2. m.sent <= Made(client')
    BY <1>2, <1>4, <1>8
  <2>3. QED
    BY <1>2, <2>1, <2>2
<1>17. Pending /\ client.next = server.next /\ client.nonces = server.nonces
  BY <1>1 DEF Known
<1>18. Ahead'
  BY <1>3, <1>10, <1>11, <1>14, <1>15, <1>16, <1>17 DEF Ahead, Pending
<1>19. QED
  BY <1>3, <1>4, <1>6, <1>18

\* A message that is not the first is one place further on after the first is taken.
LEMMA TailReaches ==
    ASSUME NEW q \in Seq(Message), q # << >>, NEW i \in DOMAIN q, i # 1
    PROVE  i - 1 \in DOMAIN Tail(q) /\ Tail(q)[i - 1] = q[i]
<1>1. /\ DOMAIN q = 1 .. Len(q) /\ Len(q) \in Nat
      /\ DOMAIN Tail(q) = 1 .. Len(q) - 1
      /\ \A j \in 1 .. Len(q) - 1 : Tail(q)[j] = q[j + 1]
  OBVIOUS
<1>2. i - 1 \in 1 .. Len(q) - 1 /\ (i - 1) + 1 = i
  BY <1>1
<1>3. QED
  BY <1>1, <1>2

\* The client receives a message that is not about its tokens.  The answer to
\* the read of the loop is the first message under the new token or comes
\* after it.
LEMMA ReceiveKeeps ==
    ASSUME SecureChannelAssumption, SafeInv, s2c # << >>, s2c' = Tail(s2c),
           UNCHANGED <<server, c2s, exchange>>, Head(s2c).kind # "OPN", Alike(client, client'),
           loop' = "asleep" => loop = "asleep" \/ Head(s2c).kind = "READ"
    PROVE  (Level \/ Ahead)'
<1>1. /\ s2c \in Seq(Message) /\ 1 \in DOMAIN s2c /\ Head(s2c) = s2c[1]
      /\ \A i \in DOMAIN s2c' : i \in Nat /\ i + 1 \in DOMAIN s2c /\ s2c'[i] = s2c[i + 1]
  BY SafeTypes, TailIs
<1>2. /\ client'.token = client.token /\ client'.key = client.key
      /\ client'.next = client.next /\ client'.nonces = client.nonces /\ client'.prev = client.prev
      /\ Made(client') = Made(client)
      /\ now <= client.prevKeyExpiration => client'.prevKey = client.prevKey
  BY DEF Alike, Made
<1>3. Head(s2c).kind = "READ" => Under(client, Head(s2c)) /\ server.token = client.token
  BY <1>1 DEF SafeInv, Completion, Reading
<1>4. CASE Level
  <2>1. \A i \in DOMAIN s2c' : Under(client', s2c'[i]) \/ Late(client', s2c'[i])
    <3> SUFFICES ASSUME NEW i \in DOMAIN s2c', ~Under(client', s2c'[i])
                 PROVE  Late(client', s2c'[i])
      OBVIOUS
    <3>1. i + 1 \in DOMAIN s2c /\ s2c'[i] = s2c[i + 1]
      BY <1>1
    <3>2. Late(client, s2c[i + 1])
      BY <1>2, <1>4, <3>1, AlikeUnder DEF Level
    <3>3. client'.prevKey = client.prevKey
      BY <1>2, <3>1, <3>2, LateIsShort
    <3>4. QED
      BY <3>1, <3>2, <3>3, AlikeLate
  <2>2. OnlyThen(client', s2c')
    <3>1. OnlyThen(client, s2c')
      BY <1>1, <1>4, UnderTail DEF Level
    <3>2. QED
      BY <1>2, <3>1, AlikeUnder
  <2>3. /\ Idle => Idle'
        /\ Offered => Offered'
        /\ Known <=> Known'
    <3>1. Opens(s2c) = {} => Opens(s2c') = {}
      BY <1>1, SetsOfTail
    <3>2. Opens(s2c) # {} => Opens(s2c') # {}
      BY <1>1, SetsOfTail
    <3>3. \A i \in Opens(s2c') : i + 1 \in Opens(s2c) /\ s2c'[i] = s2c[i + 1]
      BY <1>1, SetsOfTail
    <3>4. Idle => Idle'
      BY <1>2, <3>1 DEF Idle
    <3>5. ASSUME Offered PROVE Offered'
      <4>1. ASSUME NEW i \in Opens(s2c')
            PROVE  s2c'[i].token = server.next /\ s2c'[i].nonces = server.nonces
        <5>1. PICK j \in Opens(s2c) : s2c'[i] = s2c[j]
          BY <3>3
        <5>2. s2c[j].token = server.next /\ s2c[j].nonces = server.nonces
          BY <3>5, <5>1 DEF Offered
        <5>3. QED
          BY <5>1, <5>2
      <4>2. Opens(s2c') # {} /\ server' = server /\ Pending /\ client'.next = NoToken
        BY <1>2, <3>2, <3>5 DEF Offered
      <4>3. Pending'
        BY <4>2 DEF Pending
      <4>4. QED
        BY <4>1, <4>2, <4>3 DEF Offered
    <3>6. Known <=> Known'
      BY <1>2 DEF Known, Pending
    <3>7. QED
      BY <3>4, <3>5, <3>6
  <2>4. loop' = "asleep" \/ exchange' = "params" \/ Known' => AllUnder(client', s2c')
    <3>1. AllUnder(client, s2c) => AllUnder(client, s2c')
      BY <1>1, UnderTail
    <3>2. Head(s2c).kind = "READ" => AllUnder(client, s2c')
      BY <1>1, <1>3, <1>4, UnderTail DEF Level
    <3>3. loop' = "asleep" \/ exchange = "params" \/ Known => AllUnder(client, s2c')
      BY <1>4, <3>1, <3>2 DEF Level
    <3>4. AllUnder(client', s2c') <=> AllUnder(client, s2c')
      BY <1>2, AlikeUnder
    <3>5. QED
      BY <2>3, <3>3, <3>4
  <2>5. AllUnder(client', c2s)
    BY <1>2, <1>4, AlikeUnder DEF Level
  <2>6. QED
    BY <1>2, <1>4, <2>1, <2>2, <2>3, <2>4, <2>5 DEF Level
<1>5. CASE Ahead
  <2>1. Head(s2c).kind # "READ"
    BY <1>3, <1>5, NextToken
  <2>2. client'.prevKey = client.prevKey
    BY <1>2, <1>5, AheadIsShort
  <2>3. Window(client')
    BY <1>5, <2>2, AlikeLate DEF Ahead
  <2>4. AllUnder(server, s2c')
    BY <1>1, <1>5, UnderTail DEF Ahead
  <2>5. OnlyThen(client', c2s)
    BY <1>2, <1>5, AlikeUnder DEF Ahead
  <2>6. \A i \in DOMAIN c2s : Under(server, c2s[i]) \/ Under(client', c2s[i])
    BY <1>2, <1>5, AlikeUnder DEF Ahead
  <2>7. \E i \in DOMAIN c2s : Under(client', c2s[i]) /\ c2s[i].sent <= Made(client')
    BY <1>2, <1>5, AlikeUnder DEF Ahead
  <2>8. loop' # "asleep"
    BY <1>5, <2>1 DEF Ahead
  <2>9. QED
    BY <1>2, <1>5, <2>2, <2>3, <2>4, <2>5, <2>6, <2>7, <2>8 DEF Ahead, Pending
<1>6. QED
  BY <1>4, <1>5 DEF SafeInv

\* The client receives the answer to its request for a token.
LEMMA ReceiveOffer ==
    ASSUME SecureChannelAssumption, SafeInv, s2c # << >>, s2c' = Tail(s2c),
           UNCHANGED <<server, c2s>>, Head(s2c).kind = "OPN",
           Given(client, client', Head(s2c)), exchange' = "response"
    PROVE  /\ Level' /\ exchange = "params" /\ ~Revolved'
           /\ client'.nonces > 0 /\ 1 \in Opens(s2c) /\ Head(s2c) = s2c[1]
           /\ client'.next.created = Head(s2c).sent
<1>1. s2c \in Seq(Message) /\ 1 \in DOMAIN s2c /\ Head(s2c) = s2c[1] /\ 1 \in Opens(s2c)
  BY SafeTypes, TailIs DEF Opens
<1>2. exchange = "params" /\ Opens(c2s) = {}
  BY <1>1, OneOpen DEF SafeInv
<1>3. Level /\ Offered
  BY <1>1, <1>2 DEF SafeInv, Ahead, Level, Idle, Known
<1>4. Pending /\ s2c[1].token = server.next /\ s2c[1].nonces = server.nonces
  BY <1>1, <1>3 DEF Offered
<1>5. /\ client'.token = client.token /\ client'.key = client.key
      /\ client'.next = server.next /\ client'.nonces = server.nonces
  BY <1>1, <1>4 DEF Given
<1>6. Known'
  BY <1>4, <1>5 DEF Known, Pending
<1>7. AllUnder(client', s2c')
  <2>1. AllUnder(client, s2c')
    BY <1>1, <1>2, <1>3, UnderTail DEF Level
  <2>2. QED
    BY <1>5, <2>1, AlikeUnder
<1>8. AllUnder(client', c2s)
  BY <1>3, <1>5, AlikeUnder DEF Level
<1>9. Level'
  BY <1>3, <1>5, <1>6, <1>7, <1>8 DEF Level, AllUnder, OnlyThen
<1>10. client'.next # NoToken
  <2>1. server.token.id \in Nat /\ server.next.id = server.token.id + 1
    BY <1>4, SafeTypes, ConnectionTypes DEF Pending
  <2>2. NoToken.id = 0
    BY DEF NoToken
  <2>3. QED
    BY <1>5, <2>1, <2>2
<1>11. client'.next.created = Head(s2c).sent
  BY <1>1, <1>4, <1>5 DEF SafeInv, Renewal
<1>12. QED
  BY <1>1, <1>2, <1>4, <1>5, <1>9, <1>10, <1>11 DEF Revolved, Pending

\* The server sends a message that is not about tokens and keeps its own.
LEMMA ServerKeeps ==
    ASSUME SecureChannelAssumption, SafeInv, NEW r \in Message, r.kind # "OPN",
           s2c' = Append(s2c, r), Under(server, r),
           server'.token = server.token /\ server'.next = server.next,
           server'.nonces = server.nonces /\ server'.key = server.key,
           UNCHANGED <<client, exchange, loop>>,
           \/ c2s' = c2s
           \/ /\ c2s # << >> /\ c2s' = Tail(c2s)
              /\ Under(server, Head(c2s)) /\ Head(c2s).kind # "OPN"
    PROVE  (Level \/ Ahead)'
<1>1. c2s \in Seq(Message) /\ s2c \in Seq(Message)
  BY SafeTypes
<1>2. Opens(s2c') = Opens(s2c) /\ \A i \in Opens(s2c) : s2c'[i] = s2c[i]
  BY <1>1, SetsOfAppend
<1>3. \A i \in Opens(c2s') : \E j \in Opens(c2s) : c2s'[i] = c2s[j]
  <2>1. CASE c2s' = c2s
    BY <2>1
  <2>2. CASE c2s # << >> /\ c2s' = Tail(c2s)
    <3>1. \A i \in Opens(Tail(c2s)) : i + 1 \in Opens(c2s) /\ Tail(c2s)[i] = c2s[i + 1]
      BY <1>1, <2>2, SetsOfTail
    <3>2. QED
      BY <2>2, <3>1
  <2>3. QED
    BY <2>1, <2>2
<1>4. CASE Level
  <2>1. Under(client, r) /\ server'.token = client.token /\ server'.key = client.key
    BY <1>4, AlikeUnder DEF Level
  <2>2. AllUnder(client, c2s')
    BY <1>1, <1>4, UnderTail DEF Level
  <2>3. \A i \in DOMAIN s2c' : Under(client, s2c'[i]) \/ Late(client, s2c'[i])
    BY <1>1, <1>4, <2>1, AppendIs DEF Level
  <2>4. OnlyThen(client, s2c')
    BY <1>1, <1>4, <2>1, UnderAppend DEF Level
  <2>5. AllUnder(client, s2c) => AllUnder(client, s2c')
    BY <1>1, <2>1, UnderAppend
  <2>6. /\ Idle => Idle'
        /\ Offered => Offered'
        /\ Known <=> Known'
    <3>1. Idle => Idle'
      BY <1>2, <1>3 DEF Idle
    <3>2. Offered => Offered'
      BY <1>2 DEF Offered, Pending
    <3>3. Known <=> Known'
      BY DEF Known, Pending
    <3>4. QED
      BY <3>1, <3>2, <3>3
  <2>7. QED
    BY <1>4, <2>1, <2>2, <2>3, <2>4, <2>5, <2>6 DEF Level
<1>5. CASE Ahead
  <2>1. AllUnder(server', s2c')
    <3>1. AllUnder(server, s2c')
      BY <1>1, <1>5, UnderAppend DEF Ahead
    <3>2. QED
      BY <3>1, AlikeUnder
  <2>2. OnlyThen(client, c2s')
    BY <1>1, <1>5, UnderTail DEF Ahead
  <2>3. \A i \in DOMAIN c2s' : Under(server', c2s'[i]) \/ Under(client, c2s'[i])
    <3>1. \A i \in DOMAIN c2s' : \E j \in DOMAIN c2s : c2s'[i] = c2s[j]
      BY <1>1, TailIs
    <3>2. QED
      BY <1>5, <3>1, AlikeUnder DEF Ahead
  <2>4. \E i \in DOMAIN c2s' : Under(client, c2s'[i]) /\ c2s'[i].sent <= Made(client)
    <3>1. CASE c2s' = c2s
      BY <1>5, <3>1 DEF Ahead
    <3>2. CASE c2s # << >> /\ c2s' = Tail(c2s) /\ Under(server, Head(c2s))
      <4>1. PICK i \in DOMAIN c2s : Under(client, c2s[i]) /\ c2s[i].sent <= Made(client)
        BY <1>5 DEF Ahead
      <4>2. i # 1
        <5>1. Head(c2s) = c2s[1]
          BY <1>1, <3>2, TailIs
        <5>2. QED
          BY <1>5, <3>2, <4>1, <5>1, NextToken DEF Under
      <4>3. i - 1 \in DOMAIN Tail(c2s) /\ Tail(c2s)[i - 1] = c2s[i]
        BY <1>1, <3>2, <4>1, <4>2, TailReaches
      <4>4. QED
        BY <3>2, <4>1, <4>3
    <3>3. QED
      BY <3>1, <3>2
  <2>5. QED
    BY <1>5, <2>1, <2>2, <2>3, <2>4 DEF Ahead, Pending
<1>6. QED
  BY <1>4, <1>5 DEF SafeInv

\* The server gets the first message under the new token.
LEMMA ServerTurns ==
    ASSUME SecureChannelAssumption, SafeInv, Ahead, NEW r \in Message, r.kind # "OPN",
           s2c' = Append(s2c, r), Under(server', r),
           c2s # << >>, c2s' = Tail(c2s), Under(client, Head(c2s)),
           server'.token = server.next /\ server'.next = NoToken,
           server'.nonces = server.nonces /\ server'.key = server.nonces,
           UNCHANGED <<client, exchange, loop>>
    PROVE  Level'
<1>1. c2s \in Seq(Message) /\ s2c \in Seq(Message)
  BY SafeTypes
<1>2. /\ server'.token = client.token /\ server'.key = client.key
      /\ server'.nonces = client.nonces /\ client.next = NoToken
  BY DEF Ahead
<1>3. Under(client, r)
  BY <1>2, AlikeUnder
<1>4. AllUnder(client, c2s')
  BY <1>1, UnderTail DEF Ahead
<1>5. \A i \in DOMAIN s2c : Late(client, s2c[i]) /\ ~Under(client, s2c[i])
  <2> SUFFICES ASSUME NEW i \in DOMAIN s2c PROVE Late(client, s2c[i]) /\ ~Under(client, s2c[i])
    OBVIOUS
  <2>1. /\ s2c[i].id = client.prev.id /\ s2c[i].key = client.prevKey /\ Window(client)
        /\ s2c[i].id = server.token.id
    BY DEF Ahead, AllUnder, Under
  <2>2. s2c[i].sent <= now /\ s2c[i].sent \in Nat
    BY <1>1, MessageTypes DEF SafeInv, Timely
  <2>3. s2c[i].sent <= Made(client) + MaxDelay
    BY <2>2, AheadIsShort, SafeTypes
  <2>4. QED
    BY <2>1, <2>3, NextToken DEF Late, Under
<1>6. \A i \in DOMAIN s2c' : Under(client, s2c'[i]) \/ Late(client, s2c'[i])
  BY <1>1, <1>3, <1>5, AppendIs
<1>7. OnlyThen(client, s2c')
  BY <1>1, <1>5, UnderAppend
<1>8. Opens(s2c) = {} /\ Opens(c2s) = {}
  BY OneOpen DEF SafeInv, Ahead
<1>9. Opens(s2c') = {} /\ Opens(c2s') = {}
  <2>1. Opens(s2c') = {}
    BY <1>1, <1>8, SetsOfAppend
  <2>2. Opens(c2s') = {}
    BY <1>1, <1>8, SetsOfTail
  <2>3. QED
    BY <2>1, <2>2
<1>10. Idle'
  BY <1>2, <1>9 DEF Idle
<1>11. ~Known'
  <2>1. server'.next.id = 0
    BY DEF NoToken
  <2>2. server'.token.id \in Nat
    BY SafeTypes, ConnectionTypes
  <2>3. QED
    BY <2>1, <2>2 DEF Known, Pending
<1>12. QED
  BY <1>2, <1>4, <1>6, <1>7, <1>10, <1>11 DEF Ahead, Level

\* The server issues a token.
LEMMA ServerOffers ==
    ASSUME SecureChannelAssumption, SafeInv, NEW r \in Message, r.kind = "OPN",
           s2c' = Append(s2c, r), Under(server', r),
           c2s # << >>, c2s' = Tail(c2s), Head(c2s).kind = "OPN",
           r.token = server'.next, r.nonces = Head(c2s).nonces,
           server'.next = [id |-> server.token.id + 1, created |-> now],
           server'.token = server.token,
           server'.nonces = Head(c2s).nonces, server'.key = server.key,
           UNCHANGED <<client, exchange, loop>>
    PROVE  Level' /\ exchange = "params" /\ 1 \in Opens(c2s) /\ Head(c2s) = c2s[1]
<1>1. /\ c2s \in Seq(Message) /\ s2c \in Seq(Message)
      /\ 1 \in DOMAIN c2s /\ Head(c2s) = c2s[1] /\ 1 \in Opens(c2s)
  BY SafeTypes, TailIs DEF Opens
<1>2. exchange = "params" /\ Opens(s2c) = {}
  BY <1>1, OneOpen DEF SafeInv
<1>3. Level /\ Idle
  BY <1>2 DEF SafeInv, Ahead, Level, Offered, Known
<1>4. Head(c2s).nonces > 0
  BY <1>1, <1>3 DEF Idle
<1>5. Pending'
  BY <1>4 DEF Pending
<1>6. Opens(s2c') = {Len(s2c) + 1} /\ s2c'[Len(s2c) + 1] = r
  BY <1>1, <1>2, SetsOfAppend
<1>7. Offered'
  BY <1>3, <1>5, <1>6 DEF Offered, Idle
<1>8. server'.token = client.token /\ server'.key = client.key
  BY <1>3 DEF Level
<1>9. Under(client, r) /\ AllUnder(client, s2c)
  BY <1>2, <1>3, <1>8, AlikeUnder DEF Level
<1>10. AllUnder(client, s2c') /\ AllUnder(client, c2s')
  BY <1>1, <1>3, <1>9, UnderAppend, UnderTail DEF Level
<1>11. QED
  BY <1>1, <1>2, <1>7, <1>8, <1>10 DEF Level, AllUnder, OnlyThen

-----------------------------------------------------------------------------
(* Every step keeps SafeInv.                                               *)

\* What is to be shown of a step beside IdInv.
Rest ==
    /\ rejected = {} /\ Timely(c2s) /\ Timely(s2c) /\ Chains
    /\ Tasks /\ (Level \/ Ahead) /\ Completion /\ Renewal /\ Clock

\* A message sent by the client keeps order, delay and numbers of both queues.
LEMMA AskQueues ==
    ASSUME SecureChannelAssumption, SafeInv, NEW m \in Message, Asks(m),
           UNCHANGED <<server, s2c, now>>
    PROVE  Timely(c2s)' /\ Timely(s2c)' /\ Chains'
<1>1. c2s \in Seq(Message) /\ now \in Nat /\ c2s' = Append(c2s, m) /\ m.sent = now
      /\ m.seq = NextSeq(client.seq) /\ client'.seq = m.seq /\ client'.peerSeq = client.peerSeq
  BY SafeTypes DEF Asks
<1>2. Timely(Append(c2s, m))
  BY <1>1, TimelyAppend DEF SafeInv
<1>3. Chained(Append(c2s, m), server.peerSeq, m.seq)
  BY <1>1, ChainedAppend DEF SafeInv, Chains
<1>4. Timely(c2s)' /\ Timely(s2c)'
  BY <1>1, <1>2 DEF SafeInv, Timely
<1>5. QED
  BY <1>1, <1>3, <1>4 DEF SafeInv, Chains

\* The clock of a client whose tokens stay.
LEMMA ClockAlike ==
    ASSUME SafeInv, Alike(client, client'), UNCHANGED <<since, asked, loop, exchange, now>>
    PROVE  Clock'
<1>1. /\ client'.token = client.token /\ client'.next = client.next
      /\ client'.allowPrev = client.allowPrev /\ client'.nonces = client.nonces
      /\ client'.key = client.key /\ client'.keyExpiration = client.keyExpiration
  BY DEF Alike
<1>2. Made(client') = Made(client)
  BY <1>1 DEF Made
<1>3. Revolved' <=> Revolved
  BY <1>1 DEF Revolved
<1>4. QED
  BY <1>1, <1>2, <1>3 DEF SafeInv, Clock

\* Without a round to complete, no read is under way.
LEMMA NoReading ==
    ASSUME SafeInv, loop \notin {"reading", "failed"}
    PROVE  Reading(c2s) = {} /\ Reading(s2c) = {}
BY DEF SafeInv, Completion

\* A request of another task keeps the invariant.
LEMMA ClientRequestSafe ==
    ASSUME SecureChannelAssumption, FastNetwork, SafeInv, ClientRequest
    PROVE  Rest'
<1>1. /\ loop # "failed" /\ ClientSends("MSG", 0)
      /\ UNCHANGED <<server, s2c, exchange, waiter, loop, since, asked, rejected, now>>
  BY DEF ClientRequest
<1>2. PICK m \in Message :
          /\ Asks(m) /\ m.kind = "MSG"
          /\ \/ /\ client.next.id = 0 /\ Alike(client, client')
                /\ client'.prevKey = client.prevKey
             \/ client.next.id # 0 /\ Turned(client, client')
  BY <1>1, ClientSendsIs
<1>3. Timely(c2s)' /\ Timely(s2c)' /\ Chains' /\ rejected' = {}
  BY <1>1, <1>2, AskQueues DEF SafeInv
<1>4. /\ c2s \in Seq(Message) /\ c2s' = Append(c2s, m)
      /\ Opens(c2s') = Opens(c2s) /\ Reading(c2s') = Reading(c2s)
      /\ \A i \in DOMAIN c2s : c2s'[i] = c2s[i]
      /\ Opens(c2s) \subseteq DOMAIN c2s /\ Reading(c2s) \subseteq DOMAIN c2s
  <2>1. c2s \in Seq(Message) /\ c2s' = Append(c2s, m)
    BY <1>2, SafeTypes DEF Asks
  <2>2. QED
    BY <1>2, <2>1, SetsOfAppend
<1>5. Tasks'
  BY <1>1, <1>4 DEF SafeInv, Tasks
<1>6. Renewal'
  BY <1>1, <1>4 DEF SafeInv, Renewal
<1>7. CASE client.next.id = 0 /\ Alike(client, client') /\ client'.prevKey = client.prevKey
  <2>1. Level' \/ Ahead'
    BY <1>1, <1>2, <1>7, SendKeeps
  <2>2. Clock'
    BY <1>1, <1>7, ClockAlike
  <2>3. Completion'
    <3>1. (\A x : Under(client', x) <=> Under(client, x)) /\ client'.token = client.token
      BY <1>7, AlikeUnder DEF Alike
    <3>2. Made(client') = Made(client)
      BY <1>7 DEF Alike, Made
    <3>3. QED
      BY <1>1, <1>4, <3>1, <3>2 DEF SafeInv, Completion
  <2>4. QED
    BY <1>3, <1>5, <1>6, <2>1, <2>2, <2>3 DEF Rest
<1>8. CASE client.next.id # 0 /\ Turned(client, client')
  <2>1. loop = "renewing" /\ exchange = "response"
    BY <1>1, <1>8, NextToken, SafeTypes DEF Known, SafeInv, Tasks, TypeOK
  <2>2. /\ Ahead' /\ Made(client') = now
        /\ Made(client') <= client'.token.created + MaxDelay
    BY <1>1, <1>2, <1>8, <2>1, SendTurns
  <2>3. Completion'
    BY <1>1, <1>4, <2>1, NoReading DEF Completion
  <2>4. Clock'
    <3>1. /\ client'.key = client.nonces /\ client'.nonces = client.nonces
          /\ client'.allowPrev = client.allowPrev /\ client'.next = NoToken
          /\ client'.keyExpiration = now + KeyLife
      BY <1>8 DEF Turned
    <3>2. KeyLife <= now + KeyLife /\ now <= now
      BY SafeTypes
    <3>3. Revolved'
      BY <1>1, <2>1, <3>1 DEF Revolved
    <3>4. QED
      BY <1>1, <2>1, <2>2, <3>1, <3>2, <3>3 DEF SafeInv, Clock
  <2>5. QED
    BY <1>3, <1>5, <1>6, <2>2, <2>3, <2>4 DEF Rest
<1>9. QED
  BY <1>2, <1>7, <1>8

\* So does the request for a token.
LEMMA RenewSafe ==
    ASSUME SecureChannelAssumption, FastNetwork, SafeInv, Renew("loop")
    PROVE  Rest'
<1>1. loop = "asleep" /\ exchange = "none"
  BY DEF Renew, Due, SafeInv, Tasks
<1>2. /\ ClientSends("OPN", client.nonces + 1) /\ exchange' = "params" /\ waiter' = "loop"
      /\ asked' = now /\ loop' = "renewing" /\ UNCHANGED <<server, s2c, since, rejected, now>>
  BY <1>1 DEF Renew
<1>3. client.nonces \in Nat /\ client.nonces + 1 \in Nat /\ client.nonces + 1 > 0
  BY SafeTypes, ConnectionTypes
<1>4. PICK m \in Message :
          /\ Asks(m) /\ m.kind = "OPN" /\ m.nonces = client.nonces + 1
          /\ \/ /\ client.next.id = 0 /\ Alike(client, client')
                /\ client'.prevKey = client.prevKey
             \/ client.next.id # 0 /\ Turned(client, client')
  BY <1>2, <1>3, ClientSendsIs
<1>5. client.next.id = 0 /\ Alike(client, client') /\ client'.prevKey = client.prevKey
  BY <1>1, <1>4, NextToken DEF Known
<1>6. Timely(c2s)' /\ Timely(s2c)' /\ Chains' /\ rejected' = {}
  BY <1>2, <1>4, AskQueues DEF SafeInv
<1>7. Level' \/ Ahead'
  BY <1>1, <1>2, <1>3, <1>4, <1>5, SendKeeps
<1>8. /\ Opens(c2s) = {} /\ Opens(s2c) = {} /\ Reading(c2s) = {} /\ Reading(s2c) = {}
  BY <1>1, OneOpen, NoReading DEF SafeInv
<1>9. Opens(c2s') = {Len(c2s) + 1} /\ Reading(c2s') = {} /\ c2s'[Len(c2s) + 1] = m /\ m.sent = now
  <2>1. c2s \in Seq(Message) /\ c2s' = Append(c2s, m) /\ m.sent = now
    BY <1>4, SafeTypes DEF Asks
  <2>2. QED
    BY <1>4, <1>8, <2>1, SetsOfAppend
<1>10. Tasks'
  BY <1>2, <1>9 DEF Tasks
<1>11. Completion'
  BY <1>2, <1>8, <1>9 DEF Completion
<1>12. Renewal'
  <2>1. now <= now
    BY SafeTypes
  <2>2. QED
    BY <1>2, <1>8, <1>9, <2>1 DEF Renewal
<1>13. Clock'
  <2>1. /\ client'.token = client.token /\ client'.allowPrev = client.allowPrev
        /\ client'.nonces = client.nonces
        /\ client'.key = client.key /\ client'.keyExpiration = client.keyExpiration
    BY <1>5 DEF Alike
  <2>2. Made(client') = Made(client) /\ ~Revolved' /\ now <= now
    BY <1>2, <2>1, SafeTypes DEF Made, Revolved
  <2>3. QED
    BY <1>1, <1>2, <2>1, <2>2 DEF SafeInv, Clock
<1>14. QED
  BY <1>6, <1>7, <1>10, <1>11, <1>12, <1>13 DEF Rest

\* So does the return from the renewal, with the read that follows.
LEMMA RenewReturnsSafe ==
    ASSUME SecureChannelAssumption, LoopRenews, FastNetwork, SafeInv, RenewReturns
    PROVE  Rest'
<1>1. waiter = "loop" /\ loop = "renewing" /\ exchange = "response"
  BY SafeTypes DEF RenewReturns, LoopRenews, TypeOK, SafeInv, Tasks
<1>2. /\ ClientSends("READ", 0) /\ exchange' = "none" /\ waiter' = "none" /\ asked' = 0
      /\ loop' = "reading" /\ since' = now /\ UNCHANGED <<server, s2c, rejected, now>>
  BY <1>1 DEF RenewReturns
<1>3. PICK m \in Message :
          /\ Asks(m) /\ m.kind = "READ"
          /\ \/ /\ client.next.id = 0 /\ Alike(client, client')
                /\ client'.prevKey = client.prevKey
             \/ client.next.id # 0 /\ Turned(client, client')
  BY <1>2, ClientSendsIs
<1>4. Timely(c2s)' /\ Timely(s2c)' /\ Chains' /\ rejected' = {}
  BY <1>2, <1>3, AskQueues DEF SafeInv
<1>5. Opens(c2s) = {} /\ Opens(s2c) = {} /\ Reading(c2s) = {} /\ Reading(s2c) = {}
  BY <1>1, OneOpen, NoReading DEF SafeInv
<1>6. /\ Opens(c2s') = {} /\ Reading(c2s') = {Len(c2s) + 1} /\ c2s'[Len(c2s) + 1] = m
      /\ m.sent = now /\ Under(client', m)
  <2>1. c2s \in Seq(Message) /\ c2s' = Append(c2s, m) /\ m.sent = now /\ Under(client', m)
    BY <1>3, SafeTypes DEF Asks
  <2>2. QED
    BY <1>3, <1>5, <2>1, SetsOfAppend
<1>7. /\ (Level \/ Ahead)' /\ Made(client') = now
      /\ Made(client') <= client'.token.created + MaxDelay
      /\ KeyLife <= client'.keyExpiration
      /\ client'.key > 0 /\ client'.nonces > 0 /\ client'.allowPrev = TRUE
  <2>1. CASE client.next.id = 0 /\ Alike(client, client') /\ client'.prevKey = client.prevKey
    <3>1. Level' \/ Ahead'
      BY <1>1, <1>2, <1>3, <2>1, SendKeeps
    <3>2. Revolved
      BY <1>1, <2>1, NextToken DEF Revolved
    <3>3. Made(client) = now
      BY <1>1, <3>2 DEF SafeInv, Clock
    <3>4. /\ client'.token = client.token /\ client'.allowPrev = client.allowPrev
          /\ client'.nonces = client.nonces /\ Made(client') = Made(client)
          /\ client'.key = client.key /\ client'.keyExpiration = client.keyExpiration
      BY <2>1 DEF Alike, Made
    <3>5. QED
      BY <3>1, <3>3, <3>4 DEF SafeInv, Clock
  <2>2. CASE client.next.id # 0 /\ Turned(client, client')
    <3>1. /\ Ahead' /\ Made(client') = now
          /\ Made(client') <= client'.token.created + MaxDelay
      BY <1>1, <1>2, <1>3, <2>2, SendTurns
    <3>2. /\ client'.key = client.nonces /\ client'.nonces = client.nonces
          /\ client'.allowPrev = client.allowPrev
          /\ client'.keyExpiration = now + KeyLife
      BY <2>2 DEF Turned
    <3>3. KeyLife <= now + KeyLife
      BY SafeTypes
    <3>4. QED
      BY <3>1, <3>2, <3>3 DEF SafeInv, Clock
  <2>3. QED
    BY <1>3, <2>1, <2>2
<1>8. Tasks'
  BY <1>2 DEF Tasks
<1>9. now <= now /\ 0 <= now
  BY SafeTypes
<1>10. Completion'
  BY <1>2, <1>5, <1>6, <1>7, <1>9 DEF Completion
<1>11. Renewal'
  BY <1>2, <1>5, <1>6 DEF Renewal
<1>12. Clock'
  BY <1>2, <1>7, <1>9 DEF Clock
<1>13. QED
  BY <1>4, <1>7, <1>8, <1>10, <1>11, <1>12 DEF Rest

\* The read of a queue after its first message was taken.
LEMMA ReadingTail ==
    ASSUME NEW q \in Seq(Message), q # << >>, NEW i \in Reading(Tail(q))
    PROVE  \E j \in Reading(q) :
               /\ Tail(q)[i] = q[j]
               /\ (\A k \in Reading(q) : j = k) =>
                      /\ \A k \in Reading(Tail(q)) : i = k
                      /\ Head(q).kind # "READ"
<1>1. \A k \in Reading(Tail(q)) : k \in Nat /\ k + 1 \in Reading(q) /\ Tail(q)[k] = q[k + 1]
                                  /\ k + 1 # 1
  BY SetsOfTail
<1>2. (1 \in Reading(q)) <=> (Head(q).kind = "READ")
  BY SetsOfTail
<1>3. (\A k \in Reading(q) : i + 1 = k) =>
          (\A k \in Reading(Tail(q)) : i = k) /\ Head(q).kind # "READ"
  <2> SUFFICES ASSUME \A k \in Reading(q) : i + 1 = k
               PROVE  (\A k \in Reading(Tail(q)) : i = k) /\ Head(q).kind # "READ"
    OBVIOUS
  <2>1. ASSUME NEW k \in Reading(Tail(q)) PROVE i = k
    <3>1. k \in Nat /\ i \in Nat /\ i + 1 = k + 1
      BY <1>1
    <3>2. QED
      BY <3>1
  <2>2. Head(q).kind # "READ"
    BY <1>1, <1>2
  <2>3. QED
    BY <2>1, <2>2
<1>4. i + 1 \in Reading(q) /\ Tail(q)[i] = q[i + 1]
  BY <1>1
<1>5. QED
  BY <1>3, <1>4

\* So does a message that the client receives.
LEMMA ClientReceivesSafe ==
    ASSUME SecureChannelAssumption, FastNetwork, SafeInv, ClientReceives
    PROVE  Rest'
<1> DEFINE m == Head(s2c)
<1>1. /\ s2c # << >> /\ s2c' = Tail(s2c)
      /\ UNCHANGED <<server, c2s, waiter, asked, rejected, now>>
      /\ client'.seq = client.seq /\ client'.peerSeq = m.seq
      /\ \/ /\ m.kind # "OPN" /\ Alike(client, client') /\ exchange' = exchange
            /\ \/ m.kind = "READ" /\ loop = "reading" /\ loop' = "asleep" /\ since' = now
               \/ ~(m.kind = "READ" /\ loop = "reading") /\ UNCHANGED <<loop, since>>
         \/ /\ m.kind = "OPN" /\ Given(client, client', m) /\ exchange' = "response"
            /\ UNCHANGED <<loop, since>>
  BY ClientReceivesIs
<1>2. /\ s2c \in Seq(Message) /\ 1 \in DOMAIN s2c /\ m = s2c[1] /\ m \in Message /\ m.sent \in Nat
  BY <1>1, SafeTypes, TailIs, MessageTypes
<1>3. Timely(s2c') /\ m.sent <= now /\ now <= m.sent + MaxDelay
  BY <1>1, <1>2, TimelyTail DEF SafeInv
<1>4. Timely(c2s)' /\ Timely(s2c)' /\ rejected' = {}
  BY <1>1, <1>3 DEF SafeInv, Timely
<1>5. Chains'
  <2>1. Chained(s2c', m.seq, server.seq)
    BY <1>1, <1>2, ChainedTail DEF SafeInv, Chains
  <2>2. QED
    BY <1>1, <2>1 DEF SafeInv, Chains
<1>6. /\ \A i \in Opens(s2c') : i \in Nat /\ i + 1 \in Opens(s2c) /\ s2c'[i] = s2c[i + 1]
      /\ \A i \in Reading(s2c') : i \in Nat /\ i + 1 \in Reading(s2c) /\ s2c'[i] = s2c[i + 1]
      /\ \A i \in Reading(s2c') : i + 1 # 1
      /\ (1 \in Reading(s2c)) <=> (m.kind = "READ")
      /\ Opens(s2c) # {} /\ m.kind # "OPN" => Opens(s2c') # {}
      /\ Reading(s2c) # {} /\ m.kind # "READ" => Reading(s2c') # {}
  BY <1>1, <1>2, SetsOfTail
<1>7. Renewal'
  <2> SUFFICES ASSUME NEW i \in Opens(s2c')
               PROVE  /\ s2c'[i].token.created = s2c'[i].sent
                      /\ loop' = "renewing" => s2c'[i].sent <= asked + MaxDelay
    BY <1>1 DEF SafeInv, Renewal
  <2>1. PICK j \in Opens(s2c) : s2c'[i] = s2c[j]
    BY <1>6
  <2>2. loop' = "renewing" => loop = "renewing"
    BY <1>1
  <2>3. /\ s2c[j].token.created = s2c[j].sent
        /\ loop = "renewing" => s2c[j].sent <= asked + MaxDelay
    BY <2>1 DEF SafeInv, Renewal
  <2>4. QED
    BY <2>1, <2>2, <2>3
<1> HIDE DEF m
<1>8. CASE m.kind = "OPN"
  <2>1. /\ Level' /\ exchange = "params" /\ ~Revolved'
        /\ client'.nonces > 0 /\ 1 \in Opens(s2c) /\ m = s2c[1]
        /\ client'.next.created = m.sent
    BY <1>1, <1>8, ReceiveOffer DEF m
  <2>2. /\ exchange' = "response" /\ UNCHANGED <<loop, since>>
        /\ client'.token = client.token /\ client'.key = client.key
        /\ client'.allowPrev = client.allowPrev /\ client'.keyExpiration = client.keyExpiration
        /\ Made(client') = Made(client)
    BY <1>1, <1>8 DEF Given, Made
  <2>3. Tasks'
    BY <1>1, <2>1, <2>2 DEF SafeInv, Tasks
  <2>4. loop # "reading"
    BY <2>1 DEF SafeInv, Tasks
  <2>5. Completion'
    <3>1. \A x : Under(client', x) <=> Under(client, x)
      BY <2>2, AlikeUnder
    <3>2. \A i \in Reading(c2s) : /\ Under(client', c2s[i]) /\ loop' \in {"reading", "failed"}
                                  /\ Reading(s2c') = {} /\ \A j \in Reading(c2s) : i = j
      BY <1>6, <2>2, <3>1 DEF SafeInv, Completion
    <3>3. ASSUME NEW i \in Reading(s2c')
          PROVE  /\ Under(client', s2c'[i]) /\ loop' \in {"reading", "failed"}
                 /\ server.token = client'.token /\ \A j \in Reading(s2c') : i = j
      BY <1>6, <2>2, <3>1, ReadingTail DEF SafeInv, Completion
    <3>4. QED
      BY <1>1, <2>2, <2>4, <3>2, <3>3 DEF Completion
  <2>6. Clock'
    <3>1. ~Revolved
      BY <2>1 DEF Revolved
    <3>2. loop = "renewing" => m.sent <= asked + MaxDelay
      BY <2>1 DEF SafeInv, Renewal
    <3>3. loop = "renewing" => now <= asked + 2 * MaxDelay
      BY <1>2, <1>3, <3>2, SafeTypes
    <3>4. now <= client'.next.created + MaxDelay
      BY <1>3, <2>1
    <3>5. loop # "asleep"
      BY <2>1 DEF SafeInv, Tasks
    <3>6. QED
      BY <1>1, <2>1, <2>2, <3>1, <3>3, <3>4, <3>5 DEF SafeInv, Clock
  <2>7. QED
    BY <1>4, <1>5, <1>7, <2>1, <2>3, <2>5, <2>6 DEF Rest
<1>9. CASE m.kind # "OPN"
  <2>1. Alike(client, client') /\ exchange' = exchange
        /\ \/ m.kind = "READ" /\ loop = "reading" /\ loop' = "asleep" /\ since' = now
           \/ ~(m.kind = "READ" /\ loop = "reading") /\ UNCHANGED <<loop, since>>
    BY <1>1, <1>9
  <2>2. Level' \/ Ahead'
    BY <1>1, <1>9, <2>1, ReceiveKeeps DEF m
  <2>3. /\ client'.token = client.token /\ client'.key = client.key
        /\ client'.next = client.next /\ client'.nonces = client.nonces
        /\ client'.allowPrev = client.allowPrev /\ client'.keyExpiration = client.keyExpiration
        /\ Made(client') = Made(client)
    BY <2>1 DEF Alike, Made
  <2>4. Tasks'
    BY <1>1, <1>6, <1>9, <2>1 DEF SafeInv, Tasks
  <2>5. \A x : Under(client', x) <=> Under(client, x)
    BY <2>3, AlikeUnder
  <2>6. CASE m.kind = "READ" /\ loop = "reading" /\ loop' = "asleep" /\ since' = now
    <3>1. Reading(s2c') = {} /\ Reading(c2s) = {}
      BY <1>6, <2>6 DEF SafeInv, Completion
    <3>2. Completion'
      BY <1>1, <2>6, <3>1 DEF Completion
    <3>3. m.sent <= since + MaxDelay /\ since = Made(client)
      <4>1. 1 \in Reading(s2c)
        BY <1>6, <2>6
      <4>2. QED
        BY <1>2, <2>6, <4>1 DEF SafeInv, Completion
    <3>4. now <= Made(client) + 2 * MaxDelay /\ now <= now /\ 4 * (now - now) <= 3 * Lifetime + 3
      BY <1>2, <1>3, <3>3, SafeTypes
    <3>5. Clock'
      BY <1>1, <2>3, <2>6, <3>4 DEF SafeInv, Clock
    <3>6. QED
      BY <1>4, <1>5, <1>7, <2>2, <2>4, <3>2, <3>5 DEF Rest
  <2>7. CASE ~(m.kind = "READ" /\ loop = "reading") /\ UNCHANGED <<loop, since>>
    <3>1. Clock'
      BY <1>1, <2>1, <2>7, ClockAlike
    <3>2. \A i \in Reading(c2s) : /\ Under(client', c2s[i]) /\ loop' \in {"reading", "failed"}
                                  /\ Reading(s2c') = {} /\ \A j \in Reading(c2s) : i = j
      BY <1>6, <2>5, <2>7 DEF SafeInv, Completion
    <3>3. ASSUME NEW i \in Reading(s2c')
          PROVE  /\ Under(client', s2c'[i]) /\ loop' \in {"reading", "failed"}
                 /\ server.token = client'.token /\ \A j \in Reading(s2c') : i = j
      BY <1>6, <2>3, <2>5, <2>7, ReadingTail DEF SafeInv, Completion
    <3>4. ASSUME loop = "reading"
          PROVE  /\ since' = Made(client')
                 /\ \A i \in Reading(c2s) : c2s[i].sent <= since'
                 /\ \A i \in Reading(s2c') : s2c'[i].sent <= since' + MaxDelay
                 /\ Reading(c2s) # {} \/ Reading(s2c') # {}
      <4>1. since = Made(client) /\ \A i \in Reading(c2s) : c2s[i].sent <= since
        BY <3>4 DEF SafeInv, Completion
      <4>2. ASSUME NEW i \in Reading(s2c') PROVE s2c'[i].sent <= since + MaxDelay
        <5>1. PICK j \in Reading(s2c) : s2c'[i] = s2c[j]
          BY <1>6
        <5>2. s2c[j].sent <= since + MaxDelay
          BY <3>4 DEF SafeInv, Completion
        <5>3. QED
          BY <5>1, <5>2
      <4>3. Reading(c2s) # {} \/ Reading(s2c') # {}
        BY <1>6, <2>7, <3>4 DEF SafeInv, Completion
      <4>4. QED
        BY <2>3, <2>7, <4>1, <4>2, <4>3
    <3>5. Completion'
      BY <1>1, <2>7, <3>2, <3>3, <3>4 DEF Completion
    <3>6. QED
      BY <1>4, <1>5, <1>7, <2>2, <2>4, <3>1, <3>5 DEF Rest
  <2>8. QED
    BY <2>1, <2>6, <2>7
<1>10. QED
  BY <1>8, <1>9

\* So does a message that the server receives and answers.
LEMMA ServerReceivesSafe ==
    ASSUME SecureChannelAssumption, FastNetwork, SafeInv, ServerReceives
    PROVE  Rest'
<1> DEFINE m == Head(c2s)
<1>1. /\ c2s # << >> /\ c2s' = Tail(c2s)
      /\ UNCHANGED <<client, exchange, waiter, loop, since, asked, rejected, now>>
      /\ server'.peerSeq = m.seq
  BY ServerReceivesIs
<1>2. PICK r \in Message :
          /\ s2c' = Append(s2c, r) /\ r.sent = now /\ r.seq = NextSeq(server.seq)
          /\ Under(server', r) /\ server'.seq = r.seq /\ r.kind = m.kind
          /\ \/ /\ m.kind # "OPN" /\ Under(server, m)
                /\ server'.token = server.token /\ server'.next = server.next
                /\ server'.nonces = server.nonces /\ server'.key = server.key
             \/ /\ m.kind # "OPN" /\ Ahead /\ Under(client, m)
                /\ server'.token = server.next /\ server'.next = NoToken
                /\ server'.nonces = server.nonces /\ server'.key = server.nonces
             \/ /\ m.kind = "OPN" /\ r.token = server'.next /\ r.nonces = m.nonces
                /\ server'.next = [id |-> server.token.id + 1, created |-> now]
                /\ server'.token = server.token
                /\ server'.nonces = m.nonces /\ server'.key = server.key
  BY ServerReceivesIs
<1>3. /\ c2s \in Seq(Message) /\ s2c \in Seq(Message) /\ now \in Nat
      /\ 1 \in DOMAIN c2s /\ m = c2s[1] /\ m.sent \in Nat
  BY <1>1, SafeTypes, TailIs, MessageTypes
<1>4. Timely(c2s') /\ now <= m.sent + MaxDelay /\ Timely(s2c')
  BY <1>1, <1>2, <1>3, TimelyTail, TimelyAppend DEF SafeInv
<1>5. Timely(c2s)' /\ Timely(s2c)' /\ rejected' = {}
  BY <1>1, <1>4 DEF SafeInv, Timely
<1>6. Chains'
  <2>1. Chained(c2s', m.seq, client.seq)
    BY <1>1, <1>3, ChainedTail DEF SafeInv, Chains
  <2>2. Chained(s2c', client.peerSeq, r.seq)
    BY <1>2, <1>3, ChainedAppend DEF SafeInv, Chains
  <2>3. QED
    BY <1>1, <1>2, <2>1, <2>2 DEF Chains
<1>7. /\ \A i \in Opens(c2s') : i + 1 \in Opens(c2s) /\ c2s'[i] = c2s[i + 1]
      /\ \A i \in Reading(c2s') : i + 1 \in Reading(c2s) /\ c2s'[i] = c2s[i + 1]
      /\ (1 \in Opens(c2s)) <=> (m.kind = "OPN")
      /\ (1 \in Reading(c2s)) <=> (m.kind = "READ")
      /\ Opens(c2s) # {} /\ m.kind # "OPN" => Opens(c2s') # {}
      /\ Reading(c2s) # {} /\ m.kind # "READ" => Reading(c2s') # {}
  BY <1>1, <1>3, SetsOfTail
<1> DEFINE l == Len(s2c) + 1
<1>8. /\ Opens(s2c') = IF r.kind = "OPN" THEN Opens(s2c) \cup {l} ELSE Opens(s2c)
      /\ Reading(s2c') = IF r.kind = "READ" THEN Reading(s2c) \cup {l} ELSE Reading(s2c)
      /\ \A i \in Opens(s2c) : s2c'[i] = s2c[i]
      /\ \A i \in Reading(s2c) : s2c'[i] = s2c[i]
      /\ s2c'[l] = r
  BY <1>2, <1>3, SetsOfAppend
<1> HIDE DEF m, l
<1>9. Level' \/ Ahead'
  <2>1. CASE /\ m.kind # "OPN" /\ Under(server, m)
             /\ server'.token = server.token /\ server'.next = server.next
             /\ server'.nonces = server.nonces /\ server'.key = server.key
    <3>1. Under(server, r) /\ r.kind # "OPN"
      BY <1>2, <2>1, AlikeUnder
    <3>2. QED
      BY <1>1, <1>2, <2>1, <3>1, ServerKeeps DEF m
  <2>2. CASE /\ m.kind # "OPN" /\ Ahead /\ Under(client, m)
             /\ server'.token = server.next /\ server'.next = NoToken
             /\ server'.nonces = server.nonces /\ server'.key = server.nonces
    BY <1>1, <1>2, <2>2, ServerTurns DEF m
  <2>3. CASE /\ m.kind = "OPN" /\ r.token = server'.next /\ r.nonces = m.nonces
             /\ server'.next = [id |-> server.token.id + 1, created |-> now]
             /\ server'.token = server.token
             /\ server'.nonces = m.nonces /\ server'.key = server.key
    BY <1>1, <1>2, <2>3, ServerOffers DEF m
  <2>4. QED
    BY <1>2, <2>1, <2>2, <2>3
<1>10. Tasks'
  <2>1. exchange = "params" => Opens(c2s') # {} \/ Opens(s2c') # {}
    BY <1>2, <1>7, <1>8 DEF SafeInv, Tasks
  <2>2. QED
    BY <1>1, <2>1 DEF SafeInv, Tasks
<1>11. Renewal'
  <2>1. ASSUME NEW i \in Opens(s2c')
        PROVE  /\ s2c'[i].token.created = s2c'[i].sent
               /\ loop = "renewing" => s2c'[i].sent <= asked + MaxDelay
    <3>1. CASE i \in Opens(s2c)
      BY <1>8, <3>1 DEF SafeInv, Renewal
    <3>2. CASE i = l /\ r.kind = "OPN"
      <4>1. r.token.created = now
        BY <1>2, <3>2
      <4>2. loop = "renewing" => m.sent <= asked
        BY <1>2, <1>3, <1>7, <3>2 DEF SafeInv, Renewal
      <4>3. loop = "renewing" => now <= asked + MaxDelay
        BY <1>3, <1>4, <4>2, SafeTypes
      <4>4. QED
        BY <1>2, <1>8, <3>2, <4>1, <4>3
    <3>3. QED
      BY <1>8, <2>1, <3>1, <3>2
  <2>2. ASSUME NEW i \in Opens(c2s'), loop = "renewing" PROVE c2s'[i].sent <= asked
    <3>1. PICK j \in Opens(c2s) : c2s'[i] = c2s[j]
      BY <1>7
    <3>2. QED
      BY <2>2, <3>1 DEF SafeInv, Renewal
  <2>3. QED
    BY <1>1, <2>1, <2>2 DEF Renewal
<1>12. Clock'
  <2>1. Revolved' <=> Revolved
    BY <1>1 DEF Revolved
  <2>2. QED
    BY <1>1, <2>1 DEF SafeInv, Clock
<1>13. m.kind = "READ" => /\ Reading(c2s') = {} /\ Reading(s2c) = {}
                          /\ loop \in {"reading", "failed"}
                          /\ server'.token = client.token /\ Under(client, r)
                          /\ loop = "reading" => r.sent <= since + MaxDelay
  <2> SUFFICES ASSUME m.kind = "READ"
               PROVE  /\ Reading(c2s') = {} /\ Reading(s2c) = {}
                      /\ loop \in {"reading", "failed"}
                      /\ server'.token = client.token /\ Under(client, r)
                      /\ loop = "reading" => r.sent <= since + MaxDelay
    OBVIOUS
  <2>1. /\ Under(client, m) /\ loop \in {"reading", "failed"} /\ Reading(s2c) = {}
        /\ \A j \in Reading(c2s) : 1 = j
        /\ loop = "reading" => m.sent <= since
    BY <1>3, <1>7 DEF SafeInv, Completion
  <2>2. Reading(c2s') = {}
    <3> SUFFICES ASSUME NEW i \in Reading(c2s') PROVE FALSE
      OBVIOUS
    <3>1. \E j \in Reading(c2s) : \A k \in Reading(c2s) : j = k
      BY <1>7, <2>1
    <3>2. PICK j \in Reading(c2s) : (\A k \in Reading(c2s) : j = k) => Head(c2s).kind # "READ"
      BY <1>1, <1>3, ReadingTail
    <3>3. QED
      BY <2>1, <3>2 DEF m
  <2>3. server'.token = client.token /\ server'.key = client.key
    <3>1. CASE Under(server, m) /\ server'.token = server.token /\ server'.key = server.key
      <4>1. ~Ahead
        BY <2>1, <3>1, NextToken DEF Under
      <4>2. QED
        BY <3>1, <4>1 DEF SafeInv, Level
    <3>2. CASE Ahead /\ server'.token = server.next /\ server'.key = server.nonces
      BY <3>2 DEF Ahead
    <3>3. QED
      BY <1>2, <3>1, <3>2
  <2>4. Under(client, r)
    BY <1>2, <2>3, AlikeUnder
  <2>5. loop = "reading" => r.sent <= since + MaxDelay
    BY <1>2, <1>3, <1>4, <2>1, SafeTypes
  <2>6. QED
    BY <2>1, <2>2, <2>3, <2>4, <2>5
<1>14. Reading(s2c) # {} => server'.token = client.token
  <2>1. Reading(s2c) # {} => server.token = client.token
    BY DEF SafeInv, Completion
  <2>2. Reading(s2c) # {} => ~Ahead
    BY <2>1, NextToken
  <2>3. QED
    BY <1>2, <2>1, <2>2
<1>15. Completion'
  <2>1. ASSUME NEW i \in Reading(c2s')
        PROVE  /\ Under(client, c2s'[i]) /\ loop \in {"reading", "failed"}
               /\ Reading(s2c') = {} /\ \A j \in Reading(c2s') : i = j
               /\ loop = "reading" => c2s'[i].sent <= since
    <3>1. m.kind # "READ"
      BY <1>13, <2>1
    <3>2. PICK j \in Reading(c2s) : /\ c2s'[i] = c2s[j]
                                    /\ (\A k \in Reading(c2s) : j = k) =>
                                           \A k \in Reading(c2s') : i = k
      <4>1. c2s' = Tail(c2s) /\ c2s \in Seq(Message) /\ c2s # << >>
        BY <1>1, <1>2, <1>3
      <4>2. i \in Reading(Tail(c2s))
        BY <2>1, <4>1
      <4>3. \A k \in Reading(Tail(c2s)) : /\ k \in Nat /\ k + 1 \in Reading(c2s)
                                          /\ Tail(c2s)[k] = c2s[k + 1]
        BY <4>1, SetsOfTail
      <4>4. \A k \in Reading(c2s') : k \in Nat /\ k + 1 \in Reading(c2s)
        BY <4>1, <4>3
      <4>5. i + 1 \in Reading(c2s) /\ c2s'[i] = c2s[i + 1]
        BY <4>1, <4>2, <4>3
      <4>6. (\A k \in Reading(c2s) : i + 1 = k) => \A k \in Reading(c2s') : i = k
        <5> SUFFICES ASSUME \A k \in Reading(c2s) : i + 1 = k, NEW k \in Reading(c2s')
                     PROVE  i = k
          OBVIOUS
        <5>1. k \in Nat /\ i \in Nat /\ i + 1 = k + 1
          BY <2>1, <4>4
        <5>2. QED
          BY <5>1
      <4>7. QED
        BY <4>5, <4>6
    <3>3. /\ Under(client, c2s[j]) /\ loop \in {"reading", "failed"}
          /\ Reading(s2c) = {} /\ \A k \in Reading(c2s) : j = k
          /\ loop = "reading" => c2s[j].sent <= since
      BY <3>2 DEF SafeInv, Completion
    <3>4. QED
      BY <1>2, <1>8, <3>1, <3>2, <3>3
  <2>2. ASSUME NEW i \in Reading(s2c')
        PROVE  /\ Under(client, s2c'[i]) /\ loop \in {"reading", "failed"}
               /\ server'.token = client.token /\ \A j \in Reading(s2c') : i = j
               /\ loop = "reading" => s2c'[i].sent <= since + MaxDelay
    <3>1. CASE m.kind = "READ"
      <4>1. i = l /\ Reading(s2c') = {l}
        BY <1>2, <1>8, <1>13, <3>1
      <4>2. QED
        BY <1>8, <1>13, <3>1, <4>1
    <3>2. CASE m.kind # "READ"
      <4>1. Reading(s2c') = Reading(s2c) /\ s2c'[i] = s2c[i]
        BY <1>2, <1>8, <3>2
      <4>2. QED
        BY <1>14, <4>1 DEF SafeInv, Completion
    <3>3. QED
      BY <3>1, <3>2
  <2>3. loop = "reading" => Reading(c2s') # {} \/ Reading(s2c') # {}
    BY <1>2, <1>7, <1>8 DEF SafeInv, Completion
  <2>4. loop = "reading" => since = Made(client)
    BY DEF SafeInv, Completion
  <2>5. QED
    BY <1>1, <2>1, <2>2, <2>3, <2>4 DEF Completion
<1>16. QED
  BY <1>5, <1>6, <1>9, <1>10, <1>11, <1>12, <1>15 DEF Rest

\* So does a publish response.
LEMMA ServerPublishesSafe ==
    ASSUME SecureChannelAssumption, FastNetwork, SafeInv, ServerPublishes
    PROVE  Rest'
<1>1. /\ ServerSends(server, "MSG", 0, NoToken)
      /\ UNCHANGED <<client, c2s, exchange, waiter, loop, since, asked, rejected, now>>
  BY DEF ServerPublishes
<1>2. server \in Connection /\ NoToken \in Token /\ s2c \in Seq(Message) /\ now \in Nat
  BY SafeTypes DEF NoToken, Token
<1>3. PICK r \in Message : Answers(server, r) /\ r.kind = "MSG"
  BY <1>1, <1>2, ServerSendsIs
<1>4. /\ s2c' = Append(s2c, r) /\ r.sent = now /\ r.seq = NextSeq(server.seq)
      /\ Under(server', r) /\ server'.seq = r.seq /\ server'.peerSeq = server.peerSeq
      /\ server'.token = server.token /\ server'.next = server.next
      /\ server'.nonces = server.nonces /\ server'.key = server.key
  BY <1>3 DEF Answers
<1>5. Level' \/ Ahead'
  <2>1. Under(server, r)
    BY <1>4, AlikeUnder
  <2>2. QED
    BY <1>1, <1>3, <1>4, <2>1, ServerKeeps
<1>6. Timely(c2s)' /\ Timely(s2c)' /\ rejected' = {}
  <2>1. Timely(s2c')
    BY <1>2, <1>4, TimelyAppend DEF SafeInv
  <2>2. QED
    BY <1>1, <2>1 DEF SafeInv, Timely
<1>7. Chains'
  <2>1. Chained(s2c', client.peerSeq, r.seq)
    BY <1>2, <1>4, ChainedAppend DEF SafeInv, Chains
  <2>2. QED
    BY <1>1, <1>4, <2>1 DEF SafeInv, Chains
<1>8. /\ Opens(s2c') = Opens(s2c) /\ Reading(s2c') = Reading(s2c)
      /\ \A i \in Opens(s2c) : s2c'[i] = s2c[i]
      /\ \A i \in Reading(s2c) : s2c'[i] = s2c[i]
  BY <1>2, <1>3, <1>4, SetsOfAppend
<1>9. Tasks' /\ Renewal'
  BY <1>1, <1>8 DEF SafeInv, Tasks, Renewal
<1>10. Completion'
  BY <1>1, <1>4, <1>8 DEF SafeInv, Completion
<1>11. Clock'
  <2>1. Revolved' <=> Revolved
    BY <1>1 DEF Revolved
  <2>2. QED
    BY <1>1, <2>1 DEF SafeInv, Clock
<1>12. QED
  BY <1>5, <1>6, <1>7, <1>9, <1>10, <1>11 DEF Rest

\* A loop that gives up, and time that passes.
LEMMA FailureSafe ==
    ASSUME SecureChannelAssumption, LoopRenews, SafeInv, RenewTimesOut \/ ReadTimesOut
    PROVE  Rest'
<1>1. /\ loop' = "failed" /\ waiter' = "none"
      /\ asked' \in {asked, 0}
      /\ UNCHANGED <<client, server, c2s, s2c, exchange, since, rejected, now>>
  BY SafeTypes DEF RenewTimesOut, ReadTimesOut, LoopRenews, SafeInv, Tasks, TypeOK
<1>2. Timely(c2s)' /\ Timely(s2c)' /\ Chains' /\ rejected' = {}
  BY <1>1 DEF SafeInv, Timely, Chains
<1>3. Tasks' /\ Renewal'
  BY <1>1 DEF SafeInv, Tasks, Renewal
<1>4. Level' \/ Ahead'
  <2>1. (Known <=> Known') /\ (Idle <=> Idle') /\ (Offered <=> Offered')
    BY <1>1 DEF Known, Idle, Offered, Pending
  <2>2. Level => Level'
    BY <1>1, <2>1 DEF Level
  <2>3. Ahead => Ahead'
    BY <1>1 DEF Ahead, Pending
  <2>4. QED
    BY <2>2, <2>3 DEF SafeInv
<1>5. Completion'
  BY <1>1 DEF SafeInv, Completion
<1>6. Clock'
  <2>1. 0 <= now
    BY SafeTypes
  <2>2. QED
    BY <1>1, <2>1 DEF SafeInv, Clock
<1>7. QED
  BY <1>2, <1>3, <1>4, <1>5, <1>6 DEF Rest

\* So does a tick.
LEMMA TickSafe ==
    ASSUME SecureChannelAssumption, SafeInv, Tick
    PROVE  Rest'
<1>1. /\ ~Urgent /\ now' = now + 1
      /\ UNCHANGED <<client, server, c2s, s2c, exchange, waiter, loop, since, asked, rejected>>
  BY DEF Tick
<1>2. /\ c2s # << >> => ~(now - Head(c2s).sent >= MaxDelay)
      /\ s2c # << >> => ~(now - Head(s2c).sent >= MaxDelay)
  BY <1>1 DEF Urgent
<1>3. Timely(c2s)' /\ Timely(s2c)'
  <2>1. /\ Timely(c2s) /\ Timely(s2c) /\ now \in Nat
        /\ c2s \in Seq(Message) /\ s2c \in Seq(Message)
    BY SafeTypes DEF SafeInv
  <2>2. \A i \in DOMAIN c2s : /\ c2s[i].sent <= now' /\ now' <= c2s[i].sent + MaxDelay
                              /\ \A j \in DOMAIN c2s : i <= j => c2s[i].sent <= c2s[j].sent
    BY <1>1, <1>2, <2>1, TimelyTick
  <2>3. \A i \in DOMAIN s2c : /\ s2c[i].sent <= now' /\ now' <= s2c[i].sent + MaxDelay
                              /\ \A j \in DOMAIN s2c : i <= j => s2c[i].sent <= s2c[j].sent
    BY <1>1, <1>2, <2>1, TimelyTick
  <2>4. QED
    BY <1>1, <2>2, <2>3 DEF Timely
<1>4. Chains' /\ Tasks' /\ Renewal' /\ Completion' /\ rejected' = {}
  BY <1>1 DEF SafeInv, Chains, Tasks, Renewal, Completion
<1>5. Level' \/ Ahead'
  <2>1. (Known <=> Known') /\ (Idle <=> Idle') /\ (Offered <=> Offered')
    BY <1>1 DEF Known, Idle, Offered, Pending
  <2>2. Level => Level'
    BY <1>1, <2>1 DEF Level
  <2>3. Ahead => Ahead'
    BY <1>1 DEF Ahead, Pending
  <2>4. QED
    BY <2>2, <2>3 DEF SafeInv
<1>6. Clock'
  <2>1. loop = "renewing" => exchange # "response"
    BY <1>1 DEF Urgent, SafeInv, Tasks
  <2>2. /\ now \in Nat /\ since \in Nat /\ asked \in Nat /\ Made(client) \in Nat
        /\ Lifetime \in Nat
    BY SafeTypes
  <2>3. Made(client) <= now + 1 /\ since <= now + 1 /\ asked <= now + 1
    BY <2>2 DEF SafeInv, Clock
  <2>4. loop = "asleep" => 4 * ((now + 1) - since) <= 3 * Lifetime + 3
    <3> SUFFICES ASSUME loop = "asleep" PROVE 4 * ((now + 1) - since) <= 3 * Lifetime + 3
      OBVIOUS
    <3>1. ~(4 * (now - since) >= 3 * Lifetime)
      BY <1>1 DEF Urgent, Due
    <3>2. QED
      BY <2>2, <3>1
  <2>5. Revolved' <=> Revolved
    BY <1>1 DEF Revolved
  <2>6. ~Revolved \/ loop # "renewing"
    BY <2>1 DEF Revolved
  <2>7. QED
    BY <1>1, <2>1, <2>3, <2>4, <2>5, <2>6 DEF SafeInv, Clock
<1>7. QED
  BY <1>3, <1>4, <1>5, <1>6 DEF Rest

\* So does a step that changes nothing.
LEMMA StutterSafe ==
    ASSUME SafeInv, UNCHANGED vars
    PROVE  Rest'
<1>1. UNCHANGED <<client, server, c2s, s2c, exchange, waiter, loop, since, asked, rejected, now>>
  BY DEF vars
<1>2. Timely(c2s)' /\ Timely(s2c)' /\ Chains' /\ Tasks' /\ Renewal' /\ Completion' /\ rejected' = {}
  BY <1>1 DEF SafeInv, Timely, Chains, Tasks, Renewal, Completion
<1>3. Level' \/ Ahead'
  <2>1. (Known <=> Known') /\ (Idle <=> Idle') /\ (Offered <=> Offered')
    BY <1>1 DEF Known, Idle, Offered, Pending
  <2>2. QED
    BY <1>1, <2>1 DEF SafeInv, Level, Ahead, Pending
<1>4. Clock'
  BY <1>1 DEF SafeInv, Clock, Revolved
<1>5. QED
  BY <1>2, <1>3, <1>4 DEF Rest

\* Every step keeps the invariant.
LEMMA SafeStep ==
    ASSUME SecureChannelAssumption, LoopRenews, FastNetwork, SafeInv, [Next]_vars
    PROVE  SafeInv'
<1>1. IdInv'
  BY IdStep DEF SafeInv
<1>2. ASSUME NEW who \in Renewers, Renew(who) PROVE Rest'
  BY <1>2, RenewSafe DEF LoopRenews
<1>3. Rest'
  BY <1>2, ClientRequestSafe, RenewReturnsSafe, FailureSafe, ClientReceivesSafe,
     ServerReceivesSafe, ServerPublishesSafe, TickSafe, StutterSafe, Zenon DEF Next
<1>4. QED
  BY <1>1, <1>3 DEF Rest, SafeInv

\* The initial state has the invariant.
LEMMA SafeInit == SecureChannelAssumption /\ Init => SafeInv
<1> SUFFICES ASSUME SecureChannelAssumption, Init PROVE SafeInv
  OBVIOUS
<1>1. IdInv /\ rejected = {} /\ now = 0 /\ KeyLife \in Nat /\ MaxDelay \in Nat /\ Lifetime \in Nat
  BY IdInit DEF Init, SecureChannelAssumption
<1>2. c2s = << >> /\ s2c = << >> /\ Opens(c2s) = {} /\ Opens(s2c) = {}
      /\ Reading(c2s) = {} /\ Reading(s2c) = {}
  BY DEF Init, Opens, Reading
<1>3. /\ server.token = client.token /\ server.key = client.key
      /\ client.next = NoToken /\ server.next = NoToken /\ server.nonces = client.nonces
      /\ client.key = 1 /\ client.nonces = 1 /\ client.allowPrev = TRUE
      /\ client.keyExpiration = KeyLife /\ client.token.created = 0
      /\ client.peerSeq = SeqLimit - 2 /\ client.seq = SeqLimit - 2
      /\ server.peerSeq = SeqLimit - 2 /\ server.seq = SeqLimit - 2
  BY DEF Init, Fresh
<1>4. SeqLimit - 2 \in 1 .. SeqLimit - 1
  BY DEF SecureChannelAssumption
<1>5. Timely(c2s) /\ Timely(s2c) /\ Chains
  BY <1>2, <1>3, <1>4 DEF Timely, Chains, Chained
<1>6. Tasks /\ Completion /\ Renewal
  BY <1>2 DEF Init, Tasks, Completion, Renewal
<1>7. Level
  <2>1. Idle
    BY <1>2, <1>3 DEF Idle
  <2>2. AllUnder(client, c2s) /\ AllUnder(client, s2c) /\ OnlyThen(client, s2c)
    BY <1>2 DEF AllUnder, OnlyThen
  <2>3. QED
    BY <1>2, <1>3, <2>1, <2>2 DEF Level
<1>8. Clock
  <2>1. Made(client) = 0
    BY <1>1, <1>3 DEF Made
  <2>2. since = 0 /\ asked = 0 /\ loop = "asleep"
    BY DEF Init
  <2>3. QED
    BY <1>1, <1>3, <2>1, <2>2 DEF Clock
<1>9. QED
  BY <1>1, <1>5, <1>6, <1>7, <1>8 DEF SafeInv

\* The invariant holds throughout.
LEMMA AlwaysSafe == LoopRenews /\ FastNetwork => (Spec => []SafeInv)
<1> SUFFICES ASSUME LoopRenews, FastNetwork PROVE Spec => []SafeInv
  OBVIOUS
<1>1. SafeInv /\ [Next]_vars => SafeInv'
  BY SecureChannelAssumption, SafeStep
<1>2. QED
  BY <1>1, SecureChannelAssumption, SafeInit, PTL DEF Spec

\* Where only _renew_channel_loop renews, and messages take at most a
\* twentieth of the lifetime, neither side ever rejects a message of the
\* other: old and new token, keys that expire and sequence numbers that wrap
\* always fit what is under way, whatever requests, publish responses and
\* timeouts come between.
THEOREM NothingIsRejected == LoopRenews /\ FastNetwork => (Spec => []NothingRejected)
<1> SUFFICES ASSUME LoopRenews, FastNetwork PROVE Spec => []NothingRejected
  OBVIOUS
<1>1. SafeInv => NothingRejected
  BY DEF SafeInv, NothingRejected
<1>2. QED
  BY <1>1, AlwaysSafe, PTL

\* Under the same conditions a round of the loop has taken effect at both ends
\* when the loop goes to sleep again.
THEOREM RenewalsComplete == LoopRenews /\ FastNetwork => (Spec => []RenewalIsComplete)
<1> SUFFICES ASSUME LoopRenews, FastNetwork PROVE Spec => []RenewalIsComplete
  OBVIOUS
<1>1. SafeInv => RenewalIsComplete
  <2> SUFFICES ASSUME SafeInv, loop = "asleep", exchange = "none"
               PROVE  /\ client.token.id = server.token.id /\ client.key = server.key
                      /\ client.next = NoToken /\ server.next = NoToken
    BY DEF RenewalIsComplete
  <2>1. Level /\ ~Known
    BY DEF SafeInv, Ahead, Known
  <2>2. ~Offered
    BY OneOpen DEF SafeInv, Offered
  <2>3. QED
    BY <2>1, <2>2 DEF Level, Idle
<1>2. QED
  BY <1>1, AlwaysSafe, PTL

\* And as long as the loop works, the client's token has not expired.
THEOREM TokensAreRenewed == LoopRenews /\ FastNetwork => (Spec => []RenewedBeforeExpiry)
<1> SUFFICES ASSUME LoopRenews, FastNetwork PROVE Spec => []RenewedBeforeExpiry
  OBVIOUS
<1>1. SafeInv => RenewedBeforeExpiry
  <2> SUFFICES ASSUME SafeInv, loop # "failed" PROVE now <= client.token.created + Lifetime
    BY DEF RenewedBeforeExpiry
  <2>1. /\ now \in Nat /\ MaxDelay \in Nat /\ Lifetime \in Nat /\ KeyLife \in Nat
        /\ since \in Nat /\ asked \in Nat /\ Made(client) \in Nat
        /\ c2s \in Seq(Message) /\ s2c \in Seq(Message)
    BY SecureChannelAssumption, SafeTypes
  <2>2. client.token.created \in Nat
    BY SecureChannelAssumption, SafeTypes, ConnectionTypes
  <2>3. /\ Made(client) <= client.token.created + MaxDelay /\ since <= now /\ asked <= now
        /\ 20 * MaxDelay <= Lifetime /\ 24 * MaxDelay + 3 * Lifetime <= 4 * KeyLife
    BY DEF SafeInv, Clock, FastNetwork
  <2>4. CASE loop = "asleep"
    <3>1. /\ since <= Made(client) + 2 * MaxDelay
          /\ 4 * (now - since) <= 3 * Lifetime + 3
      BY <2>4 DEF SafeInv, Clock
    <3>2. now <= now + 2 * MaxDelay
      BY <2>1
    <3>3. QED
      BY <2>1, <2>2, <2>3, <3>1, <3>2, Margins
  <2>5. CASE loop = "renewing"
    <3>1. CASE Revolved
      <4>1. Made(client) = now
        BY <2>5, <3>1 DEF SafeInv, Clock
      <4>2. QED
        BY <2>1, <2>2, <2>3, <4>1
    <3>2. CASE ~Revolved
      <4>1. /\ since <= Made(client) + 2 * MaxDelay /\ since <= asked
            /\ 4 * (asked - since) <= 3 * Lifetime + 3
        BY <2>5, <3>2 DEF SafeInv, Clock
      <4>2. now <= asked + 2 * MaxDelay
        <5>1. CASE exchange = "response"
          BY <2>5, <3>2, <5>1 DEF SafeInv, Clock
        <5>2. CASE Opens(c2s) # {}
          <6>1. PICK i \in Opens(c2s) : c2s[i].sent <= asked
            BY <2>5, <5>2 DEF SafeInv, Renewal
          <6>2. now <= c2s[i].sent + MaxDelay /\ c2s[i].sent \in Nat
            BY <2>1, <6>1, MessageTypes DEF SafeInv, Timely, Opens
          <6>3. QED
            BY <2>1, <6>1, <6>2
        <5>3. CASE Opens(s2c) # {}
          <6>1. PICK i \in Opens(s2c) : s2c[i].sent <= asked + MaxDelay
            BY <2>5, <5>3 DEF SafeInv, Renewal
          <6>2. now <= s2c[i].sent + MaxDelay /\ s2c[i].sent \in Nat
            BY <2>1, <6>1, MessageTypes DEF SafeInv, Timely, Opens
          <6>3. QED
            BY <2>1, <6>1, <6>2
        <5>4. QED
          BY <2>5, <5>1, <5>2, <5>3, SecureChannelAssumption, SafeTypes
             DEF SafeInv, Tasks, TypeOK
      <4>3. QED
        BY <2>1, <2>2, <2>3, <4>1, <4>2, Margins
    <3>3. QED
      BY <3>1, <3>2
  <2>6. CASE loop = "reading"
    <3>1. now <= Made(client) + 2 * MaxDelay
      <4>1. CASE Reading(c2s) # {}
        <5>1. PICK i \in Reading(c2s) : c2s[i].sent <= since
          BY <2>6, <4>1 DEF SafeInv, Completion
        <5>2. now <= c2s[i].sent + MaxDelay /\ c2s[i].sent \in Nat /\ since = Made(client)
          BY <2>1, <2>6, <5>1, MessageTypes DEF SafeInv, Timely, Reading, Completion
        <5>3. QED
          BY <2>1, <5>1, <5>2
      <4>2. CASE Reading(s2c) # {}
        <5>1. PICK i \in Reading(s2c) : s2c[i].sent <= since + MaxDelay
          BY <2>6, <4>2 DEF SafeInv, Completion
        <5>2. now <= s2c[i].sent + MaxDelay /\ s2c[i].sent \in Nat /\ since = Made(client)
          BY <2>1, <2>6, <5>1, MessageTypes DEF SafeInv, Timely, Reading, Completion
        <5>3. QED
          BY <2>1, <5>1, <5>2
      <4>3. QED
        BY <2>6, <4>1, <4>2 DEF SafeInv, Completion
    <3>2. QED
      BY <2>1, <2>2, <2>3, <3>1
  <2>7. QED
    BY <2>4, <2>5, <2>6, SecureChannelAssumption, SafeTypes DEF TypeOK
<1>2. QED
  BY <1>1, AlwaysSafe, PTL

=============================================================================
