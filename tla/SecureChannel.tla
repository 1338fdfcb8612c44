--------------------------- MODULE SecureChannel ---------------------------
(***************************************************************************)
(* Renewal of the secure channel between one client and the server: the    *)
(* two SecureConnection objects with their tokens, keys and sequence       *)
(* numbers, the client's _renew_channel_loop and open_secure_channel, the  *)
(* requests other client tasks send meanwhile, and the publish responses   *)
(* the server sends when it likes.                                         *)
(*                                                                         *)
(* Client and server are joined by one TCP connection: two queues that     *)
(* neither lose nor reorder, with a bounded delay.  A step is the code of  *)
(* one side between two suspensions of its coroutines.  The mode is        *)
(* SignAndEncrypt; every message fits one chunk.                           *)
(***************************************************************************)
EXTENDS Naturals, Sequences

CONSTANTS
    Lifetime,       \* RevisedLifetime of every token, in ticks
    KeyLife,        \* ticks a policy keeps a key after deriving it
    Timeout,        \* UASocketProtocol.timeout, in ticks
    MaxDelay,       \* bound: ticks a message is under way
    MaxTime,        \* bound: ticks
    MaxInFlight,    \* bound: messages under way when another one is sent
    SeqLimit,       \* where the sequence number wraps (2^32 in the code)
    SeqWindow,      \* numbers around the wrap that may be skipped (1024)
    Renewers        \* who renews: "loop", and "app" through the API

ASSUME SecureChannelAssumption ==
    /\ Lifetime \in Nat \ {0} /\ KeyLife \in Nat
    /\ Timeout \in Nat \ {0} /\ MaxDelay \in Nat
    /\ MaxTime \in Nat /\ MaxInFlight \in Nat
    /\ SeqLimit \in Nat /\ SeqWindow \in Nat
    /\ 1 < SeqWindow /\ SeqWindow < SeqLimit
    /\ Renewers \subseteq {"loop", "app"}

VARIABLES
    client,     \* SecureConnection of the client
    server,     \* SecureConnection of the server
    c2s, s2c,   \* messages under way
    exchange,   \* _open_secure_channel_exchange: None, parameters or response
    waiter,     \* who awaits the future of the OpenSecureChannel request
    loop,       \* where _renew_channel_loop is
    since,      \* when the loop began to sleep or to wait
    asked,      \* when the request that waiter awaits was sent, 0 for none
    rejected,   \* the sides that have rejected a message of the other
    now

vars == <<client, server, c2s, s2c, exchange, waiter, loop, since, asked,
          rejected, now>>

-----------------------------------------------------------------------------
(* Tokens, keys and messages.                                              *)

\* ChannelSecurityToken.  Id 0 is what the constructor leaves.  nonces is not
\* a field of the token: it says which exchange of nonces belongs to it.
NoToken == [id |-> 0, created |-> 0]
Token == [id : Nat, created : Nat]

\* nonces: the last exchange of nonces (local_nonce and remote_nonce).
\* key, prevKey: the exchange that Decryptor and Prev_Decryptor are derived
\* from, 0 for None; the key that secures outgoing messages is key too.
\* peerSeq 0 is None.
Connection ==
    [token : Token, next : Token, prev : Token, allowPrev : BOOLEAN,
     nonces : Nat, key : Nat, keyExpiration : Nat,
     prevKey : Nat, prevKeyExpiration : Nat, seq : Nat, peerSeq : Nat]

\* A chunk.  kind OPN is an OpenSecureChannel request or response (secured
\* asymmetrically; nonces are its payload, token the one it issues), READ
\* the request of the loop or its response, MSG any other message.
Message ==
    [kind : {"OPN", "READ", "MSG"}, id : Nat, key : Nat, seq : Nat,
     nonces : Nat, token : Token, sent : Nat]

\* make_remote_symmetric_key and make_local_symmetric_key.
MakeKeys(c) ==
    [c EXCEPT !.prevKey = c.key, !.prevKeyExpiration = c.keyExpiration,
              !.key = c.nonces, !.keyExpiration = now + KeyLife]

\* revolve_tokens.
Revolve(c) ==
    MakeKeys([c EXCEPT !.prev = c.token, !.token = c.next,
                       !.next = NoToken])

\* The sequence number after n in message_to_binary.
NextSeq(n) == IF n + 1 >= SeqLimit THEN 1 ELSE n + 1

\* message_to_binary for connection c.
Chunk(c, kind, nonces, token) ==
    [kind |-> kind, id |-> c.token.id, key |-> c.key, seq |-> NextSeq(c.seq),
     nonces |-> nonces, token |-> token, sent |-> now]

Sent(c) == [c EXCEPT !.seq = NextSeq(@)]

-----------------------------------------------------------------------------
(* Receiving: receive_from_header_and_body.                                *)

\* revolved_expired_key.
DropExpiredKey(c) ==
    [c EXCEPT !.prevKey = IF now > c.prevKeyExpiration THEN 0 ELSE @]

\* Mutation of HeaderOK: no message under the previous token.
HeaderOK_CurrentOnly(c, m) == m.id \in {c.token.id, c.next.id}

\* _check_sym_header: the token is the current one, the next one, or the
\* previous one for up to 125 % of its lifetime.
HeaderOK(c, m) ==
    \/ m.id \in {c.token.id, c.next.id}
    \/ /\ c.allowPrev /\ m.id = c.prev.id
       /\ 4 * now <= 4 * c.prev.created + 5 * Lifetime

\* _check_sym_header: the first message under the next token revolves.
AfterHeader(c, m) ==
    IF m.id # c.token.id /\ m.id = c.next.id THEN Revolve(c) ELSE c

\* The key verifies the message, or the previous one does.
KeyOK(c, m) == m.key = c.key \/ (c.prevKey # 0 /\ m.key = c.prevKey)

\* _check_incoming_chunk.
SeqOK(c, m) ==
    \/ c.peerSeq = 0
    \/ m.seq = c.peerSeq + 1
    \/ m.seq < SeqWindow /\ c.peerSeq >= SeqLimit - SeqWindow

\* The connection after the headers of m were looked at, and whether m passes
\* all tests.  What the first tests changed stays when a later one fails.
Opened(c, m) ==
    IF m.kind = "OPN" THEN c
    ELSE IF HeaderOK(c, m) THEN DropExpiredKey(AfterHeader(c, m)) ELSE c

Accepts(c, m) ==
    /\ m.kind # "OPN" => HeaderOK(c, m) /\ KeyOK(Opened(c, m), m)
    /\ SeqOK(c, m)

Received(c, m) == [Opened(c, m) EXCEPT !.peerSeq = m.seq]

-----------------------------------------------------------------------------

\* The channel was opened: exchange 1, token 13.  The client has created its
\* session and started the loop; the last message on either side was number
\* SeqLimit - 2, so that the numbers wrap soon.
Fresh ==
    [token |-> [id |-> 13, created |-> 0], next |-> NoToken,
     prev |-> NoToken, allowPrev |-> FALSE, nonces |-> 1,
     key |-> 1, keyExpiration |-> KeyLife,
     prevKey |-> 0, prevKeyExpiration |-> 0,
     seq |-> SeqLimit - 2, peerSeq |-> SeqLimit - 2]

Init ==
    /\ client = [Fresh EXCEPT !.allowPrev = TRUE]
    /\ server = Fresh
    /\ c2s = << >> /\ s2c = << >>
    /\ exchange = "none" /\ waiter = "none"
    /\ loop = "asleep" /\ since = 0 /\ asked = 0
    /\ rejected = {}
    /\ now = 0

\* The socket is closed when the client has rejected a message.
Connected == "client" \notin rejected

\* _send_request: change to the new token if the channel has been renewed.
Prepared(c) == IF c.next.id # 0 THEN Revolve(c) ELSE c

ClientSends(kind, nonces) ==
    /\ Connected
    /\ client' = Sent(Prepared(client))
    /\ c2s' = Append(c2s, Chunk(Prepared(client), kind, nonces, NoToken))

\* Bound on what the tasks beside the loop send.
RoomForMore == Len(c2s) + Len(s2c) < MaxInFlight

\* A request of any other task.  When the loop has failed, check_connection
\* raises its exception instead.
ClientRequest ==
    /\ loop # "failed" /\ RoomForMore
    /\ ClientSends("MSG", 0)
    /\ UNCHANGED <<server, s2c, exchange, waiter, loop, since, asked,
                   rejected, now>>

\* Mutation of Due: the loop sleeps for the whole lifetime.
Due_Late(who) ==
    who = "loop" => loop = "asleep" /\ now - since >= Lifetime

\* The loop renews after 75 % of the lifetime, the application when it likes.
Due(who) ==
    who = "loop" => loop = "asleep" /\ 4 * (now - since) >= 3 * Lifetime

\* open_secure_channel up to its await, with fresh nonces.  It raises when
\* the exchange of another request is still there, and that ends the loop.
Renew(who) ==
    /\ Connected /\ Due(who)
    /\ IF exchange = "none"
       THEN /\ ClientSends("OPN", client.nonces + 1)
            /\ exchange' = "params" /\ waiter' = who /\ asked' = now
            /\ loop' = IF who = "loop" THEN "renewing" ELSE loop
       ELSE /\ loop' = IF who = "loop" THEN "failed" ELSE loop
            /\ UNCHANGED <<client, c2s, exchange, waiter, asked>>
    /\ UNCHANGED <<server, s2c, since, rejected, now>>

\* Mutation of RenewReturns: the loop goes to sleep without a request.
RenewReturns_NoRead ==
    /\ waiter # "none" /\ exchange = "response"
    /\ exchange' = "none" /\ waiter' = "none" /\ asked' = 0
    /\ loop' = "asleep" /\ since' = now
    /\ UNCHANGED <<client, c2s, server, s2c, rejected, now>>

\* The await returns.  The loop goes on to read the server state.
RenewReturns ==
    /\ waiter # "none" /\ exchange = "response"
    /\ exchange' = "none" /\ waiter' = "none" /\ asked' = 0
    /\ IF waiter = "loop"
       THEN /\ ClientSends("READ", 0)
            /\ loop' = "reading" /\ since' = now
       ELSE UNCHANGED <<client, c2s, loop, since>>
    /\ UNCHANGED <<server, s2c, rejected, now>>

\* wait_for raises in open_secure_channel.  The exchange is left as it is.
RenewTimesOut ==
    /\ waiter # "none" /\ exchange = "params" /\ now - asked >= Timeout
    /\ waiter' = "none" /\ asked' = 0
    /\ loop' = IF waiter = "loop" THEN "failed" ELSE loop
    /\ UNCHANGED <<client, server, c2s, s2c, exchange, since, rejected, now>>

\* wait_for raises in the read of the loop.
ReadTimesOut ==
    /\ loop = "reading" /\ now - since >= Timeout
    /\ loop' = "failed"
    /\ UNCHANGED <<client, server, c2s, s2c, exchange, waiter, since, asked,
                   rejected, now>>

\* set_channel for a renewal.
SetChannel(c, m) == [c EXCEPT !.next = m.token, !.nonces = m.nonces]

\* _process_received_data for one message.  Whatever is wrong with it closes
\* the socket.
ClientReceives ==
    /\ Connected /\ s2c # << >>
    /\ s2c' = Tail(s2c)
    /\ LET m == Head(s2c)
       IN \/ /\ ~Accepts(client, m)
             /\ client' = Opened(client, m)
             /\ rejected' = rejected \cup {"client"}
             /\ UNCHANGED <<exchange, loop, since>>
          \/ /\ Accepts(client, m) /\ m.kind = "OPN"
             /\ client' = SetChannel(Received(client, m), m)
             /\ exchange' = "response"
             /\ UNCHANGED <<loop, since, rejected>>
          \/ /\ Accepts(client, m) /\ m.kind # "OPN"
             /\ client' = Received(client, m)
             /\ loop' = IF m.kind = "READ" /\ loop = "reading"
                        THEN "asleep" ELSE loop
             /\ since' = IF loop' # loop THEN now ELSE since
             /\ UNCHANGED <<exchange, rejected>>
    /\ UNCHANGED <<server, c2s, waiter, asked, now>>

-----------------------------------------------------------------------------
(* The server.                                                             *)

ServerSends(c, kind, nonces, token) ==
    /\ server' = Sent(c)
    /\ s2c' = Append(s2c, Chunk(c, kind, nonces, token))

\* Mutation of Open: the server changes to the new token at once.
Open_AtOnce(c, m) ==
    Revolve([c EXCEPT !.nonces = m.nonces,
                      !.next = [id |-> c.token.id + 1, created |-> now]])

\* SecureConnection.open for a renewal.
Open(c, m) ==
    [c EXCEPT !.nonces = m.nonces,
              !.next = [id |-> c.token.id + 1, created |-> now]]

\* UaProcessor.process for one message, and the response to it.  A message
\* that raises is logged and forgotten, the connection stays.
ServerReceives ==
    /\ c2s # << >>
    /\ c2s' = Tail(c2s)
    /\ LET m == Head(c2s)
       IN \/ /\ ~Accepts(server, m)
             /\ server' = Opened(server, m)
             /\ rejected' = rejected \cup {"server"}
             /\ UNCHANGED s2c
          \/ /\ Accepts(server, m) /\ m.kind = "OPN"
             /\ LET opened == Open(Received(server, m), m)
                IN ServerSends(opened, "OPN", m.nonces,
                               [id |-> server.token.id + 1, created |-> now])
             /\ UNCHANGED rejected
          \/ /\ Accepts(server, m) /\ m.kind # "OPN"
             /\ ServerSends(Received(server, m), m.kind, 0, NoToken)
             /\ UNCHANGED rejected
    /\ UNCHANGED <<client, exchange, waiter, loop, since, asked, now>>

\* forward_publish_response from the loop of a subscription.
ServerPublishes ==
    /\ RoomForMore
    /\ ServerSends(server, "MSG", 0, NoToken)
    /\ UNCHANGED <<client, c2s, exchange, waiter, loop, since, asked,
                   rejected, now>>

-----------------------------------------------------------------------------

\* Something that happens within the tick: a message that is due, a task
\* that is ready, a timeout.
Urgent ==
    \/ \E q \in {c2s, s2c} : q # << >> /\ now - Head(q).sent >= MaxDelay
    \/ Due("loop")
    \/ waiter # "none" /\ (exchange = "response" \/ now - asked >= Timeout)
    \/ loop = "reading" /\ now - since >= Timeout

Tick ==
    /\ now < MaxTime /\ Connected
    /\ ~Urgent
    /\ now' = now + 1
    /\ UNCHANGED <<client, server, c2s, s2c, exchange, waiter, loop, since,
                   asked, rejected>>

Next ==
    \/ ClientRequest
    \/ \E who \in Renewers : Renew(who)
    \/ RenewReturns
    \/ RenewTimesOut
    \/ ReadTimesOut
    \/ ClientReceives
    \/ ServerReceives
    \/ ServerPublishes
    \/ Tick

Spec == Init /\ [][Next]_vars

-----------------------------------------------------------------------------
(* Properties.                                                             *)

\* Every variable has the shape the code gives it, and a sequence number is
\* never 0 nor SeqLimit: on the wire it is an unsigned integer of 32 bits.
TypeOK ==
    /\ client \in Connection /\ server \in Connection
    /\ c2s \in Seq(Message) /\ s2c \in Seq(Message)
    /\ {client.seq, server.seq} \subseteq 1 .. SeqLimit - 1
    /\ exchange \in {"none", "params", "response"}
    /\ waiter \in {"none"} \cup Renewers
    /\ loop \in {"asleep", "renewing", "reading", "failed"}
    /\ since \in Nat /\ asked \in Nat
    /\ rejected \subseteq {"client", "server"}
    /\ now \in 0 .. MaxTime

\* connection.py, "ensure that Messages sent by the Server before the token
\* expired are not rejected because of network delays": no message of this
\* client or this server is rejected by the other, whatever is under way when
\* the token revolves, or the sequence number wraps.
NothingRejected == rejected = {}

\* The server secures nothing with a token before the client has used it:
\* what it sends while a renewal is answered must be readable to a client
\* that has not seen the answer.
ClientRevolvesFirst ==
    /\ server.token.id <= client.token.id
    /\ \A i \in DOMAIN s2c : s2c[i].id <= client.token.id

\* A round of _renew_channel_loop takes effect at both ends: when the loop
\* sleeps, client and server secure with the same token and keys, and none
\* is pending.
RenewalIsComplete ==
    loop = "asleep" /\ exchange = "none" =>
        /\ client.token.id = server.token.id /\ client.key = server.key
        /\ client.next = NoToken /\ server.next = NoToken

\* _renew_channel_loop, "before the SecureChannelTimeout will happen": as
\* long as the loop works the client sends nothing under an expired token.
RenewedBeforeExpiry ==
    loop # "failed" => now <= client.token.created + Lifetime

-----------------------------------------------------------------------------
(* Statements of the code's own documentation that the code does not keep. *)

\* open_secure_channel, "The response must be processed and returned before
\* the next request can be sent": once it has been, the next request can.
ExchangeIsUnderWay ==
    exchange # "none" =>
        \/ waiter # "none"
        \/ \E i \in DOMAIN c2s : c2s[i].kind = "OPN"
        \/ \E i \in DOMAIN s2c : s2c[i].kind = "OPN"

=============================================================================
