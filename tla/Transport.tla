----------------------------- MODULE Transport ------------------------------
(***************************************************************************)
(* The transport of a connection: limits are negotiated, messages are      *)
(* split into chunks by the sender and put together by the receiver.       *)
(* Messages are numbers with a length in bytes; the sizes of headers and   *)
(* of padding are those of the code.  Tokens, keys and the wrap of         *)
(* sequence numbers are in SecureChannel.                                  *)
(***************************************************************************)
EXTENDS Integers, Sequences

CONSTANTS
    ServerLimits,  \* TransportLimits a server may be configured with
    Hellos,        \* what a client may offer, records of the same fields
    Cryptos,       \* symmetric cryptography: block sizes, signature, encryption
    Lengths,       \* lengths of encoded messages
    OpenSizes,     \* sizes of messages that open or renew the secure channel
    MaxMessages,   \* bound: messages each side sends
    MaxAborts      \* bound: messages a peer of another make aborts

TransportLimits == [recv : Nat, send : Nat, chunks : Nat, size : Nat]

\* Symmetric cryptography is AES in CBC mode: an encrypted block is as long as
\* a plain one, 16 or 32 bytes; without encryption, a block is a byte.
ASSUME TransportAssumption ==
    /\ ServerLimits \subseteq TransportLimits /\ Hellos \subseteq TransportLimits
    /\ Cryptos \subseteq [plain : 1 .. 256, cipher : 1 .. 256, sig : Nat, encrypted : BOOLEAN]
    /\ \A c \in Cryptos : c.cipher = c.plain /\ (~c.encrypted => c.plain = 1)
    /\ Lengths \subseteq Nat \ {0} /\ OpenSizes \subseteq Nat
    /\ MaxMessages \in Nat /\ MaxAborts \in Nat

Ends == {"client", "server"}
Other(e) == IF e = "client" THEN "server" ELSE "client"

VARIABLES
    own,      \* Server.limits and the Hello of the client
    limits,   \* limits[e]: SecureConnection._limits
    crypto,   \* security_policy.symmetric_cryptography
    phase,    \* "hello", "ack", "open", "closed"
    net,      \* net[e]: chunks and errors on their way to e
    seqno,    \* seqno[e]: _sequence_number
    peer,     \* peer[e]: _peer_sequence_number; 0 for None, as numbers begin at 1
    parts,    \* parts[e]: _incoming_parts
    sent,     \* sent[e]: for each message, how many chunks it has, and the largest
    got,      \* got[e]: the messages given to the layer above, as lists of chunks
    aborts,   \* messages aborted
    refused   \* ends that refused a chunk for its size or sequence number

vars == <<own, limits, crypto, phase, net, seqno, peer, parts, sent, got, aborts, refused>>

Init ==
    /\ \E mine \in ServerLimits, hello \in Hellos :
          own = [e \in Ends |-> IF e = "server" THEN mine ELSE hello]
    /\ limits = own
    /\ crypto \in Cryptos
    /\ phase = "hello"
    /\ net = [e \in Ends |-> << >>]
    /\ seqno = [e \in Ends |-> 0] /\ peer = [e \in Ends |-> 0]
    /\ parts = [e \in Ends |-> << >>]
    /\ sent = [e \in Ends |-> << >>] /\ got = [e \in Ends |-> << >>]
    /\ aborts = 0 /\ refused = {}

-----------------------------------------------------------------------------
(* Negotiation.                                                            *)

\* min and max of two numbers.
Least(a, b) == IF a <= b THEN a ELSE b
Most(a, b) == IF a >= b THEN a ELSE b

\* 0 is no limit.
SelectLimit(other, mine) ==
    IF mine = 0 \/ other = 0 THEN Most(other, mine) ELSE Least(other, mine)

\* The limits of the server after the hello.  The acknowledge has them, with
\* the buffers named as the client calls them.
Acknowledged(hello, mine) ==
    [recv |-> Least(hello.send, mine.recv), send |-> Least(hello.recv, mine.send),
     chunks |-> SelectLimit(hello.chunks, mine.chunks),
     size |-> SelectLimit(hello.size, mine.size)]

\* process of a Hello: create_acknowledge_and_set_limits.
ServerHello ==
    /\ phase = "hello" /\ phase' = "ack"
    /\ limits' = [limits EXCEPT !["server"] = Acknowledged(own["client"], @)]
    /\ UNCHANGED <<own, crypto, net, seqno, peer, parts, sent, got, aborts, refused>>

\* update_client_limits.
ClientAck ==
    /\ phase = "ack" /\ phase' = "open"
    /\ LET ack == limits["server"]
       IN limits' = [limits EXCEPT !["client"] =
              [ack EXCEPT !.recv = ack.send, !.send = ack.recv]]
    /\ UNCHANGED <<own, crypto, net, seqno, peer, parts, sent, got, aborts, refused>>

-----------------------------------------------------------------------------
(* Sending.                                                                *)

HeaderSize == 12 + 4   \* Header.max_size, SymmetricAlgorithmHeader.max_size
SequenceSize == 8      \* SequenceHeader.max_size

\* padding(size): the padding bytes, and the one or two that hold their number.
Padding(c, size) ==
    LET extra == IF c.cipher > 256 THEN 2 ELSE 1
        rem == (size + c.sig + extra) % c.plain
    IN IF ~c.encrypted THEN 0
       ELSE (IF rem = 0 THEN 0 ELSE c.plain - rem) + extra

\* Size of a chunk with a body (to_binary).
ChunkSize(c, body) ==
    LET plain == SequenceSize + body + Padding(c, SequenceSize + body) + c.sig
    IN HeaderSize + (plain \div c.plain) * c.cipher

\* Mutation of MaxBodySize: the byte that holds the number of padding bytes
\* is forgotten.
MaxBodySize_NoPadding(c, chunk) ==
    ((chunk - HeaderSize) \div c.cipher) * c.plain - SequenceSize - c.sig

MaxBodySize(c, chunk) ==
    ((chunk - HeaderSize) \div c.cipher) * c.plain - SequenceSize - c.sig
    - (IF c.encrypted THEN 1 ELSE 0)

\* How many chunks a message has: none if no byte of it fits.  (Then the
\* message is not sent: a ValueError for 0, and silence below 0.)
ChunkCount(e, length) ==
    LET most == MaxBodySize(crypto, limits[e].send)
    IN IF most <= 0 THEN 0 ELSE (length + most - 1) \div most

\* Mutation of Chunk: a chunk that is followed by one more is the last.
Chunk_LastTooEarly(e, m, length, k, seq) ==
    LET most == MaxBodySize(crypto, limits[e].send)
        body == Least(most, length - (k - 1) * most)
    IN [kind |-> IF (k + 1) * most >= length THEN "single" ELSE "intermediate",
        msg |-> m, part |-> k, seq |-> seq, size |-> ChunkSize(crypto, body)]

\* Mutation of Chunk: a message that fills its last chunk has no last chunk.
Chunk_NeverExact(e, m, length, k, seq) ==
    LET most == MaxBodySize(crypto, limits[e].send)
        body == Least(most, length - (k - 1) * most)
    IN [kind |-> IF k * most > length THEN "single" ELSE "intermediate",
        msg |-> m, part |-> k, seq |-> seq, size |-> ChunkSize(crypto, body)]

\* message_to_chunks: chunk k of message m, and its sequence number.
Chunk(e, m, length, k, seq) ==
    LET most == MaxBodySize(crypto, limits[e].send)
        body == Least(most, length - (k - 1) * most)
    IN [kind |-> IF k * most >= length THEN "single" ELSE "intermediate",
        msg |-> m, part |-> k, seq |-> seq, size |-> ChunkSize(crypto, body)]

Message(n, size) == [chunks |-> n, size |-> size, aborted |-> FALSE]

LargestChunk(e, length) ==
    ChunkSize(crypto, Least(length, MaxBodySize(crypto, limits[e].send)))

\* message_to_binary and write.
Send(e, length) ==
    /\ phase = "open" /\ Len(sent[e]) < MaxMessages
    /\ LET n == ChunkCount(e, length)
           m == Len(sent[e]) + 1
       IN /\ sent' = [sent EXCEPT ![e] = Append(@, Message(n, LargestChunk(e, length)))]
          /\ seqno' = [seqno EXCEPT ![e] = @ + n]
          /\ net' = [net EXCEPT ![Other(e)] = @ \o
                 [k \in 1 .. n |-> Chunk(e, m, length, k, seqno[e] + k)]]
    /\ UNCHANGED <<own, limits, crypto, phase, peer, parts, got, aborts, refused>>

\* OpenSecureChannel, request or answer: one chunk, whatever its size.
SendOpen(e, size) ==
    /\ phase = "open" /\ Len(sent[e]) < MaxMessages
    /\ sent' = [sent EXCEPT ![e] = Append(@, Message(1, size))]
    /\ seqno' = [seqno EXCEPT ![e] = @ + 1]
    /\ net' = [net EXCEPT ![Other(e)] = Append(@,
           [kind |-> "single", msg |-> Len(sent[e]) + 1, part |-> 1,
            seq |-> seqno[e] + 1, size |-> size])]
    /\ UNCHANGED <<own, limits, crypto, phase, peer, parts, got, aborts, refused>>

\* A peer of another make may abort a message: some of its chunks are followed
\* by an abort chunk.  This code only receives it.
SendAborted(e, length, k) ==
    /\ phase = "open" /\ Len(sent[e]) < MaxMessages /\ aborts < MaxAborts
    /\ k < ChunkCount(e, length)
    /\ LET m == Len(sent[e]) + 1
           abort == [kind |-> "abort", msg |-> m, part |-> k + 1, seq |-> seqno[e] + k + 1,
                     size |-> ChunkSize(crypto, 1)]
       IN /\ sent' = [sent EXCEPT ![e] = Append(@,
                 [Message(k + 1, LargestChunk(e, length)) EXCEPT !.aborted = TRUE])]
          /\ seqno' = [seqno EXCEPT ![e] = @ + k + 1]
          /\ net' = [net EXCEPT ![Other(e)] = @ \o
                 [i \in 1 .. k |-> Chunk(e, m, length, i, seqno[e] + i)] \o <<abort>>]
    /\ aborts' = aborts + 1
    /\ UNCHANGED <<own, limits, crypto, phase, peer, parts, got, refused>>

-----------------------------------------------------------------------------
(* Receiving: _receive, and what the callers make of its exceptions.       *)

Head1(e) == Head(net[e])

\* An ErrorMessage.
Error == [kind |-> "error"]

\* _check_incoming_chunk: one message at a time, sequence numbers without gap
\* after the first chunk that is taken, which may have any number.
InSequence(e, c) ==
    /\ parts[e] # << >> => parts[e][1].msg = c.msg
    /\ peer[e] # 0 => c.seq = peer[e] + 1

TooMany(e, n) == limits[e].chunks > 0 /\ n > limits[e].chunks

\* A chunk that is within the limits: intermediate, the last one, or abort.
Accept(e, c) ==
    LET all == Append(parts[e], c)
    IN /\ parts' = [parts EXCEPT ![e] = IF c.kind = "intermediate" THEN all ELSE << >>]
       /\ got' = [got EXCEPT ![e] = IF c.kind = "single" THEN Append(@, all) ELSE @]

\* The client disconnects; the server answers a limit with an error message,
\* logs anything else, and goes on in both cases.
Fails(e, limit) ==
    IF e = "client"
    THEN /\ phase' = "closed"
         /\ net' = [net EXCEPT !["client"] = << >>]
    ELSE /\ net' = [net EXCEPT !["server"] = Tail(@),
                               !["client"] = IF limit THEN Append(@, Error) ELSE @]
         /\ UNCHANGED phase

Receive(e) ==
    /\ net[e] # << >> /\ Head1(e).kind # "error"
    /\ LET c == Head1(e)
       IN \/ /\ c.size > limits[e].recv
             /\ parts' = [parts EXCEPT ![e] = << >>]
             /\ refused' = refused \cup {e}
             /\ Fails(e, TRUE)
             /\ UNCHANGED <<peer, got>>
          \/ /\ c.size <= limits[e].recv /\ ~InSequence(e, c)
             /\ refused' = refused \cup {e}
             /\ Fails(e, FALSE)
             /\ UNCHANGED <<peer, parts, got>>
          \/ /\ c.size <= limits[e].recv /\ InSequence(e, c)
             /\ peer' = [peer EXCEPT ![e] = c.seq]
             /\ \/ /\ TooMany(e, Len(parts[e]) + 1)
                   /\ parts' = [parts EXCEPT ![e] = << >>]
                   /\ Fails(e, TRUE)
                   /\ UNCHANGED got
                \/ /\ ~TooMany(e, Len(parts[e]) + 1)
                   /\ Accept(e, c)
                   /\ net' = [net EXCEPT ![e] = Tail(@)]
                   /\ UNCHANGED phase
             /\ UNCHANGED refused
    /\ UNCHANGED <<own, limits, crypto, seqno, sent, aborts>>

\* _process_received_message of an ErrorMessage: the client disconnects.
ReceiveError ==
    /\ net["client"] # << >> /\ Head1("client").kind = "error"
    /\ phase' = "closed"
    /\ net' = [net EXCEPT !["client"] = << >>]
    /\ UNCHANGED <<own, limits, crypto, seqno, peer, parts, sent, got, aborts, refused>>

Next ==
    \/ ServerHello \/ ClientAck \/ ReceiveError
    \/ \E e \in Ends :
          \/ Receive(e)
          \/ \E length \in Lengths : Send(e, length)
          \/ \E size \in OpenSizes : SendOpen(e, size)
          \/ \E length \in Lengths : \E k \in 0 .. length : SendAborted(e, length, k)

Spec == Init /\ [][Next]_vars

\* What arrives is processed.
FairSpec == Spec /\ WF_vars(Receive("client")) /\ WF_vars(Receive("server"))
                 /\ WF_vars(ReceiveError)

-----------------------------------------------------------------------------
(* Properties.                                                             *)

\* What is sent and received: chunks, and errors of the server.
Chunks == [kind : {"single", "intermediate", "abort"}, msg : Nat \ {0}, part : Nat \ {0},
           seq : Nat \ {0}, size : Nat]

\* Every variable has its shape.
TypeOK ==
    /\ own \in [Ends -> TransportLimits] /\ limits \in [Ends -> TransportLimits]
    /\ crypto \in Cryptos /\ phase \in {"hello", "ack", "open", "closed"}
    /\ net \in [Ends -> Seq(Chunks \cup {Error})]
    /\ seqno \in [Ends -> Nat] /\ peer \in [Ends -> Nat]
    /\ parts \in [Ends -> Seq(Chunks)] /\ got \in [Ends -> Seq(Seq(Chunks))]
    /\ sent \in [Ends -> Seq([chunks : Nat, size : Int, aborted : BOOLEAN])]
    /\ aborts \in Nat /\ refused \subseteq Ends

\* Message m to end e has more chunks than e takes, or larger ones.
Oversized(e, m) ==
    LET msg == sent[Other(e)][m]
    IN TooMany(e, msg.chunks) \/ msg.size > limits[e].recv

\* The two ends agree, within what each of them asked for.
LimitsAgree ==
    phase = "open" => \A e \in Ends :
        /\ limits[e].send = limits[Other(e)].recv /\ limits[e].recv <= own[e].recv
        /\ own[e].chunks > 0 => limits[e].chunks \in 1 .. own[e].chunks

\* No chunk is refused for its size or its place in the sequence, but for the
\* messages that open or renew the channel, which are not split.
ChunksFit ==
    \A e \in Ends :
        /\ e \in refused => \E m \in DOMAIN sent[Other(e)] :
               sent[Other(e)][m].size \in OpenSizes /\ Oversized(e, m)
        /\ \A i \in DOMAIN net[e] : net[e][i].kind = "error"
               \/ net[e][i].size <= limits[e].recv \/ net[e][i].size \in OpenSizes

\* "Size of each chunk will not exceed max_chunk_size" (connection.py), and
\* the limit the sender keeps to is one the receiver has: the negotiation, the
\* arithmetic of blocks and padding and the test of the receiver fit together.
LimitsHold == LimitsAgree /\ ChunksFit

\* A message is given to the layer above as it was sent: all its chunks in
\* their order, messages in their order.  An exception are messages with more
\* chunks than the limit: the chunks after the refusal are taken for a message
\* of their own.
DeliveredWhole ==
    \A e \in Ends : \A i \in DOMAIN got[e] :
        LET msg == got[e][i]
            m == msg[1].msg
        IN /\ \A k \in DOMAIN msg : msg[k].msg = m
           /\ \A j \in 1 .. i - 1 : got[e][j][1].msg < m
           /\ \/ Oversized(e, m)
              \/ [k \in DOMAIN msg |-> msg[k].part] =
                     [k \in 1 .. sent[Other(e)][m].chunks |-> k]

\* Every message is given to the layer above, unless it was aborted, none of
\* its bytes fits into a chunk, or a message was over the limits.
SentArrives ==
    \A e \in Ends : \A m \in 1 .. MaxMessages :
        LET to == sent[Other(e)]
        IN m \in DOMAIN to ~>
            \/ \E i \in DOMAIN got[e] : got[e][i][1].msg = m
            \/ m \in DOMAIN to /\ (to[m].aborted \/ to[m].chunks = 0)
            \/ \E f \in Ends : \E k \in DOMAIN sent[Other(f)] : Oversized(f, k)

=============================================================================
