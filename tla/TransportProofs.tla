-------------------------- MODULE TransportProofs ---------------------------
(***************************************************************************)
(* Theorems about Transport, for all limits, signatures and block sizes,   *)
(* messages of any length and any number of them.                          *)
(***************************************************************************)
EXTENDS Transport, SequenceTheorems, TLAPS

-----------------------------------------------------------------------------
(* The inductive invariant.                                                *)

\* The limits are those of the two ends, then those of the acknowledge, first
\* at the server.  Nothing is sent before.
Negotiated ==
    /\ phase = "hello" => limits = own
    /\ phase = "ack" => /\ limits["server"] = Acknowledged(own["client"], own["server"])
                        /\ limits["client"] = own["client"]
    /\ phase \in {"hello", "ack"} =>
          \A e \in Ends : /\ net[e] = << >> /\ sent[e] = << >> /\ parts[e] = << >>
                          /\ got[e] = << >> /\ seqno[e] = 0 /\ peer[e] = 0 /\ e \notin refused
    /\ phase \in {"open", "closed"} => \A e \in Ends :
          /\ limits[e].send = limits[Other(e)].recv /\ limits[e].recv <= own[e].recv
          /\ own[e].chunks > 0 => limits[e].chunks \in 1 .. own[e].chunks

(***************************************************************************)
(* The parts of the invariant are about one direction: N is on its way, S  *)
(* has been sent, the last chunk with number last; the receiver has the    *)
(* limits l.                                                               *)
(***************************************************************************)

Messages == [chunks : Nat, size : Int, aborted : BOOLEAN]

\* Oversized, of message m.
Over(S, l, m) ==
    \/ l.chunks > 0 /\ S[m].chunks > l.chunks
    \/ S[m].size > l.recv

\* Chunk c belongs to a message that was sent.  It is the last one or not,
\* and fits, unless it opens or renews the channel.
Belongs(S, l, c) ==
    /\ c.msg \in DOMAIN S /\ c.part <= S[c.msg].chunks
    /\ c.kind = "intermediate" <=> c.part # S[c.msg].chunks
    /\ c.size <= l.recv \/ (c.size \in OpenSizes /\ c.size = S[c.msg].size)

\* Chunk d is sent after chunk c, with nothing between them.
Follows(c, d) ==
    /\ d.seq = c.seq + 1
    /\ IF c.kind = "intermediate" THEN d.msg = c.msg /\ d.part = c.part + 1
       ELSE d.msg > c.msg /\ d.part = 1

\* What is on its way: whole messages, but for the first, and errors between
\* messages.
Chained(N, S, l, last) ==
    /\ \A i \in 1 .. Len(N) : N[i] = Error \/ (N[i] \in Chunks /\ Belongs(S, l, N[i]))
    /\ \A i \in 1 .. Len(N) - 1 :
          \/ N[i] = Error
          \/ N[i + 1] = Error /\ N[i].kind # "intermediate"
          \/ N[i + 1] # Error /\ Follows(N[i], N[i + 1])
    /\ Len(N) > 0 /\ N[Len(N)] # Error =>
          N[Len(N)].kind # "intermediate" /\ N[Len(N)].seq = last

\* The chunks P that wait for the rest of their message.
PartsFit(P, S, l) ==
    /\ \A k \in 1 .. Len(P) : P[k].msg = P[1].msg
    /\ Len(P) > 0 => /\ P[1].msg \in DOMAIN S
                     /\ Over(S, l, P[1].msg) \/ \A k \in 1 .. Len(P) : P[k].part = k

\* The messages G that were put together.
GotFits(G, S, l) ==
    /\ \A i \in 1 .. Len(G) :
          /\ Len(G[i]) > 0 /\ G[i][1].msg \in DOMAIN S
          /\ \A k \in 1 .. Len(G[i]) : G[i][k].msg = G[i][1].msg
          /\ \/ Over(S, l, G[i][1].msg)
             \/ /\ Len(G[i]) = S[G[i][1].msg].chunks
                /\ \A k \in 1 .. Len(G[i]) : G[i][k].part = k
    /\ \A i, j \in 1 .. Len(G) : i < j => G[i][1].msg < G[j][1].msg

\* What the receiver expects is what comes next.  Before it has taken a chunk,
\* it expects any message.
Expected(N, S, l, last, num, P, G) ==
    /\ num = 0 => Len(P) = 0 /\ Len(G) = 0
    /\ Len(N) = 0 => Len(P) = 0 /\ (num = 0 \/ num = last)
    /\ Len(N) > 0 /\ N[1] # Error =>
          /\ num = 0 \/ N[1].seq = num + 1
          /\ Len(P) > 0 => N[1].msg = P[1].msg
          /\ Over(S, l, N[1].msg) \/ N[1].part = Len(P) + 1
          /\ \A i \in 1 .. Len(G) : G[i][1].msg < N[1].msg

\* Once it has refused a chunk after one that it took, nothing that comes is in
\* sequence.
OutOfSequence(N, last, num) ==
    /\ num > 0
    /\ Len(N) = 0 => last > num
    /\ Len(N) > 0 /\ N[1] # Error => N[1].seq > num + 1

\* A message that opens or renews the channel was too large.
OpenTooLarge(S, l) == \E m \in DOMAIN S : S[m].size \in OpenSizes /\ Over(S, l, m)

\* The client is gone: what comes to it are errors of the server.
Gone(e) == e = "client" /\ phase = "closed"

Linked(e) ==
    /\ Chained(net[e], sent[Other(e)], limits[e], seqno[Other(e)])
    /\ PartsFit(parts[e], sent[Other(e)], limits[e])
    /\ GotFits(got[e], sent[Other(e)], limits[e])
    /\ ~Gone(e) =>
          \/ Expected(net[e], sent[Other(e)], limits[e], seqno[Other(e)], peer[e], parts[e], got[e])
          \/ e \in refused /\ OutOfSequence(net[e], seqno[Other(e)], peer[e])
    /\ e \in refused => OpenTooLarge(sent[Other(e)], limits[e])
    /\ Gone(e) => \A i \in 1 .. Len(net[e]) : net[e][i] = Error

Inv == TypeOK /\ Negotiated /\ \A e \in Ends : Linked(e)

-----------------------------------------------------------------------------
(* Arithmetic of chunks.                                                   *)

\* Division with remainder.
LEMMA DivMod ==
    ASSUME NEW a \in Int, NEW b \in Nat \ {0}
    PROVE  /\ a \div b \in Int /\ a % b \in 0 .. b - 1
           /\ a = (a \div b) * b + (a % b)
OBVIOUS

\* Multiples of a block size.
LEMMA Multiples ==
    ASSUME NEW a \in Int, NEW b \in Nat \ {0}, NEW c \in Int
    PROVE  /\ a * b \in Int /\ c * b \in Int
           /\ a <= c <=> a * b <= c * b
           /\ (a + 1) * b = a * b + b /\ (a - 1) * b = a * b - b
<1>1. a * b \in Int /\ c * b \in Int
  OBVIOUS
<1>2. a <= c => a * b <= c * b
  OBVIOUS
<1>3. c < a => c * b < a * b
  OBVIOUS
<1>4. (a + 1) * b = a * b + b /\ (a - 1) * b = a * b - b
  OBVIOUS
<1>5. QED
  BY <1>1, <1>2, <1>3, <1>4

\* The plain text of a chunk fills blocks, no more of them than needed.
Filling(x, b) == IF x % b = 0 THEN 0 ELSE b - (x % b)

\* Padding fills the block and no further one.
LEMMA PaddingFills ==
    ASSUME NEW b \in Nat \ {0}, NEW x \in Nat
    PROVE  /\ Filling(x, b) \in Nat
           /\ ((x + Filling(x, b)) \div b) * b = x + Filling(x, b)
           /\ \A q \in Int : x <= q * b => x + Filling(x, b) <= q * b
<1> DEFINE d == x \div b
           r == x % b
           pad == Filling(x, b)
<1>1. d \in Int /\ r \in 0 .. b - 1 /\ x = d * b + r
  BY DivMod
<1> HIDE DEF d, r
<1>2. pad \in Nat /\ pad = IF r = 0 THEN 0 ELSE b - r
  BY <1>1 DEF r, Filling
<1> HIDE DEF pad
<1>3. PICK k \in Int : x + pad = k * b /\ k * b < x + b
  <2>1. CASE r = 0
    <3>1. x + pad = d * b /\ d * b < x + b
      BY <1>1, <1>2, <2>1
    <3>2. QED
      BY <1>1, <3>1
  <2>2. CASE r # 0
    <3>1. (d + 1) * b = d * b + b /\ d + 1 \in Int /\ d * b \in Int
      BY <1>1, Multiples
    <3>2. x + pad = (d + 1) * b /\ (d + 1) * b < x + b
      BY <1>1, <1>2, <2>2, <3>1
    <3>3. QED
      BY <3>1, <3>2
  <2>3. QED
    BY <2>1, <2>2
<1>4. (k * b) \div b = k
  <2> DEFINE e == (k * b) \div b
             s == (k * b) % b
  <2>1. e \in Int /\ s \in 0 .. b - 1 /\ k * b = e * b + s
    <3> DEFINE a == k * b
    <3>1. a \in Int
      OBVIOUS
    <3> HIDE DEF a
    <3>2. a \div b \in Int /\ a % b \in 0 .. b - 1 /\ a = (a \div b) * b + (a % b)
      BY <3>1, DivMod
    <3>3. QED
      BY <3>2 DEF a
  <2> HIDE DEF e, s
  <2>2. e * b <= k * b /\ k * b < (e + 1) * b
    BY <2>1, Multiples
  <2>3. e <= k /\ ~(e + 1 <= k)
    BY <2>1, <2>2, Multiples
  <2>4. QED
    BY <2>1, <2>3 DEF e
<1>5. ASSUME NEW q \in Int, x <= q * b PROVE x + pad <= q * b
  <2>1. (k - 1) * b < q * b
    BY <1>3, <1>5, Multiples
  <2>2. k <= q
    BY <2>1, Multiples
  <2>3. QED
    BY <1>3, <2>2, Multiples
<1>6. QED
  BY <1>2, <1>3, <1>4, <1>5 DEF pad

\* A body of at most max_body_size makes a chunk of at most max_chunk_size:
\* padding and blocks fit.
LEMMA BodyFits ==
    ASSUME TransportAssumption, NEW c \in Cryptos, NEW chunk \in Nat, NEW body \in Nat,
           body <= MaxBodySize(c, chunk)
    PROVE  ChunkSize(c, body) \in Nat /\ ChunkSize(c, body) <= chunk
<1> DEFINE b == c.plain
           q == (chunk - 16) \div b
           most == q * b
<1>1. /\ b \in 1 .. 256 /\ c.cipher = b /\ c.sig \in Nat /\ c.encrypted \in BOOLEAN
      /\ ~c.encrypted => b = 1
  BY DEF TransportAssumption
<1> HIDE DEF b
<1>2. b \in Nat \ {0}
  BY <1>1
<1>3. q \in Int /\ most \in Int /\ most <= chunk - 16
  <2>1. (chunk - 16) % b \in 0 .. b - 1 /\ chunk - 16 = q * b + ((chunk - 16) % b) /\ q \in Int
    BY <1>2, DivMod
  <2> HIDE DEF q
  <2>2. QED
    BY <1>2, <2>1
<1>4. /\ MaxBodySize(c, chunk) = most - 8 - c.sig - (IF c.encrypted THEN 1 ELSE 0)
      /\ c.plain = b
  BY <1>1 DEF MaxBodySize, HeaderSize, SequenceSize, b
<1> HIDE DEF q
<1>5. CASE c.encrypted
  <2> DEFINE x == 8 + body + c.sig + 1
             pad == Filling(x, b)
  <2>1. x \in Nat /\ x <= q * b
    BY <1>1, <1>3, <1>4, <1>5
  <2>2. /\ pad \in Nat /\ ((x + pad) \div b) * b = x + pad /\ x + pad <= q * b
    <3> HIDE DEF x
    <3>1. /\ pad \in Nat /\ ((x + pad) \div b) * b = x + pad
          /\ \A k \in Int : x <= k * b => x + pad <= k * b
      BY <1>2, <2>1, PaddingFills
    <3> HIDE DEF pad
    <3>2. QED
      BY <1>3, <2>1, <3>1
  <2>3. Padding(c, 8 + body) = pad + 1
    <3>1. (8 + body) + c.sig + 1 = x
      BY <1>1
    <3>2. ~(c.cipher > 256)
      BY <1>1
    <3> HIDE DEF x
    <3>3. QED
      BY <1>4, <1>5, <3>1, <3>2 DEF Padding, Filling
  <2> HIDE DEF pad
  <2>4. 8 + body + (pad + 1) + c.sig = x + pad
    BY <1>1, <2>2
  <2> HIDE DEF x
  <2>5. ChunkSize(c, body) = 16 + (x + pad)
    BY <1>1, <1>4, <2>2, <2>3, <2>4 DEF ChunkSize, SequenceSize, HeaderSize
  <2>6. QED
    BY <1>3, <2>1, <2>2, <2>5
<1>6. CASE ~c.encrypted
  <2>1. Padding(c, 8 + body) = 0
    BY <1>6 DEF Padding
  <2>2. b = 1 /\ c.cipher = 1 /\ c.plain = 1
    BY <1>1, <1>4, <1>6
  <2>3. ChunkSize(c, body) = 16 + (((8 + body + 0 + c.sig) \div 1) * 1)
    BY <2>1, <2>2 DEF ChunkSize, SequenceSize, HeaderSize
  <2>4. ChunkSize(c, body) = 16 + (8 + body + c.sig)
    BY <1>1, <2>3
  <2>5. QED
    BY <1>1, <1>3, <1>4, <1>6, <2>4
<1>7. QED
  BY <1>1, <1>5, <1>6

\* A message has as many chunks as it needs.
LEMMA CountFits ==
    ASSUME NEW length \in Nat \ {0}, NEW most \in Nat \ {0}
    PROVE  /\ (length + most - 1) \div most \in Nat \ {0}
           /\ \A k \in Nat : k * most >= length <=> k >= (length + most - 1) \div most
<1> DEFINE a == length + most - 1
           n == a \div most
           r == a % most
<1>1. a \in Nat /\ n \in Int /\ r \in 0 .. most - 1 /\ a = n * most + r
  <2>1. a \in Nat
    OBVIOUS
  <2> HIDE DEF a
  <2>2. QED
    BY <2>1, DivMod
<1> HIDE DEF n, r
<1>2. n * most \in Int /\ n * most >= length /\ n * most < length + most
  BY <1>1
<1>3. n \in Nat \ {0}
  <2>1. 0 * most < n * most
    BY <1>2
  <2>2. ~(n <= 0)
    BY <1>1, <2>1, Multiples
  <2>3. QED
    BY <1>1, <2>2
<1>4. ASSUME NEW k \in Nat PROVE k * most >= length <=> k >= n
  <2>1. CASE k >= n
    <3>1. n * most <= k * most /\ k * most \in Int
      BY <1>3, <2>1, Multiples
    <3>2. QED
      BY <1>2, <2>1, <3>1
  <2>2. CASE k < n
    <3>1. k + 1 <= n /\ k + 1 \in Int
      BY <1>3, <2>2
    <3>2. (k + 1) * most <= n * most /\ (k + 1) * most = k * most + most /\ k * most \in Int
      BY <1>3, <3>1, Multiples
    <3> DEFINE kk == k * most
               nn == n * most
    <3>3. kk + most <= nn /\ nn < length + most /\ kk \in Int /\ nn \in Int
      BY <1>2, <3>2
    <3> HIDE DEF kk, nn
    <3>4. kk < length
      BY <3>3
    <3>5. QED
      BY <1>3, <2>2, <3>3, <3>4 DEF kk
  <2>3. QED
    BY <1>3, <2>1, <2>2
<1>5. QED
  BY <1>3, <1>4 DEF n

-----------------------------------------------------------------------------
(* Sequences and messages.                                                 *)

\* There are two ends.
LEMMA OtherEnd ==
    ASSUME NEW e \in Ends
    PROVE  /\ Other(e) \in Ends /\ Other(e) # e /\ Other(Other(e)) = e
           /\ \A f \in Ends : f = e \/ f = Other(e)
BY DEF Ends, Other

\* An error is not a chunk.
LEMMA ErrorKind ==
    /\ Error.kind = "error"
    /\ \A c \in Chunks : c.kind # "error" /\ c # Error
<1>1. Error.kind = "error"
  BY DEF Error
<1>2. \A c \in Chunks : c.kind # "error"
  BY DEF Chunks
<1>3. QED
  BY <1>1, <1>2

\* What Append and \o do, entry by entry.
LEMMA AppendFacts ==
    ASSUME NEW T, NEW s \in Seq(T), NEW x \in T
    PROVE  /\ Append(s, x) \in Seq(T) /\ Len(s) \in Nat /\ Len(Append(s, x)) = Len(s) + 1
           /\ DOMAIN s = 1 .. Len(s) /\ DOMAIN Append(s, x) = 1 .. Len(s) + 1
           /\ \A i \in 1 .. Len(s) : Append(s, x)[i] = s[i] /\ i \in 1 .. Len(s) + 1
           /\ Append(s, x)[Len(s) + 1] = x
<1>1. /\ Append(s, x) \in Seq(T) /\ Len(Append(s, x)) = Len(s) + 1
      /\ \A i \in 1 .. Len(s) : Append(s, x)[i] = s[i]
      /\ Append(s, x)[Len(s) + 1] = x
  BY AppendProperties
<1>2. Len(s) \in Nat /\ DOMAIN s = 1 .. Len(s) /\ DOMAIN Append(s, x) = 1 .. Len(s) + 1
  BY <1>1, LenProperties
<1>3. QED
  BY <1>1, <1>2

\* Concatenation, by length and element.
LEMMA ConcatFacts ==
    ASSUME NEW T, NEW s \in Seq(T), NEW t \in Seq(T)
    PROVE  /\ s \o t \in Seq(T) /\ Len(s) \in Nat /\ Len(t) \in Nat
           /\ Len(s \o t) = Len(s) + Len(t)
           /\ \A i \in 1 .. Len(s) : (s \o t)[i] = s[i]
           /\ \A i \in 1 .. Len(t) : (s \o t)[Len(s) + i] = t[i]
<1>1. s \o t \in Seq(T) /\ Len(s \o t) = Len(s) + Len(t)
  BY ConcatProperties
<1>2. \A i \in 1 .. Len(s) + Len(t) : (s \o t)[i] = IF i <= Len(s) THEN s[i] ELSE t[i - Len(s)]
  BY ConcatProperties
<1>3. Len(s) \in Nat /\ Len(t) \in Nat
  BY LenProperties
<1>4. \A i \in 1 .. Len(s) : i \in 1 .. Len(s) + Len(t) /\ i <= Len(s)
  BY <1>3
<1>5. \A i \in 1 .. Len(t) : /\ Len(s) + i \in 1 .. Len(s) + Len(t) /\ ~(Len(s) + i <= Len(s))
                             /\ (Len(s) + i) - Len(s) = i
  BY <1>3
<1>6. QED
  BY <1>1, <1>2, <1>3, <1>4, <1>5

\* Head and Tail, by length and element.
LEMMA TailFacts ==
    ASSUME NEW T, NEW s \in Seq(T), Len(s) > 0
    PROVE  /\ Head(s) = s[1] /\ s[1] \in T /\ 1 \in 1 .. Len(s)
           /\ Tail(s) \in Seq(T) /\ Len(s) \in Nat /\ Len(Tail(s)) = Len(s) - 1
           /\ \A i \in 1 .. Len(s) - 1 : Tail(s)[i] = s[i + 1] /\ i + 1 \in 1 .. Len(s)
<1>1. Len(s) \in Nat /\ s # << >>
  BY LenProperties
<1>2. 1 \in 1 .. Len(s) /\ \A i \in 1 .. Len(s) - 1 : i + 1 \in 1 .. Len(s)
  BY <1>1
<1>3. QED
  BY <1>1, <1>2, HeadTailProperties, ElementOfSeq

\* Errors and chunks are what is on its way.
Frames == Chunks \cup {Error}

-----------------------------------------------------------------------------
(* Sending.                                                                *)

\* The chunks new of message msg, sent after the messages S and after chunk
\* last, to an end with the limits l.
NewMessage(new, msg, S, l, last) ==
    /\ new \in Seq(Chunks) /\ msg \in Messages /\ Len(new) = msg.chunks
    /\ \A k \in 1 .. Len(new) :
          /\ new[k].msg = Len(S) + 1 /\ new[k].part = k /\ new[k].seq = last + k
          /\ new[k].kind = "intermediate" <=> k # Len(new)
          /\ new[k].size <= l.recv \/ (new[k].size \in OpenSizes /\ new[k].size = msg.size)

\* One more message changes nothing about those before.
LEMMA EarlierMessages ==
    ASSUME NEW S \in Seq(Messages), NEW msg \in Messages, NEW l, NEW m \in DOMAIN S
    PROVE  /\ m \in DOMAIN Append(S, msg) /\ Append(S, msg)[m] = S[m]
           /\ Over(Append(S, msg), l, m) <=> Over(S, l, m)
<1>1. m \in DOMAIN Append(S, msg) /\ Append(S, msg)[m] = S[m]
  BY AppendFacts
<1>2. QED
  BY <1>1 DEF Over

\* A new message continues the chain of what is on the connection.
LEMMA SendingChains ==
    ASSUME NEW N \in Seq(Frames), NEW S \in Seq(Messages), NEW l, NEW last \in Nat,
           NEW new, NEW msg, NewMessage(new, msg, S, l, last), Chained(N, S, l, last)
    PROVE  Chained(N \o new, Append(S, msg), l, last + Len(new))
<1> DEFINE N2 == N \o new
           S2 == Append(S, msg)
           n == Len(N)
           k == Len(new)
<1>1. /\ new \in Seq(Chunks) /\ msg \in Messages
      /\ \A j \in 1 .. k : new[j] \in Chunks /\ new[j] # Error
  BY ErrorKind, ElementOfSeq DEF NewMessage
<1>2. new \in Seq(Frames)
  BY <1>1, SeqMonotonic DEF Frames
<1>3. /\ Len(N2) = n + k /\ n \in Nat /\ k \in Nat
      /\ \A i \in 1 .. n : N2[i] = N[i]
      /\ \A j \in 1 .. k : N2[n + j] = new[j]
  BY <1>2, ConcatFacts
<1>4. /\ DOMAIN S = 1 .. Len(S) /\ Len(S) \in Nat /\ DOMAIN S2 = 1 .. Len(S) + 1
      /\ S2[Len(S) + 1] = msg
  BY <1>1, AppendFacts
<1>5. \A c : Belongs(S, l, c) => Belongs(S2, l, c)
  BY <1>1, EarlierMessages DEF Belongs
<1>6. \A j \in 1 .. k : Belongs(S2, l, new[j])
  <2>1. SUFFICES ASSUME NEW j \in 1 .. k PROVE Belongs(S2, l, new[j])
    OBVIOUS
  <2>2. /\ new[j].msg = Len(S) + 1 /\ new[j].part = j /\ k = msg.chunks
        /\ new[j].kind = "intermediate" <=> j # k
        /\ new[j].size <= l.recv \/ (new[j].size \in OpenSizes /\ new[j].size = msg.size)
    BY <1>3 DEF NewMessage
  <2> HIDE DEF S2
  <2>3. QED
    BY <1>3, <1>4, <2>2 DEF Belongs
<1> HIDE DEF N2, S2, n, k
<1>7. /\ \A i \in 1 .. n : N[i] = Error \/ (N[i] \in Chunks /\ Belongs(S, l, N[i]))
      /\ \A i \in 1 .. n - 1 :
            \/ N[i] = Error
            \/ N[i + 1] = Error /\ N[i].kind # "intermediate"
            \/ N[i + 1] # Error /\ Follows(N[i], N[i + 1])
      /\ n > 0 /\ N[n] # Error => N[n].kind # "intermediate" /\ N[n].seq = last
  BY DEF Chained, n
<1>8. ASSUME NEW i \in 1 .. n + k
      PROVE  N2[i] = Error \/ (N2[i] \in Chunks /\ Belongs(S2, l, N2[i]))
  <2>1. CASE i \in 1 .. n
    BY <1>3, <1>5, <1>7, <2>1
  <2>2. CASE ~(i <= n)
    <3>1. i - n \in 1 .. k /\ n + (i - n) = i
      BY <1>3, <2>2
    <3>2. N2[i] = new[i - n]
      BY <1>3, <3>1
    <3>3. QED
      BY <1>1, <1>6, <3>1, <3>2 DEF k
  <2>3. QED
    BY <1>3, <2>1, <2>2
<1>9. ASSUME NEW i \in 1 .. (n + k) - 1
      PROVE  \/ N2[i] = Error
             \/ N2[i + 1] = Error /\ N2[i].kind # "intermediate"
             \/ N2[i + 1] # Error /\ Follows(N2[i], N2[i + 1])
  <2>1. CASE i < n
    <3>1. i \in 1 .. n /\ i + 1 \in 1 .. n /\ i \in 1 .. n - 1
      BY <1>3, <2>1
    <3>2. N2[i] = N[i] /\ N2[i + 1] = N[i + 1]
      BY <1>3, <3>1
    <3>3. QED
      BY <1>7, <3>1, <3>2
  <2>2. CASE i = n
    <3>1. 1 \in 1 .. k /\ n \in 1 .. n /\ n > 0
      BY <1>3, <2>2
    <3>2. N2[i] = N[n] /\ N2[i + 1] = new[1]
      BY <1>3, <2>2, <3>1
    <3>3. CASE N[n] = Error
      BY <3>2, <3>3
    <3>4. CASE N[n] # Error
      <4>1. N[n].kind # "intermediate" /\ N[n].seq = last
        BY <1>7, <3>1, <3>4
      <4>2. N[n].msg \in 1 .. Len(S)
        BY <1>4, <1>7, <3>1, <3>4 DEF Belongs
      <4>3. new[1].msg = Len(S) + 1 /\ new[1].part = 1 /\ new[1].seq = last + 1
        BY <3>1 DEF NewMessage, k
      <4>4. new[1].msg > N[n].msg
        BY <1>4, <4>2, <4>3
      <4>5. Follows(N[n], new[1])
        BY <4>1, <4>3, <4>4 DEF Follows
      <4>6. new[1] # Error
        BY <1>1, <3>1 DEF k
      <4>7. QED
        BY <3>2, <4>5, <4>6
    <3>5. QED
      BY <3>3, <3>4
  <2>3. CASE i > n
    <3> DEFINE j == i - n
    <3>1. j \in 1 .. k /\ j + 1 \in 1 .. k /\ j # k /\ i = n + j /\ i + 1 = n + (j + 1) /\ j \in Nat
      BY <1>3, <2>3
    <3> HIDE DEF j
    <3>2. N2[i] = new[j] /\ N2[i + 1] = new[j + 1]
      BY <1>3, <3>1
    <3>3. /\ new[j].kind = "intermediate" /\ new[j].msg = Len(S) + 1 /\ new[j].part = j
          /\ new[j].seq = last + j
      BY <3>1 DEF NewMessage, k
    <3>4. /\ new[j + 1].msg = Len(S) + 1 /\ new[j + 1].part = j + 1
          /\ new[j + 1].seq = last + (j + 1) /\ new[j + 1] # Error
      BY <1>1, <3>1 DEF NewMessage, k
    <3>5. Follows(new[j], new[j + 1])
      BY <3>1, <3>3, <3>4 DEF Follows
    <3>6. QED
      BY <3>2, <3>4, <3>5
  <2>4. QED
    BY <1>3, <2>1, <2>2, <2>3
<1>10. ASSUME n + k > 0, N2[n + k] # Error
       PROVE  N2[n + k].kind # "intermediate" /\ N2[n + k].seq = last + k
  <2>1. CASE k = 0
    <3>1. n \in 1 .. n /\ n + k = n /\ n > 0 /\ last + k = last
      BY <1>3, <1>10, <2>1
    <3>2. N2[n + k] = N[n]
      BY <1>3, <3>1
    <3>3. QED
      BY <1>7, <1>10, <3>1, <3>2
  <2>2. CASE k # 0
    <3>1. k \in 1 .. k
      BY <1>3, <2>2
    <3>2. N2[n + k] = new[k]
      BY <1>3, <3>1
    <3>3. QED
      BY <3>1, <3>2 DEF NewMessage, k
  <2>3. QED
    BY <2>1, <2>2
<1>11. QED
  BY <1>3, <1>8, <1>9, <1>10 DEF Chained, N2, S2, k

\* What was received before a message is sent stays as it was.
LEMMA SendingKeeps ==
    ASSUME NEW S \in Seq(Messages), NEW msg \in Messages, NEW l, NEW P, NEW G
    PROVE  /\ PartsFit(P, S, l) => PartsFit(P, Append(S, msg), l)
           /\ GotFits(G, S, l) => GotFits(G, Append(S, msg), l)
           /\ OpenTooLarge(S, l) => OpenTooLarge(Append(S, msg), l)
<1>1. \A m \in DOMAIN S : /\ m \in DOMAIN Append(S, msg) /\ Append(S, msg)[m] = S[m]
                          /\ Over(Append(S, msg), l, m) <=> Over(S, l, m)
  BY EarlierMessages
<1> DEFINE S2 == Append(S, msg)
<1> HIDE DEF S2
<1>2. \A m \in DOMAIN S : m \in DOMAIN S2 /\ S2[m] = S[m] /\ (Over(S2, l, m) <=> Over(S, l, m))
  BY <1>1 DEF S2
<1>3. PartsFit(P, S, l) => PartsFit(P, S2, l)
  BY <1>2 DEF PartsFit
<1>4. GotFits(G, S, l) => GotFits(G, S2, l)
  BY <1>2 DEF GotFits
<1>5. OpenTooLarge(S, l) => OpenTooLarge(S2, l)
  BY <1>2 DEF OpenTooLarge
<1>6. QED
  BY <1>3, <1>4, <1>5 DEF S2

\* What the receiver expects next is a new message, if nothing else is on its
\* way.
LEMMA SendingIsExpected ==
    ASSUME NEW N \in Seq(Frames), NEW S \in Seq(Messages), NEW l, NEW last \in Nat,
           NEW new, NEW msg, NewMessage(new, msg, S, l, last), Chained(N, S, l, last),
           NEW num \in Nat, NEW P, NEW G, GotFits(G, S, l)
    PROVE  /\ Expected(N, S, l, last, num, P, G) =>
                 Expected(N \o new, Append(S, msg), l, last + Len(new), num, P, G)
           /\ OutOfSequence(N, last, num) => OutOfSequence(N \o new, last + Len(new), num)
<1> DEFINE N2 == N \o new
           S2 == Append(S, msg)
           n == Len(N)
           k == Len(new)
<1>1. new \in Seq(Chunks) /\ msg \in Messages
  BY DEF NewMessage
<1>2. new \in Seq(Frames)
  BY <1>1, SeqMonotonic DEF Frames
<1>3. /\ Len(N2) = n + k /\ n \in Nat /\ k \in Nat
      /\ \A i \in 1 .. n : N2[i] = N[i]
      /\ \A j \in 1 .. k : N2[n + j] = new[j]
  BY <1>2, ConcatFacts
<1>4. DOMAIN S = 1 .. Len(S) /\ Len(S) \in Nat
  BY <1>1, AppendFacts
<1> HIDE DEF N2, S2, n, k
<1>5. CASE n > 0
  <2>1. 1 \in 1 .. n /\ N2[1] = N[1] /\ n + k > 0
    BY <1>3, <1>5
  <2>2. N[1] # Error => N[1].msg \in DOMAIN S
    BY <2>1 DEF Chained, Belongs, n
  <2>3. N[1] # Error => (Over(S2, l, N[1].msg) <=> Over(S, l, N[1].msg))
    BY <1>1, <2>2, EarlierMessages DEF S2
  <2>4. OutOfSequence(N, last, num) => OutOfSequence(N2, last + k, num)
    BY <1>3, <1>5, <2>1 DEF OutOfSequence, n
  <2>5. Expected(N, S, l, last, num, P, G) => Expected(N2, S2, l, last + k, num, P, G)
    BY <1>3, <1>5, <2>1, <2>3 DEF Expected, n
  <2>6. QED
    BY <2>4, <2>5 DEF N2, S2, k
<1>6. CASE n = 0
  <2>1. k = 0 \/ 1 \in 1 .. k
    BY <1>3
  <2>2. k > 0 => /\ N2[1] = new[1] /\ new[1].seq = last + 1 /\ new[1].part = 1
                 /\ new[1].msg = Len(S) + 1
    <3>1. k > 0 => N2[n + 1] = new[1]
      BY <1>3, <2>1
    <3>2. QED
      BY <1>3, <1>6, <2>1, <3>1 DEF NewMessage, k
  <2>3. Len(N2) = k
    BY <1>3, <1>6
  <2>4. OutOfSequence(N, last, num) => OutOfSequence(N2, last + k, num)
    <3>1. ASSUME last > num, num > 0 PROVE OutOfSequence(N2, last + k, num)
      BY <1>3, <2>1, <2>2, <2>3, <3>1 DEF OutOfSequence
    <3>2. QED
      BY <1>6, <3>1 DEF OutOfSequence, n
  <2>5. Expected(N, S, l, last, num, P, G) => Expected(N2, S2, l, last + k, num, P, G)
    <3>1. SUFFICES ASSUME Len(P) = 0, num = 0 \/ num = last, num = 0 => Len(G) = 0
                   PROVE  Expected(N2, S2, l, last + k, num, P, G)
      BY <1>6 DEF Expected, n
    <3>2. \A i \in 1 .. Len(G) : G[i][1].msg < Len(S) + 1
      BY <1>4 DEF GotFits
    <3>3. k = 0 => num = 0 \/ num = last + k
      BY <3>1
    <3>4. k > 0 => /\ num = 0 \/ N2[1].seq = num + 1
                   /\ N2[1].part = Len(P) + 1
                   /\ \A i \in 1 .. Len(G) : G[i][1].msg < N2[1].msg
      BY <2>2, <3>1, <3>2
    <3>5. ~(Len(P) > 0)
      BY <3>1
    <3>6. QED
      BY <1>3, <2>3, <3>1, <3>3, <3>4, <3>5 DEF Expected
  <2>6. QED
    BY <2>4, <2>5 DEF N2, S2, k
<1>7. QED
  BY <1>3, <1>5, <1>6

\* A chunk has a size, whatever its body.
LEMMA SizeOfChunk ==
    ASSUME TransportAssumption, NEW c \in Cryptos, NEW body \in Int
    PROVE  ChunkSize(c, body) \in Int
<1>1. c.plain \in Nat \ {0} /\ c.cipher \in Nat \ {0} /\ c.sig \in Nat
  BY DEF TransportAssumption
<1> DEFINE extra == IF c.cipher > 256 THEN 2 ELSE 1
           rem == ((8 + body) + c.sig + extra) % c.plain
           pad == Padding(c, 8 + body)
           plain == 8 + body + pad + c.sig
<1>2. extra \in Nat
  OBVIOUS
<1>3. rem \in Int
  <2> DEFINE x == (8 + body) + c.sig + extra
  <2>1. x \in Int
    BY <1>1, <1>2
  <2> HIDE DEF x, extra
  <2>2. x % c.plain \in 0 .. c.plain - 1
    BY <1>1, <2>1, DivMod
  <2>4. \A i \in 0 .. c.plain - 1 : i \in Int
    BY <1>1
  <2>3. QED
    BY <2>2, <2>4 DEF x
<1>4. pad = IF ~c.encrypted THEN 0 ELSE (IF rem = 0 THEN 0 ELSE c.plain - rem) + extra
  BY DEF Padding
<1> HIDE DEF rem, extra
<1>5. pad \in Int
  BY <1>1, <1>2, <1>3, <1>4
<1> HIDE DEF pad
<1>6. plain \in Int
  BY <1>1, <1>5
<1>7. ChunkSize(c, body) = 16 + (plain \div c.plain) * c.cipher
  BY DEF ChunkSize, SequenceSize, HeaderSize, pad
<1> HIDE DEF plain
<1>8. plain \div c.plain \in Int
  BY <1>1, <1>6, DivMod
<1>9. QED
  BY <1>1, <1>7, <1>8

\* The size of a body is a number.
LEMMA BodySize ==
    ASSUME TransportAssumption, NEW c \in Cryptos, NEW chunk \in Nat
    PROVE  MaxBodySize(c, chunk) \in Int
<1>1. c.plain \in Nat \ {0} /\ c.cipher \in Nat \ {0} /\ c.sig \in Nat
  BY DEF TransportAssumption
<1> DEFINE d == (chunk - 16) \div c.cipher
<1>2. d \in Int
  <2>1. chunk - 16 \in Int
    OBVIOUS
  <2>2. QED
    BY <1>1, <2>1, DivMod
<1>3. MaxBodySize(c, chunk) = d * c.plain - 8 - c.sig - (IF c.encrypted THEN 1 ELSE 0)
  BY DEF MaxBodySize, HeaderSize, SequenceSize
<1> HIDE DEF d
<1>4. QED
  BY <1>1, <1>2, <1>3

\* message_to_chunks: a chunk keeps to the limit of the sender, and the last
\* one is marked.
LEMMA OneChunk ==
    ASSUME TransportAssumption, TypeOK, NEW e \in Ends, NEW length \in Lengths,
           NEW m \in Nat \ {0}, NEW k \in Nat \ {0}, k <= ChunkCount(e, length),
           NEW seq \in Nat \ {0}
    PROVE  /\ Chunk(e, m, length, k, seq) \in Chunks
           /\ Chunk(e, m, length, k, seq).msg = m /\ Chunk(e, m, length, k, seq).part = k
           /\ Chunk(e, m, length, k, seq).seq = seq
           /\ Chunk(e, m, length, k, seq).kind = "intermediate" <=> k # ChunkCount(e, length)
           /\ Chunk(e, m, length, k, seq).size <= limits[e].send
<1> DEFINE most == MaxBodySize(crypto, limits[e].send)
           n == ChunkCount(e, length)
           body == Least(most, length - (k - 1) * most)
           c == Chunk(e, m, length, k, seq)
<1>1. length \in Nat \ {0} /\ crypto \in Cryptos /\ limits[e].send \in Nat
  BY DEF TransportAssumption, TypeOK, TransportLimits
<1>2. most \in Int
  BY <1>1, BodySize
<1>3. n = IF most <= 0 THEN 0 ELSE (length + most - 1) \div most
  BY DEF ChunkCount
<1>4. c = [kind |-> IF k * most >= length THEN "single" ELSE "intermediate",
           msg |-> m, part |-> k, seq |-> seq, size |-> ChunkSize(crypto, body)]
  BY DEF Chunk
<1>5. body = IF most <= length - (k - 1) * most THEN most ELSE length - (k - 1) * most
  BY DEF Least
<1> HIDE DEF n, c
<1>6. most \in Nat \ {0} /\ n = (length + most - 1) \div most
  BY <1>2, <1>3 DEF n
<1>7. /\ n \in Nat \ {0}
      /\ \A j \in Nat : j * most >= length <=> j >= n
  <2> HIDE DEF most
  <2>1. QED
    BY <1>1, <1>6, CountFits
<1>8. k * most >= length <=> k = n
  BY <1>7 DEF n
<1>9. (k - 1) * most < length /\ (k - 1) * most \in Int
  <2>1. k - 1 \in Nat /\ ~(k - 1 >= n)
    BY <1>7 DEF n
  <2> HIDE DEF most
  <2>2. (k - 1) * most \in Int /\ ~((k - 1) * most >= length)
    BY <1>6, <1>7, <2>1
  <2>3. QED
    BY <1>1, <2>2
<1>10. body \in Nat /\ body <= most
  BY <1>1, <1>2, <1>5, <1>6, <1>9
<1> HIDE DEF body
<1>11. ChunkSize(crypto, body) \in Nat /\ ChunkSize(crypto, body) <= limits[e].send
  BY <1>1, <1>10, BodyFits
<1> HIDE DEF most
<1>12. /\ c.msg = m /\ c.part = k /\ c.seq = seq
       /\ c.kind = "intermediate" <=> k # n
       /\ c.size <= limits[e].send
  BY <1>4, <1>8, <1>11
<1>13. c \in Chunks
  BY <1>4, <1>11 DEF Chunks
<1>14. /\ Chunk(e, m, length, k, seq) = c
       /\ ChunkCount(e, length) = n
  BY DEF c, n
<1>15. QED
  BY <1>12, <1>13, <1>14

\* How many chunks a message has.
LEMMA CountType ==
    ASSUME TransportAssumption, TypeOK, NEW e \in Ends, NEW length \in Lengths
    PROVE  /\ ChunkCount(e, length) \in Nat
           /\ ChunkCount(e, length) > 0 => MaxBodySize(crypto, limits[e].send) > 0
           /\ LargestChunk(e, length) \in Int
<1> DEFINE most == MaxBodySize(crypto, limits[e].send)
<1>1. length \in Nat \ {0} /\ crypto \in Cryptos /\ limits[e].send \in Nat
  BY DEF TransportAssumption, TypeOK, TransportLimits
<1>2. most \in Int
  BY <1>1, BodySize
<1>3. ChunkCount(e, length) = IF most <= 0 THEN 0 ELSE (length + most - 1) \div most
  BY DEF ChunkCount
<1>4. LargestChunk(e, length) = ChunkSize(crypto, Least(length, most))
  BY DEF LargestChunk
<1> HIDE DEF most
<1>5. ~(most <= 0) => (length + most - 1) \div most \in Nat
  <2>1. CASE most \in Nat \ {0}
    BY <1>1, <2>1, CountFits
  <2>2. QED
    BY <1>2, <2>1
<1>6. Least(length, most) \in Int
  BY <1>1, <1>2 DEF Least
<1>7. ChunkSize(crypto, Least(length, most)) \in Int
  BY <1>1, <1>6, SizeOfChunk
<1>8. QED
  BY <1>2, <1>3, <1>4, <1>5, <1>7 DEF most

\* A function on 1 .. n is a sequence.
LEMMA FunctionIsSeq ==
    ASSUME NEW T, NEW n \in Nat, NEW f \in [1 .. n -> T]
    PROVE  f \in Seq(T) /\ Len(f) = n
<1>1. f \in Seq(T)
  BY SeqDef
<1>2. DOMAIN f = 1 .. n /\ DOMAIN f = 1 .. Len(f) /\ Len(f) \in Nat
  BY <1>1, LenProperties
<1>3. QED
  BY <1>1, <1>2

\* The first n chunks of a message.
FirstChunks(e, length, n) ==
    [k \in 1 .. n |-> Chunk(e, Len(sent[e]) + 1, length, k, seqno[e] + k)]

\* Every chunk of a message fits the buffer of the receiver.
LEMMA FirstChunksFit ==
    ASSUME TransportAssumption, TypeOK, Negotiated, phase = "open",
           NEW e \in Ends, NEW length \in Lengths, NEW n \in Nat, n <= ChunkCount(e, length)
    PROVE  /\ FirstChunks(e, length, n) \in Seq(Chunks) /\ Len(FirstChunks(e, length, n)) = n
           /\ \A k \in 1 .. n :
                 /\ FirstChunks(e, length, n)[k].msg = Len(sent[e]) + 1
                 /\ FirstChunks(e, length, n)[k].part = k
                 /\ FirstChunks(e, length, n)[k].seq = seqno[e] + k
                 /\ FirstChunks(e, length, n)[k].kind = "intermediate" <=> k # ChunkCount(e, length)
                 /\ FirstChunks(e, length, n)[k].size <= limits[Other(e)].recv
<1> DEFINE m == Len(sent[e]) + 1
           new == FirstChunks(e, length, n)
<1>1. ChunkCount(e, length) \in Nat
  BY CountType
<1>2. m \in Nat \ {0} /\ seqno[e] \in Nat
  BY LenProperties DEF TypeOK
<1>3. limits[Other(e)].recv = limits[e].send
  BY DEF Negotiated
<1>4. new = [k \in 1 .. n |-> Chunk(e, m, length, k, seqno[e] + k)]
  BY DEF FirstChunks
<1> HIDE DEF m, new
<1>5. ASSUME NEW k \in 1 .. n
      PROVE  /\ Chunk(e, m, length, k, seqno[e] + k) \in Chunks
             /\ Chunk(e, m, length, k, seqno[e] + k).msg = m
             /\ Chunk(e, m, length, k, seqno[e] + k).part = k
             /\ Chunk(e, m, length, k, seqno[e] + k).seq = seqno[e] + k
             /\ Chunk(e, m, length, k, seqno[e] + k).kind = "intermediate" <=> k # ChunkCount(e, length)
             /\ Chunk(e, m, length, k, seqno[e] + k).size <= limits[e].send
  <2>1. k \in Nat \ {0} /\ k <= ChunkCount(e, length) /\ seqno[e] + k \in Nat \ {0}
    BY <1>1, <1>2
  <2>2. QED
    BY <1>2, <2>1, OneChunk
<1>6. new \in [1 .. n -> Chunks] /\ \A k \in 1 .. n : new[k] = Chunk(e, m, length, k, seqno[e] + k)
  BY <1>4, <1>5
<1>7. new \in Seq(Chunks) /\ Len(new) = n
  BY <1>6, FunctionIsSeq
<1>8. QED
  BY <1>3, <1>5, <1>6, <1>7 DEF m, new

\* Send.
LEMMA SendIsNew ==
    ASSUME TransportAssumption, TypeOK, Negotiated, phase = "open",
           NEW e \in Ends, NEW length \in Lengths
    PROVE  NewMessage(FirstChunks(e, length, ChunkCount(e, length)),
                      Message(ChunkCount(e, length), LargestChunk(e, length)),
                      sent[e], limits[Other(e)], seqno[e])
<1> DEFINE n == ChunkCount(e, length)
           msg == Message(n, LargestChunk(e, length))
           new == FirstChunks(e, length, n)
<1>1. n \in Nat /\ n <= n /\ LargestChunk(e, length) \in Int
  BY CountType
<1>2. msg \in Messages /\ msg.chunks = n
  BY <1>1 DEF Message, Messages
<1>3. /\ new \in Seq(Chunks) /\ Len(new) = n
      /\ \A k \in 1 .. n :
            /\ new[k].msg = Len(sent[e]) + 1 /\ new[k].part = k /\ new[k].seq = seqno[e] + k
            /\ new[k].kind = "intermediate" <=> k # n
            /\ new[k].size <= limits[Other(e)].recv
  BY <1>1, FirstChunksFit
<1> HIDE DEF n, msg, new
<1>4. QED
  BY <1>2, <1>3 DEF NewMessage, n, msg, new

\* SendOpen.
OpenChunk(e, size) ==
    [kind |-> "single", msg |-> Len(sent[e]) + 1, part |-> 1, seq |-> seqno[e] + 1,
     size |-> size]

\* An OPN message is a new message of the sender.
LEMMA SendOpenIsNew ==
    ASSUME TransportAssumption, TypeOK, NEW e \in Ends, NEW size \in OpenSizes
    PROVE  NewMessage(<<OpenChunk(e, size)>>, Message(1, size), sent[e], limits[Other(e)], seqno[e])
<1> DEFINE c == OpenChunk(e, size)
<1>1. Len(sent[e]) + 1 \in Nat \ {0} /\ seqno[e] \in Nat /\ size \in Nat
  BY LenProperties DEF TypeOK, TransportAssumption
<1>2. /\ c \in Chunks /\ c.msg = Len(sent[e]) + 1 /\ c.part = 1 /\ c.seq = seqno[e] + 1
      /\ c.kind = "single" /\ c.size = size
  BY <1>1 DEF Chunks, OpenChunk
<1> HIDE DEF c
<1>3. Message(1, size) \in Messages /\ Message(1, size).chunks = 1 /\ Message(1, size).size = size
  BY <1>1 DEF Message, Messages
<1>4. <<c>> \in Seq(Chunks) /\ Len(<<c>>) = 1 /\ <<c>>[1] = c
  BY <1>2
<1>5. \A k \in 1 .. Len(<<c>>) : k = 1
  BY <1>4
<1>6. QED
  BY <1>2, <1>3, <1>4, <1>5 DEF NewMessage, c

\* SendAborted.
AbortChunk(e, k) ==
    [kind |-> "abort", msg |-> Len(sent[e]) + 1, part |-> k + 1, seq |-> seqno[e] + k + 1,
     size |-> ChunkSize(crypto, 1)]

AbortedMessage(e, length, k) ==
    [Message(k + 1, LargestChunk(e, length)) EXCEPT !.aborted = TRUE]

\* So is a message that is aborted.
LEMMA SendAbortedIsNew ==
    ASSUME TransportAssumption, TypeOK, Negotiated, phase = "open",
           NEW e \in Ends, NEW length \in Lengths, NEW k \in Nat, k < ChunkCount(e, length)
    PROVE  NewMessage(FirstChunks(e, length, k) \o <<AbortChunk(e, k)>>,
                      AbortedMessage(e, length, k), sent[e], limits[Other(e)], seqno[e])
<1> DEFINE first == FirstChunks(e, length, k)
           c == AbortChunk(e, k)
           new == first \o <<c>>
           msg == AbortedMessage(e, length, k)
<1>1. /\ ChunkCount(e, length) \in Nat /\ ChunkCount(e, length) > 0
      /\ MaxBodySize(crypto, limits[e].send) > 0 /\ LargestChunk(e, length) \in Int
  BY CountType
<1>2. crypto \in Cryptos /\ limits[e].send \in Nat /\ limits[Other(e)].recv = limits[e].send
  BY DEF TypeOK, TransportLimits, Negotiated
<1>3. MaxBodySize(crypto, limits[e].send) \in Int
  BY <1>2, BodySize
<1>4. ChunkSize(crypto, 1) \in Nat /\ ChunkSize(crypto, 1) <= limits[Other(e)].recv
  <2>1. 1 \in Nat /\ 1 <= MaxBodySize(crypto, limits[e].send)
    BY <1>1, <1>3
  <2>2. QED
    BY <1>2, <2>1, BodyFits
<1>5. Len(sent[e]) + 1 \in Nat \ {0} /\ seqno[e] \in Nat
  BY LenProperties DEF TypeOK
<1>6. /\ c \in Chunks /\ c.msg = Len(sent[e]) + 1 /\ c.part = k + 1 /\ c.seq = seqno[e] + (k + 1)
      /\ c.kind = "abort" /\ c.size <= limits[Other(e)].recv
  BY <1>4, <1>5 DEF Chunks, AbortChunk
<1>7. msg \in Messages /\ msg.chunks = k + 1
  <2> DEFINE whole == Message(k + 1, LargestChunk(e, length))
  <2>1. whole \in Messages /\ whole.chunks = k + 1
    BY <1>1 DEF Message, Messages
  <2> HIDE DEF whole
  <2>2. /\ [whole EXCEPT !.aborted = TRUE] \in Messages
        /\ [whole EXCEPT !.aborted = TRUE].chunks = k + 1
    BY <2>1 DEF Messages
  <2>3. QED
    BY <2>2 DEF AbortedMessage, whole
<1>8. /\ first \in Seq(Chunks) /\ Len(first) = k
      /\ \A i \in 1 .. k :
            /\ first[i].msg = Len(sent[e]) + 1 /\ first[i].part = i /\ first[i].seq = seqno[e] + i
            /\ first[i].kind = "intermediate" /\ first[i].size <= limits[Other(e)].recv
  <2>1. k <= ChunkCount(e, length) /\ \A i \in 1 .. k : i # ChunkCount(e, length)
    BY <1>1
  <2>2. QED
    BY <2>1, FirstChunksFit
<1> HIDE DEF first, c, msg
<1>9. <<c>> \in Seq(Chunks) /\ Len(<<c>>) = 1 /\ <<c>>[1] = c /\ 1 \in 1 .. 1
  BY <1>6
<1>10. /\ new \in Seq(Chunks) /\ Len(new) = k + 1
       /\ \A i \in 1 .. k : new[i] = first[i]
       /\ new[k + 1] = c
  BY <1>8, <1>9, ConcatFacts
<1> HIDE DEF new
<1>11. ASSUME NEW i \in 1 .. k + 1
       PROVE  /\ new[i].msg = Len(sent[e]) + 1 /\ new[i].part = i /\ new[i].seq = seqno[e] + i
              /\ new[i].kind = "intermediate" <=> i # k + 1
              /\ new[i].size <= limits[Other(e)].recv
  <2>1. CASE i = k + 1
    BY <1>6, <1>10, <2>1
  <2>2. CASE i # k + 1
    <3>1. i \in 1 .. k
      BY <2>2
    <3>2. QED
      BY <1>8, <1>10, <2>2, <3>1
  <2>3. QED
    BY <2>1, <2>2
<1>12. QED
  BY <1>7, <1>10, <1>11 DEF NewMessage, first, c, new, msg

\* A step that sends a message.
LEMMA SendingPreserves ==
    ASSUME Inv, phase = "open", NEW e \in Ends, NEW new, NEW msg,
           NewMessage(new, msg, sent[e], limits[Other(e)], seqno[e]),
           sent' = [sent EXCEPT ![e] = Append(sent[e], msg)],
           seqno' = [seqno EXCEPT ![e] = seqno[e] + Len(new)],
           net' = [net EXCEPT ![Other(e)] = net[Other(e)] \o new],
           UNCHANGED <<own, limits, crypto, phase, peer, parts, got, refused>>,
           aborts' \in Nat
    PROVE  Inv'
<1> DEFINE f == Other(e)
<1>1. /\ f \in Ends /\ f # e /\ Other(f) = e /\ \A g \in Ends : g = e \/ g = f
  BY OtherEnd
<1> HIDE DEF f
<1>2. /\ sent[e] \in Seq(Messages) /\ net[f] \in Seq(Frames) /\ seqno[e] \in Nat /\ peer[f] \in Nat
      /\ sent \in [Ends -> Seq(Messages)] /\ net \in [Ends -> Seq(Frames)] /\ seqno \in [Ends -> Nat]
  BY <1>1 DEF Inv, TypeOK, Messages, Frames
<1>3. new \in Seq(Chunks) /\ msg \in Messages /\ new \in Seq(Frames) /\ Len(new) \in Nat
  BY SeqMonotonic, LenProperties DEF NewMessage, Frames
<1>4. /\ sent'[e] = Append(sent[e], msg) /\ seqno'[e] = seqno[e] + Len(new)
      /\ net'[f] = net[f] \o new
      /\ sent'[f] = sent[f] /\ seqno'[f] = seqno[f] /\ net'[e] = net[e]
  BY <1>1, <1>2 DEF f
<1>5. TypeOK'
  <2>1. Append(sent[e], msg) \in Seq(Messages) /\ net[f] \o new \in Seq(Frames)
    BY <1>2, <1>3, AppendFacts, ConcatFacts
  <2>2. /\ sent' \in [Ends -> Seq(Messages)] /\ net' \in [Ends -> Seq(Frames)]
        /\ seqno' \in [Ends -> Nat]
    BY <1>1, <1>2, <1>3, <2>1 DEF f
  <2>3. QED
    BY <2>2 DEF Inv, TypeOK, Messages, Frames
<1>6. Negotiated'
  BY DEF Inv, Negotiated
<1>7. Linked(e)'
  <2>1. Linked(e)
    BY DEF Inv
  <2>2. Gone(e)' <=> Gone(e)
    BY DEF Gone
  <2>3. QED
    BY <1>4, <2>1, <2>2 DEF Linked, f
<1>8. Linked(f)'
  <2>1. Linked(f) /\ ~Gone(f) /\ ~Gone(f)'
    BY <1>1 DEF Inv, Gone
  <2>2. /\ Chained(net[f], sent[e], limits[f], seqno[e])
        /\ PartsFit(parts[f], sent[e], limits[f])
        /\ GotFits(got[f], sent[e], limits[f])
        /\ \/ Expected(net[f], sent[e], limits[f], seqno[e], peer[f], parts[f], got[f])
           \/ f \in refused /\ OutOfSequence(net[f], seqno[e], peer[f])
        /\ f \in refused => OpenTooLarge(sent[e], limits[f])
    BY <1>1, <2>1 DEF Linked
  <2>3. NewMessage(new, msg, sent[e], limits[f], seqno[e])
    BY DEF f
  <2>4. Chained(net'[f], sent'[e], limits[f], seqno'[e])
    <3>1. Chained(net[f] \o new, Append(sent[e], msg), limits[f], seqno[e] + Len(new))
      BY <1>2, <2>2, <2>3, SendingChains
    <3>2. QED
      BY <1>4, <3>1
  <2>5. /\ PartsFit(parts[f], sent'[e], limits[f])
        /\ GotFits(got[f], sent'[e], limits[f])
        /\ f \in refused => OpenTooLarge(sent'[e], limits[f])
    BY <1>2, <1>3, <1>4, <2>2, SendingKeeps
  <2>6. \/ Expected(net'[f], sent'[e], limits[f], seqno'[e], peer[f], parts[f], got[f])
        \/ f \in refused /\ OutOfSequence(net'[f], seqno'[e], peer[f])
    <3>1. \/ Expected(net[f] \o new, Append(sent[e], msg), limits[f],
                      seqno[e] + Len(new), peer[f], parts[f], got[f])
          \/ f \in refused /\ OutOfSequence(net[f] \o new, seqno[e] + Len(new), peer[f])
      BY <1>2, <2>2, <2>3, SendingIsExpected
    <3>2. QED
      BY <1>4, <3>1
  <2>7. QED
    BY <1>1, <2>1, <2>4, <2>5, <2>6 DEF Linked
<1>9. QED
  BY <1>1, <1>5, <1>6, <1>7, <1>8 DEF Inv

\* Sending a message keeps the invariant.
LEMMA SendPreserves ==
    ASSUME TransportAssumption, Inv, NEW e \in Ends, NEW length \in Lengths, Send(e, length)
    PROVE  Inv'
<1> DEFINE n == ChunkCount(e, length)
           new == FirstChunks(e, length, n)
           msg == Message(n, LargestChunk(e, length))
<1>1. TypeOK /\ Negotiated /\ phase = "open" /\ aborts' \in Nat
  BY DEF Inv, Send, TypeOK
<1>2. NewMessage(new, msg, sent[e], limits[Other(e)], seqno[e]) /\ Len(new) = n
  <2>1. msg.chunks = n
    BY DEF Message
  <2>2. QED
    BY <1>1, <2>1, SendIsNew DEF NewMessage
<1>3. /\ sent' = [sent EXCEPT ![e] = Append(sent[e], msg)]
      /\ seqno' = [seqno EXCEPT ![e] = seqno[e] + n]
      /\ net' = [net EXCEPT ![Other(e)] = net[Other(e)] \o new]
      /\ UNCHANGED <<own, limits, crypto, phase, peer, parts, got, refused>>
  BY DEF Send, FirstChunks
<1> HIDE DEF new, msg, n
<1>4. QED
  BY <1>1, <1>2, <1>3, SendingPreserves

\* So does sending an OPN message,
LEMMA SendOpenPreserves ==
    ASSUME TransportAssumption, Inv, NEW e \in Ends, NEW size \in OpenSizes, SendOpen(e, size)
    PROVE  Inv'
<1> DEFINE c == OpenChunk(e, size)
           msg == Message(1, size)
<1>1. TypeOK /\ phase = "open" /\ aborts' \in Nat
  BY DEF Inv, SendOpen, TypeOK
<1>2. NewMessage(<<c>>, msg, sent[e], limits[Other(e)], seqno[e])
  BY <1>1, SendOpenIsNew
<1>3. /\ sent' = [sent EXCEPT ![e] = Append(sent[e], msg)]
      /\ seqno' = [seqno EXCEPT ![e] = seqno[e] + 1]
      /\ net' = [net EXCEPT ![Other(e)] = Append(net[Other(e)], c)]
      /\ UNCHANGED <<own, limits, crypto, phase, peer, parts, got, refused>>
  BY DEF SendOpen, OpenChunk
<1> HIDE DEF c, msg
<1>4. Append(net[Other(e)], c) = net[Other(e)] \o <<c>> /\ Len(<<c>>) = 1
  <2>1. Other(e) \in Ends
    BY OtherEnd
  <2>2. net[Other(e)] \in Seq(Frames)
    BY <1>1, <2>1 DEF TypeOK, Frames
  <2>3. <<c>> \in Seq(Chunks) /\ Len(<<c>>) = 1
    BY <1>2 DEF NewMessage
  <2>4. c \in Frames
    BY <2>3, ElementOfSeq DEF Frames
  <2>5. QED
    BY <2>2, <2>4
<1>5. QED
  BY <1>1, <1>2, <1>3, <1>4, SendingPreserves

\* and aborting one.
LEMMA SendAbortedPreserves ==
    ASSUME TransportAssumption, Inv, NEW e \in Ends, NEW length \in Lengths,
           NEW k \in 0 .. length, SendAborted(e, length, k)
    PROVE  Inv'
<1> DEFINE first == FirstChunks(e, length, k)
           c == AbortChunk(e, k)
           new == first \o <<c>>
           msg == AbortedMessage(e, length, k)
<1>1. /\ TypeOK /\ Negotiated /\ phase = "open" /\ aborts' \in Nat
      /\ k \in Nat /\ k < ChunkCount(e, length)
  <2>1. TypeOK /\ Negotiated /\ phase = "open" /\ k < ChunkCount(e, length) /\ aborts' = aborts + 1
    BY DEF Inv, SendAborted
  <2>2. aborts \in Nat
    BY DEF Inv, TypeOK
  <2>3. length \in Nat
    BY DEF TransportAssumption
  <2>4. QED
    BY <2>1, <2>2, <2>3
<1>2. NewMessage(new, msg, sent[e], limits[Other(e)], seqno[e])
  BY <1>1, SendAbortedIsNew
<1>3. Len(new) = k + 1
  <2>1. msg.chunks = k + 1
    BY DEF AbortedMessage, Message
  <2>2. QED
    BY <1>2, <2>1 DEF NewMessage
<1>4. /\ sent' = [sent EXCEPT ![e] = Append(sent[e], msg)]
      /\ seqno' = [seqno EXCEPT ![e] = seqno[e] + k + 1]
      /\ net' = [net EXCEPT ![Other(e)] = net[Other(e)] \o first \o <<c>>]
      /\ UNCHANGED <<own, limits, crypto, phase, peer, parts, got, refused>>
  BY DEF SendAborted, FirstChunks, AbortChunk, AbortedMessage
<1>5. /\ first \in Seq(Frames) /\ c \in Frames
  <2>1. k <= ChunkCount(e, length)
    BY <1>1, CountType
  <2>2. first \in Seq(Chunks)
    BY <1>1, <2>1, FirstChunksFit
  <2>3. new[k + 1] \in Chunks
    BY <1>1, <1>2, <1>3, ElementOfSeq DEF NewMessage
  <2>4. Len(first) = k
    BY <1>1, <2>1, FirstChunksFit
  <2> HIDE DEF c, first
  <2>5. new[k + 1] = c
    BY <1>1, <1>3, <2>2, <2>4
  <2>6. QED
    BY <2>2, <2>3, <2>5, SeqMonotonic DEF Frames
<1> HIDE DEF first, c, msg
<1>6. (net[Other(e)] \o first) \o <<c>> = net[Other(e)] \o new
  <2>1. Other(e) \in Ends
    BY OtherEnd
  <2>2. net[Other(e)] \in Seq(Frames) /\ <<c>> \in Seq(Frames)
    BY <1>1, <1>5, <2>1 DEF TypeOK, Frames
  <2>3. QED
    <3> DEFINE a == net[Other(e)]
               z == <<c>>
    <3>1. a \in Seq(Frames) /\ z \in Seq(Frames)
      BY <2>2
    <3> HIDE DEF a, z
    <3>2. (a \o first) \o z = a \o (first \o z)
      BY <1>5, <3>1, ConcatAssociative
    <3>3. QED
      BY <3>2 DEF a, z
<1> HIDE DEF new
<1>7. seqno[e] + k + 1 = seqno[e] + Len(new)
  BY <1>1, <1>3 DEF TypeOK
<1>8. QED
  BY <1>1, <1>2, <1>4, <1>6, <1>7, SendingPreserves

-----------------------------------------------------------------------------
(* Receiving.                                                              *)

\* What is left when the first chunk is taken.
LEMMA Popped ==
    ASSUME NEW N \in Seq(Frames), Len(N) > 0, N[1] # Error,
           NEW S \in Seq(Messages), NEW l, NEW last \in Nat, Chained(N, S, l, last)
    PROVE  /\ N[1] \in Chunks /\ Belongs(S, l, N[1])
           /\ Tail(N) \in Seq(Frames) /\ Len(Tail(N)) \in Nat
           /\ Chained(Tail(N), S, l, last)
           /\ Len(Tail(N)) = 0 => N[1].kind # "intermediate" /\ N[1].seq = last
           /\ Len(Tail(N)) > 0 /\ Tail(N)[1] # Error =>
                 Tail(N)[1] \in Chunks /\ Follows(N[1], Tail(N)[1])
           /\ Len(Tail(N)) > 0 /\ Tail(N)[1] = Error => N[1].kind # "intermediate"
<1> DEFINE T == Tail(N)
           n == Len(N)
<1>1. /\ 1 \in 1 .. n /\ n \in Nat /\ T \in Seq(Frames) /\ Len(T) = n - 1 /\ n > 0
      /\ \A i \in 1 .. n - 1 : T[i] = N[i + 1] /\ i + 1 \in 1 .. n
  BY TailFacts
<1>2. /\ \A i \in 1 .. n : N[i] = Error \/ (N[i] \in Chunks /\ Belongs(S, l, N[i]))
      /\ \A i \in 1 .. n - 1 :
            \/ N[i] = Error
            \/ N[i + 1] = Error /\ N[i].kind # "intermediate"
            \/ N[i + 1] # Error /\ Follows(N[i], N[i + 1])
      /\ n > 0 /\ N[n] # Error => N[n].kind # "intermediate" /\ N[n].seq = last
  BY DEF Chained
<1> HIDE DEF T, n
<1>3. \A i \in 1 .. Len(T) : T[i] = Error \/ (T[i] \in Chunks /\ Belongs(S, l, T[i]))
  BY <1>1, <1>2
<1>4. ASSUME NEW i \in 1 .. Len(T) - 1
      PROVE  \/ T[i] = Error
             \/ T[i + 1] = Error /\ T[i].kind # "intermediate"
             \/ T[i + 1] # Error /\ Follows(T[i], T[i + 1])
  <2> DEFINE j == i + 1
  <2>1. i \in 1 .. n - 1 /\ j \in 1 .. n - 1
    BY <1>1
  <2>2. T[i] = N[j] /\ T[j] = N[j + 1]
    BY <1>1, <2>1
  <2>3. QED
    BY <1>2, <2>1, <2>2
<1>5. Len(T) > 0 /\ T[Len(T)] # Error => T[Len(T)].kind # "intermediate" /\ T[Len(T)].seq = last
  <2>1. Len(T) > 0 => Len(T) \in 1 .. n - 1 /\ Len(T) + 1 = n
    BY <1>1
  <2>2. Len(T) > 0 => T[Len(T)] = N[n]
    BY <1>1, <2>1
  <2>3. QED
    BY <1>1, <1>2, <2>2
<1>6. Chained(T, S, l, last)
  BY <1>3, <1>4, <1>5 DEF Chained
<1>7. N[1] \in Chunks /\ Belongs(S, l, N[1])
  BY <1>1, <1>2 DEF n
<1>8. Len(T) = 0 => N[1].kind # "intermediate" /\ N[1].seq = last
  BY <1>1, <1>2
<1>9. ASSUME Len(T) > 0
      PROVE  /\ T[1] # Error => T[1] \in Chunks /\ Follows(N[1], T[1])
             /\ T[1] = Error => N[1].kind # "intermediate"
  <2>1. 1 \in 1 .. n - 1 /\ 1 \in 1 .. Len(T)
    BY <1>1, <1>9
  <2>2. T[1] = N[1 + 1]
    BY <1>1, <2>1
  <2>3. QED
    BY <1>2, <1>3, <2>1, <2>2
<1>10. QED
  BY <1>1, <1>6, <1>7, <1>8, <1>9 DEF T

\* A chunk that is refused leaves a gap in the sequence,
LEMMA RefusedNext ==
    ASSUME NEW N \in Seq(Frames), Len(N) > 0, N[1] # Error,
           NEW S \in Seq(Messages), NEW l, NEW last \in Nat, Chained(N, S, l, last),
           NEW num \in Nat \ {0}, N[1].seq > num
    PROVE  OutOfSequence(Tail(N), last, num)
<1>1. /\ N[1] \in Chunks
      /\ Len(Tail(N)) = 0 => N[1].seq = last
      /\ Len(Tail(N)) > 0 /\ Tail(N)[1] # Error => Follows(N[1], Tail(N)[1])
  BY Popped
<1>2. N[1].seq \in Nat
  BY <1>1 DEF Chunks
<1>3. Len(Tail(N)) > 0 /\ Tail(N)[1] # Error => Tail(N)[1].seq > num + 1
  BY <1>1, <1>2 DEF Follows
<1>4. QED
  BY <1>1, <1>3 DEF OutOfSequence

\* The chunks of a message are thrown away when there are too many of them or
\* the message is aborted.
LEMMA ForgottenNext ==
    ASSUME NEW N \in Seq(Frames), Len(N) > 0, N[1] # Error,
           NEW S \in Seq(Messages), NEW l, NEW last \in Nat, Chained(N, S, l, last),
           NEW num \in Nat, NEW P, NEW G, Expected(N, S, l, last, num, P, G),
           GotFits(G, S, l),
           Over(S, l, N[1].msg) \/ N[1].kind # "intermediate"
    PROVE  Expected(Tail(N), S, l, last, N[1].seq, << >>, G)
<1> DEFINE T == Tail(N)
<1>1. /\ N[1] \in Chunks
      /\ Len(T) = 0 => N[1].seq = last
      /\ Len(T) > 0 /\ T[1] # Error => T[1] \in Chunks /\ Follows(N[1], T[1])
  BY Popped
<1>2. \A i \in 1 .. Len(G) : G[i][1].msg < N[1].msg
  BY DEF Expected
<1>3. Len(<< >>) = 0
  OBVIOUS
<1>4. \A i \in 1 .. Len(G) : G[i][1].msg \in Nat
  <2>1. DOMAIN S = 1 .. Len(S) /\ Len(S) \in Nat
    BY LenProperties
  <2>2. QED
    BY <2>1 DEF GotFits
<1> HIDE DEF T
<1>5. ASSUME Len(T) > 0, T[1] # Error
      PROVE  /\ T[1].seq = N[1].seq + 1
             /\ Over(S, l, T[1].msg) \/ T[1].part = 1
             /\ \A i \in 1 .. Len(G) : G[i][1].msg < T[1].msg
  <2>1. N[1].msg \in Nat /\ T[1].msg \in Nat /\ T[1].msg >= N[1].msg
    BY <1>1, <1>5 DEF Chunks, Follows
  <2>2. \A i \in 1 .. Len(G) : G[i][1].msg < T[1].msg
    BY <1>2, <1>4, <2>1
  <2>3. QED
    BY <1>1, <1>5, <2>2 DEF Follows
<1>6. QED
  BY <1>1, <1>3, <1>5 DEF Expected, T

\* unless it is the first: then the next one may have any number.
LEMMA SkippedNext ==
    ASSUME NEW N \in Seq(Frames), Len(N) > 0, N[1] # Error,
           NEW S \in Seq(Messages), NEW l, NEW last \in Nat, Chained(N, S, l, last),
           NEW P, NEW G, Expected(N, S, l, last, 0, P, G),
           GotFits(G, S, l), Over(S, l, N[1].msg)
    PROVE  Expected(Tail(N), S, l, last, 0, << >>, G)
<1>1. Expected(Tail(N), S, l, last, N[1].seq, << >>, G)
  <2>1. 0 \in Nat
    OBVIOUS
  <2>2. QED
    BY <2>1, ForgottenNext
<1>2. Len(G) = 0 /\ Len(<< >>) = 0
  BY DEF Expected
<1>3. QED
  BY <1>1, <1>2 DEF Expected

\* A chunk that is not the last one is kept.
LEMMA PartNext ==
    ASSUME NEW N \in Seq(Frames), Len(N) > 0, N[1] # Error,
           NEW S \in Seq(Messages), NEW l, NEW last \in Nat, Chained(N, S, l, last),
           NEW num \in Nat, NEW P \in Seq(Chunks), NEW G, Expected(N, S, l, last, num, P, G),
           PartsFit(P, S, l), N[1].kind = "intermediate"
    PROVE  /\ PartsFit(Append(P, N[1]), S, l)
           /\ Expected(Tail(N), S, l, last, N[1].seq, Append(P, N[1]), G)
<1> DEFINE T == Tail(N)
           c == N[1]
           p == Len(P)
           P2 == Append(P, c)
<1>1. /\ c \in Chunks /\ Belongs(S, l, c)
      /\ Len(T) \in Nat /\ Len(T) # 0
      /\ Len(T) > 0 /\ T[1] # Error => T[1] \in Chunks /\ Follows(c, T[1])
  BY Popped
<1>2. /\ p > 0 => c.msg = P[1].msg
      /\ Over(S, l, c.msg) \/ c.part = p + 1
      /\ \A i \in 1 .. Len(G) : G[i][1].msg < c.msg
  BY DEF Expected
<1>3. /\ p \in Nat /\ Len(P2) = p + 1
      /\ \A i \in 1 .. p : P2[i] = P[i]
      /\ P2[p + 1] = c
  BY <1>1, AppendFacts
<1>4. c.kind = "intermediate"
  OBVIOUS
<1> HIDE DEF T, c, p, P2
<1>5. P2[1].msg = c.msg /\ \A k \in 1 .. p + 1 : P2[k].msg = c.msg
  <2>1. \A k \in 1 .. p : P2[k].msg = c.msg
    <3>1. p > 0 => \A k \in 1 .. p : P[k].msg = P[1].msg
      BY DEF PartsFit, p
    <3>2. QED
      BY <1>2, <1>3, <3>1
  <2>2. \A k \in 1 .. p + 1 : k \in 1 .. p \/ k = p + 1
    BY <1>3
  <2>3. 1 \in 1 .. p + 1
    BY <1>3
  <2>4. QED
    BY <1>3, <2>1, <2>2, <2>3
<1>6. Over(S, l, c.msg) \/ \A k \in 1 .. p + 1 : P2[k].part = k
  <2>1. SUFFICES ASSUME ~Over(S, l, c.msg), NEW k \in 1 .. p + 1 PROVE P2[k].part = k
    OBVIOUS
  <2>2. CASE k \in 1 .. p
    <3>1. p > 0 /\ ~Over(S, l, P[1].msg)
      BY <1>2, <1>3, <2>1, <2>2
    <3>2. P[k].part = k
      BY <2>2, <3>1 DEF PartsFit, p
    <3>3. QED
      BY <1>3, <2>2, <3>2
  <2>3. CASE k = p + 1
    BY <1>2, <1>3, <2>1, <2>3
  <2>4. QED
    BY <1>3, <2>2, <2>3
<1>7. c.msg \in DOMAIN S
  BY <1>1 DEF Belongs
<1>8. PartsFit(P2, S, l)
  BY <1>3, <1>5, <1>6, <1>7 DEF PartsFit
<1>9. ASSUME Len(T) > 0, T[1] # Error
      PROVE  /\ T[1].seq = c.seq + 1 /\ T[1].msg = P2[1].msg
             /\ Over(S, l, T[1].msg) \/ T[1].part = Len(P2) + 1
             /\ \A i \in 1 .. Len(G) : G[i][1].msg < T[1].msg
  <2>1. T[1].seq = c.seq + 1 /\ T[1].msg = c.msg /\ T[1].part = c.part + 1
    BY <1>1, <1>4, <1>9 DEF Follows
  <2>2. QED
    BY <1>2, <1>3, <1>5, <2>1
<1>10. Expected(T, S, l, last, c.seq, P2, G)
  <2>1. c.seq # 0
    BY <1>1 DEF Chunks
  <2>2. QED
    BY <1>1, <1>9, <2>1 DEF Expected
<1>11. QED
  BY <1>8, <1>10 DEF T, c, P2

\* The last chunk of a message completes it.
LEMMA WholeNext ==
    ASSUME NEW N \in Seq(Frames), Len(N) > 0, N[1] # Error,
           NEW S \in Seq(Messages), NEW l, NEW last \in Nat, Chained(N, S, l, last),
           NEW num \in Nat, NEW P \in Seq(Chunks), NEW G \in Seq(Seq(Chunks)),
           Expected(N, S, l, last, num, P, G),
           PartsFit(P, S, l), GotFits(G, S, l), N[1].kind # "intermediate"
    PROVE  /\ GotFits(Append(G, Append(P, N[1])), S, l)
           /\ Expected(Tail(N), S, l, last, N[1].seq, << >>, Append(G, Append(P, N[1])))
<1> DEFINE T == Tail(N)
           c == N[1]
           p == Len(P)
           g == Len(G)
           P2 == Append(P, c)
           G2 == Append(G, P2)
<1>1. /\ c \in Chunks /\ Belongs(S, l, c)
      /\ Len(T) > 0 /\ T[1] # Error => T[1] \in Chunks /\ Follows(c, T[1])
  BY Popped
<1>2. /\ p > 0 => c.msg = P[1].msg
      /\ Over(S, l, c.msg) \/ c.part = p + 1
      /\ \A i \in 1 .. g : G[i][1].msg < c.msg
  BY DEF Expected
<1>3. /\ p \in Nat /\ Len(P2) = p + 1 /\ P2 \in Seq(Chunks)
      /\ \A i \in 1 .. p : P2[i] = P[i]
      /\ P2[p + 1] = c
  BY <1>1, AppendFacts
<1>4. c.kind # "intermediate"
  OBVIOUS
<1> HIDE DEF c, p, P2
<1>5. /\ g \in Nat /\ Len(G2) = g + 1
      /\ \A i \in 1 .. g : G2[i] = G[i]
      /\ G2[g + 1] = P2
  BY <1>3, AppendFacts
<1>6. Expected(T, S, l, last, c.seq, << >>, G)
  BY <1>4, ForgottenNext DEF c
<1> HIDE DEF T, g, G2
<1>7. P2[1].msg = c.msg /\ \A k \in 1 .. p + 1 : P2[k].msg = c.msg
  <2>1. \A k \in 1 .. p : P2[k].msg = c.msg
    <3>1. p > 0 => \A k \in 1 .. p : P[k].msg = P[1].msg
      BY DEF PartsFit, p
    <3>2. QED
      BY <1>2, <1>3, <3>1
  <2>2. \A k \in 1 .. p + 1 : k \in 1 .. p \/ k = p + 1
    BY <1>3
  <2>3. 1 \in 1 .. p + 1
    BY <1>3
  <2>4. QED
    BY <1>3, <2>1, <2>2, <2>3
<1>8. \/ Over(S, l, c.msg)
      \/ p + 1 = S[c.msg].chunks /\ \A k \in 1 .. p + 1 : P2[k].part = k
  <2>1. SUFFICES ASSUME ~Over(S, l, c.msg)
                 PROVE  p + 1 = S[c.msg].chunks /\ \A k \in 1 .. p + 1 : P2[k].part = k
    OBVIOUS
  <2>2. p + 1 = S[c.msg].chunks
    BY <1>1, <1>2, <1>4, <2>1 DEF Belongs
  <2>3. ASSUME NEW k \in 1 .. p + 1 PROVE P2[k].part = k
    <3>1. CASE k \in 1 .. p
      <4>1. p > 0 /\ ~Over(S, l, P[1].msg)
        BY <1>2, <1>3, <2>1, <3>1
      <4>2. P[k].part = k
        BY <3>1, <4>1 DEF PartsFit, p
      <4>3. QED
        BY <1>3, <3>1, <4>2
    <3>2. CASE k = p + 1
      BY <1>2, <1>3, <2>1, <3>2
    <3>3. QED
      BY <1>3, <3>1, <3>2
  <2>4. QED
    BY <2>2, <2>3
<1>9. c.msg \in DOMAIN S
  BY <1>1 DEF Belongs
<1>10. GotFits(G2, S, l)
  <2>1. /\ \A i \in 1 .. g :
              /\ Len(G[i]) > 0 /\ G[i][1].msg \in DOMAIN S
              /\ \A k \in 1 .. Len(G[i]) : G[i][k].msg = G[i][1].msg
              /\ \/ Over(S, l, G[i][1].msg)
                 \/ /\ Len(G[i]) = S[G[i][1].msg].chunks
                    /\ \A k \in 1 .. Len(G[i]) : G[i][k].part = k
        /\ \A i, j \in 1 .. g : i < j => G[i][1].msg < G[j][1].msg
    BY DEF GotFits, g
  <2>2. ASSUME NEW i \in 1 .. g + 1
        PROVE  /\ Len(G2[i]) > 0 /\ G2[i][1].msg \in DOMAIN S
               /\ \A k \in 1 .. Len(G2[i]) : G2[i][k].msg = G2[i][1].msg
               /\ \/ Over(S, l, G2[i][1].msg)
                  \/ /\ Len(G2[i]) = S[G2[i][1].msg].chunks
                     /\ \A k \in 1 .. Len(G2[i]) : G2[i][k].part = k
    <3>1. CASE i \in 1 .. g
      BY <1>5, <2>1, <3>1
    <3>2. CASE i = g + 1
      <4>1. G2[i] = P2 /\ Len(P2) > 0
        BY <1>3, <1>5, <3>2
      <4>2. QED
        BY <1>3, <1>7, <1>8, <1>9, <4>1
    <3>3. QED
      BY <1>5, <3>1, <3>2
  <2>3. ASSUME NEW i \in 1 .. g + 1, NEW j \in 1 .. g + 1, i < j
        PROVE  G2[i][1].msg < G2[j][1].msg
    <3>1. i \in 1 .. g
      BY <1>5, <2>3
    <3>2. CASE j \in 1 .. g
      BY <1>5, <2>1, <2>3, <3>1, <3>2
    <3>3. CASE j = g + 1
      BY <1>2, <1>5, <1>7, <3>1, <3>3
    <3>4. QED
      BY <1>5, <3>2, <3>3
  <2>4. QED
    BY <1>5, <2>2, <2>3 DEF GotFits
<1>11. ASSUME Len(T) > 0, T[1] # Error, NEW i \in 1 .. g + 1
       PROVE  G2[i][1].msg < T[1].msg
  <2>1. CASE i \in 1 .. g
    <3>1. G[i][1].msg < T[1].msg
      BY <1>6, <1>11, <2>1 DEF Expected, g
    <3>2. QED
      BY <1>5, <2>1, <3>1
  <2>2. CASE i = g + 1
    <3>1. T[1].msg > c.msg /\ T[1].msg \in Nat /\ c.msg \in Nat
      BY <1>1, <1>4, <1>11 DEF Follows, Chunks
    <3>2. QED
      BY <1>5, <1>7, <2>2, <3>1
  <2>3. QED
    BY <1>5, <2>1, <2>2
<1>12. Expected(T, S, l, last, c.seq, << >>, G2)
  <2>1. c.seq # 0
    BY <1>1 DEF Chunks
  <2>2. QED
    BY <1>5, <1>6, <1>11, <2>1 DEF Expected
<1>13. QED
  BY <1>10, <1>12 DEF T, c, P2, G2

\* The server puts an error behind what it has sent.
LEMMA ErrorIsLast ==
    ASSUME NEW N \in Seq(Frames), NEW S \in Seq(Messages), NEW l, NEW last \in Nat,
           Chained(N, S, l, last), NEW num, NEW P, NEW G
    PROVE  /\ Append(N, Error) \in Seq(Frames)
           /\ Chained(Append(N, Error), S, l, last)
           /\ Expected(N, S, l, last, num, P, G) =>
                 Expected(Append(N, Error), S, l, last, num, P, G)
           /\ OutOfSequence(N, last, num) => OutOfSequence(Append(N, Error), last, num)
           /\ (\A i \in 1 .. Len(N) : N[i] = Error) =>
                 \A i \in 1 .. Len(Append(N, Error)) : Append(N, Error)[i] = Error
<1> DEFINE n == Len(N)
           N2 == Append(N, Error)
<1>1. Error \in Frames
  BY DEF Frames
<1>2. /\ N2 \in Seq(Frames) /\ n \in Nat /\ Len(N2) = n + 1
      /\ \A i \in 1 .. n : N2[i] = N[i]
      /\ N2[n + 1] = Error
  BY <1>1, AppendFacts
<1>3. /\ \A i \in 1 .. n : N[i] = Error \/ (N[i] \in Chunks /\ Belongs(S, l, N[i]))
      /\ \A i \in 1 .. n - 1 :
            \/ N[i] = Error
            \/ N[i + 1] = Error /\ N[i].kind # "intermediate"
            \/ N[i + 1] # Error /\ Follows(N[i], N[i + 1])
      /\ n > 0 /\ N[n] # Error => N[n].kind # "intermediate" /\ N[n].seq = last
  BY DEF Chained
<1> HIDE DEF N2, n
<1>4. \A i \in 1 .. n + 1 : i \in 1 .. n \/ i = n + 1
  BY <1>2
<1>5. \A i \in 1 .. n + 1 : N2[i] = Error \/ (N2[i] \in Chunks /\ Belongs(S, l, N2[i]))
  BY <1>2, <1>3, <1>4
<1>6. ASSUME NEW i \in 1 .. (n + 1) - 1
      PROVE  \/ N2[i] = Error
             \/ N2[i + 1] = Error /\ N2[i].kind # "intermediate"
             \/ N2[i + 1] # Error /\ Follows(N2[i], N2[i + 1])
  <2>1. i \in 1 .. n
    BY <1>2
  <2>2. CASE i = n
    BY <1>2, <1>3, <2>1, <2>2
  <2>3. CASE i # n
    <3>1. i \in 1 .. n - 1 /\ i + 1 \in 1 .. n
      BY <1>2, <2>1, <2>3
    <3>2. QED
      BY <1>2, <1>3, <2>1, <3>1
  <2>4. QED
    BY <2>2, <2>3
<1>7. Chained(N2, S, l, last)
  BY <1>2, <1>5, <1>6 DEF Chained
<1>8. n > 0 => 1 \in 1 .. n /\ N2[1] = N[1]
  BY <1>2
<1>9. n = 0 => N2[1] = Error
  BY <1>2
<1>10. Expected(N, S, l, last, num, P, G) => Expected(N2, S, l, last, num, P, G)
  <2>1. CASE n = 0
    BY <1>2, <1>9, <2>1 DEF Expected
  <2>2. CASE n > 0
    BY <1>2, <1>8, <2>2 DEF Expected, n
  <2>3. QED
    BY <1>2, <2>1, <2>2
<1>11. OutOfSequence(N, last, num) => OutOfSequence(N2, last, num)
  BY <1>2, <1>8, <1>9 DEF OutOfSequence, n
<1>12. (\A i \in 1 .. Len(N) : N[i] = Error) => \A i \in 1 .. Len(N2) : N2[i] = Error
  BY <1>2, <1>4 DEF n
<1>13. QED
  BY <1>2, <1>7, <1>10, <1>11, <1>12 DEF N2

\* The first chunk was taken, and the connection goes on or the end fails.
Goes(e) ==
    \/ net' = [net EXCEPT ![e] = Tail(net[e])] /\ UNCHANGED phase
    \/ Fails(e, TRUE) \/ Fails(e, FALSE)

\* A chunk that is taken or refused keeps the invariant.
LEMMA TakenPreserves ==
    ASSUME Inv, NEW e \in Ends, net[e] # << >>, Head1(e).kind # "error",
           NEW P \in Seq(Chunks), NEW G \in Seq(Seq(Chunks)), NEW num \in Nat, NEW R,
           R = refused \/ R = refused \cup {e},
           parts' = [parts EXCEPT ![e] = P], got' = [got EXCEPT ![e] = G],
           peer' = [peer EXCEPT ![e] = num], refused' = R,
           PartsFit(P, sent[Other(e)], limits[e]), GotFits(G, sent[Other(e)], limits[e]),
           \/ Expected(Tail(net[e]), sent[Other(e)], limits[e], seqno[Other(e)], num, P, G)
           \/ e \in R /\ OutOfSequence(Tail(net[e]), seqno[Other(e)], num),
           e \in R => OpenTooLarge(sent[Other(e)], limits[e]),
           Goes(e), UNCHANGED <<own, limits, crypto, seqno, sent, aborts>>
    PROVE  Inv'
<1> DEFINE f == Other(e)
           N == net[e]
<1>1. /\ f \in Ends /\ f # e /\ Other(f) = e /\ \A g \in Ends : g = e \/ g = f
  BY OtherEnd
<1> HIDE DEF f
<1>2. /\ net \in [Ends -> Seq(Frames)] /\ N \in Seq(Frames) /\ net[f] \in Seq(Frames)
      /\ sent[f] \in Seq(Messages) /\ sent[e] \in Seq(Messages)
      /\ seqno[f] \in Nat /\ seqno[e] \in Nat /\ parts \in [Ends -> Seq(Chunks)]
      /\ got \in [Ends -> Seq(Seq(Chunks))] /\ peer \in [Ends -> Nat] /\ refused \subseteq Ends
  BY <1>1 DEF Inv, TypeOK, Messages, Frames
<1>3. Linked(e) /\ Linked(f)
  BY <1>1 DEF Inv
<1>4. Len(N) > 0 /\ N[1] # Error
  <2>1. Len(N) > 0
    BY <1>2, EmptySeq
  <2>2. Head(N) = N[1]
    BY <1>2, <2>1, TailFacts
  <2>3. QED
    BY <2>1, <2>2, ErrorKind DEF Head1
<1> HIDE DEF N
<1>5. ~Gone(e)
  <2>1. 1 \in 1 .. Len(N)
    BY <1>2, <1>4, LenProperties
  <2>2. QED
    BY <1>3, <1>4, <2>1 DEF Linked, N
<1>6. Chained(N, sent[f], limits[e], seqno[f])
  BY <1>3 DEF Linked, N, f
<1>7. Tail(N) \in Seq(Frames) /\ Chained(Tail(N), sent[f], limits[e], seqno[f])
  BY <1>2, <1>4, <1>6, Popped
<1>8. phase \in {"open", "closed"}
  BY DEF Inv, Negotiated, TypeOK
<1>9. /\ parts' \in [Ends -> Seq(Chunks)] /\ parts'[e] = P /\ parts'[f] = parts[f]
      /\ got' \in [Ends -> Seq(Seq(Chunks))] /\ got'[e] = G /\ got'[f] = got[f]
      /\ peer' \in [Ends -> Nat] /\ peer'[e] = num /\ peer'[f] = peer[f]
      /\ refused' \subseteq Ends /\ (f \in refused' <=> f \in refused)
  BY <1>1, <1>2
<1>10. /\ sent' = sent /\ seqno' = seqno /\ limits' = limits /\ own' = own /\ crypto' = crypto
       /\ aborts' = aborts
  OBVIOUS
<1>11. Gone("server") = FALSE /\ Gone("server")' = FALSE
  BY DEF Gone
<1>12. ASSUME net' \in [Ends -> Seq(Frames)], phase' \in {"open", "closed"}
       PROVE  TypeOK' /\ Negotiated'
  <2>1. TypeOK'
    BY <1>9, <1>10, <1>12 DEF Inv, TypeOK, Frames, Messages
  <2>2. Negotiated'
    BY <1>8, <1>10, <1>12 DEF Inv, Negotiated
  <2>3. QED
    BY <2>1, <2>2
<1>13. ASSUME net'[e] = Tail(N), phase' = phase PROVE Linked(e)'
  <2>1. ~Gone(e)'
    BY <1>5, <1>13 DEF Gone
  <2>2. QED
    BY <1>7, <1>9, <1>10, <1>13, <2>1 DEF Linked, N, f
<1>14. ASSUME net'[f] = net[f], Gone(f)' <=> Gone(f) PROVE Linked(f)'
  BY <1>1, <1>3, <1>9, <1>10, <1>14 DEF Linked
<1>15. CASE net' = [net EXCEPT ![e] = Tail(net[e])] /\ UNCHANGED phase
  <2>1. /\ net' \in [Ends -> Seq(Frames)] /\ net'[e] = Tail(N) /\ net'[f] = net[f] /\ phase' = phase
    BY <1>1, <1>2, <1>7, <1>15 DEF N
  <2>2. Gone(f)' <=> Gone(f)
    BY <2>1 DEF Gone
  <2>3. QED
    BY <1>1, <1>8, <1>12, <1>13, <1>14, <2>1, <2>2 DEF Inv
<1>16. CASE e = "client" /\ (Fails(e, TRUE) \/ Fails(e, FALSE))
  <2>1. phase' = "closed" /\ net' = [net EXCEPT !["client"] = << >>] /\ f = "server"
    BY <1>16 DEF Fails, f, Other
  <2>2. << >> \in Seq(Frames) /\ Len(<< >>) = 0
    BY EmptySeq
  <2>3. net' \in [Ends -> Seq(Frames)] /\ net'[e] = << >> /\ net'[f] = net[f]
    BY <1>1, <1>2, <1>16, <2>1, <2>2
  <2>4. Linked(f)'
    BY <1>11, <1>14, <2>1, <2>3
  <2>5. Gone(e)'
    BY <1>16, <2>1 DEF Gone
  <2>6. Chained(<< >>, sent[f], limits[e], seqno[f])
    BY <2>2 DEF Chained
  <2>7. Linked(e)'
    BY <1>9, <1>10, <2>2, <2>3, <2>5, <2>6 DEF Linked, f
  <2>8. QED
    BY <1>1, <1>12, <2>1, <2>3, <2>4, <2>7 DEF Inv
<1>17. CASE e = "server" /\ (Fails(e, TRUE) \/ Fails(e, FALSE))
  <2>1. f = "client"
    BY <1>17 DEF f, Other
  <2>2. /\ phase' = phase
        /\ \E limit \in BOOLEAN : net' = [net EXCEPT !["server"] = Tail(net["server"]),
                 !["client"] = IF limit THEN Append(net["client"], Error) ELSE net["client"]]
    BY <1>17 DEF Fails
  <2>3. PICK limit \in BOOLEAN : net' = [net EXCEPT !["server"] = Tail(net["server"]),
                 !["client"] = IF limit THEN Append(net["client"], Error) ELSE net["client"]]
    BY <2>2
  <2>4. Chained(net[f], sent[e], limits[f], seqno[e])
    BY <1>1, <1>3 DEF Linked
  <2>5. /\ Append(net[f], Error) \in Seq(Frames)
        /\ Chained(Append(net[f], Error), sent[e], limits[f], seqno[e])
        /\ Expected(net[f], sent[e], limits[f], seqno[e], peer[f], parts[f], got[f]) =>
              Expected(Append(net[f], Error), sent[e], limits[f], seqno[e], peer[f], parts[f], got[f])
        /\ OutOfSequence(net[f], seqno[e], peer[f]) =>
              OutOfSequence(Append(net[f], Error), seqno[e], peer[f])
        /\ (\A i \in 1 .. Len(net[f]) : net[f][i] = Error) =>
              \A i \in 1 .. Len(Append(net[f], Error)) : Append(net[f], Error)[i] = Error
    BY <1>2, <2>4, ErrorIsLast
  <2>6. /\ net'[e] = Tail(N)
        /\ net'[f] = IF limit THEN Append(net[f], Error) ELSE net[f]
        /\ net' \in [Ends -> Seq(Frames)]
    <3>1. net'[e] = Tail(N)
      BY <1>1, <1>2, <1>17, <2>1, <2>3 DEF N
    <3>2. net'[f] = IF limit THEN Append(net[f], Error) ELSE net[f]
      BY <1>1, <1>2, <1>17, <2>1, <2>3
    <3>3. net' \in [Ends -> Seq(Frames)]
      BY <1>2, <1>7, <1>17, <2>1, <2>3, <2>5 DEF N
    <3>4. QED
      BY <3>1, <3>2, <3>3
  <2>7. Gone(f)' <=> Gone(f)
    BY <2>2 DEF Gone
  <2>8. Linked(f)'
    <3>1. CASE ~limit
      BY <1>14, <2>6, <2>7, <3>1
    <3>2. CASE limit
      <4>1. net'[f] = Append(net[f], Error)
        BY <2>6, <3>2
      <4>2. QED
        BY <1>1, <1>3, <1>9, <1>10, <2>5, <2>7, <4>1 DEF Linked
    <3>3. QED
      BY <3>1, <3>2
  <2>9. QED
    BY <1>1, <1>8, <1>12, <1>13, <2>2, <2>6, <2>8 DEF Inv
<1>18. QED
  BY <1>15, <1>16, <1>17 DEF Goes, Ends

\* Receiving a chunk, on every path, keeps the invariant.
LEMMA ReceivePreserves ==
    ASSUME Inv, NEW e \in Ends, Receive(e)
    PROVE  Inv'
<1> DEFINE N == net[e]
           c == N[1]
           S == sent[Other(e)]
           l == limits[e]
           last == seqno[Other(e)]
<1>1. net[e] # << >> /\ Head1(e).kind # "error"
  BY DEF Receive
<1>2. /\ Other(e) \in Ends /\ N \in Seq(Frames) /\ S \in Seq(Messages) /\ last \in Nat /\ l \in TransportLimits
      /\ parts[e] \in Seq(Chunks) /\ got[e] \in Seq(Seq(Chunks)) /\ peer[e] \in Nat
      /\ peer \in [Ends -> Nat] /\ parts \in [Ends -> Seq(Chunks)] /\ got \in [Ends -> Seq(Seq(Chunks))]
  BY OtherEnd DEF Inv, TypeOK, Messages, Frames
<1>3. Len(N) > 0 /\ c # Error /\ Head1(e) = c
  <2>1. Len(N) > 0
    BY <1>1, <1>2, EmptySeq
  <2>2. Head(N) = N[1]
    BY <1>2, <2>1, TailFacts
  <2>3. QED
    BY <1>1, <2>1, <2>2, ErrorKind DEF Head1
<1>4. ~Gone(e)
  <2>1. 1 \in 1 .. Len(N)
    BY <1>2, <1>3, LenProperties
  <2>2. QED
    BY <1>3, <2>1 DEF Inv, Linked
<1>5. /\ Chained(N, S, l, last) /\ PartsFit(parts[e], S, l) /\ GotFits(got[e], S, l)
      /\ \/ Expected(N, S, l, last, peer[e], parts[e], got[e])
         \/ e \in refused /\ OutOfSequence(N, last, peer[e])
      /\ e \in refused => OpenTooLarge(S, l)
  BY <1>4 DEF Inv, Linked
<1>6. UNCHANGED <<own, limits, crypto, seqno, sent, aborts>>
  BY DEF Receive
<1>7. c \in Chunks /\ Belongs(S, l, c)
  <2> HIDE DEF N, S, l, last
  <2>1. QED
    BY <1>2, <1>3, <1>5, Popped
<1>8. c.seq \in Nat \ {0} /\ c.size \in Nat /\ c.msg \in Nat /\ c.part \in Nat /\ l.recv \in Nat /\ l.chunks \in Nat
  BY <1>2, <1>7 DEF Chunks, TransportLimits
<1>9. /\ peer = [peer EXCEPT ![e] = peer[e]] /\ parts = [parts EXCEPT ![e] = parts[e]]
      /\ got = [got EXCEPT ![e] = got[e]]
  BY <1>2
<1>10. << >> \in Seq(Chunks) /\ PartsFit(<< >>, S, l)
  BY DEF PartsFit
<1>11. peer[e] # 0 => c.seq > peer[e]
  BY <1>3, <1>5, <1>8, <1>2 DEF Expected, OutOfSequence
<1>12. peer[e] # 0 => OutOfSequence(Tail(N), last, peer[e])
  <2> HIDE DEF N, S, l, last
  <2>1. QED
    BY <1>2, <1>3, <1>5, <1>11, RefusedNext DEF c
<1>first. peer[e] = 0 => Expected(N, S, l, last, 0, parts[e], got[e])
  BY <1>5 DEF OutOfSequence
<1>13. CASE /\ c.size > l.recv
            /\ parts' = [parts EXCEPT ![e] = << >>]
            /\ refused' = refused \cup {e}
            /\ Fails(e, TRUE)
            /\ UNCHANGED <<peer, got>>
  <2>1. OpenTooLarge(S, l) /\ Over(S, l, c.msg)
    <3>1. c.msg \in DOMAIN S /\ c.size \in OpenSizes /\ c.size = S[c.msg].size
      BY <1>7, <1>8, <1>13 DEF Belongs
    <3>2. Over(S, l, c.msg)
      BY <1>13, <3>1 DEF Over
    <3>3. QED
      BY <3>1, <3>2 DEF OpenTooLarge
  <2>2. peer' = [peer EXCEPT ![e] = peer[e]] /\ got' = [got EXCEPT ![e] = got[e]] /\ Goes(e)
    BY <1>9, <1>13 DEF Goes
  <2>3. peer[e] = 0 => Expected(Tail(N), S, l, last, peer[e], << >>, got[e])
    <3> HIDE DEF N, S, l, last
    <3>1. SUFFICES ASSUME peer[e] = 0 PROVE Expected(Tail(N), S, l, last, 0, << >>, got[e])
      OBVIOUS
    <3>2. Expected(N, S, l, last, 0, parts[e], got[e])
      BY <1>first, <3>1
    <3>3. QED
      BY <1>2, <1>3, <1>5, <2>1, <3>2, SkippedNext DEF c
  <2>4. \/ Expected(Tail(N), S, l, last, peer[e], << >>, got[e])
        \/ e \in refused \cup {e} /\ OutOfSequence(Tail(N), last, peer[e])
    BY <1>12, <2>3
  <2>5. QED
    BY <1>1, <1>2, <1>5, <1>6, <1>10, <1>13, <2>1, <2>2, <2>4, TakenPreserves
<1>14. CASE /\ ~InSequence(e, c)
            /\ refused' = refused \cup {e}
            /\ Fails(e, FALSE)
            /\ UNCHANGED <<peer, parts, got>>
  <2>1. e \in refused /\ peer[e] # 0
    <3>1. parts[e] # << >> => Len(parts[e]) > 0
      BY <1>2, EmptySeq
    <3>2. ~Expected(N, S, l, last, peer[e], parts[e], got[e])
      BY <1>3, <1>14, <3>1 DEF InSequence, Expected
    <3>3. QED
      BY <1>5, <1>first, <3>2
  <2>2. /\ peer' = [peer EXCEPT ![e] = peer[e]] /\ got' = [got EXCEPT ![e] = got[e]]
        /\ parts' = [parts EXCEPT ![e] = parts[e]] /\ Goes(e)
    BY <1>9, <1>14 DEF Goes
  <2>3. QED
    BY <1>1, <1>2, <1>5, <1>6, <1>12, <1>14, <2>1, <2>2, TakenPreserves
<1>15. CASE /\ InSequence(e, c)
            /\ peer' = [peer EXCEPT ![e] = c.seq]
            /\ \/ /\ TooMany(e, Len(parts[e]) + 1)
                  /\ parts' = [parts EXCEPT ![e] = << >>]
                  /\ Fails(e, TRUE)
                  /\ UNCHANGED got
               \/ /\ ~TooMany(e, Len(parts[e]) + 1)
                  /\ Accept(e, c)
                  /\ net' = [net EXCEPT ![e] = Tail(net[e])]
                  /\ UNCHANGED phase
            /\ UNCHANGED refused
  <2>1. Expected(N, S, l, last, peer[e], parts[e], got[e])
    <3>1. peer[e] # 0 => c.seq = peer[e] + 1
      BY <1>15 DEF InSequence
    <3>2. OutOfSequence(N, last, peer[e]) => c.seq > peer[e] + 1 /\ peer[e] > 0
      BY <1>3 DEF OutOfSequence
    <3>3. peer[e] > 0 => ~(c.seq > peer[e] + 1)
      BY <1>2, <3>1
    <3>4. QED
      BY <1>5, <3>2, <3>3
  <2>2. Goes(e) /\ refused' = refused
    BY <1>15 DEF Goes
  <2>3. CASE /\ TooMany(e, Len(parts[e]) + 1)
             /\ parts' = [parts EXCEPT ![e] = << >>]
             /\ UNCHANGED got
    <3>1. Over(S, l, c.msg)
      <4>1. Over(S, l, c.msg) \/ c.part = Len(parts[e]) + 1
        BY <1>3, <2>1 DEF Expected
      <4>2. c.msg \in DOMAIN S /\ c.part <= S[c.msg].chunks
        BY <1>7 DEF Belongs
      <4>3. S[c.msg].chunks \in Nat
        <5>1. c.msg \in 1 .. Len(S)
          BY <1>2, <4>2, LenProperties
        <5>2. S[c.msg] \in Messages
          BY <1>2, <5>1, ElementOfSeq
        <5>3. QED
          BY <5>2 DEF Messages
      <4>4. c.part = Len(parts[e]) + 1 => l.chunks > 0 /\ S[c.msg].chunks > l.chunks
        BY <1>8, <2>3, <4>2, <4>3 DEF TooMany
      <4>5. QED
        BY <4>1, <4>4 DEF Over
    <3>2. Expected(Tail(N), S, l, last, c.seq, << >>, got[e])
      <4> HIDE DEF N, S, l, last
      <4>1. QED
        BY <1>2, <1>3, <1>5, <2>1, <3>1, ForgottenNext DEF c
    <3>3. got' = [got EXCEPT ![e] = got[e]]
      BY <1>9, <2>3
    <3>4. QED
      BY <1>1, <1>2, <1>5, <1>6, <1>8, <1>10, <1>15, <2>1, <2>2, <2>3, <3>2, <3>3, TakenPreserves
  <2>4. CASE Accept(e, c)
    <3>1. CASE c.kind = "intermediate"
      <4>1. parts' = [parts EXCEPT ![e] = Append(parts[e], c)] /\ got' = [got EXCEPT ![e] = got[e]]
        BY <1>9, <2>4, <3>1 DEF Accept
      <4>2. /\ PartsFit(Append(parts[e], c), S, l)
            /\ Expected(Tail(N), S, l, last, c.seq, Append(parts[e], c), got[e])
        <5> HIDE DEF N, S, l, last
        <5>1. QED
          BY <1>2, <1>3, <1>5, <2>1, <3>1, PartNext DEF c
      <4>3. Append(parts[e], c) \in Seq(Chunks)
        BY <1>2, <1>7, AppendFacts
      <4>4. QED
        BY <1>1, <1>2, <1>5, <1>6, <1>8, <1>15, <2>1, <2>2, <4>1, <4>2, <4>3, TakenPreserves
    <3>2. CASE c.kind = "single"
      <4> DEFINE G == Append(got[e], Append(parts[e], c))
      <4>1. parts' = [parts EXCEPT ![e] = << >>] /\ got' = [got EXCEPT ![e] = G]
        BY <2>4, <3>2 DEF Accept
      <4>2. c.kind # "intermediate"
        BY <3>2
      <4>3. /\ GotFits(G, S, l)
            /\ Expected(Tail(N), S, l, last, c.seq, << >>, G)
        <5> HIDE DEF N, S, l, last
        <5>1. QED
          BY <1>2, <1>3, <1>5, <2>1, <4>2, WholeNext DEF c
      <4>4. G \in Seq(Seq(Chunks))
        BY <1>2, <1>7, AppendFacts
      <4> HIDE DEF G
      <4>5. QED
        BY <1>1, <1>2, <1>5, <1>6, <1>8, <1>10, <1>15, <2>1, <2>2, <4>1, <4>3, <4>4, TakenPreserves
    <3>3. CASE c.kind = "abort"
      <4>1. parts' = [parts EXCEPT ![e] = << >>] /\ got' = [got EXCEPT ![e] = got[e]]
        BY <1>9, <2>4, <3>3 DEF Accept
      <4>2. c.kind # "intermediate"
        BY <3>3
      <4>3. Expected(Tail(N), S, l, last, c.seq, << >>, got[e])
        <5> HIDE DEF N, S, l, last
        <5>1. QED
          BY <1>2, <1>3, <1>5, <2>1, <4>2, ForgottenNext DEF c
      <4>4. QED
        BY <1>1, <1>2, <1>5, <1>6, <1>8, <1>10, <1>15, <2>1, <2>2, <4>1, <4>3, TakenPreserves
    <3>4. QED
      BY <1>7, <3>1, <3>2, <3>3 DEF Chunks
  <2>5. QED
    BY <1>15, <2>3, <2>4
<1>16. QED
  BY <1>3, <1>13, <1>14, <1>15 DEF Receive

\* So does an error message at the client.
LEMMA ReceiveErrorPreserves ==
    ASSUME Inv, ReceiveError
    PROVE  Inv'
<1>1. /\ phase' = "closed" /\ net' = [net EXCEPT !["client"] = << >>] /\ net["client"] # << >>
      /\ UNCHANGED <<own, limits, crypto, seqno, peer, parts, sent, got, aborts, refused>>
  BY DEF ReceiveError
<1>2. "client" \in Ends /\ "server" \in Ends /\ \A e \in Ends : e = "client" \/ e = "server"
  BY DEF Ends
<1>3. phase \in {"open", "closed"}
  BY <1>1, <1>2 DEF Inv, Negotiated, TypeOK
<1>4. << >> \in Seq(Chunks \cup {Error}) /\ Len(<< >>) = 0
  BY EmptySeq
<1>5. net \in [Ends -> Seq(Chunks \cup {Error})]
  BY DEF Inv, TypeOK
<1>6. /\ net' \in [Ends -> Seq(Chunks \cup {Error})]
      /\ net'["client"] = << >> /\ net'["server"] = net["server"]
  BY <1>1, <1>2, <1>4, <1>5
<1>7. TypeOK'
  BY <1>1, <1>6 DEF Inv, TypeOK
<1>8. Negotiated'
  BY <1>1, <1>3 DEF Inv, Negotiated
<1>9. Linked("server")'
  <2>1. ~Gone("server") /\ ~Gone("server")' /\ Linked("server")
    BY <1>2 DEF Gone, Inv
  <2>2. QED
    BY <1>1, <1>6, <2>1 DEF Linked
<1>10. Linked("client")'
  <2>1. Gone("client")' /\ Linked("client")
    BY <1>1, <1>2 DEF Gone, Inv
  <2>2. Chained(<< >>, sent[Other("client")], limits["client"], seqno[Other("client")])
    BY <1>4 DEF Chained
  <2>3. QED
    BY <1>1, <1>4, <1>6, <2>1, <2>2 DEF Linked
<1>11. QED
  BY <1>2, <1>7, <1>8, <1>9, <1>10 DEF Inv

\* Before anything is sent, the directions are in order.
LEMMA NothingSent ==
    ASSUME NEW l
    PROVE  /\ Chained(<< >>, << >>, l, 0) /\ PartsFit(<< >>, << >>, l) /\ GotFits(<< >>, << >>, l)
           /\ Expected(<< >>, << >>, l, 0, 0, << >>, << >>)
<1>1. Len(<< >>) = 0
  OBVIOUS
<1>2. QED
  BY <1>1 DEF Chained, PartsFit, GotFits, Expected

\* The initial state has the invariant.
LEMMA InitInv ==
    ASSUME TransportAssumption, Init
    PROVE  Inv
<1>1. own \in [Ends -> TransportLimits] /\ limits = own /\ crypto \in Cryptos
  BY DEF Init, TransportAssumption
<1>2. /\ phase = "hello" /\ aborts = 0 /\ refused = {}
      /\ net = [e \in Ends |-> << >>] /\ parts = [e \in Ends |-> << >>]
      /\ sent = [e \in Ends |-> << >>] /\ got = [e \in Ends |-> << >>]
      /\ seqno = [e \in Ends |-> 0] /\ peer = [e \in Ends |-> 0]
  BY DEF Init
<1>3. TypeOK
  BY <1>1, <1>2 DEF TypeOK
<1>4. Negotiated
  BY <1>1, <1>2 DEF Negotiated
<1>5. ASSUME NEW e \in Ends PROVE Linked(e)
  <2>1. Other(e) \in Ends
    BY OtherEnd
  <2>2. /\ net[e] = << >> /\ sent[Other(e)] = << >> /\ parts[e] = << >> /\ got[e] = << >>
        /\ seqno[Other(e)] = 0 /\ peer[e] = 0 /\ e \notin refused /\ ~Gone(e)
    BY <1>2, <2>1 DEF Gone
  <2>3. QED
    BY <2>2, NothingSent DEF Linked
<1>6. QED
  BY <1>3, <1>4, <1>5 DEF Inv

\* The limits of the acknowledge are within those of both ends.
LEMMA AcknowledgedFits ==
    ASSUME NEW hello \in TransportLimits, NEW mine \in TransportLimits
    PROVE  /\ Acknowledged(hello, mine) \in TransportLimits
           /\ Acknowledged(hello, mine).recv <= mine.recv
           /\ Acknowledged(hello, mine).send <= hello.recv
           /\ mine.chunks > 0 => Acknowledged(hello, mine).chunks \in 1 .. mine.chunks
           /\ hello.chunks > 0 => Acknowledged(hello, mine).chunks \in 1 .. hello.chunks
<1>1. /\ hello.recv \in Nat /\ hello.send \in Nat /\ hello.chunks \in Nat /\ hello.size \in Nat
      /\ mine.recv \in Nat /\ mine.send \in Nat /\ mine.chunks \in Nat /\ mine.size \in Nat
  BY DEF TransportLimits
<1>2. \A a, b \in Nat : /\ Least(a, b) \in Nat /\ Least(a, b) <= a /\ Least(a, b) <= b
                        /\ SelectLimit(a, b) \in Nat
                        /\ a > 0 => SelectLimit(a, b) \in 1 .. a
                        /\ b > 0 => SelectLimit(a, b) \in 1 .. b
  BY DEF Least, Most, SelectLimit
<1>3. QED
  BY <1>1, <1>2 DEF Acknowledged, TransportLimits

\* Hello and Acknowledge keep the invariant.
LEMMA NegotiationPreserves ==
    ASSUME Inv, ServerHello \/ ClientAck
    PROVE  Inv'
<1>1. phase \in {"hello", "ack"} /\ phase' \in {"ack", "open"}
  BY DEF ServerHello, ClientAck
<1>2. UNCHANGED <<own, crypto, net, seqno, peer, parts, sent, got, aborts, refused>>
  BY DEF ServerHello, ClientAck
<1>3. \A e \in Ends : /\ net[e] = << >> /\ sent[e] = << >> /\ parts[e] = << >>
                      /\ got[e] = << >> /\ seqno[e] = 0 /\ peer[e] = 0 /\ e \notin refused
  BY <1>1 DEF Inv, Negotiated
<1>4. ASSUME NEW e \in Ends PROVE Linked(e)'
  <2>1. Other(e) \in Ends
    BY OtherEnd
  <2>2. /\ net'[e] = << >> /\ sent'[Other(e)] = << >> /\ parts'[e] = << >> /\ got'[e] = << >>
        /\ seqno'[Other(e)] = 0 /\ peer'[e] = 0 /\ e \notin refused' /\ ~Gone(e)'
    BY <1>1, <1>2, <1>3, <2>1 DEF Gone
  <2>3. QED
    BY <2>2, NothingSent DEF Linked
<1>5. "client" \in Ends /\ "server" \in Ends /\ \A e \in Ends : e = "client" \/ e = "server"
  BY DEF Ends
<1>6. /\ limits \in [Ends -> TransportLimits] /\ own \in [Ends -> TransportLimits]
      /\ own["client"] \in TransportLimits /\ own["server"] \in TransportLimits
  BY <1>5 DEF Inv, TypeOK
<1> DEFINE ack == Acknowledged(own["client"], own["server"])
<1>7. /\ ack \in TransportLimits
      /\ ack.recv <= own["server"].recv /\ ack.send <= own["client"].recv
      /\ own["server"].chunks > 0 => ack.chunks \in 1 .. own["server"].chunks
      /\ own["client"].chunks > 0 => ack.chunks \in 1 .. own["client"].chunks
  BY <1>6, AcknowledgedFits
<1> HIDE DEF ack
<1>8. CASE ServerHello
  <2>1. /\ phase = "hello" /\ phase' = "ack"
        /\ limits' = [limits EXCEPT !["server"] = Acknowledged(own["client"], limits["server"])]
    BY <1>8 DEF ServerHello
  <2>2. limits = own
    BY <2>1 DEF Inv, Negotiated
  <2>3. limits'["server"] = ack /\ limits'["client"] = own["client"] /\ limits' \in [Ends -> TransportLimits]
    BY <1>5, <1>6, <1>7, <2>1, <2>2 DEF ack
  <2>4. TypeOK'
    BY <1>2, <2>1, <2>3 DEF Inv, TypeOK
  <2>5. Negotiated'
    BY <1>2, <1>3, <2>1, <2>3 DEF Negotiated, ack
  <2>6. QED
    BY <1>4, <2>4, <2>5 DEF Inv
<1>9. CASE ClientAck
  <2>1. /\ phase = "ack" /\ phase' = "open"
        /\ limits' = [limits EXCEPT !["client"] = [limits["server"] EXCEPT
                          !.recv = limits["server"].send, !.send = limits["server"].recv]]
    BY <1>9 DEF ClientAck
  <2>2. limits["server"] = ack
    BY <2>1 DEF Inv, Negotiated, ack
  <2> DEFINE mine == [ack EXCEPT !.recv = ack.send, !.send = ack.recv]
  <2>3. /\ mine \in TransportLimits /\ mine.recv = ack.send /\ mine.send = ack.recv
        /\ mine.chunks = ack.chunks
    BY <1>7 DEF TransportLimits
  <2>4. limits' = [limits EXCEPT !["client"] = mine]
    BY <2>1, <2>2
  <2> HIDE DEF mine
  <2>5. limits'["client"] = mine /\ limits'["server"] = ack /\ limits' \in [Ends -> TransportLimits]
    BY <1>5, <1>6, <2>2, <2>3, <2>4
  <2>6. TypeOK'
    BY <1>2, <2>1, <2>5 DEF Inv, TypeOK
  <2>7. Other("client") = "server" /\ Other("server") = "client"
    BY DEF Other
  <2>8. ASSUME NEW e \in Ends
        PROVE  /\ limits'[e].send = limits'[Other(e)].recv /\ limits'[e].recv <= own[e].recv
               /\ own[e].chunks > 0 => limits'[e].chunks \in 1 .. own[e].chunks
    <3>1. CASE e = "client"
      BY <1>7, <2>3, <2>5, <2>7, <3>1
    <3>2. CASE e = "server"
      BY <1>7, <2>3, <2>5, <2>7, <3>2
    <3>3. QED
      BY <1>5, <3>1, <3>2
  <2>9. Negotiated'
    BY <1>2, <2>1, <2>8 DEF Negotiated
  <2>10. QED
    BY <1>4, <2>6, <2>9 DEF Inv
<1>10. QED
  BY <1>8, <1>9

-----------------------------------------------------------------------------
(* Theorems.                                                               *)

\* Every step keeps the invariant.
LEMMA NextPreserves ==
    ASSUME TransportAssumption, Inv, [Next]_vars
    PROVE  Inv'
<1>1. CASE UNCHANGED vars
  <2>1. TypeOK'
    BY <1>1 DEF vars, Inv, TypeOK
  <2>2. Negotiated'
    BY <1>1 DEF vars, Inv, Negotiated
  <2>3. \A e \in Ends : Linked(e)'
    BY <1>1 DEF vars, Inv, Linked, Gone
  <2>4. QED
    BY <2>1, <2>2, <2>3 DEF Inv
<1>2. CASE Next
  BY <1>2, NegotiationPreserves, ReceiveErrorPreserves, ReceivePreserves, SendPreserves,
     SendOpenPreserves, SendAbortedPreserves DEF Next
<1>3. QED
  BY <1>1, <1>2

\* The invariant holds throughout.
LEMMA Invariance == Spec => []Inv
<1>1. Init => Inv
  BY TransportAssumption, InitInv
<1>2. Inv /\ [Next]_vars => Inv'
  BY TransportAssumption, NextPreserves
<1>3. QED
  BY <1>1, <1>2, PTL DEF Spec

\* A message is oversized for its receiver when its chunks are over the limit.
LEMMA OversizedIsOver ==
    ASSUME NEW e, NEW m
    PROVE  Oversized(e, m) <=> Over(sent[Other(e)], limits[e], m)
BY DEF Oversized, Over, TooMany

\* SecureConnection keeps the shape of its limits, numbers, parts and
\* messages, whatever arrives.
THEOREM TypeCorrect == Spec => []TypeOK
<1>1. Inv => TypeOK
  BY DEF Inv
<1>2. QED
  BY <1>1, Invariance, PTL

\* message_to_chunks, with max_body_size and padding, keeps to the limit that
\* create_acknowledge_and_set_limits and update_client_limits agreed on: for
\* all limits, signatures and block sizes, _receive refuses no chunk for its
\* size or its sequence number unless a message that opens or renews the
\* channel was too large.
THEOREM LimitsAreKept == Spec => []LimitsHold
<1>1. Inv => LimitsAgree
  BY DEF Inv, Negotiated, LimitsAgree
<1>2. ASSUME Inv PROVE ChunksFit
  <2>1. SUFFICES ASSUME NEW e \in Ends
                 PROVE  /\ e \in refused => \E m \in DOMAIN sent[Other(e)] :
                              sent[Other(e)][m].size \in OpenSizes /\ Oversized(e, m)
                        /\ \A i \in DOMAIN net[e] : net[e][i].kind = "error"
                              \/ net[e][i].size <= limits[e].recv \/ net[e][i].size \in OpenSizes
    BY DEF ChunksFit
  <2>2. Linked(e) /\ net[e] \in Seq(Frames)
    BY <1>2 DEF Inv, TypeOK, Frames
  <2>3. e \in refused => \E m \in DOMAIN sent[Other(e)] :
            sent[Other(e)][m].size \in OpenSizes /\ Oversized(e, m)
    BY <2>2, OversizedIsOver DEF Linked, OpenTooLarge
  <2>4. ASSUME NEW i \in DOMAIN net[e]
        PROVE  net[e][i].kind = "error" \/ net[e][i].size <= limits[e].recv
                 \/ net[e][i].size \in OpenSizes
    <3>1. i \in 1 .. Len(net[e])
      BY <2>2, LenProperties
    <3>2. \/ net[e][i] = Error
          \/ Belongs(sent[Other(e)], limits[e], net[e][i])
      BY <2>2, <3>1 DEF Linked, Chained
    <3>3. QED
      BY <3>2, ErrorKind DEF Belongs
  <2>5. QED
    BY <2>3, <2>4
<1>3. Inv => LimitsHold
  BY <1>1, <1>2 DEF LimitsHold
<1>4. QED
  BY <1>3, Invariance, PTL

\* _receive puts chunks together as they were split: a message that is given
\* to the layer above has all its chunks in their order, and messages keep
\* their order, unless the message was over the limits of the receiver.
THEOREM MessagesAreWhole == Spec => []DeliveredWhole
<1>1. ASSUME Inv PROVE DeliveredWhole
  <2>1. SUFFICES ASSUME NEW e \in Ends, NEW i \in DOMAIN got[e]
                 PROVE  /\ \A k \in DOMAIN got[e][i] : got[e][i][k].msg = got[e][i][1].msg
                        /\ \A j \in 1 .. i - 1 : got[e][j][1].msg < got[e][i][1].msg
                        /\ \/ Oversized(e, got[e][i][1].msg)
                           \/ [k \in DOMAIN got[e][i] |-> got[e][i][k].part] =
                                [k \in 1 .. sent[Other(e)][got[e][i][1].msg].chunks |-> k]
    BY DEF DeliveredWhole
  <2> DEFINE G == got[e]
             S == sent[Other(e)]
             l == limits[e]
  <2>2. GotFits(G, S, l) /\ G \in Seq(Seq(Chunks))
    BY <1>1 DEF Inv, TypeOK, Linked
  <2>3. i \in 1 .. Len(G) /\ Len(G) \in Nat /\ G[i] \in Seq(Chunks)
    BY <2>1, <2>2, LenProperties, ElementOfSeq
  <2>4. DOMAIN G[i] = 1 .. Len(G[i])
    BY <2>3, LenProperties
  <2>5. Oversized(e, G[i][1].msg) <=> Over(S, l, G[i][1].msg)
    BY OversizedIsOver
  <2> HIDE DEF G, S, l
  <2>6. /\ \A k \in 1 .. Len(G[i]) : G[i][k].msg = G[i][1].msg
        /\ \/ Over(S, l, G[i][1].msg)
           \/ /\ Len(G[i]) = S[G[i][1].msg].chunks
              /\ \A k \in 1 .. Len(G[i]) : G[i][k].part = k
    BY <2>2, <2>3 DEF GotFits
  <2>7. \A j \in 1 .. i - 1 : G[j][1].msg < G[i][1].msg
    <3>1. \A j \in 1 .. i - 1 : j \in 1 .. Len(G) /\ j < i
      BY <2>3
    <3>2. QED
      BY <2>2, <2>3, <3>1 DEF GotFits
  <2>8. \/ Over(S, l, G[i][1].msg)
        \/ [k \in DOMAIN G[i] |-> G[i][k].part] = [k \in 1 .. S[G[i][1].msg].chunks |-> k]
    BY <2>4, <2>6
  <2>9. QED
    BY <2>4, <2>5, <2>6, <2>7, <2>8 DEF G, S
<1>2. QED
  BY <1>1, Invariance, PTL

=============================================================================
