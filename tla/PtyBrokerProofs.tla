--------------------------- MODULE PtyBrokerProofs ---------------------------
(***************************************************************************)
(* Proofs about the service of PtyBroker, for every number of slots,       *)
(* connections and processes and every size of its rings and queues: the   *)
(* tables and rings, the end of a session, the seats and, last, what one   *)
(* client sees.                                                            *)
(***************************************************************************)
EXTENDS PtyBroker, PtyRingProofs

\* The assumptions on the constants, one by one.
LEMMA Sizes ==
  /\ NSlots \in Nat \ {0} /\ MaxObservers \in Nat \ {0} /\ QueueLimit \in Nat \ {0}
  /\ InputLimit \in Nat \ {0} /\ FlushQuota \in Nat /\ Header \in Nat /\ StatusSize \in Nat
  /\ History \in Nat \ {0} /\ Chunk \in Nat \ {0} /\ Chunk <= History
  BY BrokerAssumption, RingAssumption

\* What a concatenation holds where.
LEMMA ConcatAt ==
  ASSUME NEW S, NEW s \in Seq(S), NEW t \in Seq(S)
  PROVE  /\ s \o t \in Seq(S) /\ Len(s \o t) = Len(s) + Len(t)
         /\ \A i \in 1 .. Len(s) : (s \o t)[i] = s[i]
         /\ \A i \in 1 .. Len(t) : (s \o t)[Len(s) + i] = t[i]
  OBVIOUS

-----------------------------------------------------------------------------
(* The bytes of a queue.  QueuedBytes is a recursive function; that there  *)
(* is such a function, and only one, is proved by induction on the length. *)

\* f[i] is the sum over the first i packets of q, for every i up to n.
SumsOf(f, q, n) ==
  f = [i \in 0 .. n |-> IF i = 0 THEN 0 ELSE f[i - 1] + Header + q[i].size]

\* Two functions that sum the same packets agree.
LEMMA SumsUnique ==
  ASSUME NEW q, NEW n \in Nat, NEW f, NEW g, SumsOf(f, q, n), SumsOf(g, q, n)
  PROVE  f = g
<1> DEFINE S == {i \in Nat : i \in 0 .. n => f[i] = g[i]}
<1>1. \A i \in 0 .. n : /\ f[i] = IF i = 0 THEN 0 ELSE f[i - 1] + Header + q[i].size
                        /\ g[i] = IF i = 0 THEN 0 ELSE g[i - 1] + Header + q[i].size
  BY Zenon DEF SumsOf
<1>2. 0 \in S
  BY <1>1
<1>3. \A i \in Nat : i \in S => i + 1 \in S
  BY <1>1
<1> HIDE DEF S
<1>4. Nat \subseteq S
  BY <1>2, <1>3, SetInduction
<1>5. \A i \in 0 .. n : f[i] = g[i]
  BY <1>4 DEF S
<1> DEFINE F == [i \in 0 .. n |-> IF i = 0 THEN 0 ELSE f[i - 1] + Header + q[i].size]
           G == [i \in 0 .. n |-> IF i = 0 THEN 0 ELSE g[i - 1] + Header + q[i].size]
<1>6. f = F /\ g = G
  BY Zenon DEF SumsOf
<1>7. \A i \in 0 .. n : F[i] = G[i]
  BY <1>5, <1>6, Zenon
<1> QED
  BY <1>6, <1>7, Zenon

\* There is a function that sums the packets of q, and its values are numbers.
LEMMA SumsExist ==
  ASSUME NEW q \in Seq(Message), NEW n \in 0 .. Len(q)
  PROVE  \E f \in [0 .. n -> Nat] : SumsOf(f, q, n)
<1> DEFINE S == {k \in Nat : k <= Len(q) => \E f \in [0 .. k -> Nat] : SumsOf(f, q, k)}
<1>1. 0 \in S
  <2> DEFINE f == [i \in 0 .. 0 |-> 0]
  <2>1. f \in [0 .. 0 -> Nat]
    OBVIOUS
  <2>2. SumsOf(f, q, 0)
    BY DEF SumsOf
  <2> QED
    BY <2>1, <2>2
<1>2. ASSUME NEW k \in Nat, k \in S, k + 1 <= Len(q)
      PROVE  \E g \in [0 .. k + 1 -> Nat] : SumsOf(g, q, k + 1)
  <2>1. PICK f \in [0 .. k -> Nat] : SumsOf(f, q, k)
    BY <1>2
  <2> DEFINE g == [i \in 0 .. k + 1 |-> IF i <= k THEN f[i]
                                        ELSE f[k] + Header + q[k + 1].size]
  <2>2. q[k + 1].size \in Nat /\ Header \in Nat
    <3>1. q[k + 1] \in Message
      BY <1>2
    <3> QED
      BY <3>1, Sizes DEF Message
  <2>3. g \in [0 .. k + 1 -> Nat]
    BY <2>1, <2>2
  <2>4. \A i \in 0 .. k : f[i] = IF i = 0 THEN 0 ELSE f[i - 1] + Header + q[i].size
    BY <2>1, Zenon DEF SumsOf
  <2>5. \A i \in 0 .. k + 1 :
          g[i] = IF i = 0 THEN 0 ELSE g[i - 1] + Header + q[i].size
    <3> TAKE i \in 0 .. k + 1
    <3>1. CASE i <= k
      BY <2>4, <3>1
    <3>2. CASE i = k + 1
      BY <3>2
    <3> QED
      BY <3>1, <3>2
  <2>6. SumsOf(g, q, k + 1)
    <3> HIDE DEF g
    <3> QED
      BY <2>3, <2>5 DEF SumsOf
  <2> QED
    BY <2>3, <2>6
<1>3. \A k \in Nat : k \in S => k + 1 \in S
  <2> SUFFICES ASSUME NEW k \in Nat, k \in S
               PROVE  k + 1 \in S
    BY Zenon
  <2>1. k + 1 \in Nat
    OBVIOUS
  <2>2. k + 1 <= Len(q) => \E g \in [0 .. k + 1 -> Nat] : SumsOf(g, q, k + 1)
    BY <1>2, Zenon
  <2> QED
    BY <2>1, <2>2, Zenon
<1> HIDE DEF S
<1>4. Nat \subseteq S
  BY <1>1, <1>3, SetInduction
<1> QED
  BY <1>4 DEF S

\* QueuedBytes is the last of those sums.
LEMMA QueuedBytesSum ==
  ASSUME NEW q \in Seq(Message), NEW f, SumsOf(f, q, Len(q))
  PROVE  QueuedBytes(q) = f[Len(q)]
<1> DEFINE sum == CHOOSE g : g = [i \in 0 .. Len(q) |->
                                    IF i = 0 THEN 0 ELSE g[i - 1] + Header + q[i].size]
<1>1. QueuedBytes(q) = sum[Len(q)]
  BY Zenon DEF QueuedBytes
<1>2. SumsOf(sum, q, Len(q))
  BY Zenon DEF SumsOf
<1>3. Len(q) \in Nat
  OBVIOUS
<1> HIDE DEF sum
<1> QED
  BY <1>1, <1>2, <1>3, SumsUnique, Zenon

\* The sums of a queue also sum what it starts with.
LEMMA SumsPrefix ==
  ASSUME NEW q \in Seq(Message), NEW r \in Seq(Message), Len(r) <= Len(q),
         \A i \in 1 .. Len(r) : r[i] = q[i],
         NEW f \in [0 .. Len(q) -> Nat], SumsOf(f, q, Len(q))
  PROVE  QueuedBytes(r) = f[Len(r)]
<1> DEFINE g == [i \in 0 .. Len(r) |-> f[i]]
<1>1. \A i \in 0 .. Len(q) : f[i] = IF i = 0 THEN 0 ELSE f[i - 1] + Header + q[i].size
  BY Zenon DEF SumsOf
<1>2. \A i \in 0 .. Len(r) : g[i] = IF i = 0 THEN 0 ELSE g[i - 1] + Header + r[i].size
  <2> TAKE i \in 0 .. Len(r)
  <2>1. CASE i = 0
    BY <1>1, <2>1
  <2>2. CASE i # 0
    <3>1. i \in 1 .. Len(r) /\ i - 1 \in 0 .. Len(r) /\ i \in 0 .. Len(q)
      BY <2>2
    <3>2. g[i] = f[i] /\ g[i - 1] = f[i - 1] /\ r[i] = q[i]
      BY <3>1
    <3> QED
      BY <1>1, <2>2, <3>1, <3>2, Zenon
  <2> QED
    BY <2>1, <2>2
<1>3. g \in [0 .. Len(r) -> Nat]
  OBVIOUS
<1>4. SumsOf(g, r, Len(r))
  <2> HIDE DEF g
  <2> QED
    BY <1>2, <1>3 DEF SumsOf
<1>5. QueuedBytes(r) = g[Len(r)]
  <2> HIDE DEF g
  <2> QED
    BY <1>4, QueuedBytesSum
<1> QED
  BY <1>5

\* An empty queue has no bytes, a queue never has less than none, and one more
\* packet adds its header and its payload.
LEMMA QueuedBytesAppend ==
  ASSUME NEW q \in Seq(Message), NEW m \in Message
  PROVE  /\ QueuedBytes(q) \in Nat
         /\ QueuedBytes(<<>>) = 0
         /\ QueuedBytes(Append(q, m)) = QueuedBytes(q) + Header + m.size
<1> DEFINE Q == Append(q, m)
<1>1. /\ Q \in Seq(Message) /\ Len(Q) = Len(q) + 1 /\ Q[Len(q) + 1] = m
      /\ \A i \in 1 .. Len(q) : q[i] = Q[i]
  OBVIOUS
<1> HIDE DEF Q
<1>2. PICK f \in [0 .. Len(Q) -> Nat] : SumsOf(f, Q, Len(Q))
  <2>1. Len(Q) \in 0 .. Len(Q)
    BY <1>1
  <2> QED
    BY <1>1, <2>1, SumsExist
<1>3. QueuedBytes(q) = f[Len(q)]
  BY <1>1, <1>2, SumsPrefix
<1>4. QueuedBytes(Q) = f[Len(Q)]
  BY <1>1, <1>2, QueuedBytesSum
<1>5. QueuedBytes(<<>>) = f[0]
  <2>1. <<>> \in Seq(Message) /\ Len(<<>>) = 0
    OBVIOUS
  <2> QED
    BY <1>1, <1>2, <2>1, SumsPrefix
<1>6. \A i \in 0 .. Len(Q) : f[i] = IF i = 0 THEN 0 ELSE f[i - 1] + Header + Q[i].size
  BY <1>2, Zenon DEF SumsOf
<1>7. f[0] = 0 /\ f[Len(q) + 1] = f[Len(q)] + Header + m.size
  BY <1>1, <1>6
<1> QED
  BY <1>1, <1>3, <1>4, <1>5, <1>7 DEF Q

\* The bytes of a queue are those of its first k packets and those of the rest.
LEMMA QueuedBytesSplit ==
  ASSUME NEW q \in Seq(Message), NEW k \in 0 .. Len(q)
  PROVE  /\ QueuedBytes(SubSeq(q, 1, k)) \in Nat
         /\ QueuedBytes(SubSeq(q, k + 1, Len(q))) \in Nat
         /\ QueuedBytes(q) = QueuedBytes(SubSeq(q, 1, k))
                             + QueuedBytes(SubSeq(q, k + 1, Len(q)))
<1> DEFINE r == SubSeq(q, 1, k)
           t == SubSeq(q, k + 1, Len(q))
           n == Len(q) - k
<1>1. /\ r \in Seq(Message) /\ Len(r) = k /\ \A i \in 1 .. k : r[i] = q[i]
      /\ t \in Seq(Message) /\ Len(t) = n /\ \A i \in 1 .. n : t[i] = q[k + i]
      /\ n \in Nat
  OBVIOUS
<1> HIDE DEF r, t
<1>2. PICK f \in [0 .. Len(q) -> Nat] : SumsOf(f, q, Len(q))
  <2>1. Len(q) \in 0 .. Len(q)
    OBVIOUS
  <2> QED
    BY <2>1, SumsExist
<1>3. QueuedBytes(q) = f[Len(q)]
  BY <1>2, QueuedBytesSum
<1>4. QueuedBytes(r) = f[k]
  <2>1. /\ r \in Seq(Message) /\ Len(r) <= Len(q)
        /\ \A i \in 1 .. Len(r) : r[i] = q[i]
    BY <1>1
  <2>2. QueuedBytes(r) = f[Len(r)]
    BY <1>2, <2>1, SumsPrefix, Zenon
  <2> QED
    BY <1>1, <2>2
<1>5. \A i \in 0 .. Len(q) : f[i] = IF i = 0 THEN 0 ELSE f[i - 1] + Header + q[i].size
  BY <1>2, Zenon DEF SumsOf
<1> DEFINE g == [i \in 0 .. n |-> f[k + i] - f[k]]
<1>6. g \in [0 .. n -> Int]
  BY <1>1
<1>7. \A i \in 0 .. n : g[i] = IF i = 0 THEN 0 ELSE g[i - 1] + Header + t[i].size
  <2> TAKE i \in 0 .. n
  <2>1. CASE i = 0
    BY <1>1, <2>1
  <2>2. CASE i # 0
    <3>1. i \in 1 .. n /\ i - 1 \in 0 .. n /\ k + i \in 0 .. Len(q) /\ k + i # 0
          /\ k + i - 1 = k + (i - 1)
      BY <1>1, <2>2
    <3>2. f[k + i] = f[k + i - 1] + Header + q[k + i].size
      BY ONLY <1>5, <3>1, SMTT(60)
    <3>3. t[i] = q[k + i] /\ g[i] = f[k + i] - f[k] /\ g[i - 1] = f[k + i - 1] - f[k]
      BY <1>1, <3>1
    <3>4. q[k + i] \in Message
      BY <3>1
    <3>5. q[k + i].size \in Int /\ Header \in Int
      BY <3>4, Sizes DEF Message
    <3>6. f[k] \in Int /\ f[k + i - 1] \in Int
      <4>1. k + i - 1 \in 0 .. Len(q) /\ k \in 0 .. Len(q)
        BY <3>1
      <4> QED
        BY <4>1
    <3> HIDE DEF g
    <3> QED
      BY <2>2, <3>2, <3>3, <3>5, <3>6
  <2> QED
    BY <2>1, <2>2
<1>8. SumsOf(g, t, Len(t))
  <2> HIDE DEF g
  <2> QED
    BY <1>1, <1>6, <1>7 DEF SumsOf
<1>9. QueuedBytes(t) = g[Len(t)]
  <2> HIDE DEF g
  <2> QED
    BY <1>1, <1>8, QueuedBytesSum
<1>10. QueuedBytes(t) \in Nat
  <2>1. QueuedBytes(t) \in Nat \/ t = <<>>
    BY <1>1, QueuedBytesAppend
  <2> QED
    BY <1>1, <2>1, QueuedBytesAppend
<1>11. g[Len(t)] = f[Len(q)] - f[k]
  BY <1>1
<1> HIDE DEF g
<1> QED
  BY <1>3, <1>4, <1>9, <1>10, <1>11 DEF r, t

-----------------------------------------------------------------------------
(* Packets and peers.                                                      *)

\* A packet with PTY bytes carries the bytes its offset says.
Exact(m) ==
  m.type \in {"OUTPUT", "CAPTURE"} /\ m.err = "0" =>
    Len(m.data) = m.size /\ \A k \in 1 .. m.size : m.data[k] = m.off + k - 1

\* What the service sends, and what it puts on a queue: TERMINATE is answered
\* without one.
Packet == {m \in Message : Exact(m)}
Queueable == {m \in Packet : m.type # "TERMINATE"}

\* A peer whose byte count is that of its queue; a free slot is wholly cleared.
GoodPeer == {p \in PeerType : /\ p.q \in Seq(Queueable)
                              /\ p.queued = QueuedBytes(p.q) /\ p.queued <= QueueLimit
                              /\ p.fd = NoConn => p = NoPeer}

\* A packet without data has its type.
LEMMA PlainPacket ==
  ASSUME NEW type \in RequestTypes \cup EventTypes, NEW err \in Errors, NEW off \in Nat,
         type \notin {"OUTPUT", "CAPTURE"} \/ err # "0"
  PROVE  Plain(type, err, off) \in Packet
<1>1. <<>> \in Seq(Nat) /\ NoStatus \in Status
  BY DEF NoStatus, Status
<1> QED
  BY <1>1 DEF Plain, Packet, Message, Exact

\* So has one with a status, and it may be queued.
LEMMA StatusPacket ==
  ASSUME NEW type \in (RequestTypes \cup EventTypes) \ {"OUTPUT", "CAPTURE", "TERMINATE"},
         NEW off \in Nat, NEW st \in Status
  PROVE  WithStatus(type, off, st) \in Queueable
<1>1. <<>> \in Seq(Nat)
  OBVIOUS
<1> QED
  BY <1>1, Sizes DEF WithStatus, Packet, Message, Exact, Queueable, Errors

\* So has one with bytes of the stream.
LEMMA BytesPacket ==
  ASSUME NEW type \in {"OUTPUT", "CAPTURE"}, NEW off \in Nat, NEW data \in Seq(Nat),
         \A k \in 1 .. Len(data) : data[k] = off + k - 1
  PROVE  Bytes(type, off, data) \in Queueable
<1>1. NoStatus \in Status
  BY DEF NoStatus, Status
<1>2. Len(data) \in Nat
  OBVIOUS
<1> QED
  BY <1>1, <1>2 DEF Bytes, Packet, Message, Exact, Queueable, Errors, EventTypes, RequestTypes

\* A cleared slot is a good peer.
LEMMA NoPeerGood == NoPeer \in GoodPeer
<1>1. <<>> \in Seq(Queueable) /\ <<>> \in Seq(Message)
  OBVIOUS
<1>2. QueuedBytes(<<>>) = 0
  <2>1. <<>> \in Seq(Message) /\ Len(<<>>) = 0 /\ 0 \in 0 .. 0
    OBVIOUS
  <2>2. PICK f \in [0 .. 0 -> Nat] : SumsOf(f, <<>>, 0)
    BY <2>1, SumsExist
  <2>3. QueuedBytes(<<>>) = f[0]
    BY <2>1, <2>2, QueuedBytesSum
  <2>4. \A i \in 0 .. 0 : f[i] = IF i = 0 THEN 0 ELSE f[i - 1] + Header + <<>>[i].size
    BY <2>2, Zenon DEF SumsOf
  <2> QED
    BY <2>3, <2>4
<1>3. NoPeer \in PeerType /\ NoPeer.q = <<>> /\ NoPeer.queued = 0
  BY <1>1 DEF NoPeer, PeerType
<1>4. NoPeer.q \in Seq(Queueable)
  BY <1>1, <1>3, Zenon
<1>5. NoPeer.queued = QueuedBytes(NoPeer.q) /\ NoPeer.queued <= QueueLimit
  BY <1>2, <1>3, Sizes
<1> QED
  BY <1>3, <1>4, <1>5, Zenon DEF GoodPeer

\* queue() leaves the peer, closes it, or appends exactly this packet; every
\* field but the queue and its count is that of before or of a closed slot.
LEMMA QueueCases ==
  ASSUME NEW p \in GoodPeer, NEW m \in Queueable
  PROVE  /\ Queue(p, m) \in GoodPeer
         /\ \/ Queue(p, m) = NoPeer
            \/ /\ p.fd # NoConn /\ Queue(p, m).q = Append(p.q, m)
               /\ Queue(p, m).fd = p.fd /\ Queue(p, m).role = p.role
               /\ Queue(p, m).closing = p.closing /\ Queue(p, m).terminating = p.terminating
               /\ Queue(p, m).old = p.old
<1>1. p \in PeerType /\ m \in Message /\ p.q \in Seq(Queueable) /\ p.q \in Seq(Message)
  BY DEF GoodPeer, Queueable, Packet, PeerType
<1>2. CASE p.fd = NoConn
  BY <1>2, NoPeerGood DEF Queue, GoodPeer
<1>3. CASE p.fd # NoConn /\ (m.size > Chunk \/ Header + m.size > QueueLimit - p.queued)
  BY <1>3, NoPeerGood DEF Queue
<1>4. CASE p.fd # NoConn /\ ~(m.size > Chunk \/ Header + m.size > QueueLimit - p.queued)
  <2> DEFINE n == p.queued + Header + m.size
             w == [p EXCEPT !.q = Append(p.q, m), !.queued = n]
  <2>1. Queue(p, m) = w
    BY <1>4 DEF Queue
  <2>2. p.queued \in Nat /\ m.size \in Nat
    BY <1>1 DEF PeerType, Message
  <2>3. n \in Nat /\ n <= QueueLimit
    BY <1>4, <2>2, Sizes
  <2>4. QueuedBytes(Append(p.q, m)) = n
    BY <1>1, QueuedBytesAppend DEF GoodPeer
  <2>5. Append(p.q, m) \in Seq(Queueable) /\ Append(p.q, m) \in Seq(Message)
    BY <1>1
  <2> HIDE DEF n
  <2>6. /\ w.q = Append(p.q, m) /\ w.queued = n /\ w.fd = p.fd /\ w.role = p.role
        /\ w.closing = p.closing /\ w.terminating = p.terminating /\ w.old = p.old
        /\ w \in PeerType
    BY <1>1, <2>3, <2>5 DEF PeerType
  <2> HIDE DEF w
  <2> QED
    BY <1>4, <2>1, <2>3, <2>4, <2>5, <2>6 DEF GoodPeer
<1> QED
  BY <1>2, <1>3, <1>4

\* broadcast() queues the packet for the subscribers and leaves the others.
LEMMA BroadcastCases ==
  ASSUME NEW ps \in [Slots -> GoodPeer], NEW m \in Queueable
  PROVE  /\ Broadcast(ps, m) \in [Slots -> GoodPeer]
         /\ \A s \in Slots :
              \/ Broadcast(ps, m)[s] = ps[s] /\ (ps[s].role = "none" \/ ps[s].fd = NoConn)
              \/ /\ ps[s].role # "none" /\ ps[s].fd # NoConn
                 /\ Broadcast(ps, m)[s] = Queue(ps[s], m)
<1>1. \A s \in Slots : ps[s] \in GoodPeer /\ Queue(ps[s], m) \in GoodPeer
  BY QueueCases
<1> QED
  BY <1>1 DEF Broadcast

\* Changing the flags of an open peer keeps it good.
LEMMA FlagsGood ==
  ASSUME NEW p \in GoodPeer, p.fd # NoConn
  PROVE  /\ [p EXCEPT !.closing = TRUE] \in GoodPeer
         /\ [p EXCEPT !.terminating = TRUE] \in GoodPeer
         /\ [p EXCEPT !.old = TRUE] \in GoodPeer
         /\ \A role \in {"CONTROL", "OBSERVER"} : [p EXCEPT !.role = role] \in GoodPeer
<1>1. /\ p \in PeerType /\ p.q \in Seq(Queueable)
      /\ p.queued = QueuedBytes(p.q) /\ p.queued <= QueueLimit
  BY DEF GoodPeer
<1>2. ASSUME NEW w \in PeerType, w.q = p.q, w.queued = p.queued, w.fd = p.fd
      PROVE  w \in GoodPeer
  BY <1>1, <1>2 DEF GoodPeer
<1>3. [p EXCEPT !.closing = TRUE] \in GoodPeer
  <2> DEFINE w == [p EXCEPT !.closing = TRUE]
  <2>1. w \in PeerType /\ w.q = p.q /\ w.queued = p.queued /\ w.fd = p.fd
    BY <1>1 DEF PeerType
  <2> HIDE DEF w
  <2>2. w \in GoodPeer
    BY <1>2, <2>1
  <2> QED
    BY <2>2 DEF w
<1>4. [p EXCEPT !.terminating = TRUE] \in GoodPeer
  <2> DEFINE w == [p EXCEPT !.terminating = TRUE]
  <2>1. w \in PeerType /\ w.q = p.q /\ w.queued = p.queued /\ w.fd = p.fd
    BY <1>1 DEF PeerType
  <2> HIDE DEF w
  <2>2. w \in GoodPeer
    BY <1>2, <2>1
  <2> QED
    BY <2>2 DEF w
<1>5. [p EXCEPT !.old = TRUE] \in GoodPeer
  <2> DEFINE w == [p EXCEPT !.old = TRUE]
  <2>1. w \in PeerType /\ w.q = p.q /\ w.queued = p.queued /\ w.fd = p.fd
    BY <1>1 DEF PeerType
  <2> HIDE DEF w
  <2>2. w \in GoodPeer
    BY <1>2, <2>1
  <2> QED
    BY <2>2 DEF w
<1>6. ASSUME NEW role \in {"CONTROL", "OBSERVER"}
      PROVE  [p EXCEPT !.role = role] \in GoodPeer
  <2> DEFINE w == [p EXCEPT !.role = role]
  <2>1. w \in PeerType /\ w.q = p.q /\ w.queued = p.queued /\ w.fd = p.fd
    BY <1>1 DEF PeerType
  <2> HIDE DEF w
  <2>2. w \in GoodPeer
    BY <1>2, <2>1
  <2> QED
    BY <2>2 DEF w
<1> QED
  BY <1>3, <1>4, <1>5, <1>6

\* Accepting a connection in a free slot gives a good peer with an empty queue.
LEMMA AcceptedGood ==
  ASSUME NEW c \in Conns
  PROVE  [NoPeer EXCEPT !.fd = c] \in GoodPeer
<1> DEFINE w == [NoPeer EXCEPT !.fd = c]
<1>1. NoPeer \in PeerType /\ NoPeer.q \in Seq(Queueable) /\ NoPeer.queued = QueuedBytes(NoPeer.q)
      /\ NoPeer.queued <= QueueLimit
  BY NoPeerGood, Zenon DEF GoodPeer
<1>2. w \in PeerType /\ w.q = NoPeer.q /\ w.queued = NoPeer.queued /\ w.fd = c
  BY <1>1 DEF PeerType
<1>3. c # NoConn
  BY BrokerAssumption
<1> HIDE DEF w
<1> QED
  BY <1>1, <1>2, <1>3 DEF GoodPeer, w

\* flush_peer() takes the packets it sends off the queue and off its count.
LEMMA FlushedGood ==
  ASSUME NEW p \in GoodPeer, p.fd # NoConn, NEW k \in 0 .. Len(p.q)
  PROVE  /\ Flushed(p, k) \in GoodPeer
         /\ Flushed(p, k).q = SubSeq(p.q, k + 1, Len(p.q))
         /\ Flushed(p, k).fd = p.fd /\ Flushed(p, k).role = p.role
         /\ Flushed(p, k).closing = p.closing /\ Flushed(p, k).terminating = p.terminating
         /\ SubSeq(p.q, 1, k) \in Seq(Queueable)
<1>1. /\ p \in PeerType /\ p.q \in Seq(Queueable) /\ p.q \in Seq(Message)
      /\ p.queued = QueuedBytes(p.q) /\ p.queued <= QueueLimit
  BY DEF GoodPeer, Queueable, Packet, PeerType
<1> DEFINE r == SubSeq(p.q, 1, k)
           t == SubSeq(p.q, k + 1, Len(p.q))
           n == p.queued - QueuedBytes(r)
           w == [p EXCEPT !.q = t, !.queued = n]
<1>2. r \in Seq(Queueable) /\ t \in Seq(Queueable) /\ t \in Seq(Message)
  BY <1>1
<1>3. QueuedBytes(r) \in Nat /\ QueuedBytes(t) \in Nat
      /\ QueuedBytes(p.q) = QueuedBytes(r) + QueuedBytes(t)
  BY <1>1, QueuedBytesSplit
<1>4. Flushed(p, k) = w
  BY DEF Flushed
<1> HIDE DEF r, t
<1>5. n \in Nat /\ n = QueuedBytes(t) /\ n <= QueueLimit
  BY <1>1, <1>3, Sizes
<1> HIDE DEF n
<1>6. /\ w \in PeerType /\ w.q = t /\ w.queued = n /\ w.fd = p.fd /\ w.role = p.role
      /\ w.closing = p.closing /\ w.terminating = p.terminating
  BY <1>1, <1>2, <1>5 DEF PeerType
<1> HIDE DEF w
<1>7. w \in GoodPeer
  BY <1>2, <1>5, <1>6 DEF GoodPeer
<1> QED
  BY <1>2, <1>4, <1>6, <1>7 DEF r, t

\* A closed slot takes no packet.
LEMMA QueueClosed == \A m : Queue(NoPeer, m) = NoPeer
  BY DEF Queue, NoPeer

\* w is peer p with queue q, or the slot was closed.
Extends(w, p, q) ==
  \/ w = NoPeer
  \/ /\ w.fd = p.fd /\ w.role = p.role /\ w.closing = p.closing
     /\ w.terminating = p.terminating /\ w.q = q

\* queue() once more.
LEMMA QueueExtends ==
  ASSUME NEW p, NEW w \in GoodPeer, NEW q, NEW m \in Queueable, Extends(w, p, q)
  PROVE  Queue(w, m) \in GoodPeer /\ Extends(Queue(w, m), p, Append(q, m))
<1>1. CASE w = NoPeer
  BY <1>1, QueueClosed, NoPeerGood DEF Extends
<1>2. CASE w # NoPeer
  BY <1>2, QueueCases DEF Extends
<1> QED
  BY <1>1, <1>2

\* The queue a new subscriber starts with.
WelcomePackets(q, role, st) ==
  LET attached == Append(Append(q, WithStatus(role, next, st)), WithStatus("ATTACHED", next, st))
      gap == IF next > 0 THEN Append(attached, WithStatus("GAP", st.oldest, st)) ELSE attached
  IN IF ~childLive /\ eof THEN Append(gap, WithStatus("EXIT", next, st)) ELSE gap

\* A peer that is let in gets its welcome at the end of its queue.
LEMMA WelcomeExtends ==
  ASSUME NEW p \in GoodPeer, NEW role \in {"CONTROL", "OBSERVER"}, NEW st \in Status,
         next \in Nat
  PROVE  /\ Welcome(p, role, st) \in GoodPeer
         /\ Extends(Welcome(p, role, st), p, WelcomePackets(p.q, role, st))
<1> DEFINE m1 == WithStatus(role, next, st)
           m2 == WithStatus("ATTACHED", next, st)
           m3 == WithStatus("GAP", st.oldest, st)
           m4 == WithStatus("EXIT", next, st)
<1>1. m1 \in Queueable /\ m2 \in Queueable /\ m3 \in Queueable /\ m4 \in Queueable
  <2>1. st.oldest \in Nat
    BY DEF Status
  <2>2. {role, "ATTACHED", "GAP", "EXIT"} \subseteq
          (RequestTypes \cup EventTypes) \ {"OUTPUT", "CAPTURE", "TERMINATE"}
    BY DEF RequestTypes, EventTypes
  <2> QED
    BY <2>1, <2>2, StatusPacket
<1>2. Extends(p, p, p.q)
  BY DEF Extends
<1> HIDE DEF m1, m2, m3, m4
<1> DEFINE A == Queue(Queue(p, m1), m2)
           a == Append(Append(p.q, m1), m2)
           G == IF next > 0 THEN Queue(A, m3) ELSE A
           g == IF next > 0 THEN Append(a, m3) ELSE a
<1>3. A \in GoodPeer /\ Extends(A, p, a)
  BY <1>1, <1>2, QueueExtends
<1> HIDE DEF A, a
<1>4. G \in GoodPeer /\ Extends(G, p, g)
  BY <1>1, <1>3, QueueExtends
<1>5. Queue(G, m4) \in GoodPeer /\ Extends(Queue(G, m4), p, Append(g, m4))
  <2> HIDE DEF G, g
  <2> QED
    BY <1>1, <1>4, QueueExtends
<1>6. Welcome(p, role, st) = IF ~childLive /\ eof THEN Queue(G, m4) ELSE G
  BY Zenon DEF Welcome, A, m1, m2, m3, m4
<1>7. WelcomePackets(p.q, role, st) = IF ~childLive /\ eof THEN Append(g, m4) ELSE g
  BY Zenon DEF WelcomePackets, a, m1, m2, m3, m4
<1> HIDE DEF G, g
<1>8. CASE ~childLive /\ eof
  BY <1>5, <1>6, <1>7, <1>8, Zenon
<1>9. CASE ~(~childLive /\ eof)
  BY <1>4, <1>6, <1>7, <1>9, Zenon
<1> QED
  BY <1>8, <1>9

-----------------------------------------------------------------------------
(* The type invariant, with what it takes to keep it: exact packets and    *)
(* byte counts, and a history ring that holds the last bytes.              *)

RxPackets == \A c \in Conns : conn[c].rx \in Seq(Packet)

Base ==
  /\ TypeOK /\ peer \in [Slots -> GoodPeer] /\ RxPackets /\ Window(hist, next)

\* The slots that satisfy a condition can be counted.
LEMMA SlotsFinite ==
  ASSUME NEW S \in SUBSET Slots
  PROVE  IsFiniteSet(S) /\ Cardinality(S) \in Nat
<1>1. IsFiniteSet(Slots)
  BY Sizes, FS_Interval DEF Slots
<1>2. IsFiniteSet(S)
  BY <1>1, FS_Subset
<1> QED
  BY <1>2, FS_CardinalityType

\* The status that peers are told has its type.
LEMMA StatusOfType ==
  ASSUME TypeOK, NEW ps, NEW g \in Nat
  PROVE  /\ StatusOf(ps, g) \in Status
         /\ \A r, t \in BOOLEAN :
              [StatusOf(ps, g) EXCEPT !.running = r, !.stopping = t] \in Status
<1>1. /\ Cardinality(Holding(ps, "CONTROL")) \in Nat
      /\ Cardinality(Holding(ps, "OBSERVER")) \in Nat
  <2>1. Holding(ps, "CONTROL") \in SUBSET Slots /\ Holding(ps, "OBSERVER") \in SUBSET Slots
    BY DEF Holding
  <2> QED
    BY <2>1, SlotsFinite
<1>2. childLive \in BOOLEAN /\ stopping \in BOOLEAN /\ next \in Nat
  BY DEF TypeOK
<1>3. Oldest(next) \in Nat
  BY <1>2, Sizes DEF Oldest
<1>4. StatusOf(ps, g) \in Status
  BY <1>1, <1>2, <1>3 DEF StatusOf, Status
<1> HIDE DEF Status
<1>5. ASSUME NEW r \in BOOLEAN, NEW t \in BOOLEAN
      PROVE  [StatusOf(ps, g) EXCEPT !.running = r, !.stopping = t] \in Status
  BY <1>4 DEF Status
<1> QED
  BY <1>4, <1>5

\* The answer to CAPTURE is a packet with exactly the bytes it names, or an error.
LEMMA CaptureReplyPacket ==
  ASSUME Base, NEW off \in Nat, NEW end \in Nat
  PROVE  CaptureReply(off, end) \in Queueable
<1>1. /\ hist \in [0 .. History - 1 -> Nat] /\ next \in Nat /\ Window(hist, next)
  BY DEF Base, TypeOK
<1>2. Oldest(next) \in Nat
  BY <1>1, Sizes DEF Oldest
<1> DEFINE a == CaptureAnswer(hist, next, off, end)
           n == Min({end - off, Chunk})
<1>3. CASE off < Oldest(next)
  <2>1. CaptureReply(off, end) = Plain("CAPTURE", "EOVERFLOW", Oldest(next))
    BY <1>3 DEF CaptureReply, CaptureAnswer
  <2>2. Plain("CAPTURE", "EOVERFLOW", Oldest(next)) \in Packet
    BY <1>2, PlainPacket DEF RequestTypes, Errors
  <2>3. Plain("CAPTURE", "EOVERFLOW", Oldest(next)).type # "TERMINATE"
    BY DEF Plain
  <2> QED
    BY <2>1, <2>2, <2>3, Zenon DEF Queueable
<1>4. CASE ~(off < Oldest(next)) /\ (end > next \/ end < off)
  <2>1. CaptureReply(off, end) = Plain("CAPTURE", "EINVAL", 0)
    BY <1>4 DEF CaptureReply, CaptureAnswer
  <2>2. Plain("CAPTURE", "EINVAL", 0) \in Packet
    BY PlainPacket DEF RequestTypes, Errors
  <2>3. Plain("CAPTURE", "EINVAL", 0).type # "TERMINATE"
    BY DEF Plain
  <2> QED
    BY <2>1, <2>2, <2>3, Zenon DEF Queueable
<1>5. CASE ~(off < Oldest(next)) /\ ~(end > next \/ end < off)
  <2> DEFINE d == RingGet(hist, History, off, n)
  <2>1. CaptureReply(off, end) = Bytes("CAPTURE", off, d)
    BY <1>5 DEF CaptureReply, CaptureAnswer
  <2>2. n \in Nat /\ Oldest(next) <= off /\ off + n <= next
    <3>1. n = IF end - off <= Chunk THEN end - off ELSE Chunk
      BY Sizes, MinPair
    <3> HIDE DEF n
    <3> QED
      BY <1>1, <1>2, <1>5, <3>1, Sizes
  <2> HIDE DEF n
  <2>3. d \in Seq(Nat) /\ Len(d) = n /\ \A i \in 1 .. n : d[i] = off + i - 1
    BY <1>1, <2>2, WindowRead
  <2> HIDE DEF d
  <2>4. Bytes("CAPTURE", off, d) \in Queueable
    BY <2>3, BytesPacket
  <2> QED
    BY <2>1, <2>4
<1> QED
  BY <1>3, <1>4, <1>5

\* The request that handle_request works on.
LEMMA ServedRequest ==
  ASSUME Base, pc = "serve"
  PROVE  /\ cur \in Slots /\ Peer \in GoodPeer /\ Peer = peer[cur] /\ Peer.fd \in Conns
         /\ Peer.fd # NoConn /\ conn[Peer.fd] \in ConnType /\ conn[Peer.fd].inbox \in Seq(Requests)
         /\ conn[Peer.fd].inbox # <<>> =>
              /\ Asked \in Request /\ Asked.type \in RequestTypes
              /\ Asked.a \in Nat /\ Asked.b \in Nat
              /\ Tail(conn[Peer.fd].inbox) \in Seq(Requests)
<1>1. cur \in Slots /\ Peer \in GoodPeer /\ Peer = peer[cur] /\ Peer.fd # NoConn
  BY DEF Base, TypeOK, Peer
<1>2. Peer.fd \in Conns
  BY <1>1 DEF GoodPeer, PeerType
<1>3. conn[Peer.fd] \in ConnType
  BY <1>2 DEF Base, TypeOK
<1>4. conn[Peer.fd].inbox \in Seq(Requests)
  BY <1>3 DEF ConnType
<1>5. ASSUME conn[Peer.fd].inbox # <<>>
      PROVE  Asked \in Request /\ Tail(conn[Peer.fd].inbox) \in Seq(Requests)
  <2>1. Asked \in Requests /\ Tail(conn[Peer.fd].inbox) \in Seq(Requests)
    BY <1>4, <1>5 DEF Asked
  <2> QED
    BY <2>1, BrokerAssumption
<1>6. Asked \in Request => Asked.type \in RequestTypes /\ Asked.a \in Nat /\ Asked.b \in Nat
  BY DEF Request
<1> QED
  BY <1>1, <1>2, <1>3, <1>4, <1>5, <1>6

\* A one-shot reply leaves good peers.
LEMMA RepliedGood ==
  ASSUME Base, pc = "serve", NEW ps \in [Slots -> GoodPeer], ps[cur].fd # NoConn,
         NEW m \in Queueable
  PROVE  /\ Replied(ps, m) \in [Slots -> GoodPeer]
         /\ \A s \in Slots \ {cur} : Replied(ps, m)[s] = ps[s]
         /\ Extends(Replied(ps, m)[cur], [ps[cur] EXCEPT !.closing = TRUE], Append(ps[cur].q, m))
<1>1. cur \in Slots /\ ps[cur] \in GoodPeer
  BY ServedRequest
<1> DEFINE w == [ps[cur] EXCEPT !.closing = TRUE]
<1>2. w \in GoodPeer
  BY <1>1, FlagsGood
<1>3. w.q = ps[cur].q
  BY <1>1 DEF GoodPeer, PeerType
<1>4. Replied(ps, m) = [ps EXCEPT ![cur] = Queue(w, m)]
  BY DEF Replied
<1> HIDE DEF w
<1>5. Extends(w, w, ps[cur].q)
  BY <1>3 DEF Extends
<1>6. Queue(w, m) \in GoodPeer /\ Extends(Queue(w, m), w, Append(ps[cur].q, m))
  BY <1>2, <1>5, QueueExtends
<1> QED
  BY <1>1, <1>4, <1>6 DEF w

\* Every request but OPEN that is granted, RESIZE that is done and TERMINATE is
\* answered by one packet of its own type.
Answered == \/ ServeStatus \/ ServeOpenRefused \/ ServeResizeRefused
            \/ ServeInputRefused \/ ServeInput \/ ServeCapture \/ ServeUnknown

\* A request that is answered at once was due, and gets one reply of its type.
LEMMA AnsweredCases ==
  ASSUME Base, Answered
  PROVE  /\ Accepts(Asked.type)
         /\ \E m \in Queueable : m.type = Asked.type /\ Handled(Replied(peer, m))
<1>1. ASSUME NEW type \in {"CONTROL", "OBSERVER", "RESIZE", "INPUT", "UNKNOWN"},
             NEW err \in Errors
      PROVE  Plain(type, err, 0) \in Queueable /\ Plain(type, err, 0).type = type
  <2>1. Plain(type, err, 0) \in Packet
    BY PlainPacket DEF RequestTypes
  <2>2. Plain(type, err, 0).type = type
    BY DEF Plain
  <2> QED
    BY <2>1, <2>2 DEF Queueable
<1>2. {"0", "ESHUTDOWN", "EBUSY", "EINVAL", "EPIPE", "EIO", "EAGAIN"} \subseteq Errors
  BY DEF Errors
<1>3. CASE ServeStatus
  <2>1. geom \in Nat /\ TypeOK
    BY DEF Base, TypeOK
  <2>2. WithStatus("STATUS", 0, StatusOf(peer, geom)) \in Queueable
    BY <2>1, StatusOfType, StatusPacket DEF RequestTypes
  <2>3. WithStatus("STATUS", 0, StatusOf(peer, geom)).type = "STATUS"
    BY DEF WithStatus
  <2> QED
    BY <1>3, <2>2, <2>3 DEF ServeStatus, Accepts
<1>4. CASE ServeOpenRefused
  <2>1. PICK role \in {"CONTROL", "OBSERVER"} :
          /\ Accepts(role)
          /\ \/ Handled(Replied(peer, Plain(role, "ESHUTDOWN", 0)))
             \/ Handled(Replied(peer, Plain(role, "EBUSY", 0)))
    BY <1>4, Zenon DEF ServeOpenRefused
  <2>2. Asked.type = role
    BY <2>1 DEF Accepts
  <2> QED
    BY <1>1, <1>2, <2>1, <2>2
<1>5. CASE ServeResizeRefused
  <2>1. /\ Accepts("RESIZE")
        /\ \/ Handled(Replied(peer, Plain("RESIZE", "EINVAL", 0)))
           \/ Handled(Replied(peer, Plain("RESIZE", "EPIPE", 0)))
           \/ Handled(Replied(peer, Plain("RESIZE", "EIO", 0)))
    BY <1>5, Zenon DEF ServeResizeRefused
  <2>2. Asked.type = "RESIZE"
    BY <2>1 DEF Accepts
  <2> QED
    BY <1>1, <1>2, <2>1, <2>2
<1>6. CASE ServeInputRefused \/ ServeInput
  <2>1. /\ Accepts("INPUT")
        /\ \/ Handled(Replied(peer, Plain("INPUT", "EPIPE", 0)))
           \/ Handled(Replied(peer, Plain("INPUT", "EAGAIN", 0)))
           \/ Handled(Replied(peer, Plain("INPUT", "0", 0)))
    BY <1>6, Zenon DEF ServeInputRefused, ServeInput
  <2>2. Asked.type = "INPUT"
    BY <2>1 DEF Accepts
  <2> QED
    BY <1>1, <1>2, <2>1, <2>2
<1>7. CASE ServeCapture
  <2>1. Accepts("CAPTURE") /\ Handled(Replied(peer, CaptureReply(Asked.a, Asked.b)))
    BY <1>7 DEF ServeCapture
  <2>2. Asked.type = "CAPTURE" /\ pc = "serve" /\ conn[Peer.fd].inbox # <<>>
    BY <2>1 DEF Accepts
  <2>3. Asked.a \in Nat /\ Asked.b \in Nat
    BY <2>2, ServedRequest
  <2>4. CaptureReply(Asked.a, Asked.b) \in Queueable
    BY <2>3, CaptureReplyPacket
  <2>5. CaptureReply(Asked.a, Asked.b).type = "CAPTURE"
    BY DEF CaptureReply, Bytes, Plain
  <2> QED
    BY <2>1, <2>2, <2>4, <2>5
<1>8. CASE ServeUnknown
  <2>1. Accepts("UNKNOWN") /\ Handled(Replied(peer, Plain("UNKNOWN", "EINVAL", 0)))
    BY <1>8 DEF ServeUnknown
  <2>2. Asked.type = "UNKNOWN"
    BY <2>1 DEF Accepts
  <2> QED
    BY <1>1, <1>2, <2>1, <2>2
<1> QED
  BY <1>3, <1>4, <1>5, <1>6, <1>7, <1>8 DEF Answered

\* A granted OPEN: the slot takes the role and the queue starts with a welcome.
LEMMA GrantedCases ==
  ASSUME Base, ServeOpenGranted
  PROVE  \E role \in {"CONTROL", "OBSERVER"}, w \in GoodPeer, st \in Status :
           /\ Accepts(role) /\ ~stopping /\ ~Taken(role)
           /\ Extends(w, [peer[cur] EXCEPT !.role = role], WelcomePackets(peer[cur].q, role, st))
           /\ Handled([peer EXCEPT ![cur] = w])
<1>1. PICK role \in {"CONTROL", "OBSERVER"} :
        /\ Accepts(role) /\ ~stopping /\ ~Taken(role)
        /\ LET ps == [peer EXCEPT ![cur].role = role]
           IN Handled([ps EXCEPT ![cur] = Welcome(@, role, StatusOf(ps, geom))])
  BY DEF ServeOpenGranted
<1>2. cur \in Slots /\ peer[cur] \in GoodPeer /\ peer[cur].fd # NoConn /\ pc = "serve"
  BY <1>1, ServedRequest DEF Accepts
<1> DEFINE p == [peer[cur] EXCEPT !.role = role]
           ps == [peer EXCEPT ![cur] = p]
           st == StatusOf(ps, geom)
           w == Welcome(p, role, st)
<1>3. p \in GoodPeer /\ p.q = peer[cur].q
  <2>1. p \in GoodPeer
    BY <1>2, FlagsGood
  <2> QED
    BY <1>2, <2>1 DEF GoodPeer, PeerType
<1>4. TypeOK /\ geom \in Nat /\ next \in Nat /\ peer \in [Slots -> GoodPeer]
  BY DEF Base, TypeOK
<1>5. st \in Status
  BY <1>4, StatusOfType
<1>6. [peer EXCEPT ![cur].role = role] = ps
  BY DEF Base
<1> HIDE DEF p
<1>7. ps[cur] = p /\ [ps EXCEPT ![cur] = w] = [peer EXCEPT ![cur] = w]
  BY <1>2, <1>4
<1>8. Handled([peer EXCEPT ![cur] = w])
  <2> DEFINE h == [ps EXCEPT ![cur] = Welcome(ps[cur], role, StatusOf(ps, geom))]
  <2>1. Handled(h)
    BY <1>1, <1>6
  <2>2. h = [peer EXCEPT ![cur] = w]
    BY <1>7
  <2> HIDE DEF h
  <2> QED
    BY <2>1, <2>2
<1> HIDE DEF ps, st
<1>9. w \in GoodPeer /\ Extends(w, p, WelcomePackets(p.q, role, st))
  BY <1>3, <1>4, <1>5, WelcomeExtends
<1> HIDE DEF w
<1> QED
  BY <1>1, <1>3, <1>5, <1>8, <1>9 DEF p

\* A RESIZE that is done: the subscribers are told, then the request is answered.
LEMMA ResizeCases ==
  ASSUME Base, ServeResize
  PROVE  /\ Accepts("RESIZE") /\ ~eof
         /\ \E m \in Queueable, r \in Queueable :
              /\ m.type = "GEOMETRY" /\ r.type = "RESIZE"
              /\ Broadcast(peer, m)[cur] = peer[cur]
              /\ Handled(Replied(Broadcast(peer, m), r))
<1> DEFINE m == WithStatus("GEOMETRY", next, StatusOf(peer, Asked.a))
           r == Plain("RESIZE", "0", 0)
<1>1. Accepts("RESIZE") /\ ~eof /\ Handled(Replied(Broadcast(peer, m), r))
  BY Zenon DEF ServeResize
<1>2. pc = "serve" /\ conn[Peer.fd].inbox # <<>> /\ Peer.role = "none"
  BY <1>1 DEF Accepts
<1>3. Asked.a \in Nat /\ cur \in Slots
  BY <1>2, ServedRequest
<1>4. m \in Queueable
  <2>1. TypeOK /\ next \in Nat
    BY DEF Base, TypeOK
  <2> QED
    BY <1>3, <2>1, StatusOfType, StatusPacket DEF EventTypes
<1>5. r \in Queueable
  <2>1. r \in Packet
    BY PlainPacket DEF RequestTypes, Errors
  <2>2. r.type # "TERMINATE"
    BY DEF Plain
  <2> QED
    BY <2>1, <2>2 DEF Queueable
<1>6. m.type = "GEOMETRY" /\ r.type = "RESIZE"
  BY DEF WithStatus, Plain
<1>7. Broadcast(peer, m)[cur] = peer[cur]
  BY <1>2, <1>3 DEF Broadcast, Peer
<1> HIDE DEF m, r
<1> QED
  BY <1>1, <1>4, <1>5, <1>6, <1>7

\* handle_request leaves a table of good peers; what it has sent does not change.
LEMMA HandleRequestTables ==
  ASSUME Base, HandleRequest
  PROVE  /\ peer' \in [Slots -> GoodPeer] /\ conn' \in [Conns -> ConnType]
         /\ \A c \in Conns : conn'[c].rx = conn[c].rx /\ conn'[c].st = conn[c].st
         /\ backlog' = backlog /\ cur' = cur /\ pc = "serve" /\ pc' = "flush"
<1>1. ASSUME NEW ps \in [Slots -> GoodPeer], NEW type, Accepts(type), Handled(ps)
      PROVE  /\ peer' \in [Slots -> GoodPeer] /\ conn' \in [Conns -> ConnType]
             /\ \A c \in Conns : conn'[c].rx = conn[c].rx /\ conn'[c].st = conn[c].st
             /\ backlog' = backlog /\ cur' = cur /\ pc = "serve" /\ pc' = "flush"
  <2>1. pc = "serve" /\ conn[Peer.fd].inbox # <<>>
    BY <1>1 DEF Accepts
  <2>2. cur \in Slots /\ Peer.fd \in Conns /\ Tail(conn[Peer.fd].inbox) \in Seq(Requests)
        /\ Asked.type \in RequestTypes /\ conn[Peer.fd] \in ConnType
    BY <2>1, ServedRequest
  <2>3. peer' \in [Slots -> GoodPeer]
    BY <1>1, <2>2, NoPeerGood DEF Handled
  <2>4. conn \in [Conns -> ConnType]
    BY DEF Base, TypeOK
  <2> DEFINE k == [conn[Peer.fd] EXCEPT !.inbox = Tail(conn[Peer.fd].inbox), !.asked = Asked.type]
  <2>5. conn' = [conn EXCEPT ![Peer.fd] = k]
    BY <1>1, <2>2, <2>4 DEF Handled
  <2>6. k \in ConnType /\ k.rx = conn[Peer.fd].rx /\ k.st = conn[Peer.fd].st
    BY <2>2 DEF ConnType
  <2> HIDE DEF k
  <2>7. conn' \in [Conns -> ConnType]
    BY <2>4, <2>5, <2>6
  <2>8. \A c \in Conns : conn'[c].rx = conn[c].rx /\ conn'[c].st = conn[c].st
    BY <2>4, <2>5, <2>6
  <2>9. backlog' = backlog /\ cur' = cur /\ pc' = "flush"
    BY <1>1 DEF Handled
  <2> QED
    BY <2>1, <2>3, <2>7, <2>8, <2>9
<1>2. peer \in [Slots -> GoodPeer] /\ conn \in [Conns -> ConnType]
  BY DEF Base, TypeOK
<1>3. CASE ServeRefuse
  <2>1. pc = "serve"
    BY <1>3 DEF ServeRefuse
  <2>2. cur \in Slots /\ Peer.fd \in Conns /\ conn[Peer.fd] \in ConnType
    BY <2>1, ServedRequest
  <2>3. peer' \in [Slots -> GoodPeer]
    BY <1>2, <1>3, <2>2, NoPeerGood DEF ServeRefuse
  <2> DEFINE k == [conn[Peer.fd] EXCEPT !.inbox = <<>>]
  <2>4. conn' = [conn EXCEPT ![Peer.fd] = k]
    BY <1>2, <1>3 DEF ServeRefuse
  <2>5. <<>> \in Seq(Requests)
    OBVIOUS
  <2>6. k \in ConnType /\ k.rx = conn[Peer.fd].rx /\ k.st = conn[Peer.fd].st
    BY <2>2, <2>5 DEF ConnType
  <2> HIDE DEF k
  <2>7. conn' \in [Conns -> ConnType]
    BY <1>2, <2>4, <2>6
  <2>8. \A c \in Conns : conn'[c].rx = conn[c].rx /\ conn'[c].st = conn[c].st
    BY <1>2, <2>4, <2>6
  <2>9. backlog' = backlog /\ cur' = cur /\ pc' = "flush"
    BY <1>3 DEF ServeRefuse
  <2> QED
    BY <2>1, <2>3, <2>7, <2>8, <2>9
<1>4. CASE Answered
  <2>1. PICK m \in Queueable : Accepts(Asked.type) /\ Handled(Replied(peer, m))
    BY <1>4, AnsweredCases
  <2>2. Replied(peer, m) \in [Slots -> GoodPeer]
    <3>1. pc = "serve"
      BY <2>1 DEF Accepts
    <3>2. peer[cur].fd # NoConn
      BY <3>1, ServedRequest
    <3> QED
      BY <1>2, <3>1, <3>2, RepliedGood
  <2> QED
    BY <1>1, <2>1, <2>2
<1>5. CASE ServeOpenGranted
  <2>1. PICK role \in {"CONTROL", "OBSERVER"}, w \in GoodPeer :
          Accepts(role) /\ Handled([peer EXCEPT ![cur] = w])
    BY <1>5, GrantedCases
  <2>2. [peer EXCEPT ![cur] = w] \in [Slots -> GoodPeer]
    BY <1>2
  <2> QED
    BY <1>1, <2>1, <2>2
<1>6. CASE ServeResize
  <2>1. PICK m \in Queueable, r \in Queueable :
          /\ Accepts("RESIZE") /\ Broadcast(peer, m)[cur] = peer[cur]
          /\ Handled(Replied(Broadcast(peer, m), r))
    BY <1>6, ResizeCases
  <2>2. Broadcast(peer, m) \in [Slots -> GoodPeer]
    BY <1>2, BroadcastCases
  <2>3. Replied(Broadcast(peer, m), r) \in [Slots -> GoodPeer]
    <3>1. pc = "serve"
      BY <2>1 DEF Accepts
    <3>2. peer[cur].fd # NoConn
      BY <3>1, ServedRequest
    <3> QED
      BY <2>1, <2>2, <3>1, <3>2, RepliedGood
  <2> QED
    BY <1>1, <2>1, <2>3
<1>7. CASE ServeTerminate
  <2>1. Accepts("TERMINATE") /\ Handled([peer EXCEPT ![cur].terminating = TRUE])
    BY <1>7 DEF ServeTerminate
  <2>2. pc = "serve"
    BY <2>1 DEF Accepts
  <2>3. peer[cur] \in GoodPeer /\ peer[cur].fd # NoConn
    BY <2>2, ServedRequest
  <2>4. [peer[cur] EXCEPT !.terminating = TRUE] \in GoodPeer
    BY <2>3, FlagsGood
  <2>5. [peer EXCEPT ![cur].terminating = TRUE] \in [Slots -> GoodPeer]
    BY <1>2, <2>4
  <2> QED
    BY <1>1, <2>1, <2>5
<1> QED
  BY <1>3, <1>4, <1>5, <1>6, <1>7 DEF HandleRequest, Answered

\* A turn of the loop may announce the exit, then closes what has expired.
LEMMA LoopTurnCases ==
  ASSUME Base, LoopTurn
  PROVE  /\ childLive' \in BOOLEAN /\ stopping' \in BOOLEAN
         /\ exitSent' = (exitSent \/ Announce(childLive'))
         /\ \E ps \in [Slots -> GoodPeer] :
              /\ peer' = [s \in Slots |-> IF Expired(ps[s]) THEN NoPeer ELSE ps[s]]
              /\ \/ ~Announce(childLive') /\ ps = peer
                 \/ /\ Announce(childLive')
                    /\ \E m \in Queueable : /\ m.type = "EXIT" /\ m.off = next
                                            /\ ps = Broadcast(peer, m)
<1> DEFINE st == [StatusOf(peer, geom) EXCEPT !.running = childLive', !.stopping = Stop]
           m == WithStatus("EXIT", next, st)
           ps == IF Announce(childLive') THEN Broadcast(peer, m) ELSE peer
<1>1. /\ childLive' = (childLive /\ ~ShellReaped) /\ stopping' = Stop
      /\ exitSent' = (exitSent \/ Announce(childLive'))
      /\ peer' = [s \in Slots |-> IF Expired(ps[s]) THEN NoPeer ELSE ps[s]]
  BY Zenon DEF LoopTurn
<1>2. Stop \in BOOLEAN /\ childLive' \in BOOLEAN
  BY <1>1 DEF Stop
<1>3. TypeOK /\ geom \in Nat /\ next \in Nat /\ peer \in [Slots -> GoodPeer]
  BY DEF Base, TypeOK
<1>4. st \in Status
  BY <1>2, <1>3, StatusOfType
<1> HIDE DEF st
<1>5. m \in Queueable
  BY <1>3, <1>4, StatusPacket DEF EventTypes
<1>6. m.type = "EXIT" /\ m.off = next
  BY DEF WithStatus
<1> HIDE DEF m
<1>7. ps \in [Slots -> GoodPeer]
  BY <1>3, <1>5, BroadcastCases
<1>8. \/ ~Announce(childLive') /\ ps = peer
      \/ Announce(childLive') /\ ps = Broadcast(peer, m)
  OBVIOUS
<1> HIDE DEF ps
<1> QED
  BY <1>1, <1>2, <1>5, <1>6, <1>7, <1>8

\* The bytes of one read() are broadcast with their offset.
LEMMA ReadOutputCases ==
  ASSUME Base, ReadOutput
  PROVE  \E n \in 1 .. Chunk, m \in Queueable :
           /\ hist' = RingPut(hist, History, next, next, n) /\ next' = next + n
           /\ n <= ptyOut /\ ptyOut' = ptyOut - n
           /\ m.type = "OUTPUT" /\ m.off = next /\ m.size = n
           /\ peer' = Broadcast(peer, m)
<1>1. PICK n \in 1 .. Min({Chunk, ptyOut}) :
        /\ hist' = RingPut(hist, History, next, next, n)
        /\ next' = next + n
        /\ ptyOut' = ptyOut - n
        /\ peer' = Broadcast(peer, Bytes("OUTPUT", next, [i \in 1 .. n |-> next + i - 1]))
  BY Zenon DEF ReadOutput
<1>2. ptyOut \in Nat /\ next \in Nat
  BY DEF Base, TypeOK
<1>3. n \in 1 .. Chunk /\ n <= ptyOut
  <2>1. Min({Chunk, ptyOut}) = IF Chunk <= ptyOut THEN Chunk ELSE ptyOut
    BY <1>2, Sizes, MinPair
  <2> QED
    BY <1>2, <2>1, Sizes
<1> DEFINE d == [i \in 1 .. n |-> next + i - 1]
           m == Bytes("OUTPUT", next, d)
<1>4. d \in Seq(Nat) /\ Len(d) = n /\ \A i \in 1 .. n : d[i] = next + i - 1
  <2>1. \A i \in 1 .. n : next + i - 1 \in Nat
    BY <1>2
  <2>2. d \in [1 .. n -> Nat] /\ n \in Nat
    BY <1>3, <2>1
  <2> QED
    BY <2>2
<1> HIDE DEF d
<1>5. m \in Queueable
  BY <1>2, <1>4, BytesPacket
<1>6. m.type = "OUTPUT" /\ m.off = next /\ m.size = n
  BY <1>4 DEF Bytes
<1>7. peer' = Broadcast(peer, m)
  BY <1>1 DEF d
<1> HIDE DEF m
<1> QED
  BY <1>1, <1>3, <1>5, <1>6, <1>7

\* A flush moves the first k packets of the queue to the client; the slot is
\* closed only when nothing is left.
LEMMA FlushCases ==
  ASSUME Base, NEW k \in 0 .. FlushQuota, Flush(k)
  PROVE  LET p == peer[cur]
         IN /\ cur \in Slots /\ p \in GoodPeer /\ p.fd # NoConn /\ p.fd \in Conns
            /\ k \in 0 .. Len(p.q) /\ pc = "flush"
            /\ conn' = [conn EXCEPT ![p.fd] =
                          [conn[p.fd] EXCEPT !.rx = conn[p.fd].rx \o SubSeq(p.q, 1, k)]]
            /\ \/ peer' = [peer EXCEPT ![cur] = Flushed(p, k)]
               \/ peer' = [peer EXCEPT ![cur] = NoPeer] /\ k = Len(p.q)
<1> DEFINE p == peer[cur]
           quota == Min({FlushQuota, Len(p.q)})
           done == k = quota /\ p.closing /\ k = Len(p.q)
<1>1. /\ pc = "flush" /\ p.fd # NoConn /\ k <= quota
      /\ conn' = [conn EXCEPT ![p.fd].rx = @ \o SubSeq(p.q, 1, k)]
      /\ peer' = [peer EXCEPT ![cur] = IF done THEN NoPeer ELSE Flushed(@, k)]
  BY Zenon DEF Flush, Peer
<1>2. cur \in Slots /\ p \in GoodPeer /\ peer \in [Slots -> GoodPeer]
  BY <1>1 DEF Base, TypeOK
<1>3. p \in PeerType
  BY <1>2 DEF GoodPeer
<1>4. p.fd \in Conns /\ Len(p.q) \in Nat
  BY <1>1, <1>3 DEF PeerType
<1>5. quota = IF FlushQuota <= Len(p.q) THEN FlushQuota ELSE Len(p.q)
  BY <1>4, Sizes, MinPair
<1>6. k \in 0 .. Len(p.q)
  <2> HIDE DEF p, quota
  <2> QED
    BY <1>1, <1>4, <1>5, Sizes
<1>7. conn' = [conn EXCEPT ![p.fd] =
                 [conn[p.fd] EXCEPT !.rx = conn[p.fd].rx \o SubSeq(p.q, 1, k)]]
  BY <1>1
<1>8. \/ peer' = [peer EXCEPT ![cur] = Flushed(p, k)]
      \/ peer' = [peer EXCEPT ![cur] = NoPeer] /\ k = Len(p.q)
  BY <1>1
<1> HIDE DEF p
<1> QED
  BY <1>1, <1>2, <1>4, <1>6, <1>7, <1>8 DEF p

\* The actions that change the peers, the connections or the backlog.
TableStep ==
  \/ LoopTurn \/ HandleRequest \/ FlushBroken \/ (\E k \in 0 .. FlushQuota : Flush(k))
  \/ AcceptPeer \/ ReadOutput \/ RemoveName \/ Acknowledge
  \/ (\E c \in Conns : Client(c)) \/ (\E s \in Slots : Age(s))

\* Every step changes the table and the sockets in a known way, or not at all.
LEMMA TableFrame ==
  ASSUME [Next]_vars
  PROVE  TableStep \/ UNCHANGED <<peer, conn, backlog>>
<1>1. CASE UNCHANGED vars
  BY <1>1 DEF vars, envVars
<1>2. CASE LoopEnds \/ SignalFails \/ Poll \/ PollInterrupted \/ PollFails \/ Scan
  BY <1>2 DEF LoopEnds, SignalFails, Poll, PollInterrupted, PollFails, Scan, envVars
<1>3. CASE FlushPeer
  BY <1>3 DEF FlushPeer, FlushNothing, TableStep, envVars
<1>4. CASE AcceptDone \/ ForwardInput \/ OutputDone \/ OutputEof
  BY <1>4 DEF AcceptDone, ForwardInput, OutputDone, OutputEof, envVars
<1>5. CASE CleanDone \/ CleanSignals \/ CleanCannotSignal
  BY <1>5 DEF CleanDone, CleanSignals, CleanCannotSignal, CleanStep
<1>6. CASE \E p \in Procs : Process(p)
  BY <1>6 DEF Process, ProcExit, CloseTty, WritePty, Fork, ProcWait, ProcStep
<1>7. CASE StopClock \/ Signal \/ Finished
  BY <1>7 DEF StopClock, Signal, Finished, vars, envVars
<1> QED
  BY <1>1, <1>2, <1>3, <1>4, <1>5, <1>6, <1>7 DEF Next, Service, TableStep

\* What a client does to its connection: nothing of what it has been sent or
\* asked changes, and a connection is in the backlog exactly from Connect on.
LEMMA ClientCases ==
  ASSUME TypeOK, NEW c \in Conns, Client(c)
  PROVE  /\ peer' = peer /\ conn' \in [Conns -> ConnType]
         /\ \A d \in Conns : conn'[d].rx = conn[d].rx /\ conn'[d].asked = conn[d].asked
         /\ \A d \in Conns \ {c} : conn'[d] = conn[d]
         /\ \/ backlog' = backlog /\ conn'[c].st = conn[c].st
            \/ /\ conn[c].st = "idle" /\ conn'[c].st = "backlog"
               /\ backlog' = Append(backlog, c)
<1>1. conn \in [Conns -> ConnType] /\ conn[c] \in ConnType
  BY DEF TypeOK
<1>2. ASSUME NEW k \in ConnType, k.rx = conn[c].rx, k.asked = conn[c].asked,
             conn' = [conn EXCEPT ![c] = k]
      PROVE  /\ conn' \in [Conns -> ConnType] /\ conn'[c] = k
             /\ \A d \in Conns : conn'[d].rx = conn[d].rx /\ conn'[d].asked = conn[d].asked
             /\ \A d \in Conns \ {c} : conn'[d] = conn[d]
  <2>1. \A d \in Conns : conn'[d] = IF d = c THEN k ELSE conn[d]
    BY <1>1, <1>2
  <2>2. conn' \in [Conns -> ConnType]
    BY <1>1, <1>2
  <2> QED
    BY <1>2, <2>1, <2>2
<1>3. CASE Connect(c)
  <2> DEFINE k == [conn[c] EXCEPT !.st = "backlog"]
  <2>1. /\ k \in ConnType /\ k.rx = conn[c].rx /\ k.asked = conn[c].asked /\ k.st = "backlog"
    BY <1>1 DEF ConnType
  <2>2. /\ conn' = [conn EXCEPT ![c] = k] /\ peer' = peer /\ backlog' = Append(backlog, c)
        /\ conn[c].st = "idle"
    BY <1>3 DEF Connect
  <2> HIDE DEF k
  <2> QED
    BY <1>2, <2>1, <2>2
<1>4. CASE HangUp(c)
  <2> DEFINE k == [conn[c] EXCEPT !.shut = TRUE]
  <2>1. /\ k \in ConnType /\ k.rx = conn[c].rx /\ k.asked = conn[c].asked /\ k.st = conn[c].st
    BY <1>1 DEF ConnType
  <2>2. conn' = [conn EXCEPT ![c] = k] /\ peer' = peer /\ backlog' = backlog
    BY <1>4 DEF HangUp
  <2> HIDE DEF k
  <2> QED
    BY <1>2, <2>1, <2>2
<1>5. CASE \E r \in Requests : Send(c, r)
  <2>1. PICK r \in Requests : Send(c, r)
    BY <1>5
  <2> DEFINE k == [conn[c] EXCEPT !.inbox = <<r>>, !.sends = conn[c].sends + 1]
  <2>2. <<r>> \in Seq(Requests)
    OBVIOUS
  <2>3. conn[c].sends + 1 \in Nat
    BY <1>1 DEF ConnType
  <2>4. /\ k \in ConnType /\ k.rx = conn[c].rx /\ k.asked = conn[c].asked /\ k.st = conn[c].st
    BY <1>1, <2>2, <2>3 DEF ConnType
  <2>5. conn' = [conn EXCEPT ![c] = k] /\ peer' = peer /\ backlog' = backlog
    BY <1>1, <2>1 DEF Send
  <2> HIDE DEF k
  <2> QED
    BY <1>2, <2>4, <2>5
<1> QED
  BY <1>3, <1>4, <1>5 DEF Client

\* accept4(): the head of the backlog gets a free slot, or is dropped.
LEMMA AcceptCases ==
  ASSUME Base, AcceptPeer
  PROVE  LET c == Head(backlog)
         IN /\ c \in Conns /\ backlog # <<>> /\ backlog' = Tail(backlog)
            /\ \/ \E s \in Slots :
                    /\ peer[s] = NoPeer /\ peer' = [peer EXCEPT ![s] = [NoPeer EXCEPT !.fd = c]]
                    /\ conn' = [conn EXCEPT ![c] = [conn[c] EXCEPT !.st = "accepted"]]
               \/ /\ peer' = peer
                  /\ conn' = [conn EXCEPT ![c] = [conn[c] EXCEPT !.st = "refused"]]
<1> DEFINE c == Head(backlog)
<1>1. backlog \in Seq(Conns) /\ peer \in [Slots -> GoodPeer] /\ backlog # <<>>
      /\ conn \in [Conns -> ConnType]
  BY DEF Base, TypeOK, AcceptPeer
<1>2. c \in Conns /\ backlog' = Tail(backlog)
  BY <1>1 DEF AcceptPeer
<1>3. CASE FreeSlots # {}
  <2> DEFINE s == Min(FreeSlots)
  <2>1. FreeSlots \in SUBSET Nat
    BY DEF FreeSlots, Slots
  <2>2. s \in FreeSlots
    BY <1>3, <2>1, MinNat
  <2>3. /\ peer' = [peer EXCEPT ![s].fd = c]
        /\ conn' = [conn EXCEPT ![c].st = "accepted"]
    BY <1>3 DEF AcceptPeer
  <2> HIDE DEF s, c
  <2>4. s \in Slots /\ peer[s].fd = NoConn
    BY <2>2 DEF FreeSlots
  <2>5. peer[s] = NoPeer
    BY <1>1, <2>4 DEF GoodPeer
  <2> QED
    BY <1>1, <1>2, <2>3, <2>4, <2>5 DEF c
<1>4. CASE FreeSlots = {}
  BY <1>1, <1>2, <1>4 DEF AcceptPeer
<1> QED
  BY <1>3, <1>4

\* Every step leaves good peers, well-formed connections and exact packets.
LEMMA TablesGood ==
  ASSUME Base, [Next]_vars
  PROVE  /\ peer' \in [Slots -> GoodPeer] /\ conn' \in [Conns -> ConnType]
         /\ RxPackets' /\ backlog' \in Seq(Conns)
<1>1. /\ peer \in [Slots -> GoodPeer] /\ conn \in [Conns -> ConnType]
      /\ backlog \in Seq(Conns) /\ RxPackets /\ TypeOK
  BY DEF Base, TypeOK
<1>2. ASSUME \A c \in Conns : conn'[c].rx = conn[c].rx
      PROVE  RxPackets'
  BY <1>1, <1>2 DEF RxPackets
<1>3. CASE UNCHANGED <<peer, conn, backlog>>
  BY <1>1, <1>2, <1>3
<1>4. CASE LoopTurn
  <2>1. PICK ps \in [Slots -> GoodPeer] :
          peer' = [s \in Slots |-> IF Expired(ps[s]) THEN NoPeer ELSE ps[s]]
    BY <1>4, LoopTurnCases
  <2>2. peer' \in [Slots -> GoodPeer]
    BY <2>1, NoPeerGood
  <2>3. conn' = conn /\ backlog' = backlog
    BY <1>4 DEF LoopTurn
  <2> QED
    BY <1>1, <1>2, <2>2, <2>3
<1>5. CASE HandleRequest
  <2>1. /\ peer' \in [Slots -> GoodPeer] /\ conn' \in [Conns -> ConnType]
        /\ \A c \in Conns : conn'[c].rx = conn[c].rx
        /\ backlog' = backlog
    BY <1>5, HandleRequestTables
  <2> QED
    BY <1>1, <1>2, <2>1
<1>6. CASE FlushBroken
  <2>1. peer' = [peer EXCEPT ![cur] = NoPeer] /\ conn' = conn /\ backlog' = backlog
    BY <1>6 DEF FlushBroken, envVars
  <2>2. peer' \in [Slots -> GoodPeer]
    BY <1>1, <2>1, NoPeerGood
  <2> QED
    BY <1>1, <1>2, <2>1, <2>2
<1>7. CASE \E k \in 0 .. FlushQuota : Flush(k)
  <2>1. PICK k \in 0 .. FlushQuota : Flush(k)
    BY <1>7
  <2> DEFINE p == peer[cur]
             r == conn[p.fd].rx \o SubSeq(p.q, 1, k)
             n == [conn[p.fd] EXCEPT !.rx = r]
  <2>2. /\ cur \in Slots /\ p \in GoodPeer /\ p.fd # NoConn /\ p.fd \in Conns
        /\ k \in 0 .. Len(p.q) /\ conn' = [conn EXCEPT ![p.fd] = n]
        /\ \/ peer' = [peer EXCEPT ![cur] = Flushed(p, k)]
           \/ peer' = [peer EXCEPT ![cur] = NoPeer]
    BY <2>1, FlushCases
  <2>3. backlog' = backlog
    BY <2>1 DEF Flush
  <2> HIDE DEF p
  <2>4. Flushed(p, k) \in GoodPeer /\ SubSeq(p.q, 1, k) \in Seq(Queueable)
    BY <2>2, FlushedGood
  <2>5. peer' \in [Slots -> GoodPeer]
    BY <1>1, <2>2, <2>4, NoPeerGood
  <2>6. r \in Seq(Packet) /\ r \in Seq(Message)
    <3>1. conn[p.fd].rx \in Seq(Packet)
      BY <1>1, <2>2 DEF RxPackets
    <3>2. SubSeq(p.q, 1, k) \in Seq(Packet)
      BY <2>4 DEF Queueable
    <3>3. r \in Seq(Packet)
      BY <3>1, <3>2
    <3> QED
      BY <3>3 DEF Packet
  <2> HIDE DEF r
  <2>7. n \in ConnType /\ n.rx = r
    <3>1. conn[p.fd] \in ConnType
      BY <1>1, <2>2
    <3> QED
      BY <2>6, <3>1 DEF ConnType
  <2> HIDE DEF n
  <2>8. conn' \in [Conns -> ConnType]
    BY <1>1, <2>2, <2>7
  <2>9. RxPackets'
    <3> SUFFICES ASSUME NEW c \in Conns
                 PROVE  conn'[c].rx \in Seq(Packet)
      BY DEF RxPackets
    <3>1. CASE c = p.fd
      BY <1>1, <2>2, <2>6, <2>7, <3>1
    <3>2. CASE c # p.fd
      BY <1>1, <2>2, <3>2 DEF RxPackets
    <3> QED
      BY <3>1, <3>2
  <2> QED
    BY <1>1, <2>3, <2>5, <2>8, <2>9
<1>8. CASE AcceptPeer
  <2> DEFINE c == Head(backlog)
  <2>1. PICK st \in {"accepted", "refused"} :
          /\ c \in Conns /\ backlog # <<>> /\ backlog' = Tail(backlog)
          /\ conn' = [conn EXCEPT ![c] = [conn[c] EXCEPT !.st = st]]
          /\ \/ peer' = peer
             \/ \E s \in Slots : peer' = [peer EXCEPT ![s] = [NoPeer EXCEPT !.fd = c]]
    BY <1>8, AcceptCases
  <2> HIDE DEF c
  <2>2. peer' \in [Slots -> GoodPeer]
    BY <1>1, <2>1, AcceptedGood
  <2> DEFINE n == [conn[c] EXCEPT !.st = st]
  <2>3. n \in ConnType /\ n.rx = conn[c].rx
    <3>1. conn[c] \in ConnType
      BY <1>1, <2>1
    <3> QED
      BY <3>1 DEF ConnType
  <2>4. conn' = [conn EXCEPT ![c] = n]
    BY <2>1
  <2> HIDE DEF n
  <2>5. conn' \in [Conns -> ConnType] /\ \A d \in Conns : conn'[d].rx = conn[d].rx
    BY <1>1, <2>3, <2>4
  <2>6. backlog' \in Seq(Conns)
    BY <1>1, <2>1
  <2> QED
    BY <1>2, <2>2, <2>5, <2>6
<1>9. CASE ReadOutput
  <2>1. PICK m \in Queueable : peer' = Broadcast(peer, m)
    BY <1>9, ReadOutputCases
  <2>2. peer' \in [Slots -> GoodPeer]
    BY <1>1, <2>1, BroadcastCases
  <2>3. conn' = conn /\ backlog' = backlog
    BY <1>9 DEF ReadOutput
  <2> QED
    BY <1>1, <1>2, <2>2, <2>3
<1>10. CASE RemoveName
  <2>1. /\ peer' = peer /\ backlog' = <<>>
        /\ conn' = [c \in Conns |-> IF conn[c].st = "backlog"
                                    THEN [conn[c] EXCEPT !.st = "refused"] ELSE conn[c]]
    BY <1>10 DEF RemoveName
  <2>2. \A c \in Conns : /\ [conn[c] EXCEPT !.st = "refused"] \in ConnType
                         /\ [conn[c] EXCEPT !.st = "refused"].rx = conn[c].rx
    <3> TAKE c \in Conns
    <3>1. conn[c] \in ConnType
      BY <1>1
    <3> QED
      BY <3>1 DEF ConnType
  <2>3. conn' \in [Conns -> ConnType] /\ \A c \in Conns : conn'[c].rx = conn[c].rx
    BY <1>1, <2>1, <2>2
  <2> QED
    BY <1>1, <1>2, <2>1, <2>3
<1>11. CASE Acknowledge
  <2> DEFINE p == peer[cur]
             ack == Plain("TERMINATE", IF result = 0 THEN "0" ELSE "EIO", 0)
             r == Append(conn[p.fd].rx, ack)
             n == [conn[p.fd] EXCEPT !.rx = r]
  <2>1. /\ pc = "ack" /\ peer' = [peer EXCEPT ![cur] = NoPeer] /\ backlog' = backlog
        /\ conn' = IF p.fd # NoConn /\ p.terminating /\ ~conn[p.fd].shut
                   THEN [conn EXCEPT ![p.fd] = n] ELSE conn
    BY <1>11 DEF Acknowledge, Peer
  <2>2. cur \in Slots /\ p \in GoodPeer
    BY <1>1, <2>1 DEF TypeOK
  <2>3. peer' \in [Slots -> GoodPeer]
    BY <1>1, <2>1, NoPeerGood
  <2>4. ack \in Packet
    <3>1. (IF result = 0 THEN "0" ELSE "EIO") \in Errors
      BY DEF Errors
    <3> QED
      BY <3>1, PlainPacket DEF RequestTypes
  <2> HIDE DEF ack, p
  <2>5. CASE p.fd = NoConn \/ ~p.terminating \/ conn[p.fd].shut
    <3>1. conn' = conn
      BY <2>1, <2>5
    <3> QED
      BY <1>1, <1>2, <2>1, <2>3, <3>1
  <2>6. CASE p.fd # NoConn /\ p.terminating /\ ~conn[p.fd].shut
    <3>1. p.fd \in Conns /\ conn' = [conn EXCEPT ![p.fd] = n]
      BY <2>1, <2>2, <2>6 DEF GoodPeer, PeerType
    <3>2. r \in Seq(Packet) /\ r \in Seq(Message)
      <4>1. r \in Seq(Packet)
        BY <1>1, <2>4, <3>1 DEF RxPackets
      <4> QED
        BY <4>1 DEF Packet
    <3> HIDE DEF r
    <3>3. n \in ConnType /\ n.rx = r
      <4>1. conn[p.fd] \in ConnType
        BY <1>1, <3>1
      <4> QED
        BY <3>2, <4>1 DEF ConnType
    <3> HIDE DEF n
    <3>4. conn' \in [Conns -> ConnType]
      BY <1>1, <3>1, <3>3
    <3>5. RxPackets'
      <4> SUFFICES ASSUME NEW c \in Conns
                   PROVE  conn'[c].rx \in Seq(Packet)
        BY DEF RxPackets
      <4>1. CASE c = p.fd
        BY <1>1, <3>1, <3>2, <3>3, <4>1
      <4>2. CASE c # p.fd
        BY <1>1, <3>1, <4>2 DEF RxPackets
      <4> QED
        BY <4>1, <4>2
    <3> QED
      BY <1>1, <2>1, <2>3, <3>4, <3>5
  <2> QED
    BY <2>5, <2>6
<1>12. CASE \E c \in Conns : Client(c)
  <2>1. PICK c \in Conns : Client(c)
    BY <1>12
  <2>2. /\ peer' = peer /\ conn' \in [Conns -> ConnType]
        /\ \A d \in Conns : conn'[d].rx = conn[d].rx
        /\ backlog' = backlog \/ backlog' = Append(backlog, c)
    BY <1>1, <2>1, ClientCases
  <2>3. backlog' \in Seq(Conns)
    BY <1>1, <2>2
  <2> QED
    BY <1>1, <1>2, <2>2, <2>3
<1>13. CASE \E s \in Slots : Age(s)
  <2>1. PICK s \in Slots : Age(s)
    BY <1>13
  <2>2. /\ peer' = [peer EXCEPT ![s] = [peer[s] EXCEPT !.old = TRUE]]
        /\ conn' = conn /\ backlog' = backlog /\ peer[s].fd # NoConn
    BY <2>1 DEF Age, envVars
  <2>3. [peer[s] EXCEPT !.old = TRUE] \in GoodPeer
    BY <1>1, <2>2, FlagsGood
  <2>4. peer' \in [Slots -> GoodPeer]
    BY <1>1, <2>2, <2>3
  <2> QED
    BY <1>1, <1>2, <2>2, <2>4
<1> QED
  BY <1>3, <1>4, <1>5, <1>6, <1>7, <1>8, <1>9, <1>10, <1>11, <1>12, <1>13, TableFrame
  DEF TableStep

\* handle_request touches the tables, geometry, input ring and stop flag only.
LEMMA HandleRequestFrame ==
  ASSUME HandleRequest
  PROVE  /\ UNCHANGED <<cur, tick, rev, eof, exitSent, late, childLive, result, outVars,
                        bound, backlog, proc, ptyOut, stopSignal>>
         /\ pc = "serve" /\ pc' = "flush"
         /\ stopping' \in {stopping, TRUE}
         /\ UNCHANGED geom \/ ServeResize
         /\ UNCHANGED inVars \/ ServeInput
<1>1. CASE ServeRefuse
  BY <1>1 DEF ServeRefuse, flagVars
<1>2. CASE ServeStatus
  BY <1>2 DEF ServeStatus, Handled, Accepts
<1>3. CASE ServeOpenRefused
  BY <1>3 DEF ServeOpenRefused, Handled, Accepts
<1>4. CASE ServeOpenGranted
  <2>1. PICK ps : \E role \in {"CONTROL", "OBSERVER"} :
          Accepts(role) /\ Handled(ps) /\ UNCHANGED <<stopping, geom, inVars>>
    BY <1>4, Zenon DEF ServeOpenGranted
  <2> QED
    BY <2>1 DEF Handled, Accepts
<1>5. CASE ServeResizeRefused
  BY <1>5 DEF ServeResizeRefused, Handled, Accepts
<1>6. CASE ServeResize
  <2>1. PICK ps : Accepts("RESIZE") /\ Handled(ps) /\ UNCHANGED <<stopping, inVars>>
    BY <1>6, Zenon DEF ServeResize
  <2> QED
    BY <1>6, <2>1 DEF Handled, Accepts
<1>7. CASE ServeInputRefused
  BY <1>7 DEF ServeInputRefused, Handled, Accepts
<1>8. CASE ServeInput
  BY <1>8 DEF ServeInput, Handled, Accepts
<1>9. CASE ServeCapture
  BY <1>9 DEF ServeCapture, Handled, Accepts
<1>10. CASE ServeTerminate
  BY <1>10 DEF ServeTerminate, Handled, Accepts
<1>11. CASE ServeUnknown
  BY <1>11 DEF ServeUnknown, Handled, Accepts
<1> QED
  BY <1>1, <1>2, <1>3, <1>4, <1>5, <1>6, <1>7, <1>8, <1>9, <1>10, <1>11 DEF HandleRequest

\* What the clients, the clocks and a signal change.
LEMMA EnvironmentFrame ==
  ASSUME \/ \E c \in Conns : Client(c)
         \/ \E s \in Slots : Age(s)
         \/ StopClock \/ Signal \/ Finished \/ UNCHANGED vars
  PROVE  /\ UNCHANGED <<loopVars, eof, exitSent, stopping, childLive, geom, result, outVars,
                        inVars, bound, proc, ptyOut>>
         /\ late' \in {late, TRUE} /\ stopSignal' \in {stopSignal, TRUE}
<1>1. CASE \E c \in Conns : Client(c)
  BY <1>1 DEF Client, Connect, HangUp, Send, flagVars
<1>2. CASE \E s \in Slots : Age(s)
  BY <1>2 DEF Age, flagVars, envVars
<1>3. CASE StopClock
  BY <1>3 DEF StopClock, envVars
<1>4. CASE Signal
  BY <1>4 DEF Signal, flagVars
<1>5. CASE Finished \/ UNCHANGED vars
  BY <1>5 DEF Finished, vars, flagVars, envVars
<1> QED
  BY <1>1, <1>2, <1>3, <1>4, <1>5

\* What the processes on the PTY change.
LEMMA ProcessFrame ==
  ASSUME \E p \in Procs : Process(p)
  PROVE  /\ UNCHANGED <<loopVars, flagVars, outVars, inVars, bound, stopSignal, peer, conn, backlog>>
         /\ UNCHANGED ptyOut \/ ptyOut' = ptyOut + 1
  BY DEF Process, ProcExit, CloseTty, WritePty, Fork, ProcWait, ProcStep

\* Only these actions touch the input ring.
LEMMA InputFrame ==
  ASSUME [Next]_vars
  PROVE  UNCHANGED inVars \/ ServeInput \/ ForwardInput \/ OutputEof
<1>1. CASE LoopEnds \/ SignalFails \/ LoopTurn \/ Poll \/ PollInterrupted \/ PollFails \/ Scan
  BY <1>1 DEF LoopEnds, SignalFails, LoopTurn, Poll, PollInterrupted, PollFails, Scan
<1>2. CASE HandleRequest
  BY <1>2, HandleRequestFrame
<1>3. CASE FlushPeer \/ AcceptPeer \/ AcceptDone \/ ReadOutput \/ OutputDone
  BY <1>3 DEF FlushPeer, FlushNothing, FlushBroken, Flush, AcceptPeer, AcceptDone, ReadOutput,
              OutputDone
<1>4. CASE CleanDone \/ CleanSignals \/ CleanCannotSignal \/ RemoveName \/ Acknowledge
  BY <1>4 DEF CleanDone, CleanSignals, CleanCannotSignal, CleanStep, RemoveName, Acknowledge
<1> QED
  BY <1>1, <1>2, <1>3, <1>4, EnvironmentFrame, ProcessFrame DEF Next, Service

\* Only these actions touch the history or what waits on the PTY.
LEMMA OutputFrame ==
  ASSUME [Next]_vars
  PROVE  \/ ReadOutput
         \/ UNCHANGED outVars /\ (UNCHANGED ptyOut \/ ptyOut' = ptyOut + 1)
<1>1. CASE LoopEnds \/ SignalFails \/ LoopTurn \/ Poll \/ PollInterrupted \/ PollFails \/ Scan
  BY <1>1 DEF LoopEnds, SignalFails, LoopTurn, Poll, PollInterrupted, PollFails, Scan, envVars
<1>2. CASE HandleRequest
  BY <1>2, HandleRequestFrame
<1>3. CASE FlushPeer \/ AcceptPeer \/ AcceptDone \/ ForwardInput \/ OutputDone \/ OutputEof
  BY <1>3 DEF FlushPeer, FlushNothing, FlushBroken, Flush, AcceptPeer, AcceptDone, ForwardInput,
              OutputDone, OutputEof, envVars
<1>4. CASE CleanDone \/ CleanSignals \/ CleanCannotSignal \/ RemoveName \/ Acknowledge
  BY <1>4 DEF CleanDone, CleanSignals, CleanCannotSignal, CleanStep, RemoveName, Acknowledge
<1> QED
  BY <1>1, <1>2, <1>3, <1>4, EnvironmentFrame, ProcessFrame DEF Next, Service

\* The history ring keeps the last bytes read.
LEMMA HistoryGood ==
  ASSUME Base, [Next]_vars
  PROVE  (next \in Nat /\ hist \in [0 .. History - 1 -> Nat] /\ Window(hist, next) /\ ptyOut \in Nat)'
<1>1. next \in Nat /\ hist \in [0 .. History - 1 -> Nat] /\ Window(hist, next) /\ ptyOut \in Nat
  BY DEF Base, TypeOK
<1>2. CASE UNCHANGED outVars /\ (UNCHANGED ptyOut \/ ptyOut' = ptyOut + 1)
  BY <1>1, <1>2 DEF outVars
<1>3. CASE ReadOutput
  <2>1. PICK n \in 1 .. Chunk : /\ hist' = RingPut(hist, History, next, next, n)
                                /\ next' = next + n /\ n <= ptyOut /\ ptyOut' = ptyOut - n
    BY <1>3, ReadOutputCases
  <2>2. n \in 0 .. Chunk /\ n \in Nat /\ next' \in Nat /\ ptyOut' \in Nat
    BY <1>1, <2>1, Sizes
  <2>3. hist' \in [0 .. History - 1 -> Nat]
    BY <1>1, <2>1, <2>2, RingPutType, Sizes
  <2>4. Window(hist', next')
    BY <1>1, <2>1, <2>2, WindowMoves
  <2> QED
    BY <2>2, <2>3, <2>4
<1> QED
  BY <1>2, <1>3, OutputFrame

-----------------------------------------------------------------------------
(* The input ring.                                                         *)

InputType ==
  /\ inBuf \in [0 .. InputLimit - 1 -> Nat] /\ inHead \in 0 .. InputLimit - 1
  /\ inSize \in 0 .. InputLimit
  /\ accepted \in Nat /\ written \in Seq(Nat) /\ lost \in Nat

\* The smallest of three numbers.
LEMMA MinOfThree ==
  ASSUME NEW a \in Nat, NEW b \in Nat, NEW c \in Nat
  PROVE  /\ Min({a, b, c}) \in Nat
         /\ Min({a, b, c}) <= a /\ Min({a, b, c}) <= b /\ Min({a, b, c}) <= c
<1>1. {a, b, c} \in SUBSET Nat /\ {a, b, c} # {}
  OBVIOUS
<1>2. Min({a, b, c}) \in {a, b, c} /\ \A m \in {a, b, c} : Min({a, b, c}) <= m
  BY <1>1, MinNat
<1> QED
  BY <1>2

\* A ring position does not depend on whole laps.
LEMMA ModAdd ==
  ASSUME NEW H \in Nat \ {0}, NEW a \in Int, NEW b \in Int
  PROVE  ((a % H) + b) % H = (a + b) % H
<1> DEFINE q == a \div H
           r == a % H
           u == (r + b) \div H
           v == (r + b) % H
<1>1. q \in Int /\ r \in Int /\ a = H * q + r
  BY DivMod
<1> HIDE DEF q, r
<1>2. r + b \in Int
  BY <1>1
<1>3. u \in Int /\ v \in 0 .. H - 1 /\ r + b = H * u + v
  BY <1>2, DivMod
<1>4. v = (r + b) % H
  OBVIOUS
<1> HIDE DEF u, v
<1>5. a + b = H * (q + u) + v
  BY <1>1, <1>3
<1>6. q + u \in Int
  BY <1>1, <1>3
<1>7. (H * (q + u) + v) % H = v
  BY <1>3, <1>6, ModUnique
<1> QED
  BY <1>4, <1>5, <1>7 DEF r

\* Writing w bytes to the PTY.
LEMMA ForwardCases ==
  ASSUME InputType, ForwardInput
  PROVE  \/ \E w \in 0 .. inSize :
              /\ w <= InputLimit
              /\ written' = written \o RingGet(inBuf, InputLimit, inHead, w)
              /\ inHead' = (inHead + w) % InputLimit /\ inSize' = inSize - w
              /\ UNCHANGED <<inBuf, accepted, lost>>
         \/ /\ inSize' = 0 /\ lost' = lost + inSize
            /\ UNCHANGED <<inBuf, inHead, accepted, written>>
<1>1. UNCHANGED <<inBuf, accepted>>
  BY DEF ForwardInput
<1>2. CASE \E w \in 0 .. Offered :
             /\ written' = written \o RingGet(inBuf, InputLimit, inHead, w)
             /\ inHead' = (inHead + w) % InputLimit /\ inSize' = inSize - w /\ UNCHANGED lost
  <2>1. Offered \in Nat /\ Offered <= inSize
    <3>1. InputLimit - inHead \in Nat /\ inSize \in Nat /\ Chunk \in Nat
      BY Sizes DEF InputType
    <3> QED
      BY <3>1, MinOfThree DEF Offered
  <2>2. \A w \in 0 .. Offered : w \in 0 .. inSize /\ w <= InputLimit
    BY <2>1, Sizes DEF InputType
  <2> QED
    BY <1>1, <1>2, <2>2
<1>3. CASE inSize' = 0 /\ lost' = lost + inSize /\ UNCHANGED <<inHead, written>>
  BY <1>1, <1>3
<1> QED
  BY <1>2, <1>3 DEF ForwardInput

\* A step that accepts bytes keeps the ring in order.
LEMMA AcceptInput ==
  ASSUME InputType, NEW a \in 0 .. InputLimit - inSize,
         inBuf' = RingPut(inBuf, InputLimit, inHead + inSize, accepted, a),
         inSize' = inSize + a, accepted' = accepted + a,
         UNCHANGED <<inHead, written, lost>>
  PROVE  InputType' /\ (InputFifo => InputFifo')
<1>1. inHead + inSize \in Nat /\ a \in Nat /\ a \in 0 .. InputLimit /\ accepted \in Nat
  BY Sizes DEF InputType
<1>2. inBuf \in [0 .. InputLimit - 1 -> Nat] /\ InputLimit \in Nat \ {0}
  BY Sizes DEF InputType
<1>3. inBuf' \in [0 .. InputLimit - 1 -> Nat]
  BY <1>1, <1>2, RingPutType
<1>7. \A k \in Int :
        /\ inHead + inSize <= k /\ k < inHead + inSize + a =>
             inBuf'[k % InputLimit] = accepted + (k - (inHead + inSize))
        /\ k < inHead + inSize /\ inHead + inSize + a <= k + InputLimit =>
             inBuf'[k % InputLimit] = inBuf[k % InputLimit]
  <2> DEFINE at == inHead + inSize
             first == accepted
  <2>1. at \in Nat /\ first \in Nat
    BY <1>1
  <2> HIDE DEF at, first
  <2>2. \A k \in Int :
          /\ at <= k /\ k < at + a =>
               RingPut(inBuf, InputLimit, at, first, a)[k % InputLimit] = first + (k - at)
          /\ k < at /\ at + a <= k + InputLimit =>
               RingPut(inBuf, InputLimit, at, first, a)[k % InputLimit] = inBuf[k % InputLimit]
    <3> TAKE k \in Int
    <3>1. /\ InputLimit \in Nat \ {0} /\ k \in Int
          /\ at \in Nat /\ first \in Nat /\ a \in 0 .. InputLimit
      BY <1>1, <1>2, <2>1
    <3>2. PutAt(inBuf, InputLimit, at, first, a, k)
      BY ONLY <3>1, RingPutAt
    <3> QED
      BY <3>2, Zenon DEF PutAt
  <2>3. inBuf' = RingPut(inBuf, InputLimit, at, first, a)
    BY DEF at, first
  <2> QED
    BY <2>2, <2>3 DEF at, first
<1>4. InputType'
  BY <1>1, <1>3, Sizes DEF InputType
<1>5. ASSUME InputFifo, NEW i \in 1 .. inSize'
      PROVE  inBuf'[(inHead' + i - 1) % InputLimit] = accepted' - inSize' + i - 1
  <2> DEFINE k == inHead + i - 1
  <2>1. k \in Int /\ i \in Int /\ inHead \in Int /\ inSize \in Int
    BY <1>1, <1>5 DEF InputType
  <2>2. CASE i <= inSize
    <3>1. k < inHead + inSize /\ inHead + inSize + a <= k + InputLimit
      BY <1>1, <1>5, <2>2, Sizes DEF InputType
    <3>2. inBuf'[k % InputLimit] = inBuf[k % InputLimit]
      <4> HIDE DEF k
      <4> QED
        BY <1>7, <2>1, <3>1, Zenon
    <3>3. inBuf[k % InputLimit] = accepted - inSize + i - 1
      <4>1. i \in 1 .. inSize
        BY <2>1, <2>2
      <4> QED
        BY <1>5, <4>1, Zenon DEF InputFifo
    <3> QED
      BY <1>1, <2>1, <3>2, <3>3
  <2>3. CASE inSize < i
    <3>1. inHead + inSize <= k /\ k < inHead + inSize + a
      BY <1>1, <1>5, <2>1, <2>3
    <3>2. inBuf'[k % InputLimit] = accepted + (k - (inHead + inSize))
      <4> HIDE DEF k
      <4> QED
        BY <1>7, <2>1, <3>1, Zenon
    <3>3. accepted + (k - (inHead + inSize)) = accepted' - inSize' + i - 1
      BY <1>1, <2>1
    <3> QED
      BY <3>2, <3>3
  <2> QED
    BY <2>1, <2>2, <2>3
<1>6. ASSUME InputFifo
      PROVE  /\ accepted' = Len(written') + lost' + inSize'
             /\ \A i \in 1 .. Len(written') : written'[i] < accepted' - inSize'
             /\ \A i \in 1 .. Len(written') - 1 : written'[i] < written'[i + 1]
  <2>1. written' = written /\ lost' = lost /\ accepted' - inSize' = accepted - inSize
        /\ accepted' - inSize' = accepted' - inSize'
    BY <1>1 DEF InputType
  <2>2. Len(written) \in Nat /\ lost \in Nat /\ inSize \in Nat
    BY DEF InputType
  <2> QED
    BY <1>1, <1>6, <2>1, <2>2 DEF InputFifo
<1> QED
  BY <1>4, <1>5, <1>6 DEF InputFifo

\* A step that writes bytes to the PTY keeps them in order.
LEMMA WriteInput ==
  ASSUME InputType, NEW w \in 0 .. inSize, w <= InputLimit,
         written' = written \o RingGet(inBuf, InputLimit, inHead, w),
         inHead' = (inHead + w) % InputLimit, inSize' = inSize - w,
         UNCHANGED <<inBuf, accepted, lost>>
  PROVE  InputType' /\ (InputFifo => InputFifo')
<1> DEFINE d == RingGet(inBuf, InputLimit, inHead, w)
           n == Len(written)
<1>1. /\ inBuf \in [0 .. InputLimit - 1 -> Nat] /\ inHead \in Nat /\ w \in Nat
      /\ InputLimit \in Nat \ {0} /\ inSize \in Nat /\ accepted \in Nat /\ lost \in Nat
      /\ written \in Seq(Nat) /\ n \in Nat
  BY Sizes DEF InputType
<1>2. /\ d \in Seq(Nat) /\ Len(d) = w
      /\ \A i \in 1 .. w : d[i] = inBuf[(inHead + i - 1) % InputLimit]
  <2>1. d \in Seq(Nat) /\ Len(d) = w
    <3>1. InputLimit \in Nat \ {0} /\ inBuf \in [0 .. InputLimit - 1 -> Nat] /\ inHead \in Nat
          /\ w \in Nat
      BY <1>1
    <3> QED
      BY ONLY <3>1, RingGetType, SMT
  <2>2. \A i \in 1 .. w : d[i] = inBuf[(inHead + i - 1) % InputLimit]
    BY Zenon DEF RingGet
  <2> QED
    BY <2>1, <2>2
<1>9. written' = written \o d
  OBVIOUS
<1> HIDE DEF d
<1>3. /\ written' \in Seq(Nat) /\ Len(written') = n + w
      /\ \A i \in 1 .. n : written'[i] = written[i]
      /\ \A i \in 1 .. w : written'[n + i] = d[i]
  <2>1. /\ written \o d \in Seq(Nat) /\ Len(written \o d) = Len(written) + Len(d)
        /\ \A i \in 1 .. Len(written) : (written \o d)[i] = written[i]
        /\ \A i \in 1 .. Len(d) : (written \o d)[Len(written) + i] = d[i]
    <3>1. written \in Seq(Nat) /\ d \in Seq(Nat)
      BY <1>1, <1>2
    <3> QED
      BY ONLY <3>1, ConcatAt
  <2> QED
    BY <1>2, <1>9, <2>1, Zenon
<1>4. inHead' \in 0 .. InputLimit - 1
  <2>1. inHead + w \in Int
    BY <1>1
  <2> QED
    BY <1>1, <2>1, DivMod
<1>5. inSize' \in 0 .. InputLimit
  BY <1>1 DEF InputType
<1>6. InputType'
  BY <1>1, <1>3, <1>4, <1>5 DEF InputType
<1>7. ASSUME InputFifo, NEW i \in 1 .. inSize'
      PROVE  inBuf'[(inHead' + i - 1) % InputLimit] = accepted' - inSize' + i - 1
  <2>1. w + i \in 1 .. inSize /\ i \in Int
    BY <1>1, <1>7
  <2>2. inBuf[(inHead + (w + i) - 1) % InputLimit] = accepted - inSize + (w + i) - 1
    BY <1>7, <2>1 DEF InputFifo
  <2>3. (((inHead + w) % InputLimit) + (i - 1)) % InputLimit = ((inHead + w) + (i - 1)) % InputLimit
    <3>1. inHead + w \in Int /\ i - 1 \in Int
      BY <1>1, <2>1
    <3> QED
      BY <1>1, <3>1, ModAdd
  <2>4. inHead' + i - 1 = ((inHead + w) % InputLimit) + (i - 1)
    BY <1>4, <2>1
  <2>5. (inHead + w) + (i - 1) = inHead + (w + i) - 1
    BY <1>1, <2>1
  <2>6. accepted - inSize + (w + i) - 1 = accepted' - inSize' + i - 1
    BY <1>1, <2>1
  <2> QED
    BY <2>2, <2>3, <2>4, <2>5, <2>6
<1>8. ASSUME InputFifo
      PROVE  /\ accepted' = Len(written') + lost' + inSize'
             /\ \A i \in 1 .. Len(written') : written'[i] < accepted' - inSize'
             /\ \A i \in 1 .. Len(written') - 1 : written'[i] < written'[i + 1]
  <2>1. accepted' = Len(written') + lost' + inSize'
    BY <1>1, <1>3, <1>8 DEF InputFifo
  <2>2. \A i \in 1 .. w : written'[n + i] = accepted - inSize + i - 1
    <3> TAKE i \in 1 .. w
    <3>1. i \in 1 .. inSize
      BY <1>1
    <3> QED
      BY <1>2, <1>3, <1>8, <3>1 DEF InputFifo
  <2>3. \A i \in 1 .. n : written'[i] = written[i] /\ written[i] < accepted - inSize
                          /\ written[i] \in Nat
    BY <1>1, <1>3, <1>8 DEF InputFifo
  <2>4. \A i \in 1 .. n + w : i \in 1 .. n \/ (i - n \in 1 .. w /\ i = n + (i - n))
    BY <1>1
  <2>5. \A i \in 1 .. n + w : written'[i] < accepted' - inSize'
    <3> TAKE i \in 1 .. n + w
    <3>1. CASE i \in 1 .. n
      BY <1>1, <2>3, <3>1
    <3>2. CASE i - n \in 1 .. w /\ i = n + (i - n)
      <4>1. written'[i] = accepted - inSize + (i - n) - 1
        BY <2>2, <3>2
      <4> QED
        BY <1>1, <3>2, <4>1
    <3> QED
      BY <2>4, <3>1, <3>2
  <2>6. \A i \in 1 .. n + w - 1 : written'[i] < written'[i + 1]
    <3> TAKE i \in 1 .. n + w - 1
    <3>1. CASE i + 1 \in 1 .. n
      <4>1. i \in 1 .. n /\ i \in 1 .. n - 1
        BY <1>1, <3>1
      <4> QED
        BY <1>8, <2>3, <3>1, <4>1 DEF InputFifo
    <3>2. CASE i = n
      <4>0. 1 \in 1 .. w
        BY <1>1, <3>2
      <4>1. written'[n + 1] = accepted - inSize + 1 - 1
        BY <2>2, <4>0, Zenon
      <4> QED
        BY <1>1, <2>3, <3>2, <4>1
    <3>3. CASE i > n
      <4>1. i - n \in 1 .. w /\ i + 1 - n \in 1 .. w /\ n + (i - n) = i /\ n + (i + 1 - n) = i + 1
        BY <1>1, <3>3
      <4>2. /\ written'[i] = accepted - inSize + (i - n) - 1
            /\ written'[i + 1] = accepted - inSize + (i + 1 - n) - 1
        BY <2>2, <4>1
      <4> QED
        BY <1>1, <4>1, <4>2
    <3>4. i + 1 \in 1 .. n \/ i = n \/ i > n
      BY <1>1
    <3> QED
      BY <3>1, <3>2, <3>3, <3>4
  <2> QED
    BY <1>3, <2>1, <2>5, <2>6
<1> QED
  BY <1>6, <1>7, <1>8 DEF InputFifo

\* A step that throws the ring away.
LEMMA LoseInput ==
  ASSUME InputType, inSize' = 0, lost' = lost + inSize,
         UNCHANGED <<inBuf, inHead, accepted, written>>
  PROVE  InputType' /\ (InputFifo => InputFifo')
<1>1. InputType'
  BY Sizes DEF InputType
<1>2. ASSUME InputFifo
      PROVE  InputFifo'
  <2>1. Len(written) \in Nat /\ accepted \in Nat /\ lost \in Nat /\ inSize \in Nat
        /\ written \in Seq(Nat)
    BY DEF InputType
  <2>2. \A i \in 1 .. Len(written) : written[i] < accepted
    BY <1>2, <2>1 DEF InputFifo
  <2> QED
    BY <1>2, <2>1, <2>2 DEF InputFifo
<1> QED
  BY <1>1, <1>2

\* Every step keeps the types of the input and its order.
LEMMA InputGood ==
  ASSUME Base, InputType, [Next]_vars
  PROVE  InputType' /\ (InputFifo => InputFifo')
<1>1. CASE UNCHANGED inVars
  BY <1>1 DEF inVars, InputType, InputFifo
<1>2. CASE ServeInput
  <2>1. /\ Accepts("INPUT") /\ Asked.a <= Room
        /\ inBuf' = RingPut(inBuf, InputLimit, inHead + inSize, accepted, Asked.a)
        /\ inSize' = inSize + Asked.a /\ accepted' = accepted + Asked.a
        /\ UNCHANGED <<inHead, written, lost>>
    BY <1>2 DEF ServeInput
  <2>2. Asked.a \in Nat
    BY <2>1, ServedRequest DEF Accepts
  <2>3. Asked.a \in 0 .. InputLimit - inSize
    BY <2>1, <2>2, Sizes DEF InputType, Room
  <2> QED
    BY <2>1, <2>3, AcceptInput
<1>3. CASE ForwardInput
  BY <1>3, ForwardCases, WriteInput, LoseInput
<1>4. CASE OutputEof
  BY <1>4, LoseInput DEF OutputEof
<1> QED
  BY <1>1, <1>2, <1>3, <1>4, InputFrame

-----------------------------------------------------------------------------
(* The processes on the PTY.                                               *)

\* Only these change a process.
LEMMA ProcFrame ==
  ASSUME [Next]_vars
  PROVE  \/ UNCHANGED proc \/ proc' = Reaped \/ proc' = Signalled(Reaped, late)
         \/ \E p \in Procs : Process(p)
<1>1. CASE LoopEnds \/ SignalFails \/ LoopTurn \/ Poll \/ PollInterrupted \/ PollFails \/ Scan
  BY <1>1 DEF LoopEnds, SignalFails, LoopTurn, Poll, PollInterrupted, PollFails, Scan, envVars
<1>2. CASE HandleRequest
  BY <1>2, HandleRequestFrame
<1>3. CASE FlushPeer \/ AcceptPeer \/ AcceptDone \/ ForwardInput \/ ReadOutput \/ OutputDone
           \/ OutputEof
  BY <1>3 DEF FlushPeer, FlushNothing, FlushBroken, Flush, AcceptPeer, AcceptDone, ForwardInput,
              ReadOutput, OutputDone, OutputEof, envVars
<1>4. CASE CleanDone \/ CleanSignals \/ CleanCannotSignal \/ RemoveName \/ Acknowledge
  BY <1>4 DEF CleanDone, CleanSignals, CleanCannotSignal, CleanStep, RemoveName, Acknowledge
<1> QED
  BY <1>1, <1>2, <1>3, <1>4, EnvironmentFrame DEF Next, Service

\* Reaping and signalling keep the table a function on the processes.
LEMMA ReapedCases ==
  ASSUME proc \in [Procs -> ProcType]
  PROVE  /\ Reaped \in [Procs -> ProcType]
         /\ \A p \in Procs : /\ proc[p].par = Broker /\ proc[p].st = "zombie" =>
                                  Reaped[p] = [st |-> "gone", par |-> NoProc, tty |-> FALSE]
                             /\ ~(proc[p].par = Broker /\ proc[p].st = "zombie") =>
                                  Reaped[p] = proc[p]
<1>1. [st |-> "gone", par |-> NoProc, tty |-> FALSE] \in ProcType
  BY DEF ProcType
<1> QED
  BY <1>1 DEF Reaped

\* A signal makes live processes die, and leaves the others alone.
LEMMA SignalledCases ==
  ASSUME NEW pr \in [Procs -> ProcType], NEW kill
  PROVE  /\ Signalled(pr, kill) \in [Procs -> ProcType]
         /\ \A p \in Procs : \/ Signalled(pr, kill)[p] = pr[p]
                             \/ /\ pr[p].st = "live"
                                /\ Signalled(pr, kill)[p] = [pr[p] EXCEPT !.st = "dying"]
<1>1. \A p \in Procs : [pr[p] EXCEPT !.st = "dying"] \in ProcType
  <2> TAKE p \in Procs
  <2>1. pr[p] \in ProcType
    OBVIOUS
  <2> QED
    BY <2>1 DEF ProcType
<1> QED
  BY <1>1 DEF Signalled

\* Every step keeps the types of the processes.
LEMMA ProcGood ==
  ASSUME proc \in [Procs -> ProcType], [Next]_vars
  PROVE  proc' \in [Procs -> ProcType]
<1>1. CASE UNCHANGED proc
  BY <1>1
<1>2. CASE proc' = Reaped
  BY <1>2, ReapedCases
<1>3. CASE proc' = Signalled(Reaped, late)
  BY <1>3, ReapedCases, SignalledCases
<1>4. CASE \E p \in Procs : Process(p)
  <2>1. PICK p \in Procs : Process(p)
    BY <1>4
  <2>2. ASSUME NEW q \in Procs
        PROVE  /\ [proc[q] EXCEPT !.tty = FALSE] \in ProcType
               /\ [proc[q] EXCEPT !.st = "zombie", !.tty = FALSE] \in ProcType
               /\ [proc[q] EXCEPT !.par = Reaper] \in ProcType
               /\ [st |-> "gone", par |-> NoProc, tty |-> FALSE] \in ProcType
               /\ [st |-> "live", par |-> q, tty |-> proc[q].tty] \in ProcType
    <3>1. proc[q] \in ProcType
      OBVIOUS
    <3> QED
      BY <3>1 DEF ProcType, Reaper
  <2>3. CASE ProcExit(p)
    BY <2>2, <2>3 DEF ProcExit
  <2>4. CASE CloseTty(p)
    BY <2>2, <2>4 DEF CloseTty
  <2>5. CASE WritePty(p)
    BY <2>5 DEF WritePty
  <2>6. CASE \E q \in Procs : Fork(p, q)
    BY <2>2, <2>6 DEF Fork
  <2>7. CASE \E q \in Procs : ProcWait(p, q)
    BY <2>2, <2>7 DEF ProcWait
  <2> QED
    BY <2>1, <2>3, <2>4, <2>5, <2>6, <2>7 DEF Process
<1> QED
  BY <1>1, <1>2, <1>3, <1>4, ProcFrame

-----------------------------------------------------------------------------
(* The loop and the flags.                                                 *)

LoopType ==
  /\ pc \in PcType /\ cur \in 1 .. NSlots + 1 /\ tick \in Nat
  /\ rev \in [in : SUBSET Slots, hup : SUBSET Slots, lst : BOOLEAN,
              mout : BOOLEAN, min : BOOLEAN]
  /\ pc \in {"serve", "flush", "ack"} => cur \in Slots
  /\ pc = "serve" => peer[cur].fd # NoConn

\* scan goes to a slot that is open.
LEMMA ScanCases ==
  ASSUME TypeOK, Scan
  PROVE  \/ pc' = AfterPeers /\ cur' = 1
         \/ cur' \in Slots /\ pc' \in {"serve", "flush"} /\ peer[cur'].fd # NoConn
<1> DEFINE busy == {s \in Slots : /\ s >= cur /\ peer[s].fd # NoConn
                                  /\ (s \in rev.in \cup rev.hup \/ peer[s].q # <<>>)}
<1>1. IF busy = {} THEN pc' = AfterPeers /\ cur' = 1
      ELSE /\ cur' = Min(busy)
           /\ pc' = IF Min(busy) \in rev.in THEN "serve" ELSE "flush"
  BY Zenon DEF Scan
<1>2. busy \in SUBSET Nat
  BY DEF Slots
<1>3. CASE busy = {}
  BY <1>1, <1>3
<1>4. CASE busy # {}
  <2>1. Min(busy) \in busy
    BY <1>2, <1>4, MinNat
  <2>2. cur' = Min(busy) /\ pc' \in {"serve", "flush"}
    BY <1>1, <1>4
  <2>3. cur' \in busy
    BY <2>1, <2>2
  <2> QED
    BY <2>2, <2>3
<1> QED
  BY <1>3, <1>4

\* Every step keeps the types of the loop's own variables.
LEMMA LoopGood ==
  ASSUME Base, [Next]_vars
  PROVE  LoopType'
<1> USE DEF PcType
<1>1. TypeOK /\ LoopType /\ peer \in [Slots -> GoodPeer]
  BY DEF Base, TypeOK, LoopType
<1>2. 1 \in Slots /\ \A s \in Slots : s \in 1 .. NSlots + 1 /\ s + 1 \in 1 .. NSlots + 1
      /\ (s # NSlots => s + 1 \in Slots)
  BY Sizes DEF Slots
<1>3. /\ AfterPeers \in {"accept", "input", "output", "top"}
      /\ AfterAccept \in {"input", "output", "top"} /\ AfterInput \in {"output", "top"}
  BY DEF AfterPeers, AfterAccept, AfterInput
<1>4. CASE LoopEnds \/ SignalFails \/ LoopTurn \/ PollInterrupted \/ PollFails
  BY <1>1, <1>4 DEF LoopType, LoopEnds, SignalFails, LoopTurn, PollInterrupted, PollFails
<1>5. CASE Poll
  <2>1. tick' = 0 /\ cur' = 1 /\ pc' = "scan"
    BY <1>5 DEF Poll
  <2>2. rev' \in [in : SUBSET Slots, hup : SUBSET Slots, lst : BOOLEAN,
                  mout : BOOLEAN, min : BOOLEAN]
    <3>1. /\ (backlog # <<>>) \in BOOLEAN /\ (~eof /\ (ptyOut > 0 \/ ~TtyHeld)) \in BOOLEAN
          /\ \A w \in BOOLEAN : (w /\ ~eof /\ inSize > 0) \in BOOLEAN
      OBVIOUS
    <3> QED
      BY <1>5, <3>1 DEF Poll, ListenerReady
  <2> QED
    BY <1>2, <2>1, <2>2 DEF LoopType
<1>6. CASE Scan
  <2>1. tick' = tick /\ rev' = rev /\ peer' = peer
    BY <1>6 DEF Scan
  <2>2. CASE pc' = AfterPeers /\ cur' = 1
    BY <1>1, <1>2, <1>3, <2>1, <2>2 DEF LoopType
  <2>3. CASE cur' \in Slots /\ pc' \in {"serve", "flush"} /\ peer[cur'].fd # NoConn
    BY <1>1, <1>2, <2>1, <2>3 DEF LoopType
  <2> QED
    BY <1>1, <1>6, <2>2, <2>3, ScanCases
<1>7. CASE HandleRequest
  BY <1>1, <1>7, HandleRequestFrame DEF LoopType
<1>8. CASE FlushPeer
  <2>1. pc = "flush" /\ pc' = "scan" /\ cur' = cur + 1 /\ tick' = tick /\ rev' = rev
    BY <1>8 DEF FlushPeer, FlushNothing, FlushBroken, Flush
  <2> QED
    BY <1>1, <1>2, <2>1 DEF LoopType
<1>9. CASE AcceptPeer \/ ReadOutput
  <2>1. pc' = pc /\ cur' = cur /\ tick' = tick + 1 /\ rev' = rev /\ pc \in {"accept", "output"}
    BY <1>9 DEF AcceptPeer, ReadOutput
  <2> QED
    BY <1>1, <2>1 DEF LoopType
<1>10. CASE AcceptDone \/ ForwardInput \/ OutputDone \/ OutputEof
  <2>1. /\ pc' \in {"input", "output", "top"} /\ cur' = cur /\ tick' \in {tick, 0} /\ rev' = rev
    BY <1>3, <1>10 DEF AcceptDone, ForwardInput, OutputDone, OutputEof
  <2> QED
    BY <1>1, <2>1 DEF LoopType
<1>11. CASE CleanDone \/ CleanSignals \/ CleanCannotSignal
  <2>1. /\ pc' \in {"remove", pc} /\ pc = "clean" /\ cur' = cur /\ tick' = tick /\ rev' = rev
    BY <1>11 DEF CleanDone, CleanSignals, CleanCannotSignal, CleanStep
  <2> QED
    BY <1>1, <2>1 DEF LoopType
<1>12. CASE RemoveName
  <2>1. pc' = "ack" /\ cur' = 1 /\ tick' = tick /\ rev' = rev
    BY <1>12 DEF RemoveName
  <2> QED
    BY <1>1, <1>2, <2>1 DEF LoopType
<1>13. CASE Acknowledge
  <2>1. /\ pc = "ack" /\ tick' = tick /\ rev' = rev
        /\ \/ pc' = "exited" /\ cur' = 1
           \/ cur # NSlots /\ cur' = cur + 1 /\ pc' = pc
    BY <1>13 DEF Acknowledge
  <2> QED
    BY <1>1, <1>2, <2>1 DEF LoopType
<1>14. CASE UNCHANGED loopVars /\ \A s \in Slots : peer'[s].fd = peer[s].fd
  BY <1>1, <1>14 DEF LoopType, loopVars
<1>15. CASE \E s \in Slots : Age(s)
  <2>1. PICK s \in Slots : Age(s)
    BY <1>15
  <2>2. peer' = [peer EXCEPT ![s] = [peer[s] EXCEPT !.old = TRUE]]
    BY <2>1 DEF Age
  <2>3. [peer[s] EXCEPT !.old = TRUE].fd = peer[s].fd
    <3>1. peer[s] \in PeerType
      BY <1>1 DEF GoodPeer
    <3> QED
      BY <3>1 DEF PeerType
  <2>4. \A t \in Slots : peer'[t].fd = peer[t].fd
    BY <1>1, <2>2, <2>3
  <2> QED
    BY <1>14, <1>15, <2>4, EnvironmentFrame
<1>16. CASE \E c \in Conns : Client(c)
  <2>1. peer' = peer
    BY <1>1, <1>16, ClientCases
  <2> QED
    BY <1>14, <1>16, <2>1, EnvironmentFrame
<1>17. CASE (\E p \in Procs : Process(p))
  BY <1>14, <1>17, ProcessFrame
<1>18. CASE StopClock \/ Signal \/ Finished \/ UNCHANGED vars
  <2>1. peer' = peer
    BY <1>18 DEF StopClock, Signal, Finished, vars
  <2> QED
    BY <1>14, <1>18, <2>1, EnvironmentFrame
<1> QED
  BY <1>4, <1>5, <1>6, <1>7, <1>8, <1>9, <1>10, <1>11, <1>12, <1>13, <1>15, <1>16, <1>17, <1>18
  DEF Next, Service

FlagType ==
  /\ {eof, exitSent, stopping, late, childLive, bound, stopSignal} \subseteq BOOLEAN
  /\ geom \in Nat /\ result \in {-1, 0}

\* Every step keeps the types of the flags.
LEMMA FlagsTyped ==
  ASSUME Base, [Next]_vars
  PROVE  FlagType'
<1>1. FlagType
  BY DEF Base, TypeOK, FlagType
<1>2. CASE LoopEnds \/ SignalFails
  BY <1>1, <1>2 DEF FlagType, LoopEnds, SignalFails
<1>3. CASE LoopTurn
  <2>1. /\ childLive' \in BOOLEAN /\ stopping' \in BOOLEAN /\ exitSent' \in BOOLEAN
    BY <1>3, LoopTurnCases
  <2>2. UNCHANGED <<eof, late, bound, stopSignal, geom, result>>
    BY <1>3 DEF LoopTurn
  <2> QED
    BY <1>1, <2>1, <2>2 DEF FlagType
<1>4. CASE Poll \/ PollInterrupted \/ PollFails \/ Scan
  BY <1>1, <1>4 DEF FlagType, Poll, PollInterrupted, PollFails, Scan, flagVars, envVars
<1>5. CASE HandleRequest
  <2>1. geom' \in Nat
    <3>1. CASE ServeResize
      <4>1. geom' = Asked.a /\ Accepts("RESIZE")
        BY <3>1 DEF ServeResize
      <4> QED
        BY <4>1, ServedRequest DEF Accepts
    <3> QED
      BY <1>1, <1>5, <3>1, HandleRequestFrame DEF FlagType
  <2>2. /\ UNCHANGED <<eof, exitSent, late, childLive, result, bound, stopSignal>>
        /\ stopping' \in {stopping, TRUE}
    BY <1>5, HandleRequestFrame
  <2> QED
    BY <1>1, <2>1, <2>2 DEF FlagType
<1>6. CASE FlushPeer \/ AcceptPeer \/ AcceptDone \/ ForwardInput \/ ReadOutput \/ OutputDone
           \/ OutputEof
  BY <1>1, <1>6 DEF FlagType, FlushPeer, FlushNothing, FlushBroken, Flush, AcceptPeer, AcceptDone,
              ForwardInput, ReadOutput, OutputDone, OutputEof, envVars, flagVars
<1>7. CASE CleanDone \/ CleanSignals \/ CleanCannotSignal
  <2>1. /\ UNCHANGED <<eof, exitSent, late, geom, result, bound, stopSignal>>
        /\ childLive' \in BOOLEAN /\ stopping' \in {stopping, TRUE}
    BY <1>7 DEF CleanDone, CleanSignals, CleanCannotSignal, CleanStep
  <2> QED
    BY <1>1, <2>1 DEF FlagType
<1>8. CASE RemoveName \/ Acknowledge
  BY <1>1, <1>8 DEF FlagType, RemoveName, Acknowledge, flagVars
<1>9. CASE \/ \E c \in Conns : Client(c)
           \/ \E s \in Slots : Age(s)
           \/ StopClock \/ Signal \/ Finished \/ UNCHANGED vars
  BY <1>1, <1>9, EnvironmentFrame DEF FlagType
<1>10. CASE \E p \in Procs : Process(p)
  BY <1>1, <1>10, ProcessFrame DEF FlagType, flagVars
<1> QED
  BY <1>2, <1>3, <1>4, <1>5, <1>6, <1>7, <1>8, <1>9, <1>10 DEF Next, Service

-----------------------------------------------------------------------------
(* The first invariant: types, byte counts and exact packets.              *)

\* TypeOK taken apart.
LEMMA TypeParts ==
  TypeOK <=> /\ LoopType /\ FlagType /\ InputType
             /\ peer \in [Slots -> PeerType] /\ conn \in [Conns -> ConnType]
             /\ backlog \in Seq(Conns) /\ proc \in [Procs -> ProcType]
             /\ next \in Nat /\ hist \in [0 .. History - 1 -> Nat] /\ ptyOut \in Nat
  BY DEF TypeOK, LoopType, FlagType, InputType

\* The broker starts in the invariant.
LEMMA InitBase == Init => Base /\ InputFifo
<1> SUFFICES ASSUME Init
             PROVE  Base /\ InputFifo
  OBVIOUS
<1>1. peer \in [Slots -> GoodPeer] /\ \A s \in Slots : peer[s] = NoPeer
  BY NoPeerGood DEF Init
<1>2. peer \in [Slots -> PeerType]
  BY <1>1 DEF GoodPeer
<1>3. LoopType
  BY Sizes DEF Init, LoopType, PcType
<1>4. FlagType
  BY DEF Init, FlagType
<1>5. InputType /\ InputFifo
  <2>1. InputType
    BY Sizes DEF Init, InputType
  <2>2. accepted = 0 /\ written = <<>> /\ lost = 0 /\ inSize = 0
    BY DEF Init
  <2> QED
    BY <2>1, <2>2 DEF InputFifo
<1>6. conn \in [Conns -> ConnType] /\ RxPackets
  <2> DEFINE k == [st |-> "idle", inbox |-> <<>>, sends |-> 0, asked |-> "none",
                   shut |-> FALSE, rx |-> <<>>]
  <2>1. k \in ConnType /\ k.rx = <<>>
    BY DEF ConnType
  <2>2. conn = [c \in Conns |-> k]
    BY DEF Init
  <2> HIDE DEF k
  <2>3. conn \in [Conns -> ConnType] /\ \A c \in Conns : conn[c].rx = <<>>
    BY <2>1, <2>2
  <2>4. <<>> \in Seq(Packet)
    OBVIOUS
  <2> QED
    BY <2>3, <2>4, Zenon DEF RxPackets
<1>7. backlog \in Seq(Conns)
  BY DEF Init
<1>8. proc \in [Procs -> ProcType]
  BY DEF Init, ProcType
<1>9. next \in Nat /\ hist \in [0 .. History - 1 -> Nat] /\ ptyOut \in Nat /\ Window(hist, next)
  BY Sizes DEF Init, Window, Oldest
<1> QED
  BY <1>1, <1>2, <1>3, <1>4, <1>5, <1>6, <1>7, <1>8, <1>9, TypeParts DEF Base

\* Every step keeps it.
LEMMA NextBase ==
  ASSUME Base, InputFifo, [Next]_vars
  PROVE  Base' /\ InputFifo'
<1>1. InputType /\ proc \in [Procs -> ProcType]
  BY TypeParts DEF Base
<1>2. /\ peer' \in [Slots -> GoodPeer] /\ conn' \in [Conns -> ConnType]
      /\ RxPackets' /\ backlog' \in Seq(Conns)
  BY TablesGood
<1>3. peer' \in [Slots -> PeerType]
  BY <1>2 DEF GoodPeer
<1>4. /\ next' \in Nat /\ hist' \in [0 .. History - 1 -> Nat] /\ ptyOut' \in Nat
      /\ Window(hist, next)'
  BY HistoryGood
<1>5. InputType' /\ InputFifo'
  BY <1>1, InputGood
<1>6. proc' \in [Procs -> ProcType]
  BY <1>1, ProcGood
<1>7. TypeOK'
  BY <1>2, <1>3, <1>4, <1>5, <1>6, LoopGood, FlagsTyped, TypeParts
     DEF TypeOK, LoopType, FlagType, InputType
<1> QED
  BY <1>2, <1>4, <1>5, <1>7 DEF Base

\* The service keeps its types, byte counts and history, and the packets it
\* queues and sends carry the bytes they say.
THEOREM BaseHolds == Spec => [](Base /\ InputFifo)
<1>1. (Base /\ InputFifo) /\ [Next]_vars => (Base /\ InputFifo)'
  BY NextBase
<1> QED
  BY <1>1, InitBase, PTL DEF Spec

\* queue, flush_peer and peer_close keep the byte count of every peer equal to
\* what is on its list and below PB_QUEUE, and the poll loop never works on a
\* slot that was closed since poll().
THEOREM ConsistentAlways == Spec => []Consistent
<1>1. Base => Consistent
  BY DEF Base, Consistent, QueueAccounting, GoodPeer
<1> QED
  BY <1>1, BaseHolds, PTL

\* Accepted input reaches the PTY once and in order.
THEOREM InputFifoAlways == Spec => []InputFifo
  BY BaseHolds, PTL

-----------------------------------------------------------------------------
(* The processes on the PTY as a family: every process that has not been   *)
(* reaped has a parent that runs, and going up from parent to parent ends  *)
(* at the broker, which adopts the orphans.                                *)

Family ==
  /\ \A p \in Procs : Present(p) =>
       proc[p].par # NoProc /\ (proc[p].par \in Procs => Running(proc[p].par))
  /\ \A P \in SUBSET Procs : P # {} /\ (\A p \in P : Present(p)) =>
       \E p \in P : proc[p].par \notin P

\* A step that brings no process to life and lets no parent end keeps the family.
LEMMA FamilyShrinks ==
  ASSUME Family,
         \A x \in Procs : Present(x)' =>
           Present(x) /\ (proc'[x].par = proc[x].par \/ proc'[x].par = Broker),
         \A x, y \in Procs : Present(x)' /\ proc'[x].par = y /\ Running(y) => Running(y)'
  PROVE  Family'
<1>1. Broker \notin Procs /\ Broker # NoProc
  BY BrokerAssumption
<1>2. \A x \in Procs : (Present(x) =>
        proc[x].par # NoProc /\ (proc[x].par \in Procs => Running(proc[x].par)))'
  BY <1>1 DEF Family
<1>3. ASSUME NEW P \in SUBSET Procs, P # {}, \A p \in P : Present(p)'
      PROVE  \E p \in P : proc'[p].par \notin P
  <2>1. PICK p \in P : proc[p].par \notin P
    BY <1>3 DEF Family
  <2> QED
    BY <1>1, <1>3, <2>1
<1> QED
  BY <1>2, <1>3 DEF Family

\* Reaping, signalling, exits, waits and forks keep the family.
LEMMA FamilyGood ==
  ASSUME Family, proc \in [Procs -> ProcType], [Next]_vars
  PROVE  Family'
<1>1. CASE UNCHANGED proc
  BY <1>1 DEF Family, Present, Running
<1>2. ASSUME NEW x \in Procs
      PROVE  Reaped[x] = proc[x] \/ (Reaped[x].st = "gone" /\ proc[x].st = "zombie")
  BY ReapedCases
<1>3. CASE proc' = Reaped
  <2>1. \A x \in Procs : proc'[x] = proc[x] \/ (proc'[x].st = "gone" /\ proc[x].st = "zombie")
    BY <1>2, <1>3
  <2> QED
    BY <2>1, FamilyShrinks DEF Present, Running
<1>4. CASE proc' = Signalled(Reaped, late)
  <2>1. \A x \in Procs : \/ proc'[x] = Reaped[x]
                         \/ /\ Reaped[x].st = "live" /\ proc'[x].st = "dying"
                            /\ proc'[x].par = Reaped[x].par
    <3> TAKE x \in Procs
    <3>1. Reaped[x] \in ProcType
      BY ReapedCases
    <3>2. [Reaped[x] EXCEPT !.st = "dying"].st = "dying"
          /\ [Reaped[x] EXCEPT !.st = "dying"].par = Reaped[x].par
      BY <3>1 DEF ProcType
    <3>3. \/ proc'[x] = Reaped[x]
          \/ Reaped[x].st = "live" /\ proc'[x] = [Reaped[x] EXCEPT !.st = "dying"]
      BY <1>4, ReapedCases, SignalledCases
    <3> QED
      BY <3>2, <3>3
  <2>2. \A x \in Procs :
          \/ proc'[x] = proc[x]
          \/ proc'[x].st = "gone" /\ proc[x].st = "zombie"
          \/ proc[x].st = "live" /\ proc'[x].st = "dying" /\ proc'[x].par = proc[x].par
    BY <1>2, <2>1
  <2> QED
    BY <2>2, FamilyShrinks DEF Present, Running
<1>5. CASE \E p \in Procs : Process(p)
  <2>1. PICK p \in Procs : Process(p)
    BY <1>5
  <2>2. CASE ProcExit(p)
    <3>1. Running(p) /\ proc[p] \in ProcType /\ Broker \notin Procs /\ Broker # NoProc
      BY <2>2, BrokerAssumption DEF ProcExit
    <3>2. proc'[p].par = proc[p].par /\ proc'[p].st = "zombie"
      BY <2>2, <3>1 DEF ProcExit, ProcType
    <3>3. \A x \in Procs \ {p} :
            /\ proc'[x].st = proc[x].st
            /\ \/ proc[x].par = p /\ proc'[x].par = Broker
               \/ proc[x].par # p /\ proc'[x].par = proc[x].par
      <4> TAKE x \in Procs \ {p}
      <4>1. proc[x] \in ProcType
        OBVIOUS
      <4>2. [proc[x] EXCEPT !.par = Reaper].st = proc[x].st
            /\ [proc[x] EXCEPT !.par = Reaper].par = Broker
        BY <4>1 DEF ProcType, Reaper
      <4>3. proc'[x] = IF proc[x].par = p THEN [proc[x] EXCEPT !.par = Reaper] ELSE proc[x]
        BY <2>2 DEF ProcExit
      <4> QED
        BY <4>2, <4>3
    <3>4. proc[p].par # p
      <4>1. {p} \in SUBSET Procs /\ {p} # {} /\ \A x \in {p} : Present(x)
        BY <3>1 DEF Present, Running
      <4> QED
        BY <4>1 DEF Family
    <3>5. \A x \in Procs : Present(x)' =>
            Present(x) /\ (proc'[x].par = proc[x].par \/ proc'[x].par = Broker)
      BY <3>1, <3>2, <3>3 DEF Present, Running
    <3>6. \A x, y \in Procs : Present(x)' /\ proc'[x].par = y /\ Running(y) => Running(y)'
      BY <3>1, <3>2, <3>3, <3>4 DEF Present, Running
    <3> QED
      BY <3>5, <3>6, FamilyShrinks
  <2>3. CASE CloseTty(p)
    <3>1. proc[p] \in ProcType
      OBVIOUS
    <3>2. \A x \in Procs : proc'[x].st = proc[x].st /\ proc'[x].par = proc[x].par
      BY <2>3, <3>1 DEF CloseTty, ProcType
    <3> QED
      BY <3>2, FamilyShrinks DEF Present, Running
  <2>4. CASE WritePty(p)
    <3>1. proc' = proc
      BY <2>4 DEF WritePty
    <3> QED
      BY <3>1 DEF Family, Present, Running
  <2>5. CASE \E q \in Procs : Fork(p, q)
    <3>1. PICK q \in Procs : Fork(p, q)
      BY <2>5
    <3>2. /\ proc[p].st = "live" /\ proc[q].st = "unborn" /\ p # q
          /\ proc'[q].st = "live" /\ proc'[q].par = p
          /\ \A x \in Procs \ {q} : proc'[x] = proc[x]
      BY <3>1 DEF Fork
    <3>3. \A x \in Procs : Present(x) => proc[x].par # q
      BY <3>2 DEF Family, Running
    <3>4. \A x \in Procs : (Present(x) =>
            proc[x].par # NoProc /\ (proc[x].par \in Procs => Running(proc[x].par)))'
      BY <3>2, <3>3, BrokerAssumption DEF Family, Present, Running
    <3>5. ASSUME NEW P \in SUBSET Procs, P # {}, \A x \in P : Present(x)'
          PROVE  \E x \in P : proc'[x].par \notin P
      <4>1. CASE P = {q}
        BY <3>2, <4>1
      <4>2. CASE P # {q}
        <5>1. P \ {q} \in SUBSET Procs /\ P \ {q} # {}
          BY <3>5, <4>2
        <5>2. \A x \in P \ {q} : Present(x)
          BY <3>2, <3>5 DEF Present
        <5>3. PICK x \in P \ {q} : proc[x].par \notin P \ {q}
          BY <5>1, <5>2, Zenon DEF Family
        <5>4. proc[x].par # q /\ proc'[x] = proc[x] /\ x \in P
          BY <3>2, <3>3, <5>2, <5>3
        <5> QED
          BY <5>3, <5>4
      <4> QED
        BY <4>1, <4>2
    <3> QED
      BY <3>4, <3>5 DEF Family
  <2>6. CASE \E q \in Procs : ProcWait(p, q)
    <3>1. PICK q \in Procs : ProcWait(p, q)
      BY <2>6
    <3>2. \A x \in Procs : proc'[x] = proc[x] \/ (proc'[x].st = "gone" /\ proc[x].st = "zombie")
      BY <3>1 DEF ProcWait
    <3> QED
      BY <3>2, FamilyShrinks DEF Present, Running
  <2> QED
    BY <2>1, <2>2, <2>3, <2>4, <2>5, <2>6 DEF Process
<1> QED
  BY <1>1, <1>3, <1>4, <1>5, ProcFrame

\* When the broker has no child left, nothing it ever started is left.
LEMMA NobodyLeft ==
  ASSUME Family, proc \in [Procs -> ProcType], Children(proc) = {}
  PROVE  \A p \in Procs : ~Present(p)
<1> DEFINE P == {p \in Procs : Present(p)}
<1>1. SUFFICES ASSUME P # {}
               PROVE  FALSE
  OBVIOUS
<1>2. PICK p \in P : proc[p].par \notin P
  BY <1>1 DEF Family
<1>3. proc[p].par \notin Procs /\ proc[p].par # NoProc
  BY <1>2 DEF Family, Present, Running
<1>4. proc[p].par = Broker
  BY <1>2, <1>3 DEF ProcType
<1> QED
  BY <1>2, <1>4 DEF Children, Present

-----------------------------------------------------------------------------
(* The acknowledgement of TERMINATE.                                       *)

\* From `remove' on no process is left, from `ack' on the name is free, and only
\* then is a TERMINATE acknowledged.
AckInv ==
  /\ pc \in {"remove", "ack", "exited"} => \A p \in Procs : ~Present(p)
  /\ pc \in {"ack", "exited"} => ~bound
  /\ \A c \in Conns : \A i \in DOMAIN conn[c].rx :
       conn[c].rx[i].type = "TERMINATE" => pc \in {"ack", "exited"}

\* The end of the service: remove, ack and exited are entered in this order only.
LEMMA EndFrame ==
  ASSUME [Next]_vars
  PROVE  \/ CleanDone \/ RemoveName \/ Acknowledge
         \/ /\ bound' = bound
            /\ \/ pc' = pc
               \/ pc \notin {"remove", "ack", "exited"} /\ pc' \notin {"remove", "ack", "exited"}
<1>1. CASE LoopEnds \/ SignalFails \/ LoopTurn \/ Poll \/ PollInterrupted \/ PollFails
  BY <1>1 DEF LoopEnds, SignalFails, LoopTurn, Poll, PollInterrupted, PollFails
<1>2. CASE Scan
  BY <1>2 DEF Scan, AfterPeers, AfterAccept, AfterInput
<1>3. CASE HandleRequest
  BY <1>3, HandleRequestFrame
<1>4. CASE FlushPeer \/ AcceptPeer \/ ReadOutput \/ OutputDone \/ OutputEof
  BY <1>4 DEF FlushPeer, FlushNothing, FlushBroken, Flush, AcceptPeer, ReadOutput, OutputDone,
              OutputEof
<1>5. CASE AcceptDone \/ ForwardInput
  BY <1>5 DEF AcceptDone, ForwardInput, AfterAccept, AfterInput
<1>6. CASE CleanSignals \/ CleanCannotSignal
  BY <1>6 DEF CleanSignals, CleanCannotSignal, CleanStep
<1>7. CASE \/ \E c \in Conns : Client(c)
           \/ \E s \in Slots : Age(s)
           \/ StopClock \/ Signal \/ Finished \/ UNCHANGED vars
  BY <1>7, EnvironmentFrame DEF loopVars
<1>8. CASE \E p \in Procs : Process(p)
  BY <1>8, ProcessFrame DEF loopVars
<1> QED
  BY <1>1, <1>2, <1>3, <1>4, <1>5, <1>6, <1>7, <1>8 DEF Next, Service

\* When no process is left, none appears.
LEMMA NobodyReturns ==
  ASSUME proc \in [Procs -> ProcType], \A p \in Procs : ~Present(p), [Next]_vars
  PROVE  \A p \in Procs : ~Present(p)'
<1>1. \A p \in Procs : proc[p].st \notin {"live", "dying", "zombie"}
  BY DEF Present
<1>2. CASE UNCHANGED proc
  BY <1>1, <1>2 DEF Present
<1>3. Reaped = proc
  BY <1>1 DEF Reaped
<1>4. CASE proc' = Reaped
  BY <1>1, <1>3, <1>4 DEF Present
<1>5. CASE proc' = Signalled(Reaped, late)
  <2>1. proc' = Signalled(proc, late)
    BY <1>3, <1>5
  <2>2. \A p \in Procs : proc'[p] = proc[p] \/ proc[p].st = "live"
    <3>1. \A p \in Procs : \/ Signalled(proc, late)[p] = proc[p]
                           \/ /\ proc[p].st = "live"
                              /\ Signalled(proc, late)[p] = [proc[p] EXCEPT !.st = "dying"]
      BY SignalledCases
    <3> QED
      BY <2>1, <3>1
  <2> QED
    BY <1>1, <2>2 DEF Present
<1>6. CASE \E p \in Procs : Process(p)
  BY <1>1, <1>6 DEF Process, ProcExit, CloseTty, WritePty, Fork, ProcWait, Running
<1> QED
  BY <1>2, <1>4, <1>5, <1>6, ProcFrame

\* What a client has been sent: a flush adds queued packets, the end of the
\* service an acknowledgement, nothing else touches it.
LEMMA RxCases ==
  ASSUME Base, [Next]_vars, NEW c \in Conns
  PROVE  \/ conn'[c].rx = conn[c].rx
         \/ /\ \E q \in Seq(Queueable) : conn'[c].rx = conn[c].rx \o q
            /\ pc = "flush" /\ bound' = bound
         \/ /\ Acknowledge /\ pc = "ack" /\ bound' = bound /\ pc' \in {"ack", "exited"}
<1>1. /\ conn \in [Conns -> ConnType] /\ conn[c] \in ConnType /\ TypeOK
      /\ peer \in [Slots -> GoodPeer]
  BY DEF Base, TypeOK
<1>2. CASE LoopTurn \/ FlushBroken \/ ReadOutput \/ \E s \in Slots : Age(s)
  BY <1>2 DEF LoopTurn, FlushBroken, ReadOutput, Age, envVars
<1>3. CASE HandleRequest
  BY <1>3, HandleRequestTables
<1>4. CASE \E k \in 0 .. FlushQuota : Flush(k)
  <2>1. PICK k \in 0 .. FlushQuota : Flush(k)
    BY <1>4
  <2> DEFINE p == peer[cur]
             r == SubSeq(p.q, 1, k)
             w == [conn[p.fd] EXCEPT !.rx = conn[p.fd].rx \o r]
  <2>2. /\ cur \in Slots /\ p \in GoodPeer /\ p.fd # NoConn /\ p.fd \in Conns
        /\ k \in 0 .. Len(p.q) /\ pc = "flush"
        /\ conn' = [conn EXCEPT ![p.fd] = w]
    BY <2>1, FlushCases
  <2>3. r \in Seq(Queueable)
    BY <2>2, FlushedGood
  <2>4. conn[p.fd] \in ConnType
    BY <1>1, <2>2
  <2>5. w.rx = conn[p.fd].rx \o r
    BY <2>4 DEF ConnType
  <2>6. bound' = bound
    BY <2>1 DEF Flush
  <2> HIDE DEF p, r, w
  <2>7. c = p.fd => conn'[c].rx = conn[c].rx \o r
    BY <1>1, <2>2, <2>5
  <2>8. c # p.fd => conn'[c] = conn[c]
    BY <1>1, <2>2
  <2> QED
    BY <2>2, <2>3, <2>6, <2>7, <2>8
<1>5. CASE AcceptPeer
  <2> DEFINE d == Head(backlog)
             u == [conn[d] EXCEPT !.st = "accepted"]
             v == [conn[d] EXCEPT !.st = "refused"]
  <2>1. d \in Conns /\ (conn' = [conn EXCEPT ![d] = u] \/ conn' = [conn EXCEPT ![d] = v])
    BY <1>5, AcceptCases
  <2>2. conn[d] \in ConnType
    BY <1>1, <2>1
  <2>3. u.rx = conn[d].rx /\ v.rx = conn[d].rx
    BY <2>2 DEF ConnType
  <2> HIDE DEF d, u, v
  <2> QED
    BY <1>1, <2>1, <2>3
<1>6. CASE RemoveName
  <2>1. conn'[c] = conn[c] \/ conn'[c] = [conn[c] EXCEPT !.st = "refused"]
    BY <1>6 DEF RemoveName
  <2>2. [conn[c] EXCEPT !.st = "refused"].rx = conn[c].rx
    BY <1>1 DEF ConnType
  <2> QED
    BY <2>1, <2>2
<1>7. CASE Acknowledge
  BY <1>7 DEF Acknowledge
<1>8. CASE \E d \in Conns : Client(d)
  BY <1>1, <1>8, ClientCases
<1> QED
  BY <1>2, <1>3, <1>4, <1>5, <1>6, <1>7, <1>8, TableFrame DEF TableStep

\* Every step keeps AckInv.
LEMMA NextAck ==
  ASSUME Base, Family, AckInv, [Next]_vars
  PROVE  Family' /\ AckInv'
<1>1. /\ proc \in [Procs -> ProcType] /\ proc' \in [Procs -> ProcType] /\ Family'
  BY ProcGood, FamilyGood DEF Base, TypeOK
<1>2. pc' \in {"remove", "ack", "exited"} => \A p \in Procs : ~Present(p)'
  <2>1. CASE CleanDone
    <3>1. proc' = Reaped /\ Children(Reaped) = {}
      BY <2>1 DEF CleanDone
    <3>2. (Children(proc) = {})'
      BY <3>1 DEF Children
    <3>3. (Family /\ proc \in [Procs -> ProcType] /\ Children(proc) = {}
             => \A p \in Procs : ~Present(p))'
      BY NobodyLeft, PTL
    <3> QED
      BY <1>1, <3>2, <3>3
  <2>2. CASE RemoveName \/ Acknowledge
    <3>1. pc \in {"remove", "ack"}
      BY <2>2 DEF RemoveName, Acknowledge
    <3> QED
      BY <1>1, <3>1, NobodyReturns DEF AckInv
  <2>3. CASE pc' = pc
    BY <1>1, <2>3, NobodyReturns DEF AckInv
  <2> QED
    BY <2>1, <2>2, <2>3, EndFrame
<1>3. pc' \in {"ack", "exited"} => ~bound'
  <2>1. CASE CleanDone
    BY <2>1 DEF CleanDone
  <2>2. CASE RemoveName
    BY <2>2 DEF RemoveName
  <2>3. CASE Acknowledge
    BY <2>3 DEF Acknowledge, AckInv
  <2> QED
    BY <2>1, <2>2, <2>3, EndFrame DEF AckInv
<1>4. pc \in {"ack", "exited"} => pc' \in {"ack", "exited"}
  BY EndFrame DEF CleanDone, CleanStep, RemoveName, Acknowledge
<1>5. ASSUME NEW c \in Conns, NEW i \in DOMAIN conn'[c].rx, conn'[c].rx[i].type = "TERMINATE"
      PROVE  pc' \in {"ack", "exited"}
  <2>1. conn[c].rx \in Seq(Packet)
    BY DEF Base, RxPackets
  <2>2. CASE conn'[c].rx = conn[c].rx
    BY <1>4, <1>5, <2>2 DEF AckInv
  <2>3. CASE \E q \in Seq(Queueable) : conn'[c].rx = conn[c].rx \o q
    <3>1. PICK q \in Seq(Queueable) : conn'[c].rx = conn[c].rx \o q
      BY <2>3
    <3> DEFINE a == conn[c].rx
    <3>2. q \in Seq(Packet) /\ a \in Seq(Packet)
      BY <2>1 DEF Queueable
    <3> HIDE DEF a
    <3>3. i \in 1 .. Len(a) + Len(q)
      BY <1>5, <3>1, <3>2 DEF a
    <3>4. CASE i <= Len(a)
      <4>1. (a \o q)[i] = a[i] /\ i \in DOMAIN a
        BY <3>2, <3>3, <3>4
      <4> QED
        BY <1>4, <1>5, <3>1, <4>1 DEF AckInv, a
    <3>5. CASE i > Len(a)
      <4>1. (a \o q)[i] = q[i - Len(a)] /\ i - Len(a) \in 1 .. Len(q)
        BY <3>2, <3>3, <3>5
      <4>2. q[i - Len(a)] \in Queueable
        BY <4>1
      <4> QED
        BY <1>5, <3>1, <4>1, <4>2 DEF Queueable, a
    <3> QED
      BY <3>2, <3>3, <3>4, <3>5
  <2> QED
    BY <2>2, <2>3, RxCases
<1> QED
  BY <1>1, <1>2, <1>3, <1>5 DEF AckInv

\* TERMINATE is acknowledged only when every descendant of the service, the
\* adopted and the stubborn ones included, is reaped and the socket name is gone.
THEOREM AckMeansGoneAlways == Spec => []AckMeansGone
<1>1. Init => Family /\ AckInv
  <2> SUFFICES ASSUME Init
               PROVE  Family /\ AckInv
    OBVIOUS
  <2>1. \A p \in Procs : Present(p) => proc[p].par = Broker
    BY DEF Init, Present
  <2>2. Family
    BY <2>1, BrokerAssumption DEF Family
  <2>3. pc = "top" /\ \A c \in Conns : conn[c].rx = <<>>
    BY DEF Init
  <2>4. DOMAIN <<>> = {}
    OBVIOUS
  <2> QED
    BY <2>2, <2>3, <2>4 DEF AckInv
<1>2. (Base /\ InputFifo) /\ (Family /\ AckInv) /\ [Next]_vars => (Family /\ AckInv)'
  BY NextAck
<1>3. AckInv => AckMeansGone
  BY DEF AckInv, AckMeansGone
<1> QED
  BY <1>1, <1>2, <1>3, BaseHolds, PTL DEF Spec

-----------------------------------------------------------------------------
(* What a step does to each slot.                                          *)

\* Every slot keeps its peer and queue, or is closed.
Quiet == \A s \in Slots : Extends(peer'[s], peer[s], peer[s].q)

\* The same, after packet m was queued for every subscriber.
Tells(m) ==
  \A s \in Slots :
    \/ Extends(peer'[s], peer[s], peer[s].q) /\ (peer[s].role = "none" \/ peer[s].fd = NoConn)
    \/ /\ Extends(peer'[s], peer[s], Append(peer[s].q, m))
       /\ peer[s].role # "none" /\ peer[s].fd # NoConn

\* A peer that is left alone or closed extends nothing.
LEMMA ExtendsSelf == \A p : Extends(p, p, p.q) /\ \A q : Extends(NoPeer, p, q)
  BY DEF Extends

\* A broadcast puts the packet at the end of every subscriber's queue.
LEMMA BroadcastSlots ==
  ASSUME NEW ps \in [Slots -> GoodPeer], NEW m \in Queueable, NEW s \in Slots
  PROVE  \/ Broadcast(ps, m)[s] = ps[s] /\ (ps[s].role = "none" \/ ps[s].fd = NoConn)
         \/ /\ Extends(Broadcast(ps, m)[s], ps[s], Append(ps[s].q, m))
            /\ ps[s].role # "none" /\ ps[s].fd # NoConn
<1>1. ps[s] \in GoodPeer /\ Extends(ps[s], ps[s], ps[s].q)
  BY ExtendsSelf
<1>2. Extends(Queue(ps[s], m), ps[s], Append(ps[s].q, m))
  BY <1>1, QueueExtends
<1> QED
  BY <1>2, BroadcastCases

\* A turn of the loop tells the exit of the child, or nothing.
LEMMA LoopTurnSlots ==
  ASSUME Base, LoopTurn
  PROVE  \/ ~Announce(childLive') /\ Quiet
         \/ /\ Announce(childLive')
            /\ \E m \in Queueable : m.type = "EXIT" /\ m.off = next /\ Tells(m)
<1>1. peer \in [Slots -> GoodPeer]
  BY DEF Base
<1>2. PICK ps \in [Slots -> GoodPeer] :
        /\ peer' = [s \in Slots |-> IF Expired(ps[s]) THEN NoPeer ELSE ps[s]]
        /\ \/ ~Announce(childLive') /\ ps = peer
           \/ /\ Announce(childLive')
              /\ \E m \in Queueable : m.type = "EXIT" /\ m.off = next /\ ps = Broadcast(peer, m)
  BY LoopTurnCases
<1>3. \A s \in Slots : peer'[s] = ps[s] \/ peer'[s] = NoPeer
  BY <1>2
<1>4. CASE ~Announce(childLive') /\ ps = peer
  BY <1>3, <1>4, ExtendsSelf DEF Quiet
<1>5. ASSUME Announce(childLive'), NEW m \in Queueable, m.type = "EXIT", m.off = next,
             ps = Broadcast(peer, m)
      PROVE  Tells(m)
  <2> SUFFICES ASSUME NEW s \in Slots
               PROVE  \/ /\ Extends(peer'[s], peer[s], peer[s].q)
                         /\ peer[s].role = "none" \/ peer[s].fd = NoConn
                      \/ /\ Extends(peer'[s], peer[s], Append(peer[s].q, m))
                         /\ peer[s].role # "none" /\ peer[s].fd # NoConn
    BY DEF Tells
  <2>1. \/ ps[s] = peer[s] /\ (peer[s].role = "none" \/ peer[s].fd = NoConn)
        \/ /\ Extends(ps[s], peer[s], Append(peer[s].q, m))
           /\ peer[s].role # "none" /\ peer[s].fd # NoConn
    BY <1>1, <1>5, BroadcastSlots
  <2> QED
    BY <1>3, <2>1, ExtendsSelf
<1> QED
  BY <1>2, <1>4, <1>5

\* Output that is read is told to all subscribers.
LEMMA ReadOutputSlots ==
  ASSUME Base, ReadOutput
  PROVE  \E n \in 1 .. Chunk, m \in Queueable :
           /\ next' = next + n /\ m.type = "OUTPUT" /\ m.off = next /\ m.size = n /\ Tells(m)
<1>1. peer \in [Slots -> GoodPeer]
  BY DEF Base
<1>2. PICK n \in 1 .. Chunk, m \in Queueable :
        /\ next' = next + n /\ m.type = "OUTPUT" /\ m.off = next /\ m.size = n
        /\ peer' = Broadcast(peer, m)
  BY ReadOutputCases
<1>3. Tells(m)
  BY <1>1, <1>2, BroadcastSlots, ExtendsSelf DEF Tells
<1> QED
  BY <1>2, <1>3

\* A request in a slot: the other slots are told of a new geometry or keep what
\* they have; the slot itself is closed, answered, made a subscriber or put aside
\* until the service ends.
Others(m) == \A s \in Slots \ {cur} :
  \/ Extends(peer'[s], peer[s], peer[s].q) /\ (peer[s].role = "none" \/ peer[s].fd = NoConn)
  \/ /\ Extends(peer'[s], peer[s], Append(peer[s].q, m))
     /\ peer[s].role # "none" /\ peer[s].fd # NoConn
OthersQuiet == \A s \in Slots \ {cur} : Extends(peer'[s], peer[s], peer[s].q)

\* The table that handle_request leaves, but for a connection that hung up.
LEMMA HandledSlots ==
  ASSUME Base, NEW ps \in [Slots -> GoodPeer], pc = "serve", Handled(ps)
  PROVE  /\ \A s \in Slots \ {cur} : peer'[s] = ps[s]
         /\ peer'[cur] = ps[cur] \/ peer'[cur] = NoPeer
<1>1. cur \in Slots
  BY ServedRequest
<1> QED
  BY <1>1 DEF Handled

\* A peer that is refused goes, and the others notice nothing.
LEMMA RefuseSlots ==
  ASSUME Base, ServeRefuse
  PROVE  Quiet /\ peer'[cur] = NoPeer
<1>1. pc = "serve" /\ peer' = [peer EXCEPT ![cur] = NoPeer]
  BY DEF ServeRefuse
<1>2. cur \in Slots /\ peer \in [Slots -> GoodPeer]
  BY <1>1, ServedRequest DEF Base
<1> QED
  BY <1>1, <1>2, ExtendsSelf DEF Quiet

\* A reply, alone or after a broadcast.
LEMMA AnsweredSlots ==
  ASSUME Base, Answered
  PROVE  /\ Accepts(Asked.type) /\ OthersQuiet
         /\ \E m \in Queueable :
              /\ m.type = Asked.type
              /\ Extends(peer'[cur], [peer[cur] EXCEPT !.closing = TRUE], Append(peer[cur].q, m))
<1>1. PICK m \in Queueable : /\ Accepts(Asked.type) /\ m.type = Asked.type
                             /\ Handled(Replied(peer, m))
  BY AnsweredCases
<1>2. pc = "serve"
  BY <1>1 DEF Accepts
<1>3. peer[cur].fd # NoConn /\ peer \in [Slots -> GoodPeer]
  BY <1>2, ServedRequest DEF Base
<1>4. /\ Replied(peer, m) \in [Slots -> GoodPeer]
      /\ \A s \in Slots \ {cur} : Replied(peer, m)[s] = peer[s]
      /\ Extends(Replied(peer, m)[cur], [peer[cur] EXCEPT !.closing = TRUE], Append(peer[cur].q, m))
  BY <1>2, <1>3, RepliedGood
<1>5. /\ \A s \in Slots \ {cur} : peer'[s] = Replied(peer, m)[s]
      /\ peer'[cur] = Replied(peer, m)[cur] \/ peer'[cur] = NoPeer
  BY <1>1, <1>2, <1>4, HandledSlots
<1>6. OthersQuiet
  BY <1>4, <1>5, ExtendsSelf DEF OthersQuiet
<1>7. Extends(peer'[cur], [peer[cur] EXCEPT !.closing = TRUE], Append(peer[cur].q, m))
  BY <1>4, <1>5, ExtendsSelf
<1> QED
  BY <1>1, <1>6, <1>7

\* A resize is told to the others and answered.
LEMMA ResizeSlots ==
  ASSUME Base, ServeResize
  PROVE  /\ Accepts("RESIZE") /\ ~eof
         /\ \E m \in Queueable, r \in Queueable :
              /\ m.type = "GEOMETRY" /\ r.type = "RESIZE" /\ Others(m)
              /\ Extends(peer'[cur], [peer[cur] EXCEPT !.closing = TRUE], Append(peer[cur].q, r))
<1>1. PICK m \in Queueable, r \in Queueable :
        /\ Accepts("RESIZE") /\ ~eof /\ m.type = "GEOMETRY" /\ r.type = "RESIZE"
        /\ Broadcast(peer, m)[cur] = peer[cur]
        /\ Handled(Replied(Broadcast(peer, m), r))
  BY ResizeCases
<1> DEFINE ps == Broadcast(peer, m)
<1>2. pc = "serve"
  BY <1>1 DEF Accepts
<1>3. peer[cur].fd # NoConn /\ peer \in [Slots -> GoodPeer]
  BY <1>2, ServedRequest DEF Base
<1>4. ps \in [Slots -> GoodPeer] /\ ps[cur] = peer[cur]
  BY <1>1, <1>3, BroadcastCases
<1>5. \A s \in Slots :
        \/ ps[s] = peer[s] /\ (peer[s].role = "none" \/ peer[s].fd = NoConn)
        \/ /\ Extends(ps[s], peer[s], Append(peer[s].q, m))
           /\ peer[s].role # "none" /\ peer[s].fd # NoConn
  BY <1>3, BroadcastSlots
<1> HIDE DEF ps
<1>6. /\ Replied(ps, r) \in [Slots -> GoodPeer]
      /\ \A s \in Slots \ {cur} : Replied(ps, r)[s] = ps[s]
      /\ Extends(Replied(ps, r)[cur], [ps[cur] EXCEPT !.closing = TRUE], Append(ps[cur].q, r))
  BY <1>2, <1>3, <1>4, RepliedGood
<1>7. /\ \A s \in Slots \ {cur} : peer'[s] = Replied(ps, r)[s]
      /\ peer'[cur] = Replied(ps, r)[cur] \/ peer'[cur] = NoPeer
  <2>1. Handled(Replied(ps, r))
    BY <1>1 DEF ps
  <2> QED
    BY <1>2, <1>6, <2>1, HandledSlots
<1>8. Others(m)
  BY <1>5, <1>6, <1>7, ExtendsSelf DEF Others
<1>9. Extends(peer'[cur], [peer[cur] EXCEPT !.closing = TRUE], Append(peer[cur].q, r))
  BY <1>4, <1>6, <1>7, ExtendsSelf
<1> QED
  BY <1>1, <1>8, <1>9

\* A seat is granted to a peer that asked for it, when it is free.
LEMMA GrantedSlots ==
  ASSUME Base, ServeOpenGranted
  PROVE  /\ ~stopping /\ OthersQuiet
         /\ \E role \in {"CONTROL", "OBSERVER"}, st \in Status :
              /\ Accepts(role) /\ ~Taken(role)
              /\ Extends(peer'[cur], [peer[cur] EXCEPT !.role = role],
                         WelcomePackets(peer[cur].q, role, st))
<1>1. PICK role \in {"CONTROL", "OBSERVER"}, w \in GoodPeer, st \in Status :
        /\ Accepts(role) /\ ~stopping /\ ~Taken(role)
        /\ Extends(w, [peer[cur] EXCEPT !.role = role], WelcomePackets(peer[cur].q, role, st))
        /\ Handled([peer EXCEPT ![cur] = w])
  BY GrantedCases
<1> DEFINE ps == [peer EXCEPT ![cur] = w]
<1>2. pc = "serve"
  BY <1>1 DEF Accepts
<1>3. ps \in [Slots -> GoodPeer] /\ ps[cur] = w /\ \A s \in Slots \ {cur} : ps[s] = peer[s]
  BY <1>2, ServedRequest DEF Base
<1>4. /\ \A s \in Slots \ {cur} : peer'[s] = ps[s]
      /\ peer'[cur] = ps[cur] \/ peer'[cur] = NoPeer
  <2>1. Handled(ps)
    BY <1>1
  <2> HIDE DEF ps
  <2> QED
    BY <1>2, <1>3, <2>1, HandledSlots
<1>5. OthersQuiet
  BY <1>3, <1>4, ExtendsSelf DEF OthersQuiet
<1>6. Extends(peer'[cur], [peer[cur] EXCEPT !.role = role], WelcomePackets(peer[cur].q, role, st))
  BY <1>1, <1>3, <1>4, ExtendsSelf
<1> QED
  BY <1>1, <1>5, <1>6

\* A request to terminate is noted, and answered later.
LEMMA TerminateSlots ==
  ASSUME Base, ServeTerminate
  PROVE  /\ Accepts("TERMINATE") /\ OthersQuiet
         /\ Extends(peer'[cur], [peer[cur] EXCEPT !.terminating = TRUE], peer[cur].q)
<1> DEFINE w == [peer[cur] EXCEPT !.terminating = TRUE]
           ps == [peer EXCEPT ![cur] = w]
<1>1. Accepts("TERMINATE") /\ Handled(ps) /\ pc = "serve"
  BY DEF ServeTerminate, Accepts
<1>2. peer[cur] \in GoodPeer /\ peer[cur].fd # NoConn /\ cur \in Slots
  BY <1>1, ServedRequest
<1>3. w \in GoodPeer /\ w.q = peer[cur].q
  <2>1. w \in GoodPeer
    BY <1>2, FlagsGood
  <2>2. w.q = peer[cur].q
    BY <1>2 DEF GoodPeer, PeerType
  <2> QED
    BY <2>1, <2>2
<1> HIDE DEF w
<1>4. ps \in [Slots -> GoodPeer] /\ ps[cur] = w /\ \A s \in Slots \ {cur} : ps[s] = peer[s]
  BY <1>2, <1>3 DEF Base
<1> HIDE DEF ps
<1>5. /\ \A s \in Slots \ {cur} : peer'[s] = ps[s]
      /\ peer'[cur] = ps[cur] \/ peer'[cur] = NoPeer
  BY <1>1, <1>4, HandledSlots
<1>6. OthersQuiet
  BY <1>4, <1>5, ExtendsSelf DEF OthersQuiet
<1>7. Extends(peer'[cur], w, peer[cur].q)
  BY <1>3, <1>4, <1>5, ExtendsSelf
<1> QED
  BY <1>1, <1>6, <1>7 DEF w

\* A deadline that passes closes the peer or changes no slot.
LEMMA AgeSlots ==
  ASSUME Base, NEW s \in Slots, Age(s)
  PROVE  Quiet
<1> DEFINE w == [peer[s] EXCEPT !.old = TRUE]
<1>1. peer' = [peer EXCEPT ![s] = w] /\ peer \in [Slots -> GoodPeer]
  BY DEF Age, Base
<1>2. peer[s] \in PeerType
  BY <1>1 DEF GoodPeer
<1>3. Extends(w, peer[s], peer[s].q)
  BY <1>2 DEF PeerType, Extends
<1> HIDE DEF w
<1> QED
  BY <1>1, <1>3, ExtendsSelf DEF Quiet

-----------------------------------------------------------------------------
(* The seats.                                                              *)

\* A connection in a slot was accepted; the backlog lists each connection that
\* waits in it once.
ConnInv ==
  /\ \A s \in Slots : peer[s].fd # NoConn => conn[peer[s].fd].st = "accepted"
  /\ \A i \in DOMAIN backlog : conn[backlog[i]].st = "backlog"
  /\ \A i, j \in DOMAIN backlog : backlog[i] = backlog[j] => i = j

\* A slot keeps its connection and role or is closed.
CalmSlot(s) == peer'[s] = NoPeer \/ (peer'[s].fd = peer[s].fd /\ peer'[s].role = peer[s].role)
Calm == /\ \A s \in Slots : CalmSlot(s)
        /\ \A c \in Conns : conn'[c].st = conn[c].st
        /\ backlog' = backlog

\* A slot whose queue is extended keeps its connection.
LEMMA ExtendsCalm ==
  ASSUME NEW s, NEW q, Extends(peer'[s], peer[s], q)
  PROVE  CalmSlot(s)
  BY DEF Extends, CalmSlot

\* Seats and the backlog change when a request to open is granted, on accept,
\* when the listener is closed and when a client connects.
LEMMA CalmSteps ==
  ASSUME Base, [Next]_vars
  PROVE  Calm \/ ServeOpenGranted \/ AcceptPeer \/ RemoveName \/ \E c \in Conns : Client(c)
<1>1. /\ peer \in [Slots -> GoodPeer] /\ conn \in [Conns -> ConnType] /\ peer \in [Slots -> PeerType]
  BY DEF Base, TypeOK
<1>2. CASE LoopTurn
  <2>1. Quiet \/ \E m \in Queueable : Tells(m)
    BY <1>2, LoopTurnSlots
  <2>2. conn' = conn /\ backlog' = backlog
    BY <1>2 DEF LoopTurn
  <2> QED
    BY <2>1, <2>2, ExtendsCalm DEF Quiet, Tells, Calm
<1>3. CASE ReadOutput
  <2>1. \E m \in Queueable : Tells(m)
    BY <1>3, ReadOutputSlots
  <2>2. conn' = conn /\ backlog' = backlog
    BY <1>3 DEF ReadOutput
  <2> QED
    BY <2>1, <2>2, ExtendsCalm DEF Tells, Calm
<1>4. CASE HandleRequest
  <2>1. (\A c \in Conns : conn'[c].st = conn[c].st) /\ backlog' = backlog /\ pc = "serve"
    BY <1>4, HandleRequestTables
  <2>2. cur \in Slots /\ peer[cur] \in PeerType
    BY <1>1, <2>1, ServedRequest
  <2>3. /\ [peer[cur] EXCEPT !.closing = TRUE].fd = peer[cur].fd
        /\ [peer[cur] EXCEPT !.closing = TRUE].role = peer[cur].role
        /\ [peer[cur] EXCEPT !.terminating = TRUE].fd = peer[cur].fd
        /\ [peer[cur] EXCEPT !.terminating = TRUE].role = peer[cur].role
    BY <2>2 DEF PeerType
  <2>4. ASSUME NEW m \in Queueable, Others(m) \/ OthersQuiet, NEW q,
               \/ Extends(peer'[cur], [peer[cur] EXCEPT !.closing = TRUE], q)
               \/ Extends(peer'[cur], [peer[cur] EXCEPT !.terminating = TRUE], q)
        PROVE  Calm
    <3>1. \A s \in Slots \ {cur} : CalmSlot(s)
      BY <2>4, ExtendsCalm DEF Others, OthersQuiet
    <3>2. CalmSlot(cur)
      BY <2>3, <2>4 DEF Extends, CalmSlot
    <3> QED
      BY <2>1, <3>1, <3>2 DEF Calm
  <2>5. CASE ServeRefuse
    BY <2>1, <2>5, RefuseSlots, ExtendsCalm DEF Quiet, Calm
  <2>6. CASE Answered
    BY <2>4, <2>6, AnsweredSlots
  <2>7. CASE ServeResize
    BY <2>4, <2>7, ResizeSlots
  <2>8. CASE ServeTerminate
    <3>1. \E m : m \in Queueable
      <4>1. "EXIT" \in (RequestTypes \cup EventTypes) \ {"OUTPUT", "CAPTURE", "TERMINATE"}
        BY DEF RequestTypes, EventTypes
      <4>2. "0" \in Errors /\ 0 \in Nat
        BY DEF Errors
      <4>3. Plain("EXIT", "0", 0) \in Packet
        BY <4>1, <4>2, PlainPacket
      <4> QED
        BY <4>3 DEF Queueable, Plain
    <3> QED
      BY <2>4, <2>8, <3>1, TerminateSlots
  <2> QED
    BY <1>4, <2>5, <2>6, <2>7, <2>8 DEF HandleRequest, Answered
<1>5. CASE FlushBroken
  <2>1. /\ cur \in Slots /\ conn' = conn /\ backlog' = backlog
        /\ peer' = [peer EXCEPT ![cur] = NoPeer]
    BY <1>5 DEF FlushBroken, Base, TypeOK, envVars
  <2> QED
    BY <1>1, <2>1 DEF Calm, CalmSlot
<1>6. CASE \E k \in 0 .. FlushQuota : Flush(k)
  <2>1. PICK k \in 0 .. FlushQuota : Flush(k)
    BY <1>6
  <2> DEFINE p == peer[cur]
             w == [conn[p.fd] EXCEPT !.rx = conn[p.fd].rx \o SubSeq(p.q, 1, k)]
  <2>2. /\ cur \in Slots /\ p \in GoodPeer /\ p.fd # NoConn /\ p.fd \in Conns
        /\ k \in 0 .. Len(p.q)
        /\ conn' = [conn EXCEPT ![p.fd] = w]
        /\ \/ peer' = [peer EXCEPT ![cur] = Flushed(p, k)]
           \/ peer' = [peer EXCEPT ![cur] = NoPeer] /\ k = Len(p.q)
    BY <2>1, FlushCases
  <2>3. Flushed(p, k).fd = p.fd /\ Flushed(p, k).role = p.role
    BY <2>2, FlushedGood
  <2>4. \A s \in Slots : CalmSlot(s)
    BY <1>1, <2>2, <2>3 DEF CalmSlot
  <2>5. conn[p.fd] \in ConnType
    BY <1>1, <2>2
  <2>6. w.st = conn[p.fd].st
    BY <2>5 DEF ConnType
  <2>7. \A c \in Conns : conn'[c].st = conn[c].st
    <3> HIDE DEF p, w
    <3> QED
      BY <1>1, <2>2, <2>6
  <2>8. backlog' = backlog
    BY <2>1 DEF Flush
  <2> QED
    BY <2>4, <2>7, <2>8 DEF Calm
<1>7. CASE Acknowledge
  <2> DEFINE f == peer[cur].fd
             ack == Plain("TERMINATE", IF result = 0 THEN "0" ELSE "EIO", 0)
             w == [conn[f] EXCEPT !.rx = Append(conn[f].rx, ack)]
  <2>1. /\ cur \in Slots /\ backlog' = backlog /\ peer' = [peer EXCEPT ![cur] = NoPeer]
        /\ conn' = conn \/ (f # NoConn /\ conn' = [conn EXCEPT ![f] = w])
    BY <1>7 DEF Acknowledge, Base, TypeOK, Peer
  <2>2. f # NoConn => f \in Conns
    BY <1>1, <2>1 DEF PeerType
  <2>3. f \in Conns => w.st = conn[f].st
    BY <1>1 DEF ConnType
  <2> HIDE DEF f, w
  <2>4. \A c \in Conns : conn'[c].st = conn[c].st
    BY <1>1, <2>1, <2>2, <2>3
  <2> QED
    BY <1>1, <2>1, <2>4 DEF Calm, CalmSlot
<1>8. CASE \E s \in Slots : Age(s)
  <2>1. Quiet
    BY <1>8, AgeSlots
  <2>2. conn' = conn /\ backlog' = backlog
    BY <1>8 DEF Age, envVars
  <2> QED
    BY <2>1, <2>2, ExtendsCalm DEF Quiet, Calm
<1>9. CASE UNCHANGED <<peer, conn, backlog>>
  BY <1>9 DEF Calm, CalmSlot
<1> QED
  BY <1>2, <1>3, <1>4, <1>5, <1>6, <1>7, <1>8, <1>9, TableFrame DEF TableStep

\* Fewer holders are no more holders.
LEMMA FewerHolders ==
  ASSUME NEW ps, NEW qs, NEW role, Holding(qs, role) \subseteq Holding(ps, role)
  PROVE  Cardinality(Holding(qs, role)) <= Cardinality(Holding(ps, role))
<1>1. Holding(ps, role) \in SUBSET Slots
  BY DEF Holding
<1> QED
  BY <1>1, SlotsFinite, FS_Subset

\* Closing peers keeps the seats.
LEMMA CalmSeats ==
  ASSUME Base, Seats, ConnInv, Calm
  PROVE  Seats' /\ ConnInv'
<1>1. NoPeer.fd = NoConn
  BY DEF NoPeer
<1>2. \A s \in Slots : peer'[s].fd # NoConn => peer'[s].fd = peer[s].fd /\ peer'[s].role = peer[s].role
  BY <1>1 DEF Calm, CalmSlot
<1>3. \A role : Holding(peer', role) \subseteq Holding(peer, role)
  BY <1>2 DEF Holding
<1>4. Cardinality(Holding(peer', "OBSERVER")) <= MaxObservers
  <2>1. Cardinality(Holding(peer', "OBSERVER")) <= Cardinality(Holding(peer, "OBSERVER"))
    BY <1>3, FewerHolders
  <2>2. /\ Cardinality(Holding(peer', "OBSERVER")) \in Nat
        /\ Cardinality(Holding(peer, "OBSERVER")) \in Nat
    BY SlotsFinite DEF Holding
  <2> QED
    BY <2>1, <2>2, Sizes DEF Seats
<1>5. Seats'
  BY <1>2, <1>3, <1>4 DEF Seats
<1>6. \A s \in Slots : peer[s].fd # NoConn => peer[s].fd \in Conns
  BY DEF Base, TypeOK, PeerType
<1>7. backlog \in Seq(Conns) /\ backlog' = backlog /\ \A c \in Conns : conn'[c].st = conn[c].st
  BY DEF Base, TypeOK, Calm
<1>8. \A i \in DOMAIN backlog : backlog[i] \in Conns
  BY <1>7
<1> QED
  BY <1>2, <1>5, <1>6, <1>7, <1>8 DEF ConnInv

\* A granted OPEN takes a seat that was free.
LEMMA GrantSeats ==
  ASSUME Base, Seats, ConnInv, ServeOpenGranted
  PROVE  Seats' /\ ConnInv'
<1>1. PICK role \in {"CONTROL", "OBSERVER"}, st \in Status :
        /\ Accepts(role) /\ ~Taken(role) /\ OthersQuiet
        /\ Extends(peer'[cur], [peer[cur] EXCEPT !.role = role],
                   WelcomePackets(peer[cur].q, role, st))
  BY GrantedSlots
<1>2. pc = "serve" /\ peer[cur].role = "none"
  BY <1>1 DEF Accepts, Peer
<1>3. cur \in Slots /\ peer[cur] \in PeerType /\ peer \in [Slots -> PeerType]
  BY <1>2, ServedRequest DEF Base, TypeOK
<1>4. [peer[cur] EXCEPT !.role = role].fd = peer[cur].fd /\ [peer[cur] EXCEPT !.role = role].role = role
  BY <1>3 DEF PeerType
<1>5. NoPeer.fd = NoConn
  BY DEF NoPeer
<1>6. peer'[cur].fd # NoConn => peer'[cur].fd = peer[cur].fd /\ peer'[cur].role = role
  BY <1>1, <1>4, <1>5 DEF Extends
<1>7. \A s \in Slots \ {cur} :
        peer'[s].fd # NoConn => peer'[s].fd = peer[s].fd /\ peer'[s].role = peer[s].role
  BY <1>1, <1>5 DEF OthersQuiet, Extends
<1>8. \A s, t \in Holding(peer', "CONTROL") : s = t
  <2>1. CASE role = "CONTROL"
    <3>1. Holding(peer, "CONTROL") = {}
      BY <1>1, <2>1 DEF Taken
    <3>2. Holding(peer', "CONTROL") \subseteq {cur}
      BY <1>7, <3>1 DEF Holding
    <3> QED
      BY <3>2
  <2>2. CASE role = "OBSERVER"
    <3>1. Holding(peer', "CONTROL") \subseteq Holding(peer, "CONTROL")
      BY <1>6, <1>7, <2>2 DEF Holding
    <3> QED
      BY <3>1 DEF Seats
  <2> QED
    BY <2>1, <2>2
<1> DEFINE O == Holding(peer, "OBSERVER")
           P == Holding(peer', "OBSERVER")
<1>9. IsFiniteSet(O) /\ Cardinality(O) \in Nat /\ IsFiniteSet(P) /\ Cardinality(P) \in Nat
  BY SlotsFinite DEF Holding
<1>10. Cardinality(P) <= MaxObservers
  <2>1. CASE role = "OBSERVER"
    <3>1. Cardinality(O) < MaxObservers
      BY <1>1, <1>9, <2>1, Sizes DEF Taken
    <3>2. P \subseteq O \cup {cur}
      BY <1>7 DEF Holding
    <3> HIDE DEF O, P
    <3>3. IsFiniteSet(O \cup {cur}) /\ Cardinality(O \cup {cur}) <= Cardinality(O) + 1
      <4>1. /\ IsFiniteSet(O \cup {cur})
            /\ Cardinality(O \cup {cur}) =
                 IF cur \in O THEN Cardinality(O) ELSE Cardinality(O) + 1
        BY <1>9, FS_AddElement
      <4> QED
        BY <1>9, <4>1
    <3>4. Cardinality(P) <= Cardinality(O \cup {cur}) /\ Cardinality(O \cup {cur}) \in Nat
      BY <3>2, <3>3, FS_Subset, FS_CardinalityType
    <3> QED
      BY <1>9, <3>1, <3>3, <3>4, Sizes
  <2>2. CASE role = "CONTROL"
    <3>1. P \subseteq O
      BY <1>6, <1>7, <2>2 DEF Holding
    <3>2. Cardinality(P) <= Cardinality(O)
      BY <3>1, FewerHolders
    <3>3. Cardinality(O) <= MaxObservers
      BY DEF Seats
    <3> HIDE DEF O, P
    <3> QED
      BY <1>9, <3>2, <3>3, Sizes
  <2> QED
    BY <2>1, <2>2
<1>11. \A s \in Slots : peer'[s].fd # NoConn => peer'[s].fd = peer[s].fd
  BY <1>6, <1>7
<1>12. Seats'
  BY <1>8, <1>10, <1>11 DEF Seats
<1>13. HandleRequest
  BY DEF HandleRequest
<1>14. backlog' = backlog /\ backlog \in Seq(Conns) /\ \A c \in Conns : conn'[c].st = conn[c].st
  BY <1>13, HandleRequestTables DEF Base, TypeOK
<1>15. \A i \in DOMAIN backlog : backlog[i] \in Conns
  BY <1>14
<1>16. \A s \in Slots : peer[s].fd # NoConn => peer[s].fd \in Conns
  BY <1>3 DEF PeerType
<1> QED
  BY <1>11, <1>12, <1>14, <1>15, <1>16 DEF ConnInv

\* An accepted connection comes from the backlog, so it sits in no slot yet.
LEMMA AcceptSeats ==
  ASSUME Base, Seats, ConnInv, AcceptPeer
  PROVE  Seats' /\ ConnInv'
<1> DEFINE c == Head(backlog)
           a == [conn[c] EXCEPT !.st = "accepted"]
           r == [conn[c] EXCEPT !.st = "refused"]
           w == [NoPeer EXCEPT !.fd = c]
<1>1. /\ c \in Conns /\ backlog # <<>> /\ backlog' = Tail(backlog)
      /\ \/ \E s \in Slots : /\ peer[s] = NoPeer /\ peer' = [peer EXCEPT ![s] = w]
                             /\ conn' = [conn EXCEPT ![c] = a]
         \/ peer' = peer /\ conn' = [conn EXCEPT ![c] = r]
  BY AcceptCases
<1>2. backlog \in Seq(Conns) /\ conn \in [Conns -> ConnType] /\ peer \in [Slots -> PeerType]
  BY DEF Base, TypeOK
<1>3. conn[c] \in ConnType
  BY <1>1, <1>2
<1>4. a.st = "accepted" /\ r.st = "refused"
  BY <1>3 DEF ConnType
<1>5. w.fd = c /\ w.role = "none" /\ c # NoConn /\ NoPeer.fd = NoConn
  BY <1>1, BrokerAssumption DEF NoPeer
<1>6. c = backlog[1] /\ 1 \in DOMAIN backlog
  BY <1>1, <1>2
<1> HIDE DEF c, a, r, w
<1>7. conn[c].st = "backlog" /\ \A s \in Slots : peer[s].fd # c
  BY <1>5, <1>6 DEF ConnInv
<1>8. \A d \in Conns \ {c} : conn'[d] = conn[d]
  BY <1>1, <1>2
<1>9. \A i \in DOMAIN backlog' : /\ i + 1 \in DOMAIN backlog /\ backlog'[i] = backlog[i + 1]
                                 /\ i \in Nat /\ backlog'[i] \in Conns /\ i + 1 # 1
  BY <1>1, <1>2
<1>10. \A i \in DOMAIN backlog' : conn'[backlog'[i]].st = "backlog"
  <2> TAKE i \in DOMAIN backlog'
  <2>1. backlog'[i] # c
    BY <1>6, <1>9 DEF ConnInv
  <2> QED
    BY <1>8, <1>9, <2>1 DEF ConnInv
<1>11. \A i, j \in DOMAIN backlog' : backlog'[i] = backlog'[j] => i = j
  <2> TAKE i, j \in DOMAIN backlog'
  <2>1. backlog'[i] = backlog'[j] => i + 1 = j + 1
    BY <1>9 DEF ConnInv
  <2> QED
    BY <1>9, <2>1
<1>12. \A s \in Slots : peer[s].fd # NoConn => peer[s].fd \in Conns
  BY <1>2 DEF PeerType
<1>13. ASSUME NEW s \in Slots, peer[s] = NoPeer, peer' = [peer EXCEPT ![s] = w],
              conn' = [conn EXCEPT ![c] = a]
       PROVE  Seats' /\ ConnInv'
  <2>1. \A t \in Slots : peer'[t] = IF t = s THEN w ELSE peer[t]
    BY <1>2, <1>13
  <2>2. \A role \in {"CONTROL", "OBSERVER"} : Holding(peer', role) \subseteq Holding(peer, role)
    BY <1>5, <2>1 DEF Holding
  <2>3. Cardinality(Holding(peer', "OBSERVER")) <= Cardinality(Holding(peer, "OBSERVER"))
    BY <2>2, FewerHolders
  <2>4. /\ Cardinality(Holding(peer', "OBSERVER")) \in Nat
        /\ Cardinality(Holding(peer, "OBSERVER")) \in Nat
    BY SlotsFinite DEF Holding
  <2>5. Cardinality(Holding(peer', "OBSERVER")) <= MaxObservers
    BY <2>3, <2>4, Sizes DEF Seats
  <2>6. \A t, u \in Slots : peer'[t].fd = peer'[u].fd /\ peer'[t].fd # NoConn => t = u
    BY <1>5, <1>7, <2>1 DEF Seats
  <2>7. \A t, u \in Holding(peer', "CONTROL") : t = u
    BY <2>2 DEF Seats
  <2>8. Seats'
    BY <2>5, <2>6, <2>7 DEF Seats
  <2>9. conn'[c].st = "accepted"
    BY <1>1, <1>2, <1>4, <1>13
  <2>10. \A t \in Slots : peer'[t].fd # NoConn => conn'[peer'[t].fd].st = "accepted"
    BY <1>5, <1>8, <1>12, <2>1, <2>9 DEF ConnInv
  <2> QED
    BY <1>10, <1>11, <2>8, <2>10 DEF ConnInv
<1>14. CASE peer' = peer /\ conn' = [conn EXCEPT ![c] = r]
  <2>1. Seats'
    BY <1>14 DEF Seats
  <2>2. \A t \in Slots : peer'[t].fd # NoConn => conn'[peer'[t].fd].st = "accepted"
    BY <1>7, <1>8, <1>12, <1>14 DEF ConnInv
  <2> QED
    BY <1>10, <1>11, <2>1, <2>2 DEF ConnInv
<1> QED
  BY <1>1, <1>13, <1>14

\* Closing the listener empties the backlog, connecting adds to it.
LEMMA BacklogSeats ==
  ASSUME Base, Seats, ConnInv, RemoveName \/ \E c \in Conns : Client(c)
  PROVE  Seats' /\ ConnInv'
<1>1. TypeOK /\ backlog \in Seq(Conns) /\ conn \in [Conns -> ConnType] /\ peer \in [Slots -> PeerType]
  BY DEF Base, TypeOK
<1>2. peer' = peer
  BY <1>1, ClientCases DEF RemoveName
<1>3. Seats'
  BY <1>2 DEF Seats
<1>4. \A s \in Slots : peer[s].fd # NoConn => peer[s].fd \in Conns
  BY <1>1 DEF PeerType
<1>5. CASE RemoveName
  <2>1. backlog' = <<>>
    BY <1>5 DEF RemoveName
  <2>2. DOMAIN <<>> = {}
    OBVIOUS
  <2>3. \A c \in Conns : conn[c].st # "backlog" => conn'[c] = conn[c]
    BY <1>5 DEF RemoveName
  <2> QED
    BY <1>2, <1>3, <1>4, <2>1, <2>2, <2>3 DEF ConnInv
<1>6. CASE \E c \in Conns : Client(c)
  <2>1. PICK c \in Conns :
         /\ \A d \in Conns \ {c} : conn'[d] = conn[d]
         /\ \/ backlog' = backlog /\ conn'[c].st = conn[c].st
            \/ /\ conn[c].st = "idle" /\ conn'[c].st = "backlog"
               /\ backlog' = Append(backlog, c)
    BY <1>1, <1>6, ClientCases
  <2>2. \A i \in DOMAIN backlog : backlog[i] \in Conns
    BY <1>1
  <2>3. CASE backlog' = backlog /\ conn'[c].st = conn[c].st
    <3>1. \A d \in Conns : conn'[d].st = conn[d].st
      BY <2>1, <2>3
    <3> QED
      BY <1>2, <1>3, <1>4, <2>2, <2>3, <3>1 DEF ConnInv
  <2>4. CASE /\ conn[c].st = "idle" /\ conn'[c].st = "backlog"
             /\ backlog' = Append(backlog, c)
    <3>1. \A i \in DOMAIN backlog : backlog[i] # c
      BY <2>4 DEF ConnInv
    <3>2. \A s \in Slots : peer[s].fd # c
      BY <2>4, BrokerAssumption DEF ConnInv
    <3>3. \A i \in DOMAIN backlog' : \/ i \in DOMAIN backlog /\ backlog'[i] = backlog[i]
                                     \/ i = Len(backlog) + 1 /\ backlog'[i] = c
      BY <1>1, <2>4
    <3>4. \A i \in DOMAIN backlog' : conn'[backlog'[i]].st = "backlog"
      BY <2>1, <2>2, <2>4, <3>1, <3>3 DEF ConnInv
    <3>5. \A i, j \in DOMAIN backlog' : backlog'[i] = backlog'[j] => i = j
      BY <3>1, <3>3 DEF ConnInv
    <3>6. \A s \in Slots : peer'[s].fd # NoConn => conn'[peer'[s].fd].st = "accepted"
      BY <1>2, <1>4, <2>1, <3>2 DEF ConnInv
    <3> QED
      BY <1>3, <3>4, <3>5, <3>6 DEF ConnInv
  <2> QED
    BY <2>1, <2>3, <2>4
<1> QED
  BY <1>5, <1>6

\* Seats and the backlog together are inductive.
THEOREM SeatsHold == Spec => [](Seats /\ ConnInv)
<1>1. Init => Seats /\ ConnInv
  <2> SUFFICES ASSUME Init
               PROVE  Seats /\ ConnInv
    OBVIOUS
  <2>1. backlog = <<>> /\ \A s \in Slots : peer[s].fd = NoConn
    BY DEF Init, NoPeer
  <2>2. \A role : Holding(peer, role) = {}
    BY <2>1 DEF Holding
  <2>3. Cardinality({}) = 0 /\ DOMAIN <<>> = {}
    BY FS_EmptySet
  <2>4. Cardinality(Holding(peer, "OBSERVER")) <= MaxObservers
    BY <2>2, <2>3, Sizes
  <2>5. Seats
    BY <2>1, <2>2, <2>4 DEF Seats
  <2>6. ConnInv
    BY <2>1, <2>3 DEF ConnInv
  <2> QED
    BY <2>5, <2>6
<1>2. (Base /\ InputFifo) /\ (Seats /\ ConnInv) /\ [Next]_vars => (Seats /\ ConnInv)'
  BY CalmSteps, CalmSeats, GrantSeats, AcceptSeats, BacklogSeats
<1> QED
  BY <1>1, <1>2, BaseHolds, PTL DEF Spec

\* However requests to open, hangups, overflows and accepts interleave, there is
\* one controller, at most PB_OBSERVERS observers, and no connection in two slots.
THEOREM SeatsAlways == Spec => []Seats
  BY SeatsHold, PTL

-----------------------------------------------------------------------------
(* What one client of the service sees: the packets it has been sent and   *)
(* the packets that are queued for it, as one stream.                      *)

\* An element is appended at the end.
LEMMA AppendAt ==
  ASSUME NEW X, NEW s \in Seq(X), NEW x \in X
  PROVE  /\ Append(s, x) \in Seq(X) /\ Len(Append(s, x)) = Len(s) + 1
         /\ \A i \in 1 .. Len(s) : Append(s, x)[i] = s[i]
         /\ Append(s, x)[Len(s) + 1] = x
  OBVIOUS

-----------------------------------------------------------------------------
(* The stream of a connection.                                             *)

\* A connection sits in one slot, and its stream ends with that slot's queue.
LEMMA StreamHeld ==
  ASSUME Base, Seats, NEW s \in Slots, peer[s].fd # NoConn
  PROVE  Stream(peer[s].fd) = conn[peer[s].fd].rx \o peer[s].q
<1> DEFINE c == peer[s].fd
           held == {t \in Slots : peer[t].fd = c}
<1>1. held = {s}
  BY DEF Seats
<1>2. held \in SUBSET Nat /\ held # {}
  BY <1>1 DEF Slots
<1>3. Min(held) = s
  <2> HIDE DEF held
  <2> QED
    BY <1>1, <1>2, MinNat
<1>4. Stream(c) = IF held = {} THEN conn[c].rx ELSE conn[c].rx \o peer[Min(held)].q
  BY DEF Stream
<1> QED
  BY <1>2, <1>3, <1>4

\* Without a slot the stream is what the client has been sent.
LEMMA StreamFree ==
  ASSUME NEW c, \A s \in Slots : peer[s].fd # c
  PROVE  Stream(c) = conn[c].rx
  BY DEF Stream

\* The streams are sequences of exact packets.
LEMMA StreamType ==
  ASSUME Base, Seats, NEW c \in Conns
  PROVE  Stream(c) \in Seq(Packet)
<1>1. conn[c].rx \in Seq(Packet)
  BY DEF Base, RxPackets
<1>2. CASE \A s \in Slots : peer[s].fd # c
  BY <1>1, <1>2, StreamFree
<1>3. ASSUME NEW s \in Slots, peer[s].fd = c
      PROVE  Stream(c) \in Seq(Packet)
  <2>1. c # NoConn /\ peer[s].q \in Seq(Queueable)
    BY BrokerAssumption DEF Base, GoodPeer
  <2>2. peer[s].q \in Seq(Packet)
    BY <2>1 DEF Queueable
  <2>3. Stream(c) = conn[c].rx \o peer[s].q
    BY <1>3, <2>1, StreamHeld
  <2> QED
    BY <1>1, <2>2, <2>3, ConcatAt
<1> QED
  BY <1>2, <1>3

\* Whatever was overwritten in the history ring before or after a packet was
\* queued, the PTY bytes in it are those its offset says.
THEOREM BytesExactAlways == Spec => []BytesExact
<1>1. (Base /\ InputFifo) /\ (Seats /\ ConnInv) => BytesExact
  <2> SUFFICES ASSUME Base, Seats, NEW c \in Conns, NEW i \in DOMAIN Stream(c)
               PROVE  Exact(Stream(c)[i])
    BY DEF BytesExact, Exact
  <2>1. Stream(c) \in Seq(Packet)
    BY StreamType
  <2>2. Stream(c)[i] \in Packet
    BY <2>1
  <2> QED
    BY <2>2 DEF Packet
<1> QED
  BY <1>1, BaseHolds, SeatsHold, PTL

-----------------------------------------------------------------------------
(* Streams without holes.                                                  *)

\* The marks of a stream are places in it, after the first.
LEMMA MarksIn ==
  ASSUME NEW S \in Seq(Packet), Len(S) > 1
  PROVE  Marks(S) \subseteq 1 .. Len(S) /\ 2 \in Marks(S)
  BY DEF Marks

\* A stream with the same marks is as contiguous.
LEMMA SameMarks ==
  ASSUME NEW S \in Seq(Packet), NEW T \in Seq(Packet), Len(T) > 1,
         Marks(T) = Marks(S), \A i \in Marks(S) : T[i] = S[i], Contiguous(S)
  PROVE  Contiguous(T) /\ \A n : UpTo(S, n) => UpTo(T, n)
<1>1. 2 \in Marks(S)
  BY DEF Marks
<1>2. \A i \in Marks(S) : Reached(T, i) = Reached(S, i)
  BY <1>1 DEF Reached
<1>3. Contiguous(T)
  BY <1>1, <1>2 DEF Contiguous
<1>4. \A n : UpTo(S, n) => UpTo(T, n)
  BY <1>2 DEF UpTo
<1> QED
  BY <1>3, <1>4

\* Packets other than OUTPUT leave no mark.
LEMMA AppendOther ==
  ASSUME NEW S \in Seq(Packet), NEW m \in Packet, m.type # "OUTPUT", Contiguous(S)
  PROVE  Contiguous(Append(S, m)) /\ \A n : UpTo(S, n) => UpTo(Append(S, m), n)
<1> DEFINE T == Append(S, m)
<1>1. /\ T \in Seq(Packet) /\ Len(T) = Len(S) + 1 /\ DOMAIN T = 1 .. Len(S) + 1
      /\ \A i \in 1 .. Len(S) : T[i] = S[i]
      /\ T[Len(S) + 1] = m /\ DOMAIN S = 1 .. Len(S) /\ Len(S) \in Nat /\ Len(S) > 1
  BY DEF Contiguous
<1> HIDE DEF T
<1>2. Marks(S) \subseteq 1 .. Len(S)
  BY <1>1, MarksIn
<1>3. Marks(T) = Marks(S)
  BY <1>1 DEF Marks
<1>4. Len(T) > 1 /\ \A i \in Marks(S) : T[i] = S[i]
  BY <1>1, <1>2
<1> QED
  BY <1>1, <1>3, <1>4, SameMarks DEF T

\* OUTPUT that starts where the stream ends leads it on.
LEMMA AppendOutput ==
  ASSUME NEW S \in Seq(Packet), NEW m \in Packet, m.type = "OUTPUT", Contiguous(S),
         UpTo(S, m.off)
  PROVE  Contiguous(Append(S, m)) /\ UpTo(Append(S, m), m.off + m.size)
<1> DEFINE T == Append(S, m)
           L == Len(S) + 1
<1>1. /\ T \in Seq(Packet) /\ Len(T) = L /\ DOMAIN T = 1 .. L
      /\ \A i \in 1 .. Len(S) : T[i] = S[i]
      /\ T[L] = m /\ DOMAIN S = 1 .. Len(S) /\ Len(S) \in Nat /\ Len(S) > 1
  BY DEF Contiguous
<1> HIDE DEF T
<1>2. Marks(S) \subseteq 1 .. Len(S) /\ 2 \in Marks(S)
  BY <1>1, MarksIn
<1>3. Marks(T) = Marks(S) \cup {L}
  BY <1>1 DEF Marks
<1>4. L \in Nat /\ L # 2 /\ \A i \in Marks(S) : i \in Nat /\ i < L
  BY <1>1, <1>2
<1>5. \A i \in Marks(S) : T[i] = S[i] /\ Reached(T, i) = Reached(S, i)
  BY <1>1, <1>2 DEF Reached
<1> HIDE DEF L
<1>6. Reached(T, L) = m.off + m.size
  BY <1>1, <1>4 DEF Reached
<1>7. UpTo(T, m.off + m.size)
  <2> SUFFICES ASSUME NEW i \in Marks(T), \A k \in Marks(T) : k <= i
               PROVE  Reached(T, i) = m.off + m.size
    BY DEF UpTo
  <2>1. i = L
    <3>1. L <= i /\ (i \in Marks(S) \/ i = L)
      BY <1>3
    <3> QED
      BY <1>4, <3>1
  <2> QED
    BY <1>6, <2>1
<1>8. ASSUME NEW i \in Marks(T), NEW j \in Marks(T), i < j,
             \A k \in Marks(T) : k <= i \/ j <= k
      PROVE  T[j].off = Reached(T, i)
  <2>1. i \in Marks(S)
    BY <1>3, <1>4, <1>8
  <2>2. CASE j \in Marks(S)
    BY <1>3, <1>5, <1>8, <2>1, <2>2 DEF Contiguous
  <2>3. CASE j = L
    <3>1. \A k \in Marks(S) : k <= i
      BY <1>3, <1>4, <1>8, <2>3
    <3>2. Reached(S, i) = m.off
      BY <2>1, <3>1 DEF UpTo
    <3> QED
      BY <1>1, <1>5, <2>1, <2>3, <3>2
  <2> QED
    BY <1>3, <2>2, <2>3
<1>9. Len(T) > 1 /\ T[2].type = "ATTACHED"
  BY <1>1, <1>2, <1>4, <1>5 DEF Contiguous, L
<1> QED
  BY <1>7, <1>8, <1>9 DEF Contiguous, T

\* What is left when the queue is thrown away has no hole either.
LEMMA PrefixContiguous ==
  ASSUME NEW S \in Seq(Packet), Contiguous(S), NEW k \in 2 .. Len(S)
  PROVE  Contiguous(SubSeq(S, 1, k))
<1> DEFINE T == SubSeq(S, 1, k)
<1>1. /\ T \in Seq(Packet) /\ Len(T) = k /\ DOMAIN T = 1 .. k /\ \A i \in 1 .. k : T[i] = S[i]
      /\ Len(S) \in Nat /\ DOMAIN S = 1 .. Len(S)
  OBVIOUS
<1> HIDE DEF T
<1>2. Marks(S) \subseteq 1 .. Len(S) /\ Len(S) > 1
  BY <1>1, MarksIn DEF Contiguous
<1>3. Marks(T) = Marks(S) \cap (1 .. k)
  BY <1>1 DEF Marks
<1>4. \A i \in Marks(T) : T[i] = S[i] /\ Reached(T, i) = Reached(S, i)
  BY <1>1, <1>3 DEF Reached
<1>5. ASSUME NEW i \in Marks(T), NEW j \in Marks(T), i < j,
             \A h \in Marks(T) : h <= i \/ j <= h
      PROVE  T[j].off = Reached(T, i)
  <2>1. \A h \in Marks(S) : h <= i \/ j <= h
    <3> TAKE h \in Marks(S)
    <3>1. CASE h <= k
      BY <1>2, <1>3, <1>5, <3>1
    <3>2. CASE h > k
      <4>1. j \in 1 .. k /\ h \in 1 .. Len(S)
        BY <1>2, <1>3
      <4> QED
        BY <1>1, <3>2, <4>1
    <3> QED
      BY <1>1, <1>2, <3>1, <3>2
  <2>2. i \in Marks(S) /\ j \in Marks(S)
    BY <1>3
  <2> QED
    BY <1>4, <1>5, <2>1, <2>2 DEF Contiguous
<1>6. Len(T) > 1 /\ T[2].type = "ATTACHED"
  BY <1>1, <1>2 DEF Contiguous
<1> QED
  BY <1>5, <1>6 DEF Contiguous, T

\* The stream of a new subscriber: the answer, ATTACHED at the end of the output,
\* perhaps a GAP, and EXIT exactly when the exit was announced before.
LEMMA WelcomeLine ==
  ASSUME Base, NEW role \in {"CONTROL", "OBSERVER"}, NEW st \in Status
  PROVE  LET T == WelcomePackets(<<>>, role, st)
         IN /\ T \in Seq(Queueable) /\ Len(T) > 1
            /\ T[1].type = role /\ \A i \in 2 .. Len(T) : T[i].type \in EventTypes
            /\ \A i \in DOMAIN T : T[i].type # "OUTPUT"
            /\ \A i \in DOMAIN T : T[i].type = "EXIT" =>
                 i = Len(T) /\ T[i].off = next /\ ~childLive /\ eof
            /\ ~childLive /\ eof => T[Len(T)].type = "EXIT"
            /\ Contiguous(T) /\ UpTo(T, next)
<1> DEFINE m1 == WithStatus(role, next, st)
           m2 == WithStatus("ATTACHED", next, st)
           m3 == WithStatus("GAP", st.oldest, st)
           m4 == WithStatus("EXIT", next, st)
           T == WelcomePackets(<<>>, role, st)
<1>1. next \in Nat /\ st.oldest \in Nat
  BY DEF Base, TypeOK, Status
<1>2. m1 \in Queueable /\ m2 \in Queueable /\ m3 \in Queueable /\ m4 \in Queueable
  <2>1. {role, "ATTACHED", "GAP", "EXIT"} \subseteq
          (RequestTypes \cup EventTypes) \ {"OUTPUT", "CAPTURE", "TERMINATE"}
    BY DEF RequestTypes, EventTypes
  <2> QED
    BY <1>1, <2>1, StatusPacket
<1>3. /\ m1.type = role /\ m2.type = "ATTACHED" /\ m3.type = "GAP" /\ m4.type = "EXIT"
      /\ m2.off = next /\ m4.off = next
  BY DEF WithStatus
<1> HIDE DEF m1, m2, m3, m4
<1>4. PICK A : A = Append(Append(<<>>, m1), m2)
  OBVIOUS
<1>5. A \in Seq(Queueable) /\ Len(A) = 2 /\ A[1] = m1 /\ A[2] = m2
  BY <1>2, <1>4
<1>6. PICK G : G = IF next > 0 THEN Append(A, m3) ELSE A
  OBVIOUS
<1>7. T = IF ~childLive /\ eof THEN Append(G, m4) ELSE G
  BY <1>4, <1>6, Zenon DEF WelcomePackets, m1, m2, m3, m4
<1>8. /\ G \in Seq(Queueable) /\ Len(G) \in 2 .. 3 /\ G[1] = m1 /\ G[2] = m2
       /\ \A i \in 3 .. Len(G) : G[i] = m3
  <2>1. CASE G = Append(A, m3)
    <3>1. G \in Seq(Queueable) /\ Len(G) = 3 /\ (\A i \in 1 .. 2 : G[i] = A[i]) /\ G[3] = m3
      <4>1. A \in Seq(Queueable) /\ m3 \in Queueable /\ Len(A) = 2
        BY <1>2, <1>5
      <4>2. Append(A, m3) \in Seq(Queueable) /\ Len(Append(A, m3)) = Len(A) + 1
        BY <4>1, AppendAt
      <4>3. \A i \in 1 .. Len(A) : Append(A, m3)[i] = A[i]
        BY <4>1, AppendAt
      <4>4. Append(A, m3)[Len(A) + 1] = m3
        BY <4>1, AppendAt
      <4> QED
        BY <2>1, <4>1, <4>2, <4>3, <4>4
    <3> QED
      BY <1>5, <3>1
  <2>2. CASE G = A
    <3>1. G \in Seq(Queueable)
      BY <1>5, <2>2
    <3>2. Len(G) = 2
      BY <1>5, <2>2
    <3>3. G[1] = m1 /\ G[2] = m2
      BY <1>5, <2>2
    <3>4. Len(G) \in 2 .. 3
      BY <3>2
    <3>5. \A i \in 3 .. Len(G) : G[i] = m3
      BY <3>2
    <3> QED
      BY <3>1, <3>3, <3>4, <3>5
  <2> QED
    BY <1>6, <2>1, <2>2
<1> HIDE DEF T
<1>9. /\ T \in Seq(Queueable) /\ Len(T) \in Nat /\ Len(T) > 1 /\ T[1] = m1 /\ T[2] = m2
      /\ \A i \in 3 .. Len(T) : T[i] = m3 \/ (T[i] = m4 /\ i = Len(T) /\ ~childLive /\ eof)
      /\ ~childLive /\ eof => T[Len(T)] = m4
  <2>1. CASE ~childLive /\ eof
    <3>1. T = Append(G, m4)
      BY <1>7, <2>1
    <3> QED
      BY <1>2, <1>8, <2>1, <3>1
  <2>2. CASE ~(~childLive /\ eof)
    <3>1. T = G
      BY <1>7, <2>2
    <3> QED
      BY <1>8, <2>2, <3>1
  <2> QED
    BY <2>1, <2>2
<1>10. DOMAIN T = 1 .. Len(T) /\ \A i \in DOMAIN T : i = 1 \/ i = 2 \/ i \in 3 .. Len(T)
  BY <1>9
<1>11. \A i \in DOMAIN T : T[i].type # "OUTPUT"
  BY <1>3, <1>9, <1>10
<1>12. T[1].type = role /\ \A i \in 2 .. Len(T) : T[i].type \in EventTypes
  <2>1. \A i \in 2 .. Len(T) : i = 2 \/ i \in 3 .. Len(T)
    BY <1>9
  <2> QED
    BY <1>3, <1>9, <2>1 DEF EventTypes
<1>13. \A i \in DOMAIN T : T[i].type = "EXIT" =>
         i = Len(T) /\ T[i].off = next /\ ~childLive /\ eof
  BY <1>3, <1>9, <1>10
<1>14. Marks(T) = {2}
  BY <1>11 DEF Marks
<1>15. Contiguous(T)
  BY <1>3, <1>9, <1>14 DEF Contiguous
<1>16. UpTo(T, next)
  BY <1>3, <1>9, <1>14 DEF UpTo, Reached
<1> QED
  BY <1>3, <1>9, <1>11, <1>12, <1>13, <1>15, <1>16 DEF T

-----------------------------------------------------------------------------
(* The exit flags.                                                         *)

\* Inside a turn of the loop the exit is announced exactly when the shell is
\* reaped and the PTY is drained; output is read only before the end of file.
ExitFlags ==
  /\ pc \in {"scan", "serve", "flush", "accept", "input"} /\ rev.min => ~eof
  /\ pc = "output" => ~eof
  /\ exitSent => eof /\ ~childLive
  /\ pc \in {"poll", "scan", "serve", "flush", "accept", "input", "output"} /\ eof /\ ~childLive
       => exitSent

\* Every step keeps the flags of the exit in order.
LEMMA NextExitFlags ==
  ASSUME ExitFlags, [Next]_vars
  PROVE  ExitFlags'
<1>1. CASE LoopEnds \/ SignalFails \/ PollInterrupted \/ PollFails
  <2>1. /\ pc' \in {"clean", "top"} /\ UNCHANGED <<eof, exitSent>>
        /\ childLive' = childLive \/ childLive' = (childLive /\ ~ShellReaped)
    BY <1>1 DEF LoopEnds, SignalFails, PollInterrupted, PollFails, flagVars
  <2>2. childLive' => childLive
    BY <2>1, Zenon
  <2> QED
    BY <2>1, <2>2 DEF ExitFlags
<1>2. CASE LoopTurn
  <2>1. /\ exitSent' = (exitSent \/ Announce(childLive')) /\ pc' = "poll" /\ eof' = eof
        /\ childLive' = (childLive /\ ~ShellReaped)
    BY <1>2, Zenon DEF LoopTurn
  <2> QED
    BY <2>1 DEF ExitFlags, Announce
<1>3. CASE Poll
  <2>1. (rev.min => ~eof)'
    <3>1. eof' = eof /\ rev'.min = (~eof /\ (ptyOut > 0 \/ ~TtyHeld))
      BY <1>3 DEF Poll, flagVars
    <3> QED
      BY <3>1, Zenon
  <2>2. pc = "poll" /\ pc' = "scan" /\ UNCHANGED <<eof, exitSent, childLive>>
    BY <1>3 DEF Poll, flagVars
  <2> QED
    BY <2>1, <2>2 DEF ExitFlags
<1>4. CASE Scan
  <2>1. /\ pc = "scan" /\ UNCHANGED <<rev, eof, exitSent, childLive>>
        /\ pc' \in {"serve", "flush"} \/ pc' = AfterPeers
    BY <1>4 DEF Scan, flagVars
  <2> QED
    BY <2>1 DEF ExitFlags, AfterPeers, AfterAccept, AfterInput
<1>5. CASE HandleRequest
  BY <1>5, HandleRequestFrame DEF ExitFlags
<1>6. CASE FlushPeer \/ AcceptPeer
  <2>1. /\ pc \in {"flush", "accept"} /\ pc' \in {"scan", "accept"}
        /\ UNCHANGED <<rev, eof, exitSent, childLive>>
    BY <1>6 DEF FlushPeer, FlushNothing, FlushBroken, Flush, AcceptPeer, flagVars
  <2> QED
    BY <2>1 DEF ExitFlags
<1>7. CASE AcceptDone \/ ForwardInput
  <2>1. /\ pc \in {"accept", "input"} /\ UNCHANGED <<rev, eof, exitSent, childLive>>
        /\ pc' = AfterAccept \/ pc' = AfterInput
    BY <1>7 DEF AcceptDone, ForwardInput, flagVars
  <2> QED
    BY <2>1 DEF ExitFlags, AfterAccept, AfterInput
<1>8. CASE ReadOutput \/ OutputDone \/ OutputEof
  BY <1>8 DEF ExitFlags, ReadOutput, OutputDone, OutputEof, flagVars
<1>9. CASE CleanDone \/ CleanSignals \/ CleanCannotSignal
  <2>1. /\ pc' \in {"clean", "remove"} /\ UNCHANGED <<eof, exitSent>>
        /\ childLive' = (childLive /\ ~ShellReaped)
    BY <1>9 DEF CleanDone, CleanSignals, CleanCannotSignal, CleanStep
  <2>2. childLive' => childLive
    BY <2>1, Zenon
  <2> QED
    BY <2>1, <2>2 DEF ExitFlags
<1>10. CASE RemoveName \/ Acknowledge
  <2>1. pc' \in {"ack", "exited"} /\ UNCHANGED <<eof, exitSent, childLive>>
    BY <1>10 DEF RemoveName, Acknowledge, flagVars
  <2> QED
    BY <2>1 DEF ExitFlags
<1>11. CASE \/ \E c \in Conns : Client(c)
            \/ \E s \in Slots : Age(s)
            \/ StopClock \/ Signal \/ Finished \/ UNCHANGED vars
  <2>1. UNCHANGED <<pc, rev, eof, exitSent, childLive>>
    BY <1>11, EnvironmentFrame DEF loopVars
  <2> QED
    BY <2>1 DEF ExitFlags
<1>12. CASE \E p \in Procs : Process(p)
  BY <1>12, ProcessFrame DEF ExitFlags, loopVars, flagVars
<1> QED
  BY <1>1, <1>2, <1>3, <1>4, <1>5, <1>6, <1>7, <1>8, <1>9, <1>10, <1>11, <1>12 DEF Next, Service

-----------------------------------------------------------------------------
(* The steps as a client sees them.                                        *)

\* Nobody has been sent anything or asked anything new.
SameConns ==
  \A c \in Conns : /\ conn'[c].rx = conn[c].rx /\ conn'[c].asked = conn[c].asked
                   /\ conn'[c].st # "accepted" => conn[c].st # "accepted"

\* The request in slot cur is now what its connection asked.
NowAsked ==
  /\ pc = "serve" /\ Accepts(Asked.type)
  /\ \A c \in Conns :
       /\ conn'[c].rx = conn[c].rx /\ conn'[c].st = conn[c].st
       /\ conn'[c].asked = IF c = peer[cur].fd THEN Asked.type ELSE conn[c].asked

\* A request that is not refused is what the connection asked from then on.
LEMMA AskedCases ==
  ASSUME Base, HandleRequest
  PROVE  (ServeRefuse /\ SameConns) \/ (~ServeRefuse /\ NowAsked)
<1>1. /\ \A c \in Conns : conn'[c].rx = conn[c].rx /\ conn'[c].st = conn[c].st
      /\ pc = "serve" /\ conn \in [Conns -> ConnType]
  BY HandleRequestTables DEF Base, TypeOK
<1>2. Peer.fd \in Conns /\ Peer = peer[cur] /\ conn[Peer.fd] \in ConnType
  BY <1>1, ServedRequest
<1>3. CASE ServeRefuse
  <2> DEFINE k == [conn[Peer.fd] EXCEPT !.inbox = <<>>]
  <2>1. conn' = [conn EXCEPT ![Peer.fd] = k]
    BY <1>3 DEF ServeRefuse
  <2>2. k.asked = conn[Peer.fd].asked
    BY <1>2 DEF ConnType
  <2> HIDE DEF k
  <2>3. \A c \in Conns : conn'[c].asked = conn[c].asked
    BY <1>1, <1>2, <2>1, <2>2
  <2> QED
    BY <1>1, <1>3, <2>3 DEF SameConns
<1>4. CASE ~ServeRefuse
  <2>1. PICK ps : \E type : Accepts(type) /\ Handled(ps)
    <3>1. CASE ServeStatus \/ ServeUnknown \/ ServeCapture
      BY <3>1 DEF ServeStatus, ServeUnknown, ServeCapture
    <3>2. CASE ServeOpenRefused
      BY <3>2 DEF ServeOpenRefused
    <3>3. CASE ServeOpenGranted
      BY <3>3, Zenon DEF ServeOpenGranted
    <3>4. CASE ServeResizeRefused
      BY <3>4 DEF ServeResizeRefused
    <3>5. CASE ServeResize
      BY <3>5, Zenon DEF ServeResize
    <3>6. CASE ServeInputRefused
      BY <3>6 DEF ServeInputRefused
    <3>7. CASE ServeInput \/ ServeTerminate
      BY <3>7, Zenon DEF ServeInput, ServeTerminate
    <3> QED
      BY <1>4, <3>1, <3>2, <3>3, <3>4, <3>5, <3>6, <3>7 DEF HandleRequest
  <2>2. Accepts(Asked.type) /\ conn[Peer.fd].inbox # <<>>
    BY <2>1 DEF Accepts
  <2> DEFINE k == [conn[Peer.fd] EXCEPT !.inbox = Tail(conn[Peer.fd].inbox), !.asked = Asked.type]
  <2>3. conn' = [conn EXCEPT ![Peer.fd] = k]
    BY <1>1, <1>2, <2>1 DEF Handled
  <2>4. k.asked = Asked.type
    BY <1>2 DEF ConnType
  <2> HIDE DEF k
  <2>5. \A c \in Conns : conn'[c].asked = IF c = peer[cur].fd THEN Asked.type ELSE conn[c].asked
    BY <1>1, <1>2, <2>3, <2>4
  <2> QED
    BY <1>1, <1>4, <2>2, <2>5 DEF NowAsked
<1> QED
  BY <1>3, <1>4

\* Peers keep their queues or are closed.
QuietStep == Quiet /\ SameConns /\ next' = next /\ exitSent' = exitSent

\* Every subscriber is told of the exit or of output.
TellStep(m) ==
  /\ Tells(m) /\ SameConns
  /\ \/ /\ m.type = "EXIT" /\ m.off = next /\ next' = next
        /\ ~exitSent /\ exitSent' /\ eof
     \/ m.type = "OUTPUT" /\ m.off = next /\ next' = next + m.size /\ pc = "output" /\ exitSent' = exitSent

\* A request is answered, makes its connection a subscriber or is put aside.
RequestStep ==
  /\ NowAsked /\ next' = next /\ exitSent' = exitSent
  /\ OthersQuiet \/ \E m \in Queueable : m.type = "GEOMETRY" /\ ~eof /\ Others(m)
  /\ \/ \E m \in Queueable :
          /\ m.type = Asked.type
          /\ Extends(peer'[cur], [peer[cur] EXCEPT !.closing = TRUE], Append(peer[cur].q, m))
     \/ \E role \in {"CONTROL", "OBSERVER"}, st \in Status :
          /\ Asked.type = role
          /\ Extends(peer'[cur], [peer[cur] EXCEPT !.role = role],
                     WelcomePackets(peer[cur].q, role, st))
     \/ /\ Asked.type = "TERMINATE"
        /\ Extends(peer'[cur], [peer[cur] EXCEPT !.terminating = TRUE], peer[cur].q)

\* The steps that do none of this: they move packets to a client or a client to
\* a slot.
OtherStep ==
  /\ (\E k \in 0 .. FlushQuota : Flush(k)) \/ AcceptPeer \/ Acknowledge
  /\ next' = next /\ exitSent' = exitSent

\* A step tells nothing, tells all subscribers, serves a request, or is one of the others.
LEMMA StepKinds ==
  ASSUME Base, [Next]_vars
  PROVE  QuietStep \/ (\E m \in Queueable : TellStep(m)) \/ RequestStep \/ OtherStep
<1>1. next' = next \/ ReadOutput
  BY OutputFrame DEF outVars
<1>2. exitSent' = exitSent \/ LoopTurn
  <2>1. CASE LoopEnds \/ SignalFails \/ Poll \/ PollInterrupted \/ PollFails \/ Scan
    BY <2>1 DEF LoopEnds, SignalFails, Poll, PollInterrupted, PollFails, Scan, flagVars
  <2>2. CASE HandleRequest
    BY <2>2, HandleRequestFrame
  <2>3. CASE FlushPeer \/ AcceptPeer \/ AcceptDone \/ ForwardInput \/ ReadOutput \/ OutputDone
             \/ OutputEof
    BY <2>3 DEF FlushPeer, FlushNothing, FlushBroken, Flush, AcceptPeer, AcceptDone, ForwardInput,
                ReadOutput, OutputDone, OutputEof, flagVars
  <2>4. CASE CleanDone \/ CleanSignals \/ CleanCannotSignal \/ RemoveName \/ Acknowledge
    BY <2>4 DEF CleanDone, CleanSignals, CleanCannotSignal, CleanStep, RemoveName, Acknowledge,
                flagVars
  <2> QED
    BY <2>1, <2>2, <2>3, <2>4, EnvironmentFrame, ProcessFrame DEF Next, Service, flagVars
<1>3. CASE LoopTurn
  <2>1. conn' = conn /\ next' = next
    BY <1>3 DEF LoopTurn, outVars
  <2>2. SameConns
    BY <2>1 DEF SameConns
  <2>3. exitSent' = (exitSent \/ Announce(childLive'))
    BY <1>3, LoopTurnCases
  <2>4. CASE ~Announce(childLive') /\ Quiet
    <3>1. exitSent' = exitSent
      <4>1. exitSent \in BOOLEAN
        BY DEF Base, TypeOK
      <4> QED
        BY <2>3, <2>4, <4>1
    <3> QED
      BY <2>1, <2>2, <2>4, <3>1 DEF QuietStep
  <2>5. ASSUME Announce(childLive'), NEW m \in Queueable, m.type = "EXIT", m.off = next, Tells(m)
        PROVE  TellStep(m)
    <3>1. ~exitSent /\ eof /\ exitSent'
      BY <2>3, <2>5, Zenon DEF Announce
    <3> QED
      BY <2>1, <2>2, <2>5, <3>1 DEF TellStep
  <2> QED
    BY <1>3, <2>4, <2>5, LoopTurnSlots
<1>4. CASE ReadOutput
  <2>1. PICK m \in Queueable : /\ m.type = "OUTPUT" /\ m.off = next /\ next' = next + m.size
                               /\ Tells(m)
    BY <1>4, ReadOutputSlots
  <2>2. conn' = conn /\ pc = "output" /\ exitSent' = exitSent
    BY <1>4 DEF ReadOutput, flagVars
  <2>3. SameConns
    BY <2>2 DEF SameConns
  <2>4. TellStep(m)
    BY <2>1, <2>2, <2>3 DEF TellStep
  <2> QED
    BY <2>4
<1>5. CASE HandleRequest
  <2>1. next' = next /\ exitSent' = exitSent
    BY <1>5, HandleRequestFrame DEF outVars
  <2>2. CASE ServeRefuse /\ SameConns
    BY <2>1, <2>2, RefuseSlots DEF QuietStep
  <2>3. CASE ~ServeRefuse /\ NowAsked
    <3>1. CASE Answered
      BY <2>1, <2>3, <3>1, AnsweredSlots DEF RequestStep
    <3>2. CASE ServeResize
      <4>1. Asked.type = "RESIZE"
        BY <3>2 DEF ServeResize, Accepts
      <4> QED
        BY <2>1, <2>3, <3>2, <4>1, ResizeSlots DEF RequestStep
    <3>3. CASE ServeOpenGranted
      <4>1. PICK role \in {"CONTROL", "OBSERVER"}, st \in Status :
              /\ Accepts(role) /\ OthersQuiet
              /\ Extends(peer'[cur], [peer[cur] EXCEPT !.role = role],
                         WelcomePackets(peer[cur].q, role, st))
        BY <3>3, GrantedSlots
      <4>2. Asked.type = role
        BY <4>1 DEF Accepts
      <4> QED
        BY <2>1, <2>3, <4>1, <4>2 DEF RequestStep
    <3>4. CASE ServeTerminate
      <4>1. Asked.type = "TERMINATE"
        BY <3>4 DEF ServeTerminate, Accepts
      <4> QED
        BY <2>1, <2>3, <3>4, <4>1, TerminateSlots DEF RequestStep
    <3> QED
      BY <1>5, <2>3, <3>1, <3>2, <3>3, <3>4 DEF HandleRequest, Answered
  <2> QED
    BY <1>5, <2>2, <2>3, AskedCases
<1>6. ASSUME ~LoopTurn, ~ReadOutput, FlushBroken \/ (\E s \in Slots : Age(s)) \/ UNCHANGED <<peer, conn, backlog>>
      PROVE  QuietStep
  <2>1. CASE FlushBroken
    <3>1. cur \in Slots /\ peer' = [peer EXCEPT ![cur] = NoPeer] /\ peer \in [Slots -> GoodPeer]
      BY <2>1 DEF FlushBroken, Base, TypeOK
    <3>2. Quiet
      BY <3>1, ExtendsSelf DEF Quiet
    <3>3. conn' = conn
      BY <2>1 DEF FlushBroken, envVars
    <3> QED
      BY <1>1, <1>2, <1>6, <3>2, <3>3 DEF QuietStep, SameConns
  <2>2. CASE \E s \in Slots : Age(s)
    <3>1. Quiet /\ conn' = conn
      BY <2>2, AgeSlots DEF Age, envVars
    <3> QED
      BY <1>1, <1>2, <1>6, <3>1 DEF QuietStep, SameConns
  <2>3. CASE UNCHANGED <<peer, conn, backlog>>
    BY <1>1, <1>2, <1>6, <2>3, ExtendsSelf DEF QuietStep, SameConns, Quiet
  <2> QED
    BY <1>6, <2>1, <2>2, <2>3
<1>7. CASE RemoveName
  <2>1. peer' = peer /\ next' = next /\ exitSent' = exitSent
    BY <1>7 DEF RemoveName, outVars, flagVars
  <2>2. SameConns
    <3> SUFFICES ASSUME NEW c \in Conns
                 PROVE  /\ conn'[c].rx = conn[c].rx /\ conn'[c].asked = conn[c].asked
                        /\ conn'[c].st # "accepted" => conn[c].st # "accepted"
      BY DEF SameConns
    <3>1. conn[c] \in ConnType
      BY DEF Base, TypeOK
    <3>2. /\ [conn[c] EXCEPT !.st = "refused"].rx = conn[c].rx
          /\ [conn[c] EXCEPT !.st = "refused"].asked = conn[c].asked
      BY <3>1 DEF ConnType
    <3>3. conn'[c] = conn[c] \/ (conn[c].st = "backlog" /\ conn'[c] = [conn[c] EXCEPT !.st = "refused"])
      BY <1>7 DEF RemoveName
    <3> QED
      BY <3>2, <3>3
  <2> QED
    BY <2>1, <2>2, ExtendsSelf DEF QuietStep, Quiet
<1>8. CASE \E c \in Conns : Client(c)
  <2>1. PICK c \in Conns :
          /\ peer' = peer
          /\ \A d \in Conns : conn'[d].rx = conn[d].rx /\ conn'[d].asked = conn[d].asked
          /\ \A d \in Conns \ {c} : conn'[d] = conn[d]
          /\ \/ conn'[c].st = conn[c].st
             \/ conn[c].st = "idle" /\ conn'[c].st = "backlog"
    BY <1>8, ClientCases DEF Base
  <2>2. next' = next /\ exitSent' = exitSent
    BY <1>8, EnvironmentFrame DEF outVars
  <2>3. SameConns
    BY <2>1 DEF SameConns
  <2> QED
    BY <2>1, <2>2, <2>3, ExtendsSelf DEF QuietStep, Quiet
<1>9. CASE (\E k \in 0 .. FlushQuota : Flush(k)) \/ AcceptPeer \/ Acknowledge
  <2>1. next' = next /\ exitSent' = exitSent
    BY <1>9 DEF Flush, AcceptPeer, Acknowledge, outVars, flagVars
  <2> QED
    BY <1>9, <2>1 DEF OtherStep
<1> QED
  BY <1>3, <1>4, <1>5, <1>6, <1>7, <1>8, <1>9, TableFrame DEF TableStep

-----------------------------------------------------------------------------
(* Where a connection is.                                                  *)

\* A connection that has not been answered and is no subscriber has an empty
\* stream; one that waits for the end of the service asked for it.
StageSlot(s) ==
  peer[s].fd # NoConn =>
    /\ peer[s].terminating => /\ conn[peer[s].fd].asked = "TERMINATE"
                              /\ peer[s].role = "none" /\ ~peer[s].closing
    /\ peer[s].closing => peer[s].role = "none"
    /\ peer[s].role = "none" /\ ~peer[s].closing => conn[peer[s].fd].rx = <<>> /\ peer[s].q = <<>>
Stage ==
  /\ \A s \in Slots : StageSlot(s)
  /\ \A c \in Conns : conn[c].st # "accepted" => conn[c].rx = <<>>

\* A slot that keeps its peer, or in which a subscriber is told something.
LEMMA StageKept ==
  ASSUME Base, Stage, NEW s \in Slots, NEW q, Extends(peer'[s], peer[s], q),
         q = peer[s].q \/ peer[s].role # "none",
         peer[s].fd # NoConn => /\ conn'[peer[s].fd].rx = conn[peer[s].fd].rx
                                /\ conn'[peer[s].fd].asked = conn[peer[s].fd].asked
  PROVE  StageSlot(s)'
<1>1. CASE peer'[s] = NoPeer
  BY <1>1 DEF StageSlot, NoPeer
<1>2. CASE peer'[s] # NoPeer
  <2>1. /\ peer'[s].fd = peer[s].fd /\ peer'[s].role = peer[s].role /\ peer'[s].closing = peer[s].closing
        /\ peer'[s].terminating = peer[s].terminating /\ peer'[s].q = q
    BY <1>2 DEF Extends
  <2>2. StageSlot(s)
    BY DEF Stage
  <2> QED
    BY <2>1, <2>2 DEF StageSlot
<1> QED
  BY <1>1, <1>2

\* Every step keeps the stages of a connection in order.
LEMMA StageGood ==
  ASSUME Base, Seats, ConnInv, Stage, [Next]_vars
  PROVE  Stage'
<1>1. /\ peer \in [Slots -> PeerType] /\ peer \in [Slots -> GoodPeer] /\ conn \in [Conns -> ConnType]
      /\ \A s \in Slots : peer[s].fd # NoConn => peer[s].fd \in Conns
  BY DEF Base, TypeOK, PeerType
<1>2. CASE QuietStep
  <2>1. \A s \in Slots : StageSlot(s)'
    BY <1>1, <1>2, StageKept DEF QuietStep, Quiet, SameConns
  <2> QED
    BY <1>2, <2>1 DEF Stage, QuietStep, SameConns
<1>3. CASE \E m \in Queueable : TellStep(m)
  <2>1. \A s \in Slots : StageSlot(s)'
    BY <1>1, <1>3, StageKept DEF TellStep, Tells, SameConns
  <2> QED
    BY <1>3, <2>1 DEF Stage, TellStep, SameConns
<1>4. CASE RequestStep
  <2>1. NowAsked /\ pc = "serve" /\ Accepts(Asked.type)
    BY <1>4 DEF RequestStep, NowAsked
  <2>2. /\ cur \in Slots /\ peer[cur].fd # NoConn /\ peer[cur] \in PeerType /\ Peer = peer[cur]
    BY <1>1, <2>1, ServedRequest
  <2>3. peer[cur].role = "none" /\ ~peer[cur].closing /\ ~peer[cur].terminating
    BY <2>1, <2>2 DEF Accepts
  <2>4. conn[peer[cur].fd].rx = <<>> /\ peer[cur].q = <<>>
    BY <2>2, <2>3 DEF Stage, StageSlot
  <2>5. \A s \in Slots \ {cur} : StageSlot(s)'
    <3> TAKE s \in Slots \ {cur}
    <3>1. \/ Extends(peer'[s], peer[s], peer[s].q)
          \/ \E q : Extends(peer'[s], peer[s], q) /\ peer[s].role # "none"
      BY <1>4 DEF RequestStep, OthersQuiet, Others
    <3>2. peer[s].fd # NoConn => /\ conn'[peer[s].fd].rx = conn[peer[s].fd].rx
                                 /\ conn'[peer[s].fd].asked = conn[peer[s].fd].asked
      <4>1. peer[s].fd # NoConn => peer[s].fd # peer[cur].fd
        BY <2>2 DEF Seats
      <4> QED
        BY <1>1, <2>1, <4>1 DEF NowAsked
    <3> QED
      BY <3>1, <3>2, StageKept
  <2>6. \A t \in Slots : t = cur => StageSlot(t)'
    <3> SUFFICES ASSUME NEW t \in Slots, t = cur
                 PROVE  StageSlot(t)'
      OBVIOUS
    <3>1. CASE peer'[cur] = NoPeer
      BY <3>1 DEF StageSlot, NoPeer
    <3> DEFINE f == peer[cur].fd
    <3>2. conn'[f].rx = <<>> /\ conn'[f].asked = Asked.type
      BY <1>1, <2>1, <2>2, <2>4 DEF NowAsked
    <3>3. ASSUME NEW q, Extends(peer'[cur], [peer[cur] EXCEPT !.closing = TRUE], q), peer'[cur] # NoPeer
          PROVE  StageSlot(t)'
      <4>1. peer'[cur].role = "none" /\ peer'[cur].closing /\ ~peer'[cur].terminating
        BY <2>2, <2>3, <3>3 DEF Extends, PeerType
      <4> QED
        BY <4>1 DEF StageSlot
    <3>4. ASSUME NEW role \in {"CONTROL", "OBSERVER"}, NEW q,
                 Extends(peer'[cur], [peer[cur] EXCEPT !.role = role], q), peer'[cur] # NoPeer
          PROVE  StageSlot(t)'
      <4>1. peer'[cur].role # "none" /\ ~peer'[cur].closing /\ ~peer'[cur].terminating
        BY <2>2, <2>3, <3>4 DEF Extends, PeerType
      <4> QED
        BY <4>1 DEF StageSlot
    <3>5. ASSUME Asked.type = "TERMINATE", peer'[cur] # NoPeer,
                 Extends(peer'[cur], [peer[cur] EXCEPT !.terminating = TRUE], peer[cur].q)
          PROVE  StageSlot(t)'
      <4>1. /\ peer'[cur].role = "none" /\ ~peer'[cur].closing /\ peer'[cur].fd = f
            /\ peer'[cur].q = <<>>
        BY <2>2, <2>3, <2>4, <3>5 DEF Extends, PeerType
      <4> QED
        BY <3>2, <3>5, <4>1 DEF StageSlot
    <3> QED
      BY <1>4, <3>1, <3>3, <3>4, <3>5 DEF RequestStep
  <2> QED
    BY <2>1, <2>5, <2>6 DEF Stage, NowAsked
<1>5. ASSUME NEW f \in Conns, peer[cur].fd = f, NEW w, conn' = [conn EXCEPT ![f].rx = w],
             cur \in Slots, NEW v, peer' = [peer EXCEPT ![cur] = v],
             \/ v = NoPeer
             \/ /\ v.fd = f /\ v.role = peer[cur].role /\ v.closing = peer[cur].closing
                /\ v.terminating = peer[cur].terminating /\ peer[cur].q # <<>>
      PROVE  Stage'
  <2>1. /\ f # NoConn /\ conn[f].st = "accepted" /\ conn[f] \in ConnType
    BY <1>1, <1>5, BrokerAssumption DEF ConnInv
  <2> DEFINE k == [conn[f] EXCEPT !.rx = w]
  <2>2. k.asked = conn[f].asked /\ k.st = conn[f].st
    BY <2>1 DEF ConnType
  <2>3. conn' = [conn EXCEPT ![f] = k]
    BY <1>5
  <2> HIDE DEF k
  <2>4. conn'[f] = k /\ \A c \in Conns \ {f} : conn'[c] = conn[c]
    BY <1>1, <1>5, <2>3
  <2>5. peer'[cur] = v /\ \A s \in Slots \ {cur} : peer'[s] = peer[s]
    BY <1>1, <1>5
  <2>6. \A s \in Slots \ {cur} : StageSlot(s)'
    <3> TAKE s \in Slots \ {cur}
    <3>1. peer[s].fd # NoConn => peer[s].fd # f
      BY <1>5 DEF Seats
    <3> QED
      BY <1>1, <2>4, <2>5, <3>1, StageKept, ExtendsSelf
  <2>7. \A t \in Slots : t = cur => StageSlot(t)'
    <3> SUFFICES ASSUME NEW t \in Slots, t = cur
                 PROVE  StageSlot(t)'
      OBVIOUS
    <3>1. CASE v = NoPeer
      BY <2>5, <3>1 DEF StageSlot, NoPeer
    <3>2. CASE v # NoPeer
      <4>1. StageSlot(t) /\ ~(peer[t].role = "none" /\ ~peer[t].closing)
        BY <1>5, <2>1, <3>2 DEF Stage, StageSlot
      <4> QED
        BY <1>5, <2>2, <2>4, <2>5, <3>2, <4>1 DEF StageSlot
    <3> QED
      BY <3>1, <3>2
  <2>8. \A c \in Conns : conn'[c].st # "accepted" => conn'[c].rx = <<>>
    BY <2>1, <2>2, <2>4 DEF Stage
  <2> QED
    BY <2>6, <2>7, <2>8 DEF Stage
<1>6. CASE \E k \in 0 .. FlushQuota : Flush(k)
  <2>1. PICK k \in 0 .. FlushQuota : Flush(k)
    BY <1>6
  <2> DEFINE p == peer[cur]
             w == conn[p.fd].rx \o SubSeq(p.q, 1, k)
             v == Flushed(p, k)
  <2>2. /\ cur \in Slots /\ p \in GoodPeer /\ p.fd # NoConn /\ p.fd \in Conns
        /\ k \in 0 .. Len(p.q)
        /\ conn' = [conn EXCEPT ![p.fd] = [conn[p.fd] EXCEPT !.rx = w]]
        /\ peer' = [peer EXCEPT ![cur] = v] \/ peer' = [peer EXCEPT ![cur] = NoPeer]
    BY <2>1, FlushCases
  <2>3. conn' = [conn EXCEPT ![p.fd].rx = w]
    BY <2>2
  <2>4. v.fd = p.fd /\ v.role = p.role /\ v.closing = p.closing /\ v.terminating = p.terminating
    BY <2>2, FlushedGood
  <2>5. p.q # <<>>
    BY <2>1 DEF Flush, Peer
  <2> HIDE DEF w, v
  <2> QED
    BY <1>5, <2>2, <2>3, <2>4, <2>5
<1>7. CASE Acknowledge
  <2> DEFINE f == peer[cur].fd
             w == Append(conn[f].rx, Plain("TERMINATE", IF result = 0 THEN "0" ELSE "EIO", 0))
  <2>1. /\ cur \in Slots /\ peer' = [peer EXCEPT ![cur] = NoPeer]
        /\ conn' = conn \/ (f # NoConn /\ conn' = [conn EXCEPT ![f].rx = w])
    BY <1>7 DEF Acknowledge, Base, TypeOK, Peer
  <2> HIDE DEF w
  <2>2. CASE conn' = conn
    <3>1. \A s \in Slots : StageSlot(s)'
      BY <1>1, <2>1, <2>2, StageKept, ExtendsSelf
    <3> QED
      BY <2>2, <3>1 DEF Stage
  <2>3. CASE f # NoConn /\ conn' = [conn EXCEPT ![f].rx = w]
    BY <1>1, <1>5, <2>1, <2>3
  <2> QED
    BY <2>1, <2>2, <2>3
<1>8. CASE AcceptPeer
  <2> DEFINE c == Head(backlog)
             a == [conn[c] EXCEPT !.st = "accepted"]
             r == [conn[c] EXCEPT !.st = "refused"]
             w == [NoPeer EXCEPT !.fd = c]
  <2>1. /\ c \in Conns /\ backlog # <<>>
        /\ \/ \E s \in Slots : /\ peer[s] = NoPeer /\ peer' = [peer EXCEPT ![s] = w]
                               /\ conn' = [conn EXCEPT ![c] = a]
           \/ peer' = peer /\ conn' = [conn EXCEPT ![c] = r]
    BY <1>8, AcceptCases
  <2>2. backlog \in Seq(Conns) /\ conn[c] \in ConnType
    BY <1>1, <2>1 DEF Base, TypeOK
  <2>3. /\ a.rx = conn[c].rx /\ r.rx = conn[c].rx /\ a.asked = conn[c].asked
        /\ r.asked = conn[c].asked /\ a.st = "accepted"
    BY <2>2 DEF ConnType
  <2>4. c = backlog[1] /\ 1 \in DOMAIN backlog
    BY <2>1, <2>2
  <2>5. w.fd = c /\ w.role = "none" /\ ~w.closing /\ ~w.terminating /\ w.q = <<>>
    BY DEF NoPeer
  <2> HIDE DEF c, a, r, w
  <2>6. conn[c].st = "backlog" /\ conn[c].rx = <<>>
    BY <2>1, <2>4 DEF ConnInv, Stage
  <2>7. \A d \in Conns : conn'[d].rx = conn[d].rx /\ conn'[d].asked = conn[d].asked
    BY <1>1, <2>1, <2>3
  <2>8. \A d \in Conns : conn'[d].st # "accepted" => conn'[d].rx = <<>>
    BY <1>1, <2>1, <2>6, <2>7 DEF Stage
  <2>9. \A s \in Slots : peer'[s] = peer[s] \/ peer'[s] = w
    BY <1>1, <2>1
  <2>10. \A s \in Slots : StageSlot(s)'
    <3> TAKE s \in Slots
    <3>1. CASE peer'[s] = peer[s]
      BY <1>1, <2>7, <3>1, StageKept, ExtendsSelf
    <3>2. CASE peer'[s] = w
      BY <2>1, <2>5, <2>6, <2>7, <3>2 DEF StageSlot
    <3> QED
      BY <2>9, <3>1, <3>2
  <2> QED
    BY <2>8, <2>10 DEF Stage
<1> QED
  BY <1>2, <1>3, <1>4, <1>6, <1>7, <1>8, StepKinds DEF OtherStep

-----------------------------------------------------------------------------
(* What a step does to a stream.                                           *)

\* Sequences: equal elements, a cut, and what is cut put together again.
LEMMA SeqSame ==
  ASSUME NEW X, NEW s \in Seq(X), NEW t \in Seq(X), Len(s) = Len(t),
         \A i \in 1 .. Len(s) : s[i] = t[i]
  PROVE  s = t
  OBVIOUS

\* What a sequence is on both sides of a cut.
LEMMA CutAt ==
  ASSUME NEW X, NEW t \in Seq(X), NEW k \in 0 .. Len(t)
  PROVE  /\ SubSeq(t, 1, k) \in Seq(X) /\ Len(SubSeq(t, 1, k)) = k
         /\ \A i \in 1 .. k : SubSeq(t, 1, k)[i] = t[i]
         /\ SubSeq(t, k + 1, Len(t)) \in Seq(X) /\ Len(SubSeq(t, k + 1, Len(t))) = Len(t) - k
         /\ \A i \in 1 .. Len(t) - k : SubSeq(t, k + 1, Len(t))[i] = t[k + i]
  OBVIOUS

\* Two pieces that hold the elements of t in order are t.
LEMMA Joined ==
  ASSUME NEW X, NEW t \in Seq(X), NEW a \in Seq(X), NEW b \in Seq(X),
         Len(a) + Len(b) = Len(t), \A i \in 1 .. Len(a) : a[i] = t[i],
         \A i \in 1 .. Len(b) : b[i] = t[Len(a) + i]
  PROVE  a \o b = t
<1>1. a \o b \in Seq(X) /\ Len(a \o b) = Len(t)
  OBVIOUS
<1>2. ASSUME NEW i \in 1 .. Len(t)
      PROVE  (a \o b)[i] = t[i]
  <2>1. CASE i \in 1 .. Len(a)
    BY <2>1
  <2>2. CASE i \notin 1 .. Len(a)
    <3>1. i - Len(a) \in 1 .. Len(b) /\ Len(a) + (i - Len(a)) = i
      BY <2>2
    <3>2. (a \o b)[i] = b[i - Len(a)]
      BY <2>2
    <3>3. b[i - Len(a)] = t[Len(a) + (i - Len(a))]
      BY <3>1
    <3> QED
      BY <3>1, <3>2, <3>3
  <2> QED
    BY <2>1, <2>2
<1> QED
  BY <1>1, <1>2, SeqSame

\* Concatenation is associative.
LEMMA ConcatAssoc ==
  ASSUME NEW X, NEW a \in Seq(X), NEW b \in Seq(X), NEW c \in Seq(X)
  PROVE  (a \o b) \o c = a \o (b \o c)
  OBVIOUS

\* A queue that is sent in part is still sent after what was sent before.
LEMMA ConcatSplit ==
  ASSUME NEW X, NEW s \in Seq(X), NEW t \in Seq(X), NEW k \in 0 .. Len(t)
  PROVE  (s \o SubSeq(t, 1, k)) \o SubSeq(t, k + 1, Len(t)) = s \o t
<1> DEFINE a == SubSeq(t, 1, k)
           b == SubSeq(t, k + 1, Len(t))
<1>1. /\ a \in Seq(X) /\ Len(a) = k /\ \A i \in 1 .. k : a[i] = t[i]
      /\ b \in Seq(X) /\ Len(b) = Len(t) - k /\ \A i \in 1 .. Len(t) - k : b[i] = t[k + i]
  BY CutAt
<1> HIDE DEF a, b
<1>2. /\ Len(a) + Len(b) = Len(t) /\ \A i \in 1 .. Len(a) : a[i] = t[i]
      /\ \A i \in 1 .. Len(b) : b[i] = t[Len(a) + i]
  BY <1>1
<1>3. a \o b = t
  BY ONLY <1>1, <1>2, t \in Seq(X), Joined
<1>4. (s \o a) \o b = s \o (a \o b)
  BY <1>1, ConcatAssoc
<1> QED
  BY <1>3, <1>4 DEF a, b

\* A packet queued last comes last.
LEMMA ConcatAppend ==
  ASSUME NEW X, NEW s \in Seq(X), NEW t \in Seq(X), NEW x \in X
  PROVE  s \o Append(t, x) = Append(s \o t, x)
  OBVIOUS

\* Nothing is lost where a sequence is taken as a whole.
LEMMA ConcatAll ==
  ASSUME NEW X, NEW s \in Seq(X), NEW t \in Seq(X)
  PROVE  /\ s \o SubSeq(t, 1, Len(t)) = s \o t /\ s \o <<>> = s
         /\ SubSeq(s \o t, 1, Len(s)) = s /\ SubSeq(s, 1, Len(s)) = s
         /\ Len(s) \in 0 .. Len(s \o t) /\ Len(s) \in 0 .. Len(s)
  OBVIOUS

\* The stream of the connection in slot s, and of one without a slot.
LEMMA StreamAt ==
  ASSUME Base, Seats, NEW s \in Slots, NEW c \in Conns, peer[s].fd = c
  PROVE  /\ Stream(c) = conn[c].rx \o peer[s].q /\ (Subscriber(c) <=> peer[s].role # "none")
         /\ conn[c].rx \in Seq(Packet) /\ peer[s].q \in Seq(Queueable) /\ peer[s].q \in Seq(Packet)
<1>1. c # NoConn
  BY BrokerAssumption
<1>2. Stream(c) = conn[c].rx \o peer[s].q
  BY <1>1, StreamHeld
<1>3. Subscriber(c) <=> peer[s].role # "none"
  BY <1>1 DEF Subscriber, Seats
<1>4. conn[c].rx \in Seq(Packet) /\ peer[s].q \in Seq(Queueable)
  BY DEF Base, RxPackets, GoodPeer
<1>5. peer[s].q \in Seq(Packet)
  BY <1>4 DEF Queueable
<1> QED
  BY <1>2, <1>3, <1>4, <1>5

StreamsJoined ==
  \A s \in Slots, c \in Conns : peer[s].fd = c =>
    Stream(c) = conn[c].rx \o peer[s].q /\ (Subscriber(c) <=> peer[s].role # "none")

\* The stream of a connection is what it has received, then its peer's queue.
LEMMA StreamsAt == Base /\ Seats => StreamsJoined
  BY StreamAt DEF StreamsJoined

\* The same in the next state, for a connection with a slot.
LEMMA StreamAtNext ==
  ASSUME Base', Seats', NEW s \in Slots, NEW c \in Conns, peer'[s].fd = c
  PROVE  Stream(c)' = conn'[c].rx \o peer'[s].q /\ (Subscriber(c)' <=> peer'[s].role # "none")
<1>1. (Base /\ Seats => StreamsJoined)'
  BY StreamsAt, PTL
<1> QED
  BY <1>1 DEF StreamsJoined

\* The same in the next state, for a connection without one.
LEMMA StreamFreeNext ==
  ASSUME NEW c, \A s \in Slots : peer'[s].fd # c
  PROVE  Stream(c)' = conn'[c].rx /\ ~Subscriber(c)'
<1>1. {s \in Slots : peer'[s].fd = c} = {}
  OBVIOUS
<1> QED
  BY <1>1 DEF Stream, Subscriber

\* The five things that can happen to the stream of c.
AskedOnce(c) == conn'[c].asked = conn[c].asked \/ Stream(c) = <<>>

SameStream(c) ==
  /\ Stream(c)' = Stream(c) /\ AskedOnce(c)
  /\ Subscriber(c)' => Subscriber(c) /\ next' = next /\ exitSent' = exitSent

CutStream(c) ==
  /\ \E k \in 0 .. Len(Stream(c)) : Stream(c)' = SubSeq(Stream(c), 1, k)
  /\ ~Subscriber(c)' /\ AskedOnce(c)

ToldStream(c) ==
  /\ conn'[c].asked = conn[c].asked /\ Subscriber(c)
  /\ \E m \in Packet :
       /\ Stream(c)' = Append(Stream(c), m)
       /\ \/ /\ m.type = "EXIT" /\ m.off = next /\ next' = next
             /\ ~exitSent /\ exitSent' /\ eof
          \/ /\ m.type = "OUTPUT" /\ m.off = next /\ next' = next + m.size
             /\ pc = "output" /\ exitSent' = exitSent
          \/ m.type = "GEOMETRY" /\ ~eof /\ next' = next /\ exitSent' = exitSent

AnsweredStream(c) ==
  /\ Stream(c) = <<>> /\ ~Subscriber(c)'
  /\ \E m \in Packet : Stream(c)' = <<m>> /\ m.type = conn'[c].asked

WelcomedStream(c) ==
  /\ Stream(c) = <<>> /\ pc = "serve" /\ next' = next /\ exitSent' = exitSent
  /\ \E role \in {"CONTROL", "OBSERVER"}, st \in Status :
       Stream(c)' = WelcomePackets(<<>>, role, st) /\ conn'[c].asked = role

StreamStep(c) == SameStream(c) \/ CutStream(c) \/ ToldStream(c) \/ AnsweredStream(c) \/ WelcomedStream(c)

\* A connection without a slot keeps what it has been sent.
LEMMA StreamLost ==
  ASSUME Base, Seats, NEW c \in Conns, \A s \in Slots : peer'[s].fd # c,
         conn'[c].rx = conn[c].rx, AskedOnce(c)
  PROVE  CutStream(c)
<1>1. Stream(c)' = conn[c].rx /\ ~Subscriber(c)'
  BY StreamFreeNext
<1>2. conn[c].rx \in Seq(Packet)
  BY DEF Base, RxPackets
<1>3. ASSUME NEW s \in Slots, peer[s].fd = c
      PROVE  \E k \in 0 .. Len(Stream(c)) : conn[c].rx = SubSeq(Stream(c), 1, k)
  <2>1. Stream(c) = conn[c].rx \o peer[s].q /\ peer[s].q \in Seq(Packet)
    BY <1>3, StreamAt
  <2>2. /\ SubSeq(conn[c].rx \o peer[s].q, 1, Len(conn[c].rx)) = conn[c].rx
        /\ Len(conn[c].rx) \in 0 .. Len(conn[c].rx \o peer[s].q)
    BY <1>2, <2>1, ConcatAll
  <2> QED
    BY <2>1, <2>2
<1>4. CASE \A s \in Slots : peer[s].fd # c
  <2>1. Stream(c) = conn[c].rx
    BY <1>4, StreamFree
  <2>2. SubSeq(conn[c].rx, 1, Len(conn[c].rx)) = conn[c].rx /\ Len(conn[c].rx) \in 0 .. Len(conn[c].rx)
    BY <1>2, ConcatAll
  <2> QED
    BY <1>1, <2>1, <2>2 DEF CutStream
<1> QED
  BY <1>1, <1>3, <1>4 DEF CutStream

\* A slot whose peer is kept as it is.
LEMMA StreamKept ==
  ASSUME Base, Seats, Base', Seats', NEW s \in Slots, NEW c \in Conns,
         peer'[s].fd = c, peer[s].fd = c, peer'[s].q = peer[s].q, peer'[s].role = peer[s].role,
         conn'[c].rx = conn[c].rx, AskedOnce(c),
         peer[s].role = "none" \/ (next' = next /\ exitSent' = exitSent)
  PROVE  SameStream(c)
<1>1. Stream(c) = conn[c].rx \o peer[s].q /\ (Subscriber(c) <=> peer[s].role # "none")
  BY StreamAt
<1>2. Stream(c)' = conn'[c].rx \o peer'[s].q /\ (Subscriber(c)' <=> peer'[s].role # "none")
  BY StreamAtNext
<1> QED
  BY <1>1, <1>2 DEF SameStream

\* A subscriber that is told m, whatever m is.
LEMMA StreamTold ==
  ASSUME Base, Seats, Base', Seats', NEW s \in Slots, NEW c \in Conns, NEW m \in Queueable,
         peer'[s].fd = c, peer[s].fd = c, peer'[s].q = Append(peer[s].q, m),
         peer[s].role # "none", conn'[c].rx = conn[c].rx
  PROVE  Subscriber(c) /\ m \in Packet /\ Stream(c)' = Append(Stream(c), m)
<1>1. /\ Stream(c) = conn[c].rx \o peer[s].q /\ (Subscriber(c) <=> peer[s].role # "none")
      /\ conn[c].rx \in Seq(Packet) /\ peer[s].q \in Seq(Packet)
  BY StreamAt
<1>2. Stream(c)' = conn'[c].rx \o peer'[s].q
  BY StreamAtNext
<1>3. m \in Packet
  BY DEF Queueable
<1>4. \A r, q \in Seq(Packet) : r \o Append(q, m) = Append(r \o q, m)
  BY <1>3, ConcatAppend
<1> QED
  BY <1>1, <1>2, <1>3, <1>4

\* Slots that are left alone or closed, or whose subscribers are told something.
LEMMA StreamQuiet ==
  ASSUME Base, Seats, Base', Seats', NEW c \in Conns, QuietStep
  PROVE  StreamStep(c)
<1>1. conn'[c].rx = conn[c].rx /\ AskedOnce(c) /\ c # NoConn /\ NoPeer.fd = NoConn
  BY BrokerAssumption DEF QuietStep, SameConns, AskedOnce, NoPeer
<1>2. ASSUME NEW s \in Slots, peer'[s].fd = c
      PROVE  SameStream(c)
  <2>1. peer[s].fd = c /\ peer'[s].q = peer[s].q /\ peer'[s].role = peer[s].role
    BY <1>1, <1>2 DEF QuietStep, Quiet, Extends
  <2> QED
    BY <1>1, <1>2, <2>1, StreamKept DEF QuietStep
<1> QED
  BY <1>1, <1>2, StreamLost DEF StreamStep

\* Telling all subscribers extends their streams by the packet.
LEMMA StreamTells ==
  ASSUME Base, Seats, Base', Seats', NEW c \in Conns, NEW m \in Queueable, TellStep(m)
  PROVE  StreamStep(c)
<1>1. /\ conn'[c].rx = conn[c].rx /\ conn'[c].asked = conn[c].asked /\ AskedOnce(c)
      /\ c # NoConn /\ NoPeer.fd = NoConn
  BY BrokerAssumption DEF TellStep, SameConns, AskedOnce, NoPeer
<1>2. ASSUME NEW s \in Slots, peer'[s].fd = c
      PROVE  SameStream(c) \/ ToldStream(c)
  <2>1. CASE Extends(peer'[s], peer[s], peer[s].q) /\ (peer[s].role = "none" \/ peer[s].fd = NoConn)
    <3>1. /\ peer[s].fd = c /\ peer'[s].q = peer[s].q /\ peer'[s].role = peer[s].role
          /\ peer[s].role = "none"
      BY <1>1, <1>2, <2>1 DEF Extends
    <3> QED
      BY <1>1, <1>2, <3>1, StreamKept
  <2>2. CASE /\ Extends(peer'[s], peer[s], Append(peer[s].q, m))
             /\ peer[s].role # "none" /\ peer[s].fd # NoConn
    <3>1. peer[s].fd = c /\ peer'[s].q = Append(peer[s].q, m)
      BY <1>1, <1>2, <2>2 DEF Extends
    <3>2. Subscriber(c) /\ m \in Packet /\ Stream(c)' = Append(Stream(c), m)
      BY <1>1, <1>2, <2>2, <3>1, StreamTold
    <3> QED
      BY <1>1, <3>2 DEF ToldStream, TellStep
  <2> QED
    BY <2>1, <2>2 DEF TellStep, Tells
<1> QED
  BY <1>1, <1>2, StreamLost DEF StreamStep

\* A request: the connection that made it, then the others.
LEMMA StreamRequest ==
  ASSUME Base, Seats, Base', Seats', Stage, NEW c \in Conns, RequestStep
  PROVE  StreamStep(c)
<1>1. NowAsked /\ pc = "serve" /\ Accepts(Asked.type) /\ next' = next /\ exitSent' = exitSent
  BY DEF RequestStep, NowAsked
<1>2. /\ cur \in Slots /\ peer[cur].fd # NoConn /\ peer[cur] \in PeerType /\ Peer = peer[cur]
      /\ conn[Peer.fd].inbox # <<>> /\ peer[cur].fd \in Conns /\ Asked.type \in RequestTypes
  <2>1. conn[Peer.fd].inbox # <<>>
    BY <1>1 DEF Accepts
  <2> QED
    BY <1>1, <2>1, ServedRequest DEF GoodPeer
<1>3. peer[cur].role = "none" /\ ~peer[cur].closing /\ ~peer[cur].terminating
  BY <1>1, <1>2 DEF Accepts
<1>4. conn[peer[cur].fd].rx = <<>> /\ peer[cur].q = <<>>
  BY <1>2, <1>3 DEF Stage, StageSlot
<1>5. c # NoConn /\ NoPeer.fd = NoConn /\ conn'[c].rx = conn[c].rx
  BY <1>1, BrokerAssumption DEF NowAsked, NoPeer
<1>6. ASSUME NEW s \in Slots \ {cur}
      PROVE  \/ Extends(peer'[s], peer[s], peer[s].q)
             \/ \E m \in Queueable : /\ m.type = "GEOMETRY" /\ ~eof /\ peer[s].role # "none"
                                     /\ Extends(peer'[s], peer[s], Append(peer[s].q, m))
  BY DEF RequestStep, OthersQuiet, Others
<1>7. CASE c = peer[cur].fd
  <2>1. Stream(c) = <<>>
    <3>1. Stream(c) = conn[c].rx \o peer[cur].q
      BY <1>2, <1>7, StreamAt
    <3>2. <<>> \o <<>> = <<>>
      OBVIOUS
    <3> QED
      BY <1>4, <1>7, <3>1, <3>2
  <2>2. AskedOnce(c) /\ conn'[c].asked = Asked.type /\ conn'[c].rx = <<>>
    BY <1>1, <1>4, <1>5, <1>7, <2>1 DEF AskedOnce, NowAsked
  <2>3. \A s \in Slots \ {cur} : peer'[s].fd # c
    BY <1>2, <1>5, <1>6, <1>7 DEF Extends, Seats
  <2>4. CASE peer'[cur].fd # c
    <3>1. \A s \in Slots : peer'[s].fd # c
      BY <2>3, <2>4
    <3> QED
      BY <1>5, <2>2, <3>1, StreamLost DEF StreamStep
  <2>5. CASE peer'[cur].fd = c
    <3>1. Stream(c)' = conn'[c].rx \o peer'[cur].q /\ (Subscriber(c)' <=> peer'[cur].role # "none")
      BY <1>2, <2>5, StreamAtNext
    <3>2. peer'[cur] # NoPeer
      BY <1>5, <2>5
    <3>3. \A q \in Seq(Packet) : <<>> \o q = q
      OBVIOUS
    <3>4. ASSUME NEW m \in Queueable, m.type = Asked.type,
                 Extends(peer'[cur], [peer[cur] EXCEPT !.closing = TRUE], Append(peer[cur].q, m))
          PROVE  AnsweredStream(c)
      <4>1. peer'[cur].role = "none" /\ peer'[cur].q = Append(<<>>, m)
        BY <1>2, <1>3, <1>4, <3>2, <3>4 DEF Extends, PeerType
      <4>2. m \in Packet /\ <<m>> \in Seq(Packet) /\ Append(<<>>, m) = <<m>>
        BY DEF Queueable
      <4>3. Stream(c)' = <<m>> /\ ~Subscriber(c)'
        BY <2>2, <3>1, <3>3, <4>1, <4>2
      <4> QED
        BY <2>1, <2>2, <3>4, <4>2, <4>3 DEF AnsweredStream
    <3>5. ASSUME NEW role \in {"CONTROL", "OBSERVER"}, NEW st \in Status, Asked.type = role,
                 Extends(peer'[cur], [peer[cur] EXCEPT !.role = role],
                         WelcomePackets(peer[cur].q, role, st))
          PROVE  WelcomedStream(c)
      <4>1. peer'[cur].q = WelcomePackets(<<>>, role, st)
        BY <1>4, <3>2, <3>5 DEF Extends
      <4>2. WelcomePackets(<<>>, role, st) \in Seq(Packet)
        <5>1. WelcomePackets(<<>>, role, st) \in Seq(Queueable)
          BY WelcomeLine
        <5> QED
          BY <5>1 DEF Queueable
      <4>3. Stream(c)' = WelcomePackets(<<>>, role, st)
        BY <2>2, <3>1, <3>3, <4>1, <4>2
      <4> QED
        BY <1>1, <2>1, <2>2, <3>5, <4>3 DEF WelcomedStream
    <3>6. ASSUME Extends(peer'[cur], [peer[cur] EXCEPT !.terminating = TRUE], peer[cur].q)
          PROVE  SameStream(c)
      <4>1. peer'[cur].q = <<>> /\ peer'[cur].role = "none"
        BY <1>2, <1>3, <1>4, <3>2, <3>6 DEF Extends, PeerType
      <4>2. <<>> \in Seq(Packet)
        OBVIOUS
      <4>3. Stream(c)' = <<>> /\ ~Subscriber(c)'
        BY <2>2, <3>1, <3>3, <4>1, <4>2
      <4> QED
        BY <2>1, <2>2, <4>3 DEF SameStream
    <3> QED
      BY <3>4, <3>5, <3>6 DEF RequestStep, StreamStep
  <2> QED
    BY <2>4, <2>5
<1>8. CASE c # peer[cur].fd
  <2>1. conn'[c].asked = conn[c].asked /\ AskedOnce(c)
    BY <1>1, <1>8 DEF NowAsked, AskedOnce
  <2>2. peer'[cur].fd # c
    <3>1. \/ peer'[cur] = NoPeer \/ peer'[cur].fd = [peer[cur] EXCEPT !.closing = TRUE].fd
          \/ peer'[cur].fd = [peer[cur] EXCEPT !.terminating = TRUE].fd
          \/ \E role \in {"CONTROL", "OBSERVER"} : peer'[cur].fd = [peer[cur] EXCEPT !.role = role].fd
      BY DEF RequestStep, Extends
    <3>2. /\ [peer[cur] EXCEPT !.closing = TRUE].fd = peer[cur].fd
          /\ [peer[cur] EXCEPT !.terminating = TRUE].fd = peer[cur].fd
          /\ \A role \in {"CONTROL", "OBSERVER"} : [peer[cur] EXCEPT !.role = role].fd = peer[cur].fd
      BY <1>2 DEF PeerType
    <3> QED
      BY <1>5, <1>8, <3>1, <3>2
  <2>3. ASSUME NEW s \in Slots, peer'[s].fd = c
        PROVE  SameStream(c) \/ ToldStream(c)
    <3>1. s \in Slots \ {cur}
      BY <2>2, <2>3
    <3>2. CASE Extends(peer'[s], peer[s], peer[s].q)
      <4>1. peer[s].fd = c /\ peer'[s].q = peer[s].q /\ peer'[s].role = peer[s].role
        BY <1>5, <2>3, <3>2 DEF Extends
      <4> QED
        BY <1>1, <1>5, <2>1, <2>3, <4>1, StreamKept
    <3>3. ASSUME NEW m \in Queueable, m.type = "GEOMETRY", ~eof, peer[s].role # "none",
                 Extends(peer'[s], peer[s], Append(peer[s].q, m))
          PROVE  ToldStream(c)
      <4>1. peer[s].fd = c /\ peer'[s].q = Append(peer[s].q, m)
        BY <1>5, <2>3, <3>3 DEF Extends
      <4>2. Subscriber(c) /\ m \in Packet /\ Stream(c)' = Append(Stream(c), m)
        BY <1>5, <2>3, <3>3, <4>1, StreamTold
      <4> QED
        BY <1>1, <2>1, <3>3, <4>2 DEF ToldStream
    <3> QED
      BY <1>6, <3>1, <3>2, <3>3
  <2> QED
    BY <1>5, <2>1, <2>3, StreamLost DEF StreamStep
<1> QED
  BY <1>7, <1>8

\* Packets that reach the client were queued for it before.
LEMMA StreamFlush ==
  ASSUME Base, Seats, Base', Seats', NEW c \in Conns, NEW k \in 0 .. FlushQuota, Flush(k),
         next' = next, exitSent' = exitSent
  PROVE  StreamStep(c)
<1> DEFINE p == peer[cur]
           w == conn[p.fd].rx \o SubSeq(p.q, 1, k)
           v == Flushed(p, k)
<1>1. /\ cur \in Slots /\ p \in GoodPeer /\ p.fd # NoConn /\ p.fd \in Conns
      /\ k \in 0 .. Len(p.q)
      /\ conn' = [conn EXCEPT ![p.fd] = [conn[p.fd] EXCEPT !.rx = w]]
      /\ peer' = [peer EXCEPT ![cur] = v] \/ (peer' = [peer EXCEPT ![cur] = NoPeer] /\ k = Len(p.q))
  BY FlushCases
<1>2. /\ v.fd = p.fd /\ v.role = p.role /\ v.q = SubSeq(p.q, k + 1, Len(p.q))
  BY <1>1, FlushedGood
<1>3. /\ conn \in [Conns -> ConnType] /\ peer \in [Slots -> PeerType]
      /\ c # NoConn /\ NoPeer.fd = NoConn
  BY BrokerAssumption DEF Base, TypeOK, NoPeer
<1>4. /\ \A d \in Conns : d # p.fd => conn'[d] = conn[d]
      /\ conn'[p.fd].rx = w /\ conn'[p.fd].asked = conn[p.fd].asked
  <2>1. conn[p.fd] \in ConnType
    BY <1>1, <1>3
  <2> HIDE DEF w
  <2> QED
    BY <1>1, <1>3, <2>1 DEF ConnType
<1>5. conn[p.fd].rx \in Seq(Packet) /\ p.q \in Seq(Packet) /\ Stream(p.fd) = conn[p.fd].rx \o p.q
      /\ (Subscriber(p.fd) <=> p.role # "none")
  BY <1>1, StreamAt
<1>6. AskedOnce(c)
  BY <1>4 DEF AskedOnce
<1>7. \A s \in Slots \ {cur} : peer'[s] = peer[s]
  BY <1>1, <1>3
<1>8. CASE c # p.fd
  <2>1. conn'[c].rx = conn[c].rx
    BY <1>4, <1>8
  <2>2. peer'[cur].fd # c
    <3> HIDE DEF v
    <3> QED
      BY <1>1, <1>2, <1>3, <1>8
  <2>3. ASSUME NEW s \in Slots, peer'[s].fd = c
        PROVE  SameStream(c)
    <3>1. peer'[s] = peer[s]
      BY <1>7, <2>2, <2>3
    <3> QED
      BY <1>6, <2>1, <2>3, <3>1, StreamKept
  <2> QED
    BY <1>6, <2>1, <2>3, StreamLost DEF StreamStep
<1>9. CASE c = p.fd
  <2>1. CASE peer' = [peer EXCEPT ![cur] = v]
    <3>1. peer'[cur] = v
      BY <1>1, <1>3, <2>1
    <3>2. Stream(c)' = w \o v.q /\ (Subscriber(c)' <=> v.role # "none")
      BY <1>1, <1>2, <1>4, <1>9, <3>1, StreamAtNext
    <3>3. \A r, q \in Seq(Packet) : \A n \in 0 .. Len(q) :
            (r \o SubSeq(q, 1, n)) \o SubSeq(q, n + 1, Len(q)) = r \o q
      BY ConcatSplit
    <3>4. w \o v.q = conn[p.fd].rx \o p.q
      BY <1>1, <1>2, <1>5, <3>3
    <3> QED
      BY <1>2, <1>5, <1>6, <1>9, <3>2, <3>4 DEF SameStream, StreamStep
  <2>2. CASE peer' = [peer EXCEPT ![cur] = NoPeer] /\ k = Len(p.q)
    <3>1. \A s \in Slots : peer'[s].fd # c
      BY <1>1, <1>3, <1>7, <1>9, <2>2 DEF Seats
    <3>2. Stream(c)' = w /\ ~Subscriber(c)'
      BY <1>4, <1>9, <3>1, StreamFreeNext
    <3>3. \A r, q \in Seq(Packet) : r \o SubSeq(q, 1, Len(q)) = r \o q
      BY ConcatAll
    <3>4. w = conn[p.fd].rx \o p.q
      BY <1>5, <2>2, <3>3
    <3> QED
      BY <1>5, <1>6, <1>9, <3>2, <3>4 DEF SameStream, StreamStep
  <2> QED
    BY <1>1, <2>1, <2>2
<1> QED
  BY <1>8, <1>9

\* A connection that is given a slot has been sent nothing.
LEMMA StreamAccept ==
  ASSUME Base, Seats, Base', Seats', ConnInv, Stage, NEW c \in Conns, AcceptPeer,
         next' = next, exitSent' = exitSent
  PROVE  StreamStep(c)
<1> DEFINE d == Head(backlog)
           a == [conn[d] EXCEPT !.st = "accepted"]
           r == [conn[d] EXCEPT !.st = "refused"]
           w == [NoPeer EXCEPT !.fd = d]
<1>1. /\ d \in Conns /\ backlog # <<>>
      /\ \/ \E s \in Slots : /\ peer[s] = NoPeer /\ peer' = [peer EXCEPT ![s] = w]
                             /\ conn' = [conn EXCEPT ![d] = a]
         \/ peer' = peer /\ conn' = [conn EXCEPT ![d] = r]
  BY AcceptCases
<1>2. backlog \in Seq(Conns) /\ conn[d] \in ConnType /\ conn \in [Conns -> ConnType]
      /\ peer \in [Slots -> PeerType] /\ c # NoConn
  BY <1>1, BrokerAssumption DEF Base, TypeOK
<1>3. /\ a.rx = conn[d].rx /\ r.rx = conn[d].rx /\ a.asked = conn[d].asked
      /\ r.asked = conn[d].asked
  BY <1>2 DEF ConnType
<1>4. d = backlog[1] /\ 1 \in DOMAIN backlog
  BY <1>1, <1>2
<1>5. w.fd = d /\ w.role = "none" /\ w.q = <<>>
  BY DEF NoPeer
<1> HIDE DEF d, a, r, w
<1>6. conn[d].st = "backlog" /\ conn[d].rx = <<>>
  BY <1>1, <1>4 DEF ConnInv, Stage
<1>7. conn'[c].rx = conn[c].rx /\ AskedOnce(c)
  BY <1>1, <1>2, <1>3 DEF AskedOnce
<1>8. \A s \in Slots : peer'[s] = peer[s] \/ peer'[s] = w
  BY <1>1, <1>2
<1>9. ASSUME NEW s \in Slots, peer'[s].fd = c
      PROVE  SameStream(c)
  <2>1. CASE peer'[s] = peer[s]
    BY <1>7, <1>9, <2>1, StreamKept
  <2>2. CASE peer'[s] = w
    <3>1. c = d /\ conn[c].rx = <<>>
      BY <1>5, <1>6, <1>9, <2>2
    <3>2. \A t \in Slots : peer[t].fd # c
      BY <1>2, <1>6, <3>1 DEF ConnInv
    <3>3. Stream(c) = <<>>
      BY <3>1, <3>2, StreamFree
    <3>4. Stream(c)' = conn'[c].rx \o peer'[s].q /\ ~Subscriber(c)'
      BY <1>5, <1>9, <2>2, StreamAtNext
    <3>5. <<>> \o <<>> = <<>>
      OBVIOUS
    <3>6. Stream(c)' = <<>>
      BY <1>5, <1>7, <2>2, <3>1, <3>4, <3>5
    <3> QED
      BY <1>7, <3>3, <3>4, <3>6 DEF SameStream
  <2> QED
    BY <1>8, <2>1, <2>2
<1> QED
  BY <1>7, <1>9, StreamLost DEF StreamStep

\* The acknowledgement of TERMINATE is the first packet on its connection.
LEMMA StreamAcknowledge ==
  ASSUME Base, Seats, Base', Seats', Stage, NEW c \in Conns, Acknowledge,
         next' = next, exitSent' = exitSent
  PROVE  StreamStep(c)
<1> DEFINE f == peer[cur].fd
           m == Plain("TERMINATE", IF result = 0 THEN "0" ELSE "EIO", 0)
<1>1. /\ cur \in Slots /\ peer' = [peer EXCEPT ![cur] = NoPeer]
      /\ conn \in [Conns -> ConnType] /\ peer \in [Slots -> PeerType]
      /\ c # NoConn /\ NoPeer.fd = NoConn
  BY BrokerAssumption DEF Acknowledge, Base, TypeOK, NoPeer
<1>2. \/ conn' = conn
      \/ /\ f # NoConn /\ peer[cur].terminating
         /\ conn' = [conn EXCEPT ![f].rx = Append(conn[f].rx, m)]
  BY DEF Acknowledge, Peer
<1>3. m \in Packet /\ m.type = "TERMINATE"
  BY DEF Plain, Packet, Message, Exact, RequestTypes, Errors, NoStatus, Status
<1> HIDE DEF m
<1>4. \A s \in Slots \ {cur} : peer'[s] = peer[s]
  BY <1>1
<1>5. peer'[cur].fd # c
  BY <1>1
<1>6. ASSUME conn'[c].rx = conn[c].rx, conn'[c].asked = conn[c].asked
      PROVE  StreamStep(c)
  <2>1. AskedOnce(c)
    BY <1>6 DEF AskedOnce
  <2>2. ASSUME NEW s \in Slots, peer'[s].fd = c
        PROVE  SameStream(c)
    <3>1. peer'[s] = peer[s]
      BY <1>4, <1>5, <2>2
    <3> QED
      BY <1>6, <2>1, <2>2, <3>1, StreamKept
  <2> QED
    BY <1>6, <2>1, <2>2, StreamLost DEF StreamStep
<1>7. CASE f # NoConn /\ peer[cur].terminating /\ conn' = [conn EXCEPT ![f].rx = Append(conn[f].rx, m)]
  <2>1. f \in Conns /\ conn[f] \in ConnType
    BY <1>1, <1>7 DEF PeerType
  <2>2. conn[f].asked = "TERMINATE" /\ conn[f].rx = <<>> /\ peer[cur].q = <<>>
    BY <1>1, <1>7 DEF Stage, StageSlot
  <2>3. conn'[f].rx = Append(conn[f].rx, m) /\ conn'[f].asked = conn[f].asked
    BY <1>1, <1>7, <2>1 DEF ConnType
  <2>4. CASE c # f
    BY <1>1, <1>6, <1>7, <2>1, <2>4
  <2>5. CASE c = f
    <3>1. Stream(c) = conn[c].rx \o peer[cur].q
      BY <1>1, <2>1, <2>5, StreamAt
    <3>2. <<>> \o <<>> = <<>> /\ Append(<<>>, m) = <<m>>
      OBVIOUS
    <3>3. Stream(c) = <<>>
      BY <2>2, <2>5, <3>1, <3>2
    <3>4. \A s \in Slots : peer'[s].fd # c
      BY <1>1, <1>4, <1>5, <2>5 DEF Seats
    <3>5. Stream(c)' = <<m>> /\ ~Subscriber(c)'
      BY <2>2, <2>3, <2>5, <3>2, <3>4, StreamFreeNext
    <3> QED
      BY <1>3, <2>2, <2>3, <2>5, <3>3, <3>5 DEF AnsweredStream, StreamStep
  <2> QED
    BY <2>4, <2>5
<1> QED
  BY <1>2, <1>6, <1>7

\* Every step does one of the five things to the stream of every connection.
LEMMA StreamSteps ==
  ASSUME Base, Seats, ConnInv, Stage, Base', Seats', NEW c \in Conns, [Next]_vars
  PROVE  StreamStep(c)
<1>1. CASE OtherStep
  <2>1. next' = next /\ exitSent' = exitSent
    BY <1>1 DEF OtherStep
  <2>2. ASSUME NEW k \in 0 .. FlushQuota, Flush(k)
        PROVE  StreamStep(c)
    BY <2>1, <2>2, StreamFlush
  <2> QED
    BY <1>1, <2>1, <2>2, StreamAccept, StreamAcknowledge DEF OtherStep
<1> QED
  BY <1>1, StepKinds, StreamQuiet, StreamTells, StreamRequest

-----------------------------------------------------------------------------
(* What every stream looks like.                                           *)

\* S is the stream of a connection that asked `asked', of a subscriber if sub, when
\* n bytes of output have been read and the exit has been announced if sent.
Line(S, asked, sub, n, sent) ==
  /\ \A i \in DOMAIN S : IF i = 1 THEN S[1].type = asked ELSE S[i].type \in EventTypes
  /\ (\E i \in DOMAIN S : S[i].type = "OUTPUT") \/ sub => Contiguous(S)
  /\ sub => UpTo(S, n)
  /\ \A i \in DOMAIN S : S[i].type = "EXIT" => i = Len(S) /\ S[i].off = n /\ sent
  /\ sent /\ sub => S # <<>> /\ S[Len(S)].type = "EXIT"

\* Lines: one that is empty, one that is cut and one that is answered.
LEMMA LineEmpty ==
  ASSUME NEW asked, NEW n, NEW sent
  PROVE  Line(<<>>, asked, FALSE, n, sent)
  BY DEF Line

\* A cut of a line is a line.
LEMMA LineCut ==
  ASSUME NEW S \in Seq(Packet), NEW asked \in RequestTypes \cup {"none"}, NEW sub \in BOOLEAN,
         NEW n, NEW sent, Line(S, asked, sub, n, sent), NEW k \in 0 .. Len(S)
  PROVE  Line(SubSeq(S, 1, k), asked, FALSE, n, sent)
<1> DEFINE T == SubSeq(S, 1, k)
<1>1. T \in Seq(Packet) /\ Len(T) = k /\ DOMAIN T = 1 .. k /\ \A i \in 1 .. k : T[i] = S[i]
  OBVIOUS
<1>2. DOMAIN S = 1 .. Len(S) /\ Len(S) \in Nat /\ 1 .. k \subseteq DOMAIN S
  OBVIOUS
<1> HIDE DEF T
<1>3. \A i \in DOMAIN T : IF i = 1 THEN T[1].type = asked ELSE T[i].type \in EventTypes
  BY <1>1, <1>2 DEF Line
<1>4. ASSUME NEW i \in DOMAIN T, T[i].type = "OUTPUT"
      PROVE  Contiguous(T)
  <2>1. i \in DOMAIN S /\ S[i].type = "OUTPUT"
    BY <1>1, <1>2, <1>4
  <2>2. Contiguous(S)
    BY <2>1 DEF Line
  <2>3. i # 1
    BY <2>1 DEF Line, RequestTypes
  <2>4. k \in 2 .. Len(S)
    BY <1>1, <1>2, <2>3
  <2> QED
    BY <2>2, <2>4, PrefixContiguous DEF T
<1>5. ASSUME NEW i \in DOMAIN T, T[i].type = "EXIT"
      PROVE  i = Len(T) /\ T[i].off = n /\ sent
  <2>1. i \in DOMAIN S /\ T[i] = S[i] /\ i \in 1 .. k
    BY <1>1, <1>2
  <2>2. i = Len(S) /\ S[i].off = n /\ sent
    BY <1>5, <2>1 DEF Line
  <2>3. k \in Nat /\ i \in Nat /\ i <= k /\ k <= Len(S) /\ Len(S) \in Nat
    BY <1>2, <2>1
  <2>4. i = k
    BY ONLY <2>2, <2>3
  <2> QED
    BY <1>1, <2>1, <2>2, <2>4
<1> QED
  BY <1>3, <1>4, <1>5 DEF Line, T

\* A reply alone is a line.
LEMMA LineAnswered ==
  ASSUME NEW m \in Packet, m.type \in RequestTypes \cup {"none"}, NEW n, NEW sent
  PROVE  Line(<<m>>, m.type, FALSE, n, sent)
<1>1. DOMAIN <<m>> = {1} /\ <<m>>[1] = m
  OBVIOUS
<1>2. m.type # "OUTPUT" /\ m.type # "EXIT"
  BY DEF RequestTypes
<1> QED
  BY <1>1, <1>2 DEF Line

\* A subscriber that is told of output, of a new geometry or of the exit.
LEMMA LineTold ==
  ASSUME NEW S \in Seq(Packet), NEW asked, NEW n \in Nat, Line(S, asked, TRUE, n, FALSE),
         NEW m \in Packet, m.type \in {"OUTPUT", "GEOMETRY", "EXIT"}, NEW u,
         m.type = "OUTPUT" => m.off = n /\ u = n + m.size, m.type # "OUTPUT" => u = n,
         m.type = "EXIT" => m.off = n
  PROVE  Line(Append(S, m), asked, TRUE, u, m.type = "EXIT")
<1> DEFINE T == Append(S, m)
<1>1. Contiguous(S) /\ UpTo(S, n) /\ Len(S) > 1 /\ Len(S) \in Nat
  BY DEF Line, Contiguous
<1>2. /\ T \in Seq(Packet) /\ Len(T) = Len(S) + 1 /\ \A i \in 1 .. Len(S) : T[i] = S[i]
      /\ T[Len(S) + 1] = m
  BY AppendAt
<1>3. Contiguous(T) /\ UpTo(T, u)
  <2>1. CASE m.type = "OUTPUT"
    BY <1>1, <2>1, AppendOutput
  <2>2. CASE m.type # "OUTPUT"
    BY <1>1, <2>2, AppendOther
  <2> QED
    BY <2>1, <2>2
<1> HIDE DEF T
<1>4. DOMAIN T = 1 .. Len(S) + 1 /\ DOMAIN S = 1 .. Len(S)
  BY <1>2
<1>5. \A i \in DOMAIN T : (i \in DOMAIN S /\ T[i] = S[i]) \/ (i = Len(T) /\ T[i] = m /\ i # 1)
  BY <1>1, <1>2, <1>4
<1>6. m.type \in EventTypes
  BY DEF EventTypes
<1>7. \A i \in DOMAIN T : IF i = 1 THEN T[1].type = asked ELSE T[i].type \in EventTypes
  BY <1>5, <1>6 DEF Line
<1>8. \A i \in DOMAIN T : T[i].type = "EXIT" => i = Len(T) /\ T[i].off = u /\ m.type = "EXIT"
  BY <1>5 DEF Line
<1>9. T # <<>> /\ T[Len(T)] = m
  BY <1>1, <1>2
<1> QED
  BY <1>3, <1>7, <1>8, <1>9 DEF Line, T

\* A line stays one when the connection is no subscriber any more.
LEMMA LineWeaker ==
  ASSUME NEW S, NEW asked, NEW sub \in BOOLEAN, NEW n, NEW sent, Line(S, asked, TRUE, n, sent)
  PROVE  Line(S, asked, sub, n, sent)
  BY DEF Line

\* The inductive invariant: every stream is such a line.
LineInv == \A c \in Conns : Line(Stream(c), conn[c].asked, Subscriber(c), next, exitSent)

\* Once the exit is announced no output follows and it stays announced.
LEMMA ExitKept ==
  ASSUME Base, ExitFlags, exitSent, [Next]_vars
  PROVE  next' = next /\ exitSent'
<1>1. pc # "output"
  BY DEF ExitFlags
<1> QED
  BY <1>1, StepKinds DEF QuietStep, TellStep, RequestStep, OtherStep

\* Every step keeps the lines.
LEMMA LineNext ==
  ASSUME Base, Seats, ConnInv, Stage, ExitFlags, LineInv, Base', Seats', [Next]_vars
  PROVE  LineInv'
<1> SUFFICES ASSUME NEW c \in Conns
             PROVE  Line(Stream(c)', conn'[c].asked, Subscriber(c)', next', exitSent')
  BY DEF LineInv
<1>1. Line(Stream(c), conn[c].asked, Subscriber(c), next, exitSent)
  BY DEF LineInv
<1>2. /\ Stream(c) \in Seq(Packet) /\ next \in Nat
      /\ conn[c].asked \in RequestTypes \cup {"none"} /\ conn'[c].asked \in RequestTypes \cup {"none"}
  <2>1. conn[c] \in ConnType /\ conn'[c] \in ConnType /\ next \in Nat
    BY DEF Base, TypeOK
  <2> QED
    BY <2>1, StreamType DEF ConnType
<1>3. Subscriber(c) \in BOOLEAN /\ Subscriber(c)' \in BOOLEAN /\ exitSent \in BOOLEAN /\ exitSent' \in BOOLEAN
  BY DEF Subscriber, Base, TypeOK
<1>4. exitSent => next' = next /\ exitSent'
  BY ExitKept
<1>5. ASSUME NEW S, NEW a, Line(S, a, FALSE, next, exitSent)
      PROVE  Line(S, a, FALSE, next', exitSent')
  BY <1>4, <1>5 DEF Line
<1>6. CASE SameStream(c)
  <2>1. CASE Stream(c) = <<>> /\ ~Subscriber(c)'
    BY <1>3, <1>6, <2>1, LineEmpty DEF SameStream
  <2>2. CASE conn'[c].asked = conn[c].asked /\ ~Subscriber(c)'
    <3>1. Line(Stream(c), conn[c].asked, FALSE, next, exitSent)
      BY <1>1 DEF Line
    <3> QED
      BY <1>3, <1>5, <1>6, <2>2, <3>1 DEF SameStream
  <2>3. CASE Subscriber(c)'
    <3>1. Subscriber(c) /\ next' = next /\ exitSent' = exitSent /\ Stream(c)' = Stream(c)
      BY <1>6, <2>3 DEF SameStream
    <3>2. Stream(c) # <<>>
      BY <1>1, <3>1 DEF Line, Contiguous
    <3>3. conn'[c].asked = conn[c].asked
      BY <1>6, <3>2 DEF SameStream, AskedOnce
    <3> QED
      BY <1>1, <1>3, <2>3, <3>1, <3>3
  <2> QED
    BY <1>6, <2>1, <2>2, <2>3 DEF SameStream, AskedOnce
<1>7. CASE CutStream(c)
  <2>1. PICK k \in 0 .. Len(Stream(c)) : Stream(c)' = SubSeq(Stream(c), 1, k)
    BY <1>7 DEF CutStream
  <2>2. CASE Stream(c) = <<>>
    <3>1. SubSeq(<<>>, 1, k) = <<>>
      BY <2>1, <2>2
    <3> QED
      BY <1>3, <1>7, <2>1, <2>2, <3>1, LineEmpty DEF CutStream
  <2>3. CASE conn'[c].asked = conn[c].asked
    <3>1. Line(SubSeq(Stream(c), 1, k), conn[c].asked, FALSE, next, exitSent)
      BY <1>1, <1>2, <1>3, LineCut
    <3> QED
      BY <1>3, <1>5, <1>7, <2>1, <2>3, <3>1 DEF CutStream
  <2> QED
    BY <1>7, <2>2, <2>3 DEF CutStream, AskedOnce
<1>8. CASE ToldStream(c)
  <2>1. PICK m \in Packet :
          /\ Stream(c)' = Append(Stream(c), m)
          /\ \/ /\ m.type = "EXIT" /\ m.off = next /\ next' = next
                /\ ~exitSent /\ exitSent' /\ eof
             \/ /\ m.type = "OUTPUT" /\ m.off = next /\ next' = next + m.size
                /\ pc = "output" /\ exitSent' = exitSent
             \/ m.type = "GEOMETRY" /\ ~eof /\ next' = next /\ exitSent' = exitSent
    BY <1>8 DEF ToldStream
  <2>2. ~exitSent /\ (exitSent' <=> m.type = "EXIT")
    BY <2>1 DEF ExitFlags
  <2>3. Line(Stream(c), conn[c].asked, TRUE, next, FALSE) /\ conn'[c].asked = conn[c].asked
    <3>1. Subscriber(c) = TRUE /\ exitSent = FALSE
      BY <1>3, <1>8, <2>2 DEF ToldStream
    <3> QED
      BY <1>1, <1>8, <3>1 DEF ToldStream
  <2>4. Line(Append(Stream(c), m), conn[c].asked, TRUE, next', m.type = "EXIT")
    BY <1>2, <2>1, <2>3, LineTold
  <2>5. Line(Append(Stream(c), m), conn[c].asked, Subscriber(c)', next', m.type = "EXIT")
    BY <1>3, <2>4, LineWeaker
  <2>6. exitSent' = (m.type = "EXIT")
    BY <1>3, <2>2
  <2> QED
    BY <2>1, <2>3, <2>5, <2>6
<1>9. CASE AnsweredStream(c)
  <2>1. PICK m \in Packet : Stream(c)' = <<m>> /\ m.type = conn'[c].asked
    BY <1>9 DEF AnsweredStream
  <2>2. Line(<<m>>, m.type, FALSE, next', exitSent') /\ Subscriber(c)' = FALSE
    BY <1>2, <1>3, <1>9, <2>1, LineAnswered DEF AnsweredStream
  <2> QED
    BY <2>1, <2>2
<1>10. CASE WelcomedStream(c)
  <2>1. PICK role \in {"CONTROL", "OBSERVER"}, st \in Status :
          Stream(c)' = WelcomePackets(<<>>, role, st) /\ conn'[c].asked = role
    BY <1>10 DEF WelcomedStream
  <2> DEFINE T == WelcomePackets(<<>>, role, st)
  <2>2. /\ T \in Seq(Queueable) /\ Len(T) > 1
        /\ T[1].type = role /\ \A i \in 2 .. Len(T) : T[i].type \in EventTypes
        /\ \A i \in DOMAIN T : T[i].type = "EXIT" =>
             i = Len(T) /\ T[i].off = next /\ ~childLive /\ eof
        /\ ~childLive /\ eof => T[Len(T)].type = "EXIT"
        /\ Contiguous(T) /\ UpTo(T, next)
    BY WelcomeLine
  <2>3. pc = "serve" /\ next' = next /\ exitSent' = exitSent
    BY <1>10 DEF WelcomedStream
  <2>4. exitSent <=> ~childLive /\ eof
    BY <2>3 DEF ExitFlags
  <2> HIDE DEF T
  <2>5. /\ \A i \in DOMAIN T : i = 1 \/ i \in 2 .. Len(T)
        /\ T # <<>>
    BY <2>2
  <2>6. Line(T, role, TRUE, next, exitSent)
    BY <2>2, <2>4, <2>5 DEF Line
  <2>7. Line(T, role, Subscriber(c)', next, exitSent)
    BY <1>3, <2>6, LineWeaker
  <2> QED
    BY <2>1, <2>3, <2>7 DEF T
<1> QED
  BY <1>6, <1>7, <1>8, <1>9, <1>10, StreamSteps DEF StreamStep

\* The invariants of the service hold together in every reachable state.
LEMMA StreamInit ==
  ASSUME Init
  PROVE  ExitFlags /\ Stage /\ LineInv
<1>1. /\ \A s \in Slots : peer[s] = NoPeer
      /\ \A c \in Conns : conn[c].rx = <<>>
      /\ pc = "top" /\ exitSent = FALSE
  BY DEF Init
<1>2. NoPeer.fd = NoConn /\ NoConn \notin Conns
  BY BrokerAssumption DEF NoPeer
<1>3. \A c \in Conns : Stream(c) = <<>> /\ Subscriber(c) = FALSE
  <2> TAKE c \in Conns
  <2>1. \A s \in Slots : peer[s].fd # c
    BY <1>1, <1>2
  <2> QED
    BY <1>1, <2>1, StreamFree DEF Subscriber
<1>4. ExitFlags
  BY <1>1 DEF ExitFlags
<1>5. Stage
  BY <1>1, <1>2 DEF Stage, StageSlot
<1>6. LineInv
  BY <1>3, LineEmpty DEF LineInv
<1> QED
  BY <1>4, <1>5, <1>6

\* However requests, broadcasts, partial flushes, hangups and overflows interleave,
\* every stream is a line.
THEOREM LinesHold == Spec => [](LineInv /\ ExitFlags)
<1> DEFINE Inv == Base /\ InputFifo /\ Seats /\ ConnInv
           Lines == Stage /\ ExitFlags /\ LineInv
<1>1. Init => Lines
  BY StreamInit
<1>2. Inv /\ Inv' /\ Lines /\ [Next]_vars => Lines'
  BY StageGood, NextExitFlags, LineNext
<1>3. Spec => []Inv
  BY BaseHolds, SeatsHold, PTL
<1> QED
  BY <1>1, <1>2, <1>3, PTL DEF Spec

\* The first packet on a connection answers its request and no other packet does.
THEOREM OneReplyAlways == Spec => []OneReply
<1>1. LineInv => OneReply
  BY DEF LineInv, Line, OneReply
<1> QED
  BY <1>1, LinesHold, PTL

\* A subscriber sees the output without hole or repetition, up to the last byte read.
THEOREM StreamContiguousAlways == Spec => []StreamContiguous
<1>1. LineInv => StreamContiguous
  BY DEF LineInv, Line, StreamContiguous
<1> QED
  BY <1>1, LinesHold, PTL

\* EXIT comes once, after the last byte of output, and every subscriber has it.
THEOREM ExitLastAlways == Spec => []ExitLast
<1>1. LineInv /\ ExitFlags => ExitLast
  BY DEF LineInv, Line, ExitFlags, ExitLast
<1> QED
  BY <1>1, LinesHold, PTL

=============================================================================
