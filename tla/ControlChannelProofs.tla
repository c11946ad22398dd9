------------------------ MODULE ControlChannelProofs ------------------------
(***************************************************************************)
(* Proofs about ControlChannel for any cuts of the two streams, any sizes  *)
(* of reads and writes and any number of faults: its type invariant, the   *)
(* inductive invariant IInv, and from it that the server puts together     *)
(* what was written, that an acknowledged packet was delivered, and that   *)
(* on a calm network Read returns the server's stream.                     *)
(***************************************************************************)
EXTENDS ControlChannel, SequenceTheorems, TLAPS

USE SizeAssumption
USE DEF LocalSID, ServerSID, OtherSID, NoSID, connVars, writeVars, readVars,
        sendVars, takeVars, serverVars, netVars, faultVars

-----------------------------------------------------------------------------
(* Queues.                                                                 *)

\* A packet put at the end of a queue.
LEMMA Appended ==
  ASSUME NEW S, NEW q \in Seq(S), NEW x \in S
  PROVE  /\ Append(q, x) \in Seq(S)
         /\ Len(Append(q, x)) = Len(q) + 1 /\ DOMAIN Append(q, x) = 1 .. Len(q) + 1
         /\ \A i \in 1 .. Len(q) : Append(q, x)[i] = q[i]
         /\ Append(q, x)[Len(q) + 1] = x
         /\ ToSet(Append(q, x)) = ToSet(q) \cup {x}
<1>1. /\ Append(q, x) \in Seq(S)
      /\ Len(Append(q, x)) = Len(q) + 1 /\ DOMAIN Append(q, x) = 1 .. Len(q) + 1
      /\ \A i \in 1 .. Len(q) : Append(q, x)[i] = q[i]
      /\ Append(q, x)[Len(q) + 1] = x
      /\ DOMAIN q = 1 .. Len(q) /\ Len(q) \in Nat
  OBVIOUS
<1>2. ToSet(Append(q, x)) = ToSet(q) \cup {x}
  BY <1>1 DEF ToSet
<1>3. QED
  BY <1>1, <1>2

\* A packet taken from the front of a queue.
LEMMA Taken ==
  ASSUME NEW S, NEW q \in Seq(S), q # <<>>
  PROVE  /\ Head(q) \in S /\ Head(q) \in ToSet(q) /\ Head(q) = q[1]
         /\ Tail(q) \in Seq(S) /\ ToSet(Tail(q)) \subseteq ToSet(q)
         /\ Len(q) \in Nat \ {0} /\ DOMAIN q = 1 .. Len(q)
         /\ DOMAIN Tail(q) = 1 .. Len(q) - 1
         /\ \A i \in 1 .. Len(q) - 1 : Tail(q)[i] = q[i + 1]
<1>1. /\ Head(q) \in S /\ Head(q) = q[1]
      /\ Tail(q) \in Seq(S)
      /\ Len(q) \in Nat \ {0} /\ DOMAIN q = 1 .. Len(q)
      /\ DOMAIN Tail(q) = 1 .. Len(q) - 1
      /\ \A i \in 1 .. Len(q) - 1 : Tail(q)[i] = q[i + 1]
  OBVIOUS
<1>2. Head(q) \in ToSet(q) /\ ToSet(Tail(q)) \subseteq ToSet(q)
  BY <1>1 DEF ToSet
<1>3. QED
  BY <1>1, <1>2

\* Whatever the network does to a queue, it makes no packet.
LEMMA DisturbedIsOld ==
  ASSUME NEW S, NEW q \in Seq(S), NEW i \in DOMAIN q, NEW r \in Disturbed(q, i)
  PROVE  r \in Seq(S) /\ ToSet(r) \subseteq ToSet(q)
<1> DEFINE a == SubSeq(q, 1, i - 1)
           b == SubSeq(q, i + 1, Len(q))
<1>1. Len(q) \in Nat /\ i \in 1 .. Len(q) /\ DOMAIN q = 1 .. Len(q) /\ q[i] \in S
      /\ \A j \in 1 .. Len(q) : q[j] \in ToSet(q)
  BY DEF ToSet
<1>2. q \in Seq(ToSet(q))
  BY <1>1
<1>3. /\ a \in Seq(S) /\ a \in Seq(ToSet(q))
  <2>1. \A j \in 1 .. i - 1 : q[j] \in S /\ q[j] \in ToSet(q)
    BY <1>1
  <2>2. QED
    BY <1>1, <2>1, SubSeqProperties
<1>4. /\ b \in Seq(S) /\ b \in Seq(ToSet(q))
  <2>1. \A j \in i + 1 .. Len(q) : q[j] \in S /\ q[j] \in ToSet(q)
    BY <1>1
  <2>2. QED
    BY <1>1, <2>1, SubSeqProperties
<1>5. a \o b \in Seq(S) /\ ToSet(a \o b) \subseteq ToSet(q)
  <2> HIDE DEF a, b
  <2>1. a \o b \in Seq(S) /\ a \o b \in Seq(ToSet(q))
    BY <1>3, <1>4, ConcatProperties
  <2>2. QED
    BY <2>1 DEF ToSet
<1>6. RemoveAt(q, i) = a \o b
  BY DEF RemoveAt
<1> HIDE DEF a, b
<1>7. CASE r = RemoveAt(q, i)
  BY <1>5, <1>6, <1>7
<1>8. CASE r = Append(q, q[i])
  BY <1>1, <1>8, Appended
<1>9. CASE r = Append(RemoveAt(q, i), q[i])
  <2>1. RemoveAt(q, i) \in Seq(S) /\ ToSet(RemoveAt(q, i)) \subseteq ToSet(q)
    BY <1>5, <1>6
  <2>2. QED
    BY <1>1, <1>9, <2>1, Appended
<1>10. QED
  BY <1>7, <1>8, <1>9 DEF Disturbed

-----------------------------------------------------------------------------
(* Bytes.                                                                  *)

\* A piece of a stream is a sequence, and pieces that meet are one piece.
LEMMA BytesSeq ==
  ASSUME NEW k \in Nat, NEW n \in Nat
  PROVE  /\ Bytes(k, n) \in Seq(Nat) /\ Len(Bytes(k, n)) = n
         /\ DOMAIN Bytes(k, n) = 1 .. n
         /\ \A i \in 1 .. n : Bytes(k, n)[i] = k + i
BY DEF Bytes

LEMMA BytesJoin ==
  ASSUME NEW k \in Nat, NEW n \in Nat, NEW m \in Nat
  PROVE  Bytes(k, n) \o Bytes(k + n, m) = Bytes(k, n + m)
<1> DEFINE a == Bytes(k, n)
           b == Bytes(k + n, m)
           t == Bytes(k, n + m)
<1>1. k + n \in Nat /\ n + m \in Nat
  OBVIOUS
<1>2. a \in Seq(Nat) /\ Len(a) = n /\ \A i \in 1 .. n : a[i] = k + i
  BY BytesSeq
<1>3. b \in Seq(Nat) /\ Len(b) = m /\ \A i \in 1 .. m : b[i] = k + n + i
  BY <1>1, BytesSeq
<1>4. t \in Seq(Nat) /\ Len(t) = n + m /\ \A i \in 1 .. n + m : t[i] = k + i
  BY <1>1, BytesSeq
<1> HIDE DEF a, b, t
<1>5. /\ a \o b \in Seq(Nat) /\ Len(a \o b) = n + m
      /\ \A i \in 1 .. n + m : (a \o b)[i] = IF i <= n THEN a[i] ELSE b[i - n]
  BY <1>2, <1>3, ConcatProperties
<1>6. ASSUME NEW i \in 1 .. n + m PROVE (a \o b)[i] = t[i]
  <2>1. (a \o b)[i] = IF i <= n THEN a[i] ELSE b[i - n]
    BY <1>5
  <2>2. i > n => i - n \in 1 .. m
    OBVIOUS
  <2>3. QED
    BY <1>2, <1>3, <1>4, <2>1, <2>2
<1>7. a \o b = t
  BY <1>4, <1>5, <1>6, SeqEqual
<1>8. QED
  BY <1>7 DEF a, b, t

\* The server's packets follow each other in its stream.
LEMMA Cuts ==
  ASSUME NEW id \in 1 .. Len(Ends)
  PROVE  /\ Before(id) \in Nat /\ Before(id + 1) \in Nat
         /\ Before(id) <= Before(id + 1)
         /\ ServerData(id) = Bytes(Before(id), Before(id + 1) - Before(id))
         /\ ServerData(id) \in Seq(Nat)
<1>1. Before(id) \in Nat /\ Before(id + 1) = Ends[id] /\ Ends[id] \in Nat
  BY DEF Before
<1>2. Before(id) <= Ends[id]
  BY DEF Before
<1>3. Ends[id] - Before(id) \in Nat
  BY <1>1, <1>2
<1>4. QED
  BY <1>1, <1>2, <1>3, BytesSeq DEF ServerData

LEMMA CutsGrow ==
  ASSUME NEW m \in Nat, NEW n \in 0 .. Len(Ends) + 1, m <= n
  PROVE  Before(m) \in Nat /\ Before(n) \in Nat /\ Before(m) <= Before(n)
BY DEF Before

\* Concatenation may be regrouped.
LEMMA Regroup ==
  ASSUME NEW a \in Seq(Nat), NEW c \in Seq(Nat), NEW d \in Seq(Nat)
  PROVE  (a \o c) \o d = a \o (c \o d)
<1> DEFINE x == a \o c
           y == c \o d
<1>1. /\ x \in Seq(Nat) /\ Len(x) = Len(a) + Len(c)
      /\ \A i \in 1 .. Len(a) + Len(c) : x[i] = IF i <= Len(a) THEN a[i] ELSE c[i - Len(a)]
  BY ConcatProperties
<1>2. /\ y \in Seq(Nat) /\ Len(y) = Len(c) + Len(d)
      /\ \A i \in 1 .. Len(c) + Len(d) : y[i] = IF i <= Len(c) THEN c[i] ELSE d[i - Len(c)]
  BY ConcatProperties
<1> HIDE DEF x, y
<1> DEFINE v == x \o d
           w == a \o y
<1>3. /\ v \in Seq(Nat) /\ Len(v) = Len(x) + Len(d)
      /\ \A i \in 1 .. Len(x) + Len(d) : v[i] = IF i <= Len(x) THEN x[i] ELSE d[i - Len(x)]
  BY <1>1, ConcatProperties
<1>4. /\ w \in Seq(Nat) /\ Len(w) = Len(a) + Len(y)
      /\ \A i \in 1 .. Len(a) + Len(y) : w[i] = IF i <= Len(a) THEN a[i] ELSE y[i - Len(a)]
  BY <1>2, ConcatProperties
<1>5. Len(a) \in Nat /\ Len(c) \in Nat /\ Len(d) \in Nat
  OBVIOUS
<1> HIDE DEF v, w
<1>6. Len(v) = Len(w) /\ Len(v) = Len(a) + Len(c) + Len(d)
  BY <1>1, <1>2, <1>3, <1>4, <1>5
<1>7. ASSUME NEW i \in 1 .. Len(a) + Len(c) + Len(d) PROVE v[i] = w[i]
  <2>1. v[i] = IF i <= Len(a) + Len(c) THEN x[i] ELSE d[i - (Len(a) + Len(c))]
    BY <1>1, <1>3, <1>5
  <2>2. w[i] = IF i <= Len(a) THEN a[i] ELSE y[i - Len(a)]
    BY <1>2, <1>4, <1>5
  <2>3. CASE i <= Len(a)
    BY <1>1, <1>5, <2>1, <2>2, <2>3
  <2>4. CASE Len(a) < i
    <3>1. PICK j \in 1 .. Len(c) + Len(d) : j = i - Len(a)
      <4>1. i - Len(a) \in 1 .. Len(c) + Len(d)
        BY <1>5, <2>4
      <4>2. QED
        BY <4>1
    <3>2. y[j] = IF j <= Len(c) THEN c[j] ELSE d[j - Len(c)]
      BY <1>2
    <3>3. i <= Len(a) + Len(c) => x[i] = c[j]
      BY <1>1, <1>5, <2>4, <3>1
    <3>4. i - (Len(a) + Len(c)) = j - Len(c) /\ (i <= Len(a) + Len(c) <=> j <= Len(c))
      BY <1>5, <3>1
    <3>5. QED
      BY <1>5, <2>1, <2>2, <2>4, <3>1, <3>2, <3>3, <3>4
  <2>5. QED
    BY <1>5, <2>3, <2>4
<1>8. v = w
  BY <1>3, <1>4, <1>6, <1>7, SeqEqual
<1>9. QED
  BY <1>8 DEF v, w, x, y

\* readBuf.Read cuts what it has in two and loses nothing.
LEMMA ReturnKeeps ==
  ASSUME got \in Seq(Nat), NEW b \in Seq(Nat), NEW n \in Nat \ {0}, Return(n, b)
  PROVE  /\ got' \in Seq(Nat) /\ readBuf' \in Seq(Nat) /\ reader' = 0
         /\ got' \o readBuf' = got \o b
<1> DEFINE l == Least(n, Len(b))
           c == SubSeq(b, 1, l)
           d == SubSeq(b, n + 1, Len(b))
<1>1. Len(b) \in Nat /\ l \in 0 .. Len(b) /\ (n < Len(b) => l = n) /\ (n >= Len(b) => l = Len(b))
  BY DEF Least
<1>2. c \in Seq(Nat) /\ d \in Seq(Nat)
  BY <1>1
<1>3. c \o d = b
  <2>1. CASE n < Len(b)
    <3>1. 1 \in 1 .. Len(b) + 1 /\ n \in 1 - 1 .. Len(b) /\ Len(b) \in n .. Len(b)
      BY <1>1, <2>1
    <3>2. SubSeq(b, 1, n) \o SubSeq(b, n + 1, Len(b)) = SubSeq(b, 1, Len(b))
      BY <3>1, ConcatAdjacentSubSeq
    <3>3. SubSeq(b, 1, Len(b)) = b
      BY SubSeqFull
    <3>4. QED
      BY <1>1, <2>1, <3>2, <3>3, Zenon
  <2>2. CASE n >= Len(b)
    <3>1. d = <<>>
      BY <1>1, <2>2
    <3>2. c = b
      BY <1>1, <2>2, SubSeqFull
    <3> HIDE DEF c, d
    <3>3. QED
      BY <3>1, <3>2, ConcatEmptySeq
  <2>3. n < Len(b) \/ n >= Len(b)
    BY <1>1
  <2>4. QED
    BY <2>1, <2>2, <2>3
<1>4. got' = got \o c /\ readBuf' = d /\ reader' = 0
  BY DEF Return
<1> HIDE DEF c, d
<1>5. (got \o c) \o d = got \o (c \o d)
  BY <1>2, Regroup
<1>6. QED
  BY <1>2, <1>3, <1>4, <1>5

-----------------------------------------------------------------------------
(* Types.                                                                  *)

Ops == {"hardResetClient", "hardResetServer", "control", "ack", "softReset", "data"}

\* What marshal writes is a packet.
LEMMA PacketTyped ==
  ASSUME NEW op \in Ops, NEW sid \in {LocalSID, ServerSID, OtherSID},
         NEW acks \in SUBSET Nat, NEW remote \in {LocalSID, ServerSID, OtherSID, NoSID},
         NEW id \in Nat, NEW data \in Seq(Nat)
  PROVE  Packet(op, sid, acks, remote, id, data) \in PacketType
BY DEF Packet, PacketType, Ops

\* What the server sends is one too.
LEMMA ServerPacketTyped ==
  ASSUME NEW op \in Ops, NEW id \in Nat, NEW data \in Seq(Nat), NEW acks \in SUBSET Nat
  PROVE  ServerPacket(op, id, data, acks) \in PacketType
BY PacketTyped DEF ServerPacket

LEMMA StraysTyped == Strays \subseteq PacketType
<1>1. <<>> \in Seq(Nat) /\ <<0>> \in Seq(Nat) /\ {} \in SUBSET Nat /\ {1} \in SUBSET Nat
  OBVIOUS
<1>2. /\ Packet("control", OtherSID, {}, NoSID, 1, <<0>>) \in PacketType
      /\ Packet("control", ServerSID, {1}, OtherSID, 1, <<0>>) \in PacketType
      /\ Packet("softReset", OtherSID, {}, NoSID, 1, <<>>) \in PacketType
      /\ Packet("data", OtherSID, {}, NoSID, 1, <<0>>) \in PacketType
  BY <1>1, PacketTyped DEF Ops
<1>3. QED
  BY <1>2 DEF Strays

\* The piece Write cuts off is not empty and not longer than what is left.
LEMMA ChunkSize ==
  ASSUME TypeOK, wrote < asked
  PROVE  /\ Least(asked - wrote, MaxPayload) \in 1 .. asked - wrote
         /\ wrote \in Nat /\ asked \in Nat
BY DEF Least, TypeOK

\* The client's steps keep the variables in their types.
LEMMA ClientTypes ==
  ASSUME TypeOK,
         \/ DialReset \/ DialReply \/ DialTimeout \/ WriteChunk
         \/ ReceiveControl \/ ReceiveOther \/ ReceiveSoftReset
         \/ ReadTimeout \/ SocketFails \/ Close
         \/ \E n \in WriteSizes : Write(n)
         \/ \E n \in ReadSizes : Read(n)
  PROVE  TypeOK'
<1> USE DEF TypeOK
<1>0. <<>> \in Seq(Nat) /\ <<>> \in Seq(PacketType) /\ {} \in SUBSET Nat
  OBVIOUS
<1>1. CASE DialReset
  <2>1. Packet("hardResetClient", LocalSID, {}, NoSID, 0, <<>>) \in PacketType
    BY <1>0, PacketTyped DEF Ops
  <2>2. toServer' \in Seq(PacketType)
    BY <1>1, <2>1, Appended DEF DialReset
  <2>3. QED
    BY <1>1, <2>2 DEF DialReset
<1>2. CASE DialReply
  <2> DEFINE resp == Head(toClient)
  <2>1. resp \in PacketType /\ Tail(toClient) \in Seq(PacketType)
    BY <1>2, Taken DEF DialReply
  <2>2. resp.sid \in {LocalSID, ServerSID, OtherSID} /\ {resp.id} \in SUBSET Nat
    BY <2>1 DEF PacketType
  <2>3. Packet("ack", LocalSID, {resp.id}, resp.sid, 0, <<>>) \in PacketType
    BY <1>0, <2>2, PacketTyped DEF Ops
  <2>4. toClient' \in Seq(PacketType)
    BY <1>0, <1>2, <2>1 DEF DialReply
  <2>5. CASE resp.op = "hardResetServer" /\ resp.remote = LocalSID
    <3>1. toServer' = Append(toServer, Packet("ack", LocalSID, {resp.id}, resp.sid, 0, <<>>))
      BY <1>2, <2>5 DEF DialReply
    <3>2. toServer' \in Seq(PacketType)
      BY <2>3, <3>1, Appended
    <3>3. QED
      BY <1>2, <2>2, <2>4, <2>5, <3>2 DEF DialReply
  <2>6. CASE ~(resp.op = "hardResetServer" /\ resp.remote = LocalSID)
    BY <1>2, <2>4, <2>6 DEF DialReply
  <2>7. QED
    BY <2>5, <2>6
<1>3. CASE DialTimeout \/ ReadTimeout \/ SocketFails \/ Close
  BY <1>0, <1>3 DEF DialTimeout, ReadTimeout, SocketFails, Close
<1>4. CASE WriteChunk
  <2> DEFINE n == Least(asked - wrote, MaxPayload)
  <2>1. n \in 1 .. asked - wrote
    BY <1>4, ChunkSize DEF WriteChunk
  <2>2. Packet("control", LocalSID, {}, NoSID, nextID, Bytes(wrote, n)) \in PacketType
    <3>1. n \in Nat /\ wrote \in Nat
      BY <2>1
    <3> HIDE DEF n
    <3>2. Bytes(wrote, n) \in Seq(Nat)
      BY <3>1, BytesSeq
    <3>3. QED
      BY <1>0, <3>2, PacketTyped DEF Ops
  <2>3. toServer' \in Seq(PacketType) /\ wrote' = wrote + n
    BY <1>4, <2>2, Appended DEF WriteChunk
  <2> HIDE DEF n
  <2>4. QED
    BY <1>4, <2>1, <2>3 DEF WriteChunk
<1>5. CASE ReceiveControl
  <2> DEFINE pkt == Head(toClient)
  <2>1. pkt \in PacketType /\ toClient' \in Seq(PacketType)
    BY <1>5, Taken DEF ReceiveControl, Arrives
  <2>2. {pkt.id} \in SUBSET Nat /\ pkt.data \in Seq(Nat)
    BY <2>1 DEF PacketType
  <2>3. Ack(pkt.id) \in PacketType
    BY <1>0, <2>2, PacketTyped DEF Ack, Ops
  <2>4. toServer' \in Seq(PacketType)
    <3>1. toServer' = toServer \/ toServer' = Append(toServer, Ack(pkt.id))
      BY <1>5 DEF ReceiveControl
    <3>2. Append(toServer, Ack(pkt.id)) \in Seq(PacketType)
      BY <2>3, Appended, Zenon
    <3>3. QED
      BY <3>1, <3>2
  <2>5. reader \in Nat \ {0}
    BY <1>5 DEF ReceiveControl, Arrives
  <2>6. readBuf' \in Seq(Nat) /\ got' \in Seq(Nat) /\ reader' \in {0} \cup ReadSizes
    BY <1>5, <2>2, <2>5, ReturnKeeps DEF ReceiveControl
  <2>7. QED
    BY <1>5, <2>1, <2>4, <2>6 DEF ReceiveControl
<1>6. CASE ReceiveOther
  BY <1>6, Taken DEF ReceiveOther, Arrives
<1>7. CASE ReceiveSoftReset
  <2>1. toClient' \in Seq(PacketType)
    BY <1>7, Taken DEF ReceiveSoftReset, Arrives
  <2>2. QED
    BY <1>7, <2>1 DEF ReceiveSoftReset
<1>8. ASSUME NEW n \in WriteSizes, Write(n) PROVE TypeOK'
  BY <1>8 DEF Write
<1>9. ASSUME NEW n \in ReadSizes, Read(n) PROVE TypeOK'
  <2>1. n \in Nat \ {0}
    OBVIOUS
  <2>2. readBuf' \in Seq(Nat) /\ got' \in Seq(Nat) /\ reader' \in {0} \cup ReadSizes
    BY <1>9, <2>1, ReturnKeeps DEF Read
  <2>3. QED
    BY <1>9, <2>2 DEF Read
<1>10. QED
  BY <1>1, <1>2, <1>3, <1>4, <1>5, <1>6, <1>7, <1>8, <1>9

\* The server's steps and the faults keep the variables in their types.
LEMMA ServerTypes ==
  ASSUME TypeOK,
         \/ ServerReset \/ ServerSend \/ ServerTake \/ ServerRead
         \/ \E id \in 0 .. Len(Ends) : ServerResend(id)
         \/ Disturb \/ Stray \/ ServerRekeys
  PROVE  TypeOK'
<1> USE DEF TypeOK
<1>0. <<>> \in Seq(Nat) /\ {} \in SUBSET Nat /\ {0} \in SUBSET Nat /\ {1} \in SUBSET Nat
  OBVIOUS
<1>1. CASE ServerReset
  <2>1. ServerPacket("hardResetServer", 0, <<>>, {0}) \in PacketType
    BY <1>0, ServerPacketTyped DEF Ops
  <2>2. toClient' \in Seq(PacketType) /\ toServer' \in Seq(PacketType)
    BY <1>1, <2>1, Appended, Taken DEF ServerReset
  <2>3. QED
    BY <1>1, <2>2 DEF ServerReset
<1>2. CASE ServerSend
  <2>1. sNext \in 1 .. Len(Ends) \/ sNext = 0
    BY <1>2 DEF ServerSend
  <2>2. sNext # 0
    BY <1>2 DEF ServerSend
  <2>3. ServerPacket("control", sNext, ServerData(sNext), {1}) \in PacketType
    BY <1>0, <2>1, <2>2, Cuts, ServerPacketTyped DEF Ops
  <2>4. toClient' \in Seq(PacketType)
    BY <1>2, <2>3, Appended DEF ServerSend
  <2>5. QED
    BY <1>2, <2>1, <2>4 DEF ServerSend
<1>3. CASE ServerTake
  <2> DEFINE pkt == Head(toServer)
  <2>1. pkt \in PacketType /\ toServer' \in Seq(PacketType)
    BY <1>3, Taken DEF ServerTake
  <2>2. {pkt.id} \in SUBSET Nat
    BY <2>1 DEF PacketType
  <2>3. ServerPacket("ack", 0, <<>>, {pkt.id}) \in PacketType
    BY <1>0, <2>2, ServerPacketTyped DEF Ops
  <2>4. Append(toClient, ServerPacket("ack", 0, <<>>, {pkt.id})) \in Seq(PacketType)
    BY <2>3, Appended
  <2>5. toClient' \in Seq(PacketType) /\ held' \subseteq PacketType
    BY <1>3, <2>1, <2>4 DEF ServerTake
  <2>6. unacked' \subseteq unacked
    BY <1>3 DEF ServerTake
  <2>7. QED
    BY <1>3, <2>1, <2>5, <2>6 DEF ServerTake
<1>4. CASE ServerRead
  <2>1. PICK pkt \in held : sGot' = sGot \o pkt.data /\ held' = held \ {pkt}
    BY <1>4 DEF ServerRead
  <2>2. pkt.data \in Seq(Nat)
    BY <2>1 DEF PacketType
  <2>3. sGot' \in Seq(Nat)
    BY <2>1, <2>2, ConcatProperties
  <2>4. QED
    BY <1>4, <2>1, <2>3 DEF ServerRead
<1>5. ASSUME NEW id \in 0 .. Len(Ends), ServerResend(id) PROVE TypeOK'
  <2>1. ServerPacket("hardResetServer", 0, <<>>, {0}) \in PacketType
    BY <1>0, ServerPacketTyped DEF Ops
  <2>2. id # 0 => ServerPacket("control", id, ServerData(id), {}) \in PacketType
    BY <1>0, Cuts, ServerPacketTyped DEF Ops
  <2>3. toClient' \in Seq(PacketType)
    BY <1>5, <2>1, <2>2, Appended DEF ServerResend
  <2>4. QED
    BY <1>5, <2>3 DEF ServerResend, Fault
<1>6. CASE Disturb
  <2>1. toServer' \in Seq(PacketType) /\ toClient' \in Seq(PacketType)
    BY <1>6, DisturbedIsOld DEF Disturb
  <2>2. QED
    BY <1>6, <2>1 DEF Disturb, Fault
<1>7. CASE Stray
  <2>1. toClient' \in Seq(PacketType)
    BY <1>7, StraysTyped, Appended DEF Stray
  <2>2. QED
    BY <1>7, <2>1 DEF Stray, Fault
<1>8. CASE ServerRekeys
  <2>1. ServerPacket("softReset", 0, <<>>, {}) \in PacketType
    BY <1>0, ServerPacketTyped DEF Ops
  <2>2. toClient' \in Seq(PacketType)
    BY <1>8, <2>1, Appended DEF ServerRekeys
  <2>3. QED
    BY <1>8, <2>2 DEF ServerRekeys, Fault
<1>9. QED
  BY <1>1, <1>2, <1>3, <1>4, <1>5, <1>6, <1>7, <1>8

LEMMA TypeStep == TypeOK /\ [Next]_vars => TypeOK'
<1> SUFFICES ASSUME TypeOK, [Next]_vars PROVE TypeOK'
  OBVIOUS
<1>1. CASE UNCHANGED vars
  BY <1>1 DEF vars, TypeOK
<1>2. CASE Next
  BY <1>2, ClientTypes, ServerTypes DEF Next
<1>3. QED
  BY <1>1, <1>2

LEMMA InitTyped == ASSUME Init PROVE TypeOK
<1>1. <<>> \in Seq(Nat) /\ <<>> \in Seq(PacketType)
  OBVIOUS
<1>2. QED
  BY <1>1 DEF Init, TypeOK

\* The connection, the server and the packets between them always have their
\* types: an id is a number, a payload is bytes, and nothing is acknowledged
\* that was not sent.
THEOREM TypeCorrect == Spec => []TypeOK
BY InitTyped, TypeStep, PTL DEF Spec

-----------------------------------------------------------------------------
(* What the client writes.                                                 *)

WriteInv == TypeOK /\ WrittenInOrder /\ PiecesFit /\ OwnIsSent

\* Packets under way and held are packets.
LEMMA WrittenTyped ==
  ASSUME TypeOK
  PROVE  /\ \A p \in ToSet(toServer) : p \in PacketType
         /\ \A p \in ToSet(toClient) : p \in PacketType
         /\ \A p \in Written : p \in PacketType /\ p.id \in Nat /\ p.data \in Seq(Nat)
<1>1. \A p \in ToSet(toServer) : p \in PacketType
  BY DEF TypeOK, ToSet
<1>2. \A p \in ToSet(toClient) : p \in PacketType
  BY DEF TypeOK, ToSet
<1>3. \A p \in Written : p \in PacketType
  BY <1>1 DEF TypeOK, Written
<1>4. QED
  BY <1>1, <1>2, <1>3 DEF PacketType

\* A step that writes nothing and takes nothing may lose packets of Write,
\* move them or double them.
LEMMA WriteFrame ==
  ASSUME WriteInv, Written' \subseteq Written,
         UNCHANGED <<nextID, wrote, expect, sGot, server>>,
         conn' \in {conn, "failed", "closed"} \/ (conn = "new" /\ conn' = "reset")
  PROVE  WrittenInOrder' /\ PiecesFit'
BY DEF WriteInv, WrittenInOrder, PiecesFit, PieceOf, Start, End

\* The packets of Write are unchanged when an ack or a reset follows them.
LEMMA NotWritten ==
  ASSUME TypeOK, NEW x \in PacketType, x.op # "control",
         toServer' = Append(toServer, x), UNCHANGED held
  PROVE  Written' = Written
<1>1. ToSet(toServer') = ToSet(toServer) \cup {x}
  BY Appended DEF TypeOK
<1>2. QED
  BY <1>1 DEF Written

\* The steps of a dial.
LEMMA DialWrites ==
  ASSUME WriteInv, TypeOK', DialReset \/ DialReply \/ DialTimeout
  PROVE  WrittenInOrder' /\ PiecesFit'
<1>1. CASE DialReset
  <2> DEFINE x == Packet("hardResetClient", LocalSID, {}, NoSID, 0, <<>>)
  <2>1. x \in PacketType
    <3>1. <<>> \in Seq(Nat) /\ {} \in SUBSET Nat
      OBVIOUS
    <3>2. QED
      BY <3>1, PacketTyped DEF Ops
  <2>2. x.op # "control"
    BY DEF Packet
  <2>3. Written' = Written
    <3> HIDE DEF x
    <3>1. toServer' = Append(toServer, x)
      BY <1>1 DEF DialReset, x
    <3>2. QED
      BY <1>1, <2>1, <2>2, <3>1, NotWritten DEF DialReset, WriteInv
  <2>4. QED
    BY <1>1, <2>3, WriteFrame DEF DialReset
<1>2. CASE DialReply
  <2> DEFINE resp == Head(toClient)
             x == Packet("ack", LocalSID, {resp.id}, resp.sid, 0, <<>>)
  <2>1. resp \in PacketType /\ resp \in ToSet(toClient)
    BY <1>2, Taken DEF DialReply, WriteInv, TypeOK
  <2>2. CASE resp.op = "hardResetServer" /\ resp.remote = LocalSID
    <3>1. server = "open" /\ nextID = 0 /\ wrote = 0
      BY <1>2, <2>1, <2>2 DEF DialReply, WriteInv, OwnIsSent, PiecesFit
    <3>2. Written = {}
      <4>1. \A p \in Written : p.id \in Nat
        BY WrittenTyped DEF WriteInv
      <4>2. QED
        BY <3>1, <4>1 DEF WriteInv, PiecesFit, PieceOf
    <3>3. x \in PacketType
      <4>1. resp.sid \in {LocalSID, ServerSID, OtherSID} /\ {resp.id} \in SUBSET Nat
        BY <2>1 DEF PacketType
      <4>2. <<>> \in Seq(Nat)
        OBVIOUS
      <4>3. QED
        BY <4>1, <4>2, PacketTyped DEF Ops
    <3>4. x.op # "control"
      BY DEF Packet
    <3>5. toServer' = Append(toServer, x)
      BY <1>2, <2>2 DEF DialReply
    <3> HIDE DEF x
    <3>6. Written' = {}
      BY <1>2, <3>2, <3>3, <3>4, <3>5, NotWritten DEF DialReply, WriteInv
    <3>7. /\ nextID' = 1 /\ wrote' = 0 /\ server' = "open" /\ conn' = "open"
          /\ sGot' = sGot /\ expect' = expect
      BY <1>2, <2>2, <3>1 DEF DialReply
    <3>8. Len(sGot) = 0
      <4>1. sGot \in Seq(Nat)
        BY DEF WriteInv, TypeOK
      <4>2. Len(sGot) <= 0
        BY <3>1 DEF WriteInv, WrittenInOrder
      <4>3. QED
        BY <4>1, <4>2
    <3>9. expect <= 1
      BY <3>1 DEF WriteInv, TypeOK, PiecesFit
    <3>10. QED
      BY <3>6, <3>7, <3>8, <3>9 DEF WriteInv, WrittenInOrder, PiecesFit
  <2>3. CASE ~(resp.op = "hardResetServer" /\ resp.remote = LocalSID)
    <3>1. conn' = "closed" /\ UNCHANGED <<nextID, toServer, held>>
      BY <1>2, <2>3 DEF DialReply
    <3>2. Written' = Written
      BY <3>1 DEF Written
    <3>3. QED
      BY <1>2, <3>1, <3>2, WriteFrame DEF DialReply
  <2>4. QED
    BY <2>2, <2>3
<1>3. CASE DialTimeout
  <2>1. Written' = Written
    BY <1>3 DEF DialTimeout, Written
  <2>2. QED
    BY <1>3, <2>1, WriteFrame DEF DialTimeout
<1>4. QED
  BY <1>1, <1>2, <1>3

\* A packet of Write has the next id and the next bytes.
LEMMA ChunkWrites ==
  ASSUME WriteInv, TypeOK', WriteChunk
  PROVE  WrittenInOrder' /\ PiecesFit'
<1> DEFINE n == Least(asked - wrote, MaxPayload)
<1>0. PICK x : x = Packet("control", LocalSID, {}, NoSID, nextID, Bytes(wrote, n))
  OBVIOUS
<1>1. n \in Nat \ {0} /\ wrote \in Nat /\ wrote' = wrote + n
  <2>1. wrote' = wrote + n /\ wrote < asked
    BY DEF WriteChunk
  <2>2. n \in 1 .. asked - wrote /\ wrote \in Nat /\ asked \in Nat
    BY <2>1, ChunkSize DEF WriteInv
  <2> HIDE DEF n
  <2>3. QED
    BY <2>1, <2>2
<1>2. toServer' = Append(toServer, x) /\ x.op = "control" /\ x.id = nextID
      /\ x.data = Bytes(wrote, n)
  BY <1>0 DEF WriteChunk, Packet
<1> HIDE DEF n
<1>3. Bytes(wrote, n) \in Seq(Nat) /\ Len(Bytes(wrote, n)) = n
      /\ 1 \in 1 .. n /\ Bytes(wrote, n)[1] = wrote + 1 /\ Bytes(wrote, n) # <<>>
  <2>1. n \in Nat /\ 1 \in 1 .. n
    BY <1>1
  <2>2. /\ Bytes(wrote, n) \in Seq(Nat) /\ Len(Bytes(wrote, n)) = n
        /\ \A i \in 1 .. n : Bytes(wrote, n)[i] = wrote + i
    BY <1>1, BytesSeq
  <2>3. QED
    BY <1>1, <2>1, <2>2
<1>4. x \in PacketType
  <2>1. {} \in SUBSET Nat /\ nextID \in Nat
    BY DEF WriteInv, TypeOK
  <2>2. QED
    BY <1>0, <1>3, <2>1, PacketTyped DEF Ops
<1>5. Written' = Written \cup {x}
  <2>1. ToSet(toServer') = ToSet(toServer) \cup {x}
    <3>1. toServer \in Seq(PacketType)
      BY DEF WriteInv, TypeOK
    <3>2. QED
      BY <1>2, <1>4, <3>1, Appended
  <2>2. held' = held
    BY DEF WriteChunk
  <2>3. QED
    BY <1>2, <2>1, <2>2 DEF Written
<1>6. Start(x) = wrote /\ End(x) = wrote'
  BY <1>1, <1>2, <1>3 DEF Start, End
<1>7. /\ nextID' = nextID + 1 /\ nextID \in Nat /\ nextID > 0 /\ conn' = "open"
      /\ UNCHANGED <<expect, sGot, server>>
  BY DEF WriteChunk, WriteInv, PiecesFit, TypeOK
<1>8. \A p \in Written : p.id \in Nat /\ p.id < nextID
  BY WrittenTyped DEF WriteInv, PiecesFit, PieceOf
<1>9. \A p \in Written : PieceOf(p)'
  <2> SUFFICES ASSUME NEW p \in Written PROVE PieceOf(p)'
    OBVIOUS
  <2>1. PieceOf(p) /\ p.data \in Seq(Nat)
    BY WrittenTyped DEF WriteInv, PiecesFit
  <2>2. End(p) \in Int
    BY <2>1 DEF PieceOf, Start, End
  <2>3. p.id < nextID' /\ End(p) <= wrote'
    <3>1. p.id \in Nat /\ p.id < nextID /\ End(p) <= wrote
      BY <1>8, <2>1 DEF PieceOf
    <3>2. QED
      BY <1>1, <1>7, <2>2, <3>1
  <2>4. PieceOf(p)' <=> /\ p.id < nextID' /\ p.data # <<>>
                        /\ p.data = Bytes(Start(p), Len(p.data))
                        /\ Start(p) \in Nat /\ End(p) <= wrote'
    BY DEF PieceOf, Start, End
  <2>5. QED
    BY <2>1, <2>3, <2>4 DEF PieceOf
<1>10. PieceOf(x)'
  <2>1. Len(x.data) = n /\ x.data # <<>> /\ Start(x) = wrote /\ End(x) = wrote'
    BY <1>2, <1>3, <1>6
  <2>2. x.data = Bytes(Start(x), Len(x.data)) /\ x.id < nextID + 1
    BY <1>2, <1>7, <2>1
  <2>3. QED
    BY <1>1, <1>7, <2>1, <2>2 DEF PieceOf, Start, End
<1>11. expect = nextID => Len(sGot) = wrote
  BY DEF WriteInv, PiecesFit
<1>12. \A p \in Written : p.id + 1 = nextID => End(p) = wrote
  BY DEF WriteInv, PiecesFit
<1>13. \A p \in Written' :
          /\ PieceOf(p)'
          /\ p.id + 1 = nextID' => End(p) = wrote'
          /\ p.id = expect => Start(p) = Len(sGot)
  <2>1. \A p \in Written : p.id + 1 # nextID' /\ (p.id = expect => Start(p) = Len(sGot))
    BY <1>7, <1>8 DEF WriteInv, PiecesFit
  <2>2. x.id + 1 = nextID' => End(x) = wrote'
    BY <1>6
  <2>3. x.id = expect => Start(x) = Len(sGot)
    BY <1>2, <1>6, <1>11
  <2>4. QED
    BY <1>5, <1>9, <1>10, <2>1, <2>2, <2>3
<1>14. \A p, q \in Written' : p.id + 1 = q.id => End(p) = Start(q)
  <2>1. \A p, q \in Written : p.id + 1 = q.id => End(p) = Start(q)
    BY DEF WriteInv, PiecesFit
  <2>2. \A q \in Written' : q.id <= nextID
    BY <1>2, <1>5, <1>7, <1>8
  <2>3. QED
    BY <1>2, <1>5, <1>6, <1>7, <1>8, <1>12, <2>1, <2>2
<1>15. (expect <= 1 \/ expect <= nextID)' /\ expect' # nextID'
  BY <1>7 DEF WriteInv, PiecesFit, TypeOK
<1>16. WrittenInOrder'
  BY <1>1, <1>7 DEF WriteInv, WrittenInOrder, TypeOK
<1>17. QED
  BY <1>7, <1>13, <1>14, <1>15, <1>16 DEF WriteInv, PiecesFit, Start, End

\* The server takes the packet whose id it expects: its piece is the one that
\* goes on where the server stopped.
LEMMA ReadWrites ==
  ASSUME WriteInv, TypeOK', ServerRead
  PROVE  WrittenInOrder' /\ PiecesFit'
<1>1. PICK pkt \in held : /\ pkt.id = expect /\ sGot' = sGot \o pkt.data
                          /\ held' = held \ {pkt}
  BY DEF ServerRead
<1>2. pkt \in Written /\ Written' \subseteq Written
  BY <1>1 DEF Written, ServerRead
<1>3. /\ expect' = expect + 1 /\ expect \in Nat
      /\ UNCHANGED <<nextID, wrote, conn, server>>
  BY DEF ServerRead, WriteInv, TypeOK
<1>4. /\ PieceOf(pkt) /\ Start(pkt) = Len(sGot) /\ pkt.data \in Seq(Nat)
      /\ pkt.id + 1 = nextID => End(pkt) = wrote
  BY <1>1, <1>2, WrittenTyped DEF WriteInv, PiecesFit
<1>5. Len(pkt.data) \in Nat /\ Len(sGot) \in Nat /\ wrote \in Nat
  <2>1. sGot \in Seq(Nat) /\ wrote \in 0 .. asked /\ asked \in 0 .. ClientBytes
    BY DEF WriteInv, TypeOK
  <2>2. wrote \in Nat
    BY <2>1
  <2>3. Len(pkt.data) \in Nat /\ Len(sGot) \in Nat
    BY <1>4, <2>1, LenProperties
  <2>4. QED
    BY <2>2, <2>3
<1>6. sGot' = Bytes(0, End(pkt)) /\ Len(sGot') = End(pkt)
  <2>1. sGot = Bytes(0, Len(sGot)) /\ pkt.data = Bytes(0 + Len(sGot), Len(pkt.data))
    BY <1>4, <1>5 DEF WriteInv, WrittenInOrder, PieceOf
  <2>2. sGot' = Bytes(0, Len(sGot) + Len(pkt.data))
    <3>1. \A a, b \in Nat : Bytes(0, a) \o Bytes(0 + a, b) = Bytes(0, a + b)
      BY BytesJoin
    <3>2. QED
      BY <1>1, <1>5, <2>1, <3>1, Zenon
  <2>3. End(pkt) = Len(sGot) + Len(pkt.data) /\ End(pkt) \in Nat
    BY <1>4, <1>5 DEF End
  <2>4. QED
    BY <2>2, <2>3, BytesSeq
<1>7. WrittenInOrder'
  BY <1>3, <1>4, <1>6 DEF WrittenInOrder, PieceOf
<1>8. \A p \in Written' : p.id = expect' => Start(p) = Len(sGot')
  BY <1>1, <1>2, <1>3, <1>6 DEF WriteInv, PiecesFit
<1>9. expect' = nextID' => Len(sGot') = wrote'
  BY <1>1, <1>3, <1>4, <1>6
<1>10. expect' <= nextID'
  BY <1>1, <1>3, <1>4 DEF PieceOf, WriteInv, TypeOK
<1>11. QED
  BY <1>2, <1>3, <1>7, <1>8, <1>9, <1>10
     DEF WriteInv, PiecesFit, PieceOf, Start, End

\* The other steps of the server.
LEMMA ServerWrites ==
  ASSUME WriteInv, TypeOK', ServerReset \/ ServerSend \/ ServerTake
  PROVE  WrittenInOrder' /\ PiecesFit'
<1>0. toServer \in Seq(PacketType)
  BY DEF WriteInv, TypeOK
<1>1. CASE ServerReset
  <2>1. nextID = 0 /\ wrote = 0
    BY <1>1 DEF ServerReset, WriteInv, PiecesFit
  <2>2. Written = {}
    BY <2>1, WrittenTyped DEF WriteInv, PiecesFit, PieceOf
  <2>3. ToSet(toServer') \subseteq ToSet(toServer) /\ held' = held
    BY <1>0, <1>1, Taken DEF ServerReset
  <2>4. Written' = {}
    BY <2>2, <2>3 DEF Written
  <2>5. QED
    BY <1>1, <2>1, <2>4 DEF ServerReset, WriteInv, WrittenInOrder, PiecesFit
<1>2. CASE ServerSend
  <2>1. Written' = Written
    BY <1>2 DEF ServerSend, Written
  <2>2. QED
    BY <1>2, <2>1, WriteFrame DEF ServerSend
<1>3. CASE ServerTake
  <2>1. Head(toServer) \in ToSet(toServer) /\ ToSet(toServer') \subseteq ToSet(toServer)
    BY <1>0, <1>3, Taken DEF ServerTake
  <2>2. held' \subseteq held \cup {Head(toServer)}
    BY <1>3 DEF ServerTake
  <2>3. Head(toServer).op # "control" => held' = held
    BY <1>3 DEF ServerTake
  <2>4. Written' \subseteq Written
    BY <2>1, <2>2, <2>3 DEF Written
  <2>5. QED
    BY <1>3, <2>4, WriteFrame DEF ServerTake
<1>4. QED
  BY <1>1, <1>2, <1>3

\* Reading, giving up and the network.
LEMMA OtherWrites ==
  ASSUME WriteInv, TypeOK',
         \/ ReceiveControl \/ ReceiveOther \/ ReceiveSoftReset
         \/ ReadTimeout \/ SocketFails \/ Close
         \/ \E n \in WriteSizes : Write(n)
         \/ \E n \in ReadSizes : Read(n)
         \/ \E id \in 0 .. Len(Ends) : ServerResend(id)
         \/ Disturb \/ Stray \/ ServerRekeys
  PROVE  WrittenInOrder' /\ PiecesFit'
<1>1. CASE ReceiveControl
  <2> DEFINE pkt == Head(toClient)
  <2>1. pkt \in PacketType
    BY <1>1, Taken DEF ReceiveControl, Arrives, WriteInv, TypeOK
  <2>2. Ack(pkt.id) \in PacketType /\ Ack(pkt.id).op # "control"
    <3>1. {pkt.id} \in SUBSET Nat /\ <<>> \in Seq(Nat)
      BY <2>1 DEF PacketType
    <3>2. remoteSID \in {LocalSID, ServerSID, OtherSID, NoSID}
      BY DEF WriteInv, TypeOK
    <3>3. Ack(pkt.id) \in PacketType
      BY <3>1, <3>2, PacketTyped DEF Ack, Ops
    <3>4. QED
      BY <3>3 DEF Ack, Packet
  <2>3. toServer' = toServer \/ toServer' = Append(toServer, Ack(pkt.id))
    BY <1>1 DEF ReceiveControl
  <2>4. held' = held
    BY <1>1 DEF ReceiveControl
  <2>5. Written' = Written
    <3>1. CASE toServer' = toServer
      BY <2>4, <3>1 DEF Written
    <3>2. CASE toServer' = Append(toServer, Ack(pkt.id))
      BY <2>2, <2>4, <3>2, NotWritten DEF WriteInv
    <3>3. QED
      BY <2>3, <3>1, <3>2
  <2>6. QED
    BY <1>1, <2>5, WriteFrame DEF ReceiveControl
<1>2. CASE ReceiveOther \/ ReceiveSoftReset \/ ReadTimeout \/ SocketFails \/ Close
  <2>1. Written' = Written
    BY <1>2 DEF ReceiveOther, ReceiveSoftReset, ReadTimeout, SocketFails, Close, Written
  <2>2. QED
    BY <1>2, <2>1, WriteFrame
       DEF ReceiveOther, ReceiveSoftReset, ReadTimeout, SocketFails, Close
<1>3. ASSUME NEW n \in WriteSizes, Write(n) PROVE WrittenInOrder' /\ PiecesFit'
  <2>1. Written' = Written
    BY <1>3 DEF Write, Written
  <2>2. QED
    BY <1>3, <2>1, WriteFrame DEF Write
<1>4. ASSUME NEW n \in ReadSizes, Read(n) PROVE WrittenInOrder' /\ PiecesFit'
  <2>1. Written' = Written
    BY <1>4 DEF Read, Written
  <2>2. QED
    BY <1>4, <2>1, WriteFrame DEF Read
<1>5. CASE (\E id \in 0 .. Len(Ends) : ServerResend(id)) \/ Stray \/ ServerRekeys
  <2>1. Written' = Written /\ UNCHANGED <<nextID, wrote, expect, sGot, conn, server>>
    BY <1>5 DEF ServerResend, Stray, ServerRekeys, Fault, Written
  <2>2. QED
    BY <2>1, WriteFrame
<1>6. CASE Disturb
  <2>1. toServer \in Seq(PacketType)
    BY DEF WriteInv, TypeOK
  <2>2. ToSet(toServer') \subseteq ToSet(toServer)
    BY <1>6, <2>1, DisturbedIsOld DEF Disturb
  <2>3. Written' \subseteq Written /\ UNCHANGED <<nextID, wrote, expect, sGot, conn, server>>
    BY <1>6, <2>2 DEF Disturb, Fault, Written
  <2>4. QED
    BY <2>3, WriteFrame
<1>7. QED
  BY <1>1, <1>2, <1>3, <1>4, <1>5, <1>6

-----------------------------------------------------------------------------
(* What the server sent.                                                   *)

Genuine(pkt) ==
    /\ Own(pkt) => pkt.id \in 1 .. sNext - 1 /\ pkt.data = ServerData(pkt.id)
    /\ pkt.op = "hardResetServer" => pkt.sid = ServerSID /\ pkt.id = 0 /\ server = "open"

\* A step that adds at most a genuine packet keeps the queue genuine.
LEMMA OwnFrame ==
  ASSUME TypeOK, TypeOK', OwnIsSent, sNext <= sNext', server' \in {server, "open"},
         \A pkt \in ToSet(toClient)' : pkt \in ToSet(toClient) \/ Genuine(pkt)',
         conn' = "open" => remoteSID' = ServerSID
  PROVE  OwnIsSent'
<1>1. sNext \in Nat /\ sNext' \in Nat
  BY DEF TypeOK
<1>2. \A pkt \in ToSet(toClient) : Genuine(pkt)'
  BY <1>1 DEF OwnIsSent, Genuine, Own, ServerData, Before
<1>3. QED
  BY <1>2 DEF OwnIsSent, Genuine, Own, ServerData, Before

\* What was added to a queue.
LEMMA AddedToClient ==
  ASSUME TypeOK, NEW x \in PacketType, toClient' = Append(toClient, x)
  PROVE  \A pkt \in ToSet(toClient)' : pkt \in ToSet(toClient) \/ pkt = x
<1>1. toClient \in Seq(PacketType)
  BY DEF TypeOK
<1>2. ToSet(Append(toClient, x)) = ToSet(toClient) \cup {x}
  BY <1>1, Appended
<1>3. QED
  BY <1>2 DEF ToSet

\* What was taken from it.
LEMMA TakenFromClient ==
  ASSUME TypeOK, toClient # <<>>, toClient' \in {<<>>, Tail(toClient)}
  PROVE  /\ \A pkt \in ToSet(toClient)' : pkt \in ToSet(toClient)
         /\ Head(toClient) \in ToSet(toClient) /\ Head(toClient) \in PacketType
<1>1. toClient \in Seq(PacketType)
  BY DEF TypeOK
<1>2. ToSet(Tail(toClient)) \subseteq ToSet(toClient) /\ ToSet(<<>>) = {}
      /\ Head(toClient) \in ToSet(toClient) /\ Head(toClient) \in PacketType
  BY <1>1, Taken DEF ToSet
<1>3. QED
  BY <1>2 DEF ToSet

\* The client's steps make no packet for the client.
LEMMA ClientOwn ==
  ASSUME TypeOK, TypeOK', OwnIsSent,
         \/ DialReset \/ DialReply \/ DialTimeout \/ WriteChunk
         \/ ReceiveControl \/ ReceiveOther \/ ReceiveSoftReset
         \/ ReadTimeout \/ SocketFails \/ Close
         \/ \E n \in WriteSizes : Write(n)
         \/ \E n \in ReadSizes : Read(n)
  PROVE  OwnIsSent'
<1>1. CASE DialReply
  <2>1. /\ \A pkt \in ToSet(toClient)' : pkt \in ToSet(toClient)
        /\ Head(toClient) \in ToSet(toClient)
    BY <1>1, TakenFromClient DEF DialReply
  <2>2. conn' = "open" => remoteSID' = ServerSID
    BY <1>1, <2>1 DEF DialReply, OwnIsSent
  <2>3. sNext' = sNext /\ server' = server /\ sNext \in Nat
    BY <1>1 DEF DialReply, TypeOK
  <2>4. QED
    BY <2>1, <2>2, <2>3, OwnFrame
<1>2. CASE ReceiveControl \/ ReceiveOther \/ ReceiveSoftReset
  <2>1. toClient # <<>> /\ toClient' = Tail(toClient)
    BY <1>2 DEF ReceiveControl, ReceiveOther, ReceiveSoftReset, Arrives
  <2>2. \A pkt \in ToSet(toClient)' : pkt \in ToSet(toClient)
    BY <2>1, TakenFromClient
  <2>3. /\ sNext' = sNext /\ server' = server /\ sNext \in Nat
        /\ remoteSID' = remoteSID /\ conn = "open"
    <3>1. sNext \in Nat
      BY DEF TypeOK
    <3>2. QED
      BY <1>2, <3>1 DEF ReceiveControl, ReceiveOther, ReceiveSoftReset, Arrives
  <2>4. QED
    BY <2>2, <2>3, OwnFrame DEF OwnIsSent
<1>3. CASE \/ DialReset \/ DialTimeout \/ WriteChunk \/ ReadTimeout \/ SocketFails \/ Close
           \/ \E n \in WriteSizes : Write(n)
           \/ \E n \in ReadSizes : Read(n)
  <2>1. /\ toClient' \in {<<>>, toClient} /\ sNext' = sNext /\ server' = server
        /\ sNext \in Nat /\ (conn' = "open" => conn = "open") /\ remoteSID' = remoteSID
    <3>1. sNext \in Nat
      BY DEF TypeOK
    <3>2. CASE DialReset \/ DialTimeout \/ ReadTimeout \/ SocketFails \/ Close
      BY <3>1, <3>2 DEF DialReset, DialTimeout, ReadTimeout, SocketFails, Close
    <3>3. CASE WriteChunk \/ (\E n \in WriteSizes : Write(n)) \/ (\E n \in ReadSizes : Read(n))
      BY <3>1, <3>3 DEF WriteChunk, Write, Read
    <3>4. QED
      BY <1>3, <3>2, <3>3
  <2>2. \A pkt \in ToSet(toClient)' : pkt \in ToSet(toClient)
    BY <2>1 DEF ToSet
  <2>3. QED
    BY <2>1, <2>2, OwnFrame DEF OwnIsSent
<1>4. QED
  BY <1>1, <1>2, <1>3

\* A packet the server makes has its parts.
LEMMA ServerPacketParts ==
  ASSUME NEW op, NEW id, NEW data, NEW acks
  PROVE  LET x == ServerPacket(op, id, data, acks)
         IN  /\ x.op = op /\ x.id = id /\ x.data = data /\ x.sid = ServerSID
             /\ x.remote \in {NoSID, LocalSID} /\ x.acks = acks
BY DEF ServerPacket, Packet

LEMMA StrayParts ==
  ASSUME NEW x \in Strays
  PROVE  ~Own(x) /\ x.op # "hardResetServer"
BY DEF Strays, Packet, Own

\* What the server and the network put into the queue is genuine.
LEMMA ServerOwn ==
  ASSUME TypeOK, TypeOK', OwnIsSent,
         \/ ServerReset \/ ServerSend \/ ServerTake \/ ServerRead
         \/ \E id \in 0 .. Len(Ends) : ServerResend(id)
         \/ Disturb \/ Stray \/ ServerRekeys
  PROVE  OwnIsSent'
<1>0. /\ <<>> \in Seq(Nat) /\ {} \in SUBSET Nat /\ {0} \in SUBSET Nat /\ {1} \in SUBSET Nat
      /\ toClient \in Seq(PacketType) /\ sNext \in Nat
  BY DEF TypeOK
<1>1. CASE ServerReset
  <2>1. PICK x : x = ServerPacket("hardResetServer", 0, <<>>, {0})
    OBVIOUS
  <2>2. x \in PacketType
    BY <1>0, <2>1, ServerPacketTyped DEF Ops
  <2>3. x.op = "hardResetServer" /\ x.id = 0 /\ x.sid = ServerSID
    BY <2>1, ServerPacketParts
  <2>4. /\ toClient' = Append(toClient, x) /\ sNext' = 1 /\ sNext = 0 /\ server' = "open"
        /\ UNCHANGED <<conn, remoteSID>>
    BY <1>1, <2>1 DEF ServerReset, TypeOK
  <2>5. Genuine(x)'
    BY <2>3, <2>4 DEF Genuine, Own
  <2>6. QED
    BY <2>2, <2>4, <2>5, AddedToClient, OwnFrame DEF OwnIsSent
<1>2. CASE ServerSend
  <2>1. PICK x : x = ServerPacket("control", sNext, ServerData(sNext), {1})
    OBVIOUS
  <2>2. sNext \in 1 .. Len(Ends)
    BY <1>2 DEF ServerSend, TypeOK
  <2>3. x \in PacketType
    BY <1>0, <2>1, <2>2, Cuts, ServerPacketTyped DEF Ops
  <2>4. x.op = "control" /\ x.id = sNext /\ x.data = ServerData(sNext)
    BY <2>1, ServerPacketParts
  <2>5. /\ toClient' = Append(toClient, x) /\ sNext' = sNext + 1 /\ server' = server
        /\ UNCHANGED <<conn, remoteSID>>
    BY <1>2, <2>1 DEF ServerSend
  <2>6. Genuine(x)'
    BY <2>2, <2>4, <2>5 DEF Genuine, Own, ServerData, Before
  <2>7. QED
    BY <2>2, <2>3, <2>5, <2>6, AddedToClient, OwnFrame DEF OwnIsSent
<1>3. CASE ServerTake
  <2>1. PICK x : x = ServerPacket("ack", 0, <<>>, {Head(toServer).id})
    OBVIOUS
  <2>2. x \in PacketType
    <3>1. Head(toServer) \in PacketType
      BY <1>3, Taken DEF ServerTake, TypeOK
    <3>2. {Head(toServer).id} \in SUBSET Nat
      BY <3>1 DEF PacketType
    <3>3. QED
      BY <1>0, <2>1, <3>2, ServerPacketTyped DEF Ops
  <2>3. Genuine(x)'
    BY <2>1, ServerPacketParts DEF Genuine, Own
  <2>4. /\ toClient' \in {toClient, Append(toClient, x)} /\ sNext' = sNext
        /\ server' = server /\ UNCHANGED <<conn, remoteSID>>
    BY <1>3, <2>1 DEF ServerTake
  <2>5. \A pkt \in ToSet(toClient)' : pkt \in ToSet(toClient) \/ pkt = x
    <3>1. CASE toClient' = toClient
      BY <3>1 DEF ToSet
    <3>2. CASE toClient' = Append(toClient, x)
      BY <2>2, <3>2, AddedToClient
    <3>3. QED
      BY <2>4, <3>1, <3>2
  <2>6. QED
    BY <1>0, <2>3, <2>4, <2>5, OwnFrame DEF OwnIsSent
<1>4. CASE ServerRead
  BY <1>4 DEF ServerRead, OwnIsSent, Own, ServerData, Before, ToSet
<1>5. ASSUME NEW id \in 0 .. Len(Ends), ServerResend(id) PROVE OwnIsSent'
  <2>1. PICK x : x = IF id = 0 THEN ServerPacket("hardResetServer", 0, <<>>, {0})
                               ELSE ServerPacket("control", id, ServerData(id), {})
    OBVIOUS
  <2>2. x \in PacketType
    <3>1. CASE id = 0
      BY <1>0, <2>1, <3>1, ServerPacketTyped DEF Ops
    <3>2. CASE id # 0
      BY <1>0, <2>1, <3>2, Cuts, ServerPacketTyped DEF Ops
    <3>3. QED
      BY <3>1, <3>2
  <2>3. /\ toClient' = Append(toClient, x)
        /\ UNCHANGED <<sNext, server, conn, remoteSID>> /\ id \in unacked
    BY <1>5, <2>1 DEF ServerResend, Fault
  <2>4. id \in 0 .. sNext - 1 /\ server = "open"
    BY <2>3 DEF TypeOK
  <2>5. Genuine(x)'
    <3>1. CASE id = 0
      BY <2>1, <2>3, <2>4, <3>1, ServerPacketParts DEF Genuine, Own
    <3>2. CASE id # 0
      <4>1. x.op = "control" /\ x.id = id /\ x.data = ServerData(id)
        BY <2>1, <3>2, ServerPacketParts
      <4>2. QED
        BY <2>3, <2>4, <3>2, <4>1 DEF Genuine, Own, ServerData, Before
    <3>3. QED
      BY <3>1, <3>2
  <2>6. QED
    BY <1>0, <2>2, <2>3, <2>5, AddedToClient, OwnFrame DEF OwnIsSent
<1>6. CASE Disturb
  <2>1. \A pkt \in ToSet(toClient)' : pkt \in ToSet(toClient)
    <3>1. ToSet(toClient') \subseteq ToSet(toClient)
      BY <1>0, <1>6, DisturbedIsOld DEF Disturb
    <3>2. QED
      BY <3>1 DEF ToSet
  <2>2. UNCHANGED <<sNext, server, conn, remoteSID>>
    BY <1>6 DEF Disturb, Fault
  <2>3. QED
    BY <1>0, <2>1, <2>2, OwnFrame DEF OwnIsSent
<1>7. CASE Stray
  <2>1. PICK x \in Strays : toClient' = Append(toClient, x)
    BY <1>7 DEF Stray
  <2>2. x \in PacketType /\ Genuine(x)'
    BY <2>1, StraysTyped, StrayParts DEF Genuine, Own
  <2>3. UNCHANGED <<sNext, server, conn, remoteSID>>
    BY <1>7 DEF Stray, Fault
  <2>4. QED
    BY <1>0, <2>1, <2>2, <2>3, AddedToClient, OwnFrame DEF OwnIsSent
<1>8. CASE ServerRekeys
  <2>1. PICK x : x = ServerPacket("softReset", 0, <<>>, {})
    OBVIOUS
  <2>2. x \in PacketType
    BY <1>0, <2>1, ServerPacketTyped DEF Ops
  <2>3. Genuine(x)'
    BY <2>1, ServerPacketParts DEF Genuine, Own
  <2>4. toClient' = Append(toClient, x) /\ UNCHANGED <<sNext, server, conn, remoteSID>>
    BY <1>8, <2>1 DEF ServerRekeys, Fault
  <2>5. QED
    BY <1>0, <2>2, <2>3, <2>4, AddedToClient, OwnFrame DEF OwnIsSent
<1>9. QED
  BY <1>1, <1>2, <1>3, <1>4, <1>5, <1>6, <1>7, <1>8

-----------------------------------------------------------------------------
(* Read and the acks.                                                      *)

\* Read leaves its buffer empty when it waits.
LEMMA WaitsStep ==
  ASSUME TypeOK, TypeOK', WaitsEmpty, Next
  PROVE  WaitsEmpty'
<1> USE DEF WaitsEmpty
<1>1. CASE DialReset \/ DialReply \/ DialTimeout \/ WriteChunk
  BY <1>1 DEF DialReset, DialReply, DialTimeout, WriteChunk
<1>2. CASE ReceiveControl
  BY <1>2 DEF ReceiveControl, Return, Arrives
<1>3. CASE ReceiveOther \/ ReceiveSoftReset \/ ReadTimeout \/ SocketFails \/ Close
  <2>1. CASE ReceiveOther
    BY <2>1 DEF ReceiveOther
  <2>2. CASE ReceiveSoftReset
    BY <2>2 DEF ReceiveSoftReset
  <2>3. CASE ReadTimeout \/ SocketFails \/ Close
    BY <2>3 DEF ReadTimeout, SocketFails, Close
  <2>4. QED
    BY <1>3, <2>1, <2>2, <2>3
<1>4. CASE (\E n \in WriteSizes : Write(n)) \/ (\E n \in ReadSizes : Read(n))
  BY <1>4 DEF Write, Read, Return
<1>5. CASE ServerReset \/ ServerSend \/ ServerTake \/ ServerRead
  BY <1>5 DEF ServerReset, ServerSend, ServerTake, ServerRead
<1>6. CASE (\E id \in 0 .. Len(Ends) : ServerResend(id)) \/ Disturb \/ Stray \/ ServerRekeys
  BY <1>6 DEF ServerResend, Disturb, Stray, ServerRekeys, Fault
<1>7. QED
  BY <1>1, <1>2, <1>3, <1>4, <1>5, <1>6 DEF Next

\* The stream that Read returns only grows, by what a packet carries.
LEMMA StreamStep ==
  ASSUME TypeOK, WaitsEmpty, Next
  PROVE  \/ UNCHANGED Stream
         \/ /\ ReceiveControl /\ Mine(Head(toClient)) /\ readBuf = <<>>
            /\ Stream' = Stream \o Head(toClient).data
<1>0. got \in Seq(Nat) /\ readBuf \in Seq(Nat)
  BY DEF TypeOK
<1>1. CASE UNCHANGED <<got, readBuf>>
  BY <1>1 DEF Stream
<1>2. ASSUME NEW n \in ReadSizes, Read(n) PROVE UNCHANGED Stream
  <2>1. CASE readBuf # <<>>
    <3>1. Return(n, readBuf) /\ n \in Nat \ {0}
      BY <1>2, <2>1 DEF Read
    <3>2. got' \o readBuf' = got \o readBuf
      BY <1>0, <3>1, ReturnKeeps
    <3>3. QED
      BY <3>2 DEF Stream
  <2>2. CASE readBuf = <<>>
    BY <1>2, <2>2 DEF Read, Stream
  <2>3. QED
    BY <2>1, <2>2
<1>3. CASE ReceiveControl
  <2> DEFINE pkt == Head(toClient)
  <2>1. /\ pkt \in PacketType /\ reader \in Nat \ {0} /\ readBuf = <<>>
    BY <1>3, Taken DEF ReceiveControl, Arrives, TypeOK, WaitsEmpty
  <2>2. pkt.data \in Seq(Nat)
    BY <2>1 DEF PacketType
  <2>3. CASE ~Mine(pkt)
    BY <1>3, <2>3 DEF ReceiveControl, Stream
  <2>4. CASE Mine(pkt) /\ pkt.data = <<>>
    BY <1>3, <2>4 DEF ReceiveControl, Stream
  <2>5. CASE Mine(pkt) /\ pkt.data # <<>>
    <3>1. Return(reader, pkt.data)
      BY <1>3, <2>5 DEF ReceiveControl
    <3>2. got' \o readBuf' = got \o pkt.data
      BY <1>0, <2>1, <2>2, <3>1, ReturnKeeps
    <3>3. Stream = got
      BY <1>0, <2>1, ConcatEmptySeq DEF Stream
    <3>4. QED
      BY <1>3, <2>1, <2>5, <3>2, <3>3 DEF Stream
  <2>6. QED
    BY <2>3, <2>4, <2>5
<1>4. \/ UNCHANGED <<got, readBuf>> \/ ReceiveControl \/ \E n \in ReadSizes : Read(n)
  BY DEF Next, DialReset, DialReply, DialTimeout, WriteChunk, ReceiveOther,
         ReceiveSoftReset, ReadTimeout, SocketFails, Close, Write, ServerReset,
         ServerSend, ServerTake, ServerRead, ServerResend, Disturb, Stray,
         ServerRekeys, Fault
<1>5. QED
  BY <1>1, <1>2, <1>3, <1>4

\* So what was delivered stays delivered.
LEMMA DeliveredStays ==
  ASSUME TypeOK, WaitsEmpty, Next
  PROVE  ToSet(Stream) \subseteq ToSet(Stream)'
<1>1. CASE UNCHANGED Stream
  BY <1>1 DEF ToSet
<1>2. CASE /\ ReceiveControl
           /\ Stream' = Stream \o Head(toClient).data
  <2>1. Stream \in Seq(Nat)
    BY ConcatProperties DEF TypeOK, Stream
  <2>2. Head(toClient).data \in Seq(Nat)
    <3>1. Head(toClient) \in PacketType
      BY <1>2, Taken DEF ReceiveControl, Arrives, TypeOK
    <3>2. QED
      BY <3>1 DEF PacketType
  <2>3. PICK d \in Seq(Nat) : Stream' = Stream \o d
    BY <1>2, <2>2
  <2>4. PICK t \in Seq(Nat) : t = Stream
    BY <2>1
  <2>5. /\ DOMAIN t = 1 .. Len(t) /\ Len(t) \in Nat /\ Len(d) \in Nat
        /\ DOMAIN (t \o d) = 1 .. Len(t) + Len(d)
        /\ \A i \in 1 .. Len(t) : (t \o d)[i] = t[i]
    BY <2>3, <2>4
  <2>6. ToSet(t) \subseteq ToSet(t \o d)
    BY <2>5 DEF ToSet
  <2>7. QED
    BY <2>3, <2>4, <2>6 DEF ToSet
<1>3. QED
  BY <1>1, <1>2, StreamStep

AckInv == TypeOK /\ OwnIsSent /\ WaitsEmpty /\ AcksAreTrue /\ AckedIsDelivered

Truth(id) == id = 0 \/ (id \in 1 .. sNext - 1 /\ Delivered(id))

\* The server's ids stay ids.
LEMMA IdsGrow ==
  ASSUME NEW m \in Nat, NEW n \in Nat, m <= n, NEW id \in 1 .. m - 1
  PROVE  id \in 1 .. n - 1
OBVIOUS

\* What was true of an ack stays true.
LEMMA TruthStays ==
  ASSUME TypeOK, TypeOK', WaitsEmpty, Next, sNext <= sNext', NEW id, Truth(id)
  PROVE  Truth(id)'
<1>1. ToSet(Stream) \subseteq ToSet(Stream)'
  BY DeliveredStays
<1>2. sNext \in Nat /\ sNext' \in Nat
  BY DEF TypeOK
<1>3. CASE id \in 1 .. sNext - 1 /\ Delivered(id)
  <2>1. ToSet(ServerData(id))' = ToSet(ServerData(id))
    BY DEF ServerData, Before, ToSet, Bytes
  <2>2. Delivered(id)'
    BY <1>1, <1>3, <2>1 DEF Delivered
  <2>3. id \in 1 .. sNext' - 1
    <3>1. id \in 1 .. sNext - 1
      BY <1>3
    <3>2. sNext <= sNext'
      OBVIOUS
    <3>3. QED
      BY <1>2, <3>1, <3>2, IdsGrow
  <2>4. QED
    BY <2>2, <2>3 DEF Truth
<1>4. QED
  BY <1>3 DEF Truth

\* A step that sends only true acks, and makes the server forget only what
\* such an ack names, keeps the acks true.
LEMMA AckFrame ==
  ASSUME AckInv, TypeOK', Next, sNext <= sNext',
         \A pkt \in ToSet(toServer)' :
             pkt \in ToSet(toServer) \/ \A id \in pkt.acks : Truth(id)',
         \A id \in (1 .. sNext - 1)' \ unacked' :
             (id \in 1 .. sNext - 1 /\ id \notin unacked) \/ Truth(id)'
  PROVE  AcksAreTrue' /\ AckedIsDelivered'
<1>1. \A id : Truth(id) => Truth(id)'
  BY TruthStays DEF AckInv
<1>2. AcksAreTrue'
  BY <1>1 DEF AckInv, AcksAreTrue, Truth
<1>3. \A id \in (1 .. sNext - 1)' \ unacked' : Truth(id)'
  BY <1>1 DEF AckInv, AckedIsDelivered, Truth, Delivered, Stream
<1>4. ASSUME NEW id \in (1 .. sNext - 1)' \ unacked'
      PROVE  Delivered(id)'
  <2>1. id # 0
    BY DEF TypeOK
  <2>2. QED
    BY <1>3, <1>4, <2>1 DEF Truth
<1>5. AckedIsDelivered'
  BY <1>4 DEF AckedIsDelivered, Delivered, Stream
<1>6. QED
  BY <1>2, <1>5

\* What was added to the other queue.
LEMMA AddedToServer ==
  ASSUME TypeOK, NEW x \in PacketType, toServer' = Append(toServer, x)
  PROVE  \A pkt \in ToSet(toServer)' : pkt \in ToSet(toServer) \/ pkt = x
<1>1. toServer \in Seq(PacketType)
  BY DEF TypeOK
<1>2. ToSet(Append(toServer, x)) = ToSet(toServer) \cup {x}
  BY <1>1, Appended
<1>3. QED
  BY <1>2 DEF ToSet

\* Read acknowledges what it takes.
LEMMA ControlAcks ==
  ASSUME AckInv, TypeOK', Next, ReceiveControl
  PROVE  AcksAreTrue' /\ AckedIsDelivered'
<1> DEFINE pkt == Head(toClient)
<1>1. pkt \in PacketType /\ pkt \in ToSet(toClient) /\ pkt.op = "control"
  <2>1. toClient # <<>> /\ pkt.op = "control"
    BY DEF ReceiveControl, Arrives
  <2>2. QED
    BY <2>1, Taken DEF AckInv, TypeOK
<1>2. sNext' = sNext /\ unacked' = unacked /\ conn = "open" /\ sNext \in Nat
  BY DEF ReceiveControl, Arrives, AckInv, TypeOK
<1>3. CASE ~Mine(pkt)
  <2>1. toServer' = toServer
    BY <1>3 DEF ReceiveControl
  <2>2. QED
    BY <1>2, <2>1, AckFrame DEF ToSet
<1>4. CASE Mine(pkt)
  <2>1. Own(pkt)
    BY <1>1, <1>2, <1>4 DEF AckInv, OwnIsSent, Mine, Own
  <2>2. pkt.id \in 1 .. sNext - 1 /\ pkt.data = ServerData(pkt.id)
    BY <1>1, <2>1 DEF AckInv, OwnIsSent
  <2>3. PICK id \in 1 .. sNext - 1 : id = pkt.id /\ pkt.data = ServerData(id)
    BY <2>2
  <2>4. PICK x : x = Ack(pkt.id)
    OBVIOUS
  <2>5. x \in PacketType /\ x.acks = {id}
    <3>1. {pkt.id} \in SUBSET Nat /\ <<>> \in Seq(Nat)
      BY <1>2, <2>2
    <3>2. remoteSID \in {LocalSID, ServerSID, OtherSID, NoSID}
      BY DEF AckInv, TypeOK
    <3>3. Ack(pkt.id) \in PacketType
      BY <3>1, <3>2, PacketTyped DEF Ack, Ops
    <3>4. Ack(pkt.id).acks = {pkt.id}
      BY DEF Ack, Packet
    <3>5. QED
      BY <2>3, <2>4, <3>3, <3>4
  <2>6. toServer' = Append(toServer, x)
    BY <1>4, <2>4 DEF ReceiveControl
  <2>7. Delivered(id)'
    <3>1. Stream' = Stream \o ServerData(id)
      <4>1. CASE pkt.data = <<>>
        <5>1. UNCHANGED <<got, readBuf>>
          BY <1>4, <4>1 DEF ReceiveControl
        <5>2. Stream \in Seq(Nat)
          BY ConcatProperties DEF AckInv, TypeOK, Stream
        <5>3. Stream \o <<>> = Stream
          BY <5>2, ConcatEmptySeq
        <5>4. QED
          BY <2>3, <4>1, <5>1, <5>3 DEF Stream
      <4>2. CASE pkt.data # <<>>
        <5>1. Return(reader, pkt.data) /\ reader \in Nat \ {0} /\ readBuf = <<>>
          BY <1>4, <4>2 DEF ReceiveControl, Arrives, AckInv, TypeOK, WaitsEmpty
        <5>2. got \in Seq(Nat) /\ pkt.data \in Seq(Nat)
          BY <1>1 DEF AckInv, TypeOK, PacketType
        <5>3. got' \o readBuf' = got \o pkt.data
          BY <5>1, <5>2, ReturnKeeps
        <5>4. Stream = got
          BY <5>1, <5>2, ConcatEmptySeq DEF Stream
        <5>5. QED
          BY <2>3, <5>3, <5>4 DEF Stream
      <4>3. QED
        BY <4>1, <4>2
    <3>2. PICK t \in Seq(Nat) : t = Stream
      BY ConcatProperties DEF AckInv, TypeOK, Stream
    <3>3. PICK d \in Seq(Nat) : d = ServerData(id)
      BY <1>1, <2>3 DEF PacketType
    <3>4. /\ DOMAIN d = 1 .. Len(d) /\ Len(t) \in Nat /\ Len(d) \in Nat
          /\ DOMAIN (t \o d) = 1 .. Len(t) + Len(d)
          /\ \A i \in 1 .. Len(d) : (t \o d)[Len(t) + i] = d[i]
      OBVIOUS
    <3>5. ToSet(d) \subseteq ToSet(t \o d)
      <4>1. \A i \in 1 .. Len(d) : Len(t) + i \in 1 .. Len(t) + Len(d)
        BY <3>4
      <4>2. QED
        BY <3>4, <4>1 DEF ToSet
    <3>6. ToSet(ServerData(id)) \subseteq ToSet(Stream')
      BY <3>1, <3>2, <3>3, <3>5
    <3>7. QED
      BY <3>6 DEF Delivered, ServerData, Before, Bytes, ToSet
  <2>8. Truth(id)'
    BY <1>2, <2>3, <2>7 DEF Truth
  <2>9. \A p \in ToSet(toServer)' : p \in ToSet(toServer) \/ p = x
    BY <2>5, <2>6, AddedToServer DEF AckInv
  <2>10. QED
    BY <1>2, <2>5, <2>8, <2>9, AckFrame
<1>5. QED
  BY <1>3, <1>4

\* The other steps of the client acknowledge the reset, which is packet 0, or
\* nothing.
LEMMA ClientAcks ==
  ASSUME AckInv, TypeOK', Next,
         \/ DialReset \/ DialReply \/ DialTimeout \/ WriteChunk
         \/ ReceiveOther \/ ReceiveSoftReset
         \/ ReadTimeout \/ SocketFails \/ Close
         \/ \E n \in WriteSizes : Write(n)
         \/ \E n \in ReadSizes : Read(n)
  PROVE  AcksAreTrue' /\ AckedIsDelivered'
<1>0. /\ <<>> \in Seq(Nat) /\ {} \in SUBSET Nat /\ {0} \in SUBSET Nat
      /\ toServer \in Seq(PacketType) /\ sNext \in Nat
  BY DEF AckInv, TypeOK
<1>1. CASE DialReset
  <2>1. PICK x : x = Packet("hardResetClient", LocalSID, {}, NoSID, 0, <<>>)
    OBVIOUS
  <2>2. x \in PacketType /\ x.acks = {}
    <3>1. x \in PacketType
      BY <1>0, <2>1, PacketTyped DEF Ops
    <3>2. QED
      BY <2>1, <3>1 DEF Packet
  <2>3. toServer' = Append(toServer, x) /\ UNCHANGED <<sNext, unacked>>
    BY <1>1, <2>1 DEF DialReset
  <2>4. QED
    BY <1>0, <2>2, <2>3, AddedToServer, AckFrame DEF AckInv
<1>2. CASE DialReply
  <2> DEFINE resp == Head(toClient)
  <2>1. UNCHANGED <<sNext, unacked>>
    BY <1>2 DEF DialReply
  <2>2. CASE resp.op = "hardResetServer" /\ resp.remote = LocalSID
    <3>1. resp \in ToSet(toClient)
      BY <1>2, Taken DEF DialReply, AckInv, TypeOK
    <3>2. resp.sid = ServerSID /\ resp.id = 0
      BY <2>2, <3>1 DEF AckInv, OwnIsSent
    <3>3. PICK x : x = Packet("ack", LocalSID, {0}, ServerSID, 0, <<>>)
      OBVIOUS
    <3>4. x \in PacketType /\ x.acks = {0}
      <4>1. x \in PacketType
        BY <1>0, <3>3, PacketTyped DEF Ops
      <4>2. QED
        BY <3>3, <4>1 DEF Packet
    <3>5. toServer' = Append(toServer, x)
      BY <1>2, <2>2, <3>2, <3>3 DEF DialReply
    <3>6. \A id \in x.acks : Truth(id)'
      BY <3>4 DEF Truth
    <3>7. QED
      BY <1>0, <2>1, <3>4, <3>5, <3>6, AddedToServer, AckFrame DEF AckInv
  <2>3. CASE ~(resp.op = "hardResetServer" /\ resp.remote = LocalSID)
    <3>1. toServer' = toServer
      BY <1>2, <2>3 DEF DialReply
    <3>2. QED
      BY <1>0, <2>1, <3>1, AckFrame DEF ToSet
  <2>4. QED
    BY <2>2, <2>3
<1>3. CASE WriteChunk
  <2> DEFINE n == Least(asked - wrote, MaxPayload)
  <2>1. PICK x : x = Packet("control", LocalSID, {}, NoSID, nextID, Bytes(wrote, n))
    OBVIOUS
  <2>2. n \in Nat /\ wrote \in Nat /\ nextID \in Nat
    <3>1. TypeOK /\ wrote < asked
      BY <1>3 DEF WriteChunk, AckInv
    <3>2. n \in 1 .. asked - wrote /\ wrote \in Nat /\ asked \in Nat
      BY <3>1, ChunkSize
    <3>3. nextID \in Nat
      BY <3>1 DEF TypeOK
    <3> HIDE DEF n
    <3>4. QED
      BY <3>2, <3>3
  <2>3. toServer' = Append(toServer, x) /\ UNCHANGED <<sNext, unacked>>
    BY <1>3, <2>1 DEF WriteChunk
  <2> HIDE DEF n
  <2>4. x \in PacketType /\ x.acks = {}
    <3>1. Bytes(wrote, n) \in Seq(Nat)
      BY <2>2, BytesSeq
    <3>2. x \in PacketType
      BY <1>0, <2>1, <2>2, <3>1, PacketTyped DEF Ops
    <3>3. QED
      BY <2>1, <3>2 DEF Packet
  <2>5. QED
    BY <1>0, <2>3, <2>4, AddedToServer, AckFrame DEF AckInv
<1>4. CASE \/ DialTimeout \/ ReceiveOther \/ ReceiveSoftReset
           \/ ReadTimeout \/ SocketFails \/ Close
  <2>1. UNCHANGED <<toServer, sNext, unacked>>
    BY <1>4 DEF DialTimeout, ReceiveOther, ReceiveSoftReset, ReadTimeout, SocketFails, Close
  <2>2. QED
    BY <1>0, <2>1, AckFrame DEF ToSet
<1>5. CASE (\E n \in WriteSizes : Write(n)) \/ (\E n \in ReadSizes : Read(n))
  <2>1. UNCHANGED <<toServer, sNext, unacked>>
    BY <1>5 DEF Write, Read
  <2>2. QED
    BY <1>0, <2>1, AckFrame DEF ToSet
<1>6. QED
  BY <1>1, <1>2, <1>3, <1>4, <1>5

\* The server forgets what an ack names, and no fault makes an ack.
LEMMA ServerAcks ==
  ASSUME AckInv, TypeOK', Next,
         \/ ServerReset \/ ServerSend \/ ServerTake \/ ServerRead
         \/ \E id \in 0 .. Len(Ends) : ServerResend(id)
         \/ Disturb \/ Stray \/ ServerRekeys
  PROVE  AcksAreTrue' /\ AckedIsDelivered'
<1>0. toServer \in Seq(PacketType) /\ sNext \in Nat /\ sNext' \in Nat
  BY DEF AckInv, TypeOK
<1>1. CASE ServerReset
  <2>1. \A pkt \in ToSet(toServer)' : pkt \in ToSet(toServer)
    BY <1>0, <1>1, Taken DEF ServerReset, ToSet
  <2>2. sNext = 0 /\ sNext' = 1
    BY <1>1 DEF ServerReset, AckInv, TypeOK
  <2>3. QED
    BY <2>1, <2>2, AckFrame
<1>2. CASE ServerSend
  <2>1. toServer' = toServer /\ sNext' = sNext + 1 /\ unacked' = unacked \cup {sNext}
    BY <1>2 DEF ServerSend
  <2>2. \A id \in (1 .. sNext - 1)' \ unacked' : id \in 1 .. sNext - 1 /\ id \notin unacked
    BY <1>0, <2>1
  <2>3. \A pkt \in ToSet(toServer)' : pkt \in ToSet(toServer)
    BY <2>1 DEF ToSet
  <2>4. QED
    BY <1>0, <2>1, <2>2, <2>3, AckFrame
<1>3. CASE ServerTake
  <2>1. Head(toServer) \in ToSet(toServer) /\ sNext' = sNext
    BY <1>0, <1>3, Taken DEF ServerTake
  <2>2. \A pkt \in ToSet(toServer)' : pkt \in ToSet(toServer)
    <3>1. ToSet(toServer') \subseteq ToSet(toServer)
      BY <1>0, <1>3, Taken DEF ServerTake
    <3>2. QED
      BY <3>1 DEF ToSet
  <2>3. unacked' = unacked \/ unacked' = unacked \ Head(toServer).acks
    BY <1>3 DEF ServerTake
  <2>4. \A id \in Head(toServer).acks : Truth(id)'
    <3>1. \A id \in Head(toServer).acks : Truth(id)
      BY <2>1 DEF AckInv, AcksAreTrue, Truth
    <3>2. QED
      BY <1>0, <2>1, <3>1, TruthStays DEF AckInv
  <2>5. QED
    BY <1>0, <2>1, <2>2, <2>3, <2>4, AckFrame
<1>4. CASE ServerRead
  <2>1. UNCHANGED <<toServer, sNext, unacked>>
    BY <1>4 DEF ServerRead
  <2>2. QED
    BY <1>0, <2>1, AckFrame DEF ToSet
<1>5. CASE (\E id \in 0 .. Len(Ends) : ServerResend(id)) \/ Stray \/ ServerRekeys
  <2>1. UNCHANGED <<toServer, sNext, unacked>>
    BY <1>5 DEF ServerResend, Stray, ServerRekeys, Fault
  <2>2. QED
    BY <1>0, <2>1, AckFrame DEF ToSet
<1>6. CASE Disturb
  <2>1. UNCHANGED <<sNext, unacked>>
    BY <1>6 DEF Disturb, Fault
  <2>2. \A pkt \in ToSet(toServer)' : pkt \in ToSet(toServer)
    <3>1. ToSet(toServer') \subseteq ToSet(toServer)
      BY <1>0, <1>6, DisturbedIsOld DEF Disturb
    <3>2. QED
      BY <3>1 DEF ToSet
  <2>3. QED
    BY <1>0, <2>1, <2>2, AckFrame
<1>7. QED
  BY <1>1, <1>2, <1>3, <1>4, <1>5, <1>6

-----------------------------------------------------------------------------
(* A calm network.                                                         *)

\* Nothing happens to the queue, or nobody reads it any more.
LEMMA CalmIdle ==
  ASSUME NEW n, CalmFrom(n), UNCHANGED <<Stream, sNext>>,
         Listening' => Listening /\ toClient' = toClient
  PROVE  CalmFrom(n)'
BY DEF CalmFrom, Own, Before, Bytes

\* A packet that is not of the stream comes in ...
LEMMA CalmOtherIn ==
  ASSUME TypeOK, NEW n, CalmFrom(n), UNCHANGED <<Stream, sNext, conn>>,
         NEW x \in PacketType, ~Own(x), toClient' = Append(toClient, x)
  PROVE  CalmFrom(n)'
<1>1. toClient \in Seq(PacketType)
  BY DEF TypeOK
<1>2. /\ DOMAIN toClient' = 1 .. Len(toClient) + 1 /\ DOMAIN toClient = 1 .. Len(toClient)
      /\ \A i \in 1 .. Len(toClient) : toClient'[i] = toClient[i]
      /\ toClient'[Len(toClient) + 1] = x /\ Len(toClient) \in Nat
  BY <1>1, Appended
<1>3. \A i \in DOMAIN toClient' : Own(toClient'[i]) =>
          i \in DOMAIN toClient /\ toClient'[i] = toClient[i]
  BY <1>2
<1>4. \A i \in DOMAIN toClient : i \in DOMAIN toClient' /\ toClient'[i] = toClient[i]
  BY <1>2
<1>5. QED
  BY <1>3, <1>4 DEF CalmFrom, Listening, Own, Before, Bytes

\* ... or goes out.
LEMMA CalmOtherOut ==
  ASSUME TypeOK, NEW n, CalmFrom(n), UNCHANGED <<Stream, sNext>>,
         toClient # <<>>, ~Own(Head(toClient)), toClient' = Tail(toClient), Listening
  PROVE  CalmFrom(n)'
<1>1. toClient \in Seq(PacketType)
  BY DEF TypeOK
<1>2. /\ DOMAIN toClient = 1 .. Len(toClient) /\ Len(toClient) \in Nat \ {0}
      /\ DOMAIN toClient' = 1 .. Len(toClient) - 1 /\ Head(toClient) = toClient[1]
      /\ \A i \in 1 .. Len(toClient) - 1 : toClient'[i] = toClient[i + 1]
  BY <1>1, Taken
<1>3. \A i \in DOMAIN toClient' : i + 1 \in DOMAIN toClient /\ toClient'[i] = toClient[i + 1]
  BY <1>2
<1>4. \A i \in DOMAIN toClient : Own(toClient[i]) =>
          i - 1 \in DOMAIN toClient' /\ toClient'[i - 1] = toClient[i]
  <2> SUFFICES ASSUME NEW i \in DOMAIN toClient, Own(toClient[i])
               PROVE  i - 1 \in DOMAIN toClient' /\ toClient'[i - 1] = toClient[i]
    OBVIOUS
  <2>1. i # 1
    BY <1>2
  <2>2. i - 1 \in 1 .. Len(toClient) - 1 /\ (i - 1) + 1 = i
    BY <1>2, <2>1
  <2>3. QED
    BY <1>2, <2>2
<1>5. \A i \in DOMAIN toClient' : Own(toClient'[i]) => toClient'[i].id >= n
  BY <1>3 DEF CalmFrom
<1>6. \A i, j \in DOMAIN toClient' :
          i < j /\ Own(toClient'[i]) /\ Own(toClient'[j]) =>
              toClient'[i].id < toClient'[j].id
  <2>1. \A i, j \in DOMAIN toClient' : i < j => i + 1 < j + 1
    BY <1>2
  <2>2. QED
    BY <1>3, <2>1 DEF CalmFrom
<1>7. \A id \in n .. sNext - 1 :
          \E i \in DOMAIN toClient' : Own(toClient'[i]) /\ toClient'[i].id = id
  BY <1>4 DEF CalmFrom
<1>8. QED
  BY <1>5, <1>6, <1>7 DEF CalmFrom, Own, Before, Bytes

\* The server's next packet comes in.
LEMMA CalmOwnIn ==
  ASSUME TypeOK, OwnIsSent, NEW n \in Nat \ {0}, CalmFrom(n), UNCHANGED <<Stream, conn>>,
         Listening, sNext > 0, sNext' = sNext + 1, NEW x \in PacketType, x.id = sNext, Own(x),
         toClient' = Append(toClient, x)
  PROVE  CalmFrom(n)'
<1>1. toClient \in Seq(PacketType) /\ sNext \in Nat
  BY DEF TypeOK
<1>2. /\ DOMAIN toClient' = 1 .. Len(toClient) + 1 /\ DOMAIN toClient = 1 .. Len(toClient)
      /\ \A i \in 1 .. Len(toClient) : toClient'[i] = toClient[i]
      /\ toClient'[Len(toClient) + 1] = x /\ Len(toClient) \in Nat
  BY <1>1, Appended
<1>3. \A i \in DOMAIN toClient : /\ i \in DOMAIN toClient' /\ toClient'[i] = toClient[i]
                                 /\ toClient[i] \in ToSet(toClient)
  BY <1>2 DEF ToSet
<1>4. \A i \in DOMAIN toClient : Own(toClient[i]) => toClient[i].id \in 1 .. sNext - 1
  BY <1>3 DEF OwnIsSent
<1>5. Len(toClient) + 1 \in DOMAIN toClient'
      /\ \A i \in DOMAIN toClient' : i \in DOMAIN toClient \/ i = Len(toClient) + 1
  BY <1>2
<1>6. n <= sNext
  BY <1>1 DEF CalmFrom
<1>7. \A i \in DOMAIN toClient' : Own(toClient'[i]) => toClient'[i].id >= n
  BY <1>2, <1>3, <1>5, <1>6 DEF CalmFrom
<1>8. \A i, j \in DOMAIN toClient' :
          i < j /\ Own(toClient'[i]) /\ Own(toClient'[j]) =>
              toClient'[i].id < toClient'[j].id
  <2> SUFFICES ASSUME NEW i \in DOMAIN toClient', NEW j \in DOMAIN toClient', i < j,
                      Own(toClient'[i]), Own(toClient'[j])
               PROVE  toClient'[i].id < toClient'[j].id
    OBVIOUS
  <2>1. i \in DOMAIN toClient
    BY <1>2
  <2>2. CASE j \in DOMAIN toClient
    BY <1>3, <2>1, <2>2 DEF CalmFrom
  <2>3. CASE j = Len(toClient) + 1
    BY <1>1, <1>2, <1>3, <1>4, <2>1, <2>3
  <2>4. QED
    BY <1>5, <2>2, <2>3
<1>9. \A id \in n .. sNext' - 1 :
          \E i \in DOMAIN toClient' : Own(toClient'[i]) /\ toClient'[i].id = id
  <2> SUFFICES ASSUME NEW id \in n .. sNext' - 1
               PROVE  \E i \in DOMAIN toClient' : Own(toClient'[i]) /\ toClient'[i].id = id
    OBVIOUS
  <2>1. id \in n .. sNext - 1 \/ id = sNext
    BY <1>1
  <2>2. CASE id = sNext
    BY <1>2, <1>5, <2>2
  <2>3. CASE id \in n .. sNext - 1
    BY <1>3, <2>3 DEF CalmFrom
  <2>4. QED
    BY <2>1, <2>2, <2>3
<1>10. n <= sNext' /\ Stream' = Bytes(0, Before(n))
  BY <1>1, <1>6 DEF CalmFrom
<1>11. QED
  BY <1>7, <1>8, <1>9, <1>10 DEF CalmFrom, Own, Before, Bytes

\* Read takes the packet that goes on where the stream stopped.
LEMMA CalmOwnOut ==
  ASSUME TypeOK, OwnIsSent, NEW n \in 1 .. Len(Ends) + 1, CalmFrom(n), UNCHANGED sNext,
         toClient # <<>>, Own(Head(toClient)), toClient' = Tail(toClient), Listening,
         Stream' = Stream \o Head(toClient).data
  PROVE  n + 1 \in 1 .. Len(Ends) + 1 /\ CalmFrom(n + 1)'
<1>1. toClient \in Seq(PacketType) /\ sNext \in 0 .. Len(Ends) + 1
  BY DEF TypeOK
<1>2. /\ DOMAIN toClient = 1 .. Len(toClient) /\ Len(toClient) \in Nat \ {0}
      /\ DOMAIN toClient' = 1 .. Len(toClient) - 1 /\ Head(toClient) = toClient[1]
      /\ Head(toClient) \in ToSet(toClient)
      /\ \A i \in 1 .. Len(toClient) - 1 : toClient'[i] = toClient[i + 1]
  BY <1>1, Taken
<1>3. /\ toClient[1].id \in 1 .. sNext - 1 /\ toClient[1].id >= n
      /\ toClient[1].data = ServerData(toClient[1].id)
  BY <1>2 DEF OwnIsSent, CalmFrom
<1>4. n \in 1 .. sNext - 1
  BY <1>1, <1>3
<1>5. toClient[1].id = n
  <2>1. PICK j \in DOMAIN toClient : Own(toClient[j]) /\ toClient[j].id = n
    <3>1. n \in n .. sNext - 1
      BY <1>1, <1>4
    <3>2. QED
      BY <3>1 DEF CalmFrom
  <2>2. CASE j = 1
    BY <2>1, <2>2
  <2>3. CASE j # 1
    <3>1. 1 < j /\ 1 \in DOMAIN toClient
      BY <1>2, <2>3
    <3>2. toClient[1].id < toClient[j].id
      BY <1>2, <2>1, <3>1 DEF CalmFrom
    <3>3. QED
      BY <1>1, <1>3, <2>1, <3>2
  <2>4. QED
    BY <2>2, <2>3
<1>6. \A i \in DOMAIN toClient' : i + 1 \in DOMAIN toClient /\ toClient'[i] = toClient[i + 1]
                                  /\ 1 < i + 1 /\ toClient[i + 1] \in ToSet(toClient)
  BY <1>2 DEF ToSet
<1>7. \A i \in DOMAIN toClient' : Own(toClient'[i]) => toClient'[i].id >= n + 1
  <2> SUFFICES ASSUME NEW i \in DOMAIN toClient', Own(toClient'[i])
               PROVE  toClient'[i].id >= n + 1
    OBVIOUS
  <2>1. 1 \in DOMAIN toClient
    BY <1>2
  <2>2. toClient[1].id < toClient[i + 1].id
    BY <1>2, <1>6, <2>1 DEF CalmFrom
  <2>3. toClient[i + 1].id \in 1 .. sNext - 1
    BY <1>6 DEF OwnIsSent
  <2>4. QED
    BY <1>1, <1>5, <1>6, <2>2, <2>3
<1>8. \A i, j \in DOMAIN toClient' :
          i < j /\ Own(toClient'[i]) /\ Own(toClient'[j]) =>
              toClient'[i].id < toClient'[j].id
  <2>1. \A i, j \in DOMAIN toClient' : i < j => i + 1 < j + 1
    BY <1>2
  <2>2. QED
    BY <1>6, <2>1 DEF CalmFrom
<1>9. \A id \in n + 1 .. sNext - 1 :
          \E i \in DOMAIN toClient' : Own(toClient'[i]) /\ toClient'[i].id = id
  <2> SUFFICES ASSUME NEW id \in n + 1 .. sNext - 1
               PROVE  \E i \in DOMAIN toClient' : Own(toClient'[i]) /\ toClient'[i].id = id
    OBVIOUS
  <2>1. id \in n .. sNext - 1 /\ id # n
    BY <1>1
  <2>2. PICK j \in DOMAIN toClient : Own(toClient[j]) /\ toClient[j].id = id
    BY <2>1 DEF CalmFrom
  <2>3. j # 1
    BY <1>5, <2>1, <2>2
  <2>4. j - 1 \in DOMAIN toClient' /\ (j - 1) + 1 = j
    BY <1>2, <2>3
  <2>5. toClient'[j - 1] = toClient[j]
    BY <1>2, <2>4
  <2>6. QED
    BY <2>2, <2>4, <2>5
<1>10. Stream' = Bytes(0, Before(n + 1))
  <2>1. n \in 1 .. Len(Ends)
    BY <1>1, <1>4
  <2>2. /\ Before(n) \in Nat /\ Before(n + 1) \in Nat /\ Before(n) <= Before(n + 1)
        /\ ServerData(n) = Bytes(Before(n), Before(n + 1) - Before(n))
    BY <2>1, Cuts
  <2>3. PICK a \in Nat : a = Before(n)
    BY <2>2
  <2>4. PICK b \in Nat : b = Before(n + 1) - Before(n)
    BY <2>2
  <2>5. Stream' = Bytes(0, a) \o Bytes(0 + a, b)
    <3>1. Stream' = Stream \o ServerData(n)
      BY <1>2, <1>3, <1>5
    <3>2. Stream = Bytes(0, a)
      BY <2>3 DEF CalmFrom
    <3>3. 0 + a = a
      OBVIOUS
    <3>4. ServerData(n) = Bytes(0 + a, b)
      BY <2>2, <2>3, <2>4, <3>3
    <3>5. QED
      BY <3>1, <3>2, <3>4
  <2>6. Stream' = Bytes(0, a + b)
    BY <2>5, BytesJoin
  <2>7. a + b = Before(n + 1)
    BY <2>2, <2>3, <2>4
  <2>8. QED
    BY <2>6, <2>7
<1>11. n + 1 \in 1 .. Len(Ends) + 1 /\ n + 1 <= sNext
  BY <1>1, <1>4
<1>12. QED
  BY <1>7, <1>8, <1>9, <1>10, <1>11 DEF CalmFrom, Own, Before, Bytes

\* Every step keeps the stream in order as long as the network is calm.
LEMMA CalmStep ==
  ASSUME TypeOK, TypeOK', OwnIsSent, WaitsEmpty, InOrderWhenCalm, Next, calm'
  PROVE  \E n \in 1 .. Len(Ends) + 1 : CalmFrom(n)'
<1>1. calm
  BY DEF Next, DialReset, DialReply, DialTimeout, WriteChunk, ReceiveControl,
         ReceiveOther, ReceiveSoftReset, ReadTimeout, SocketFails, Close, Write, Read,
         ServerReset, ServerSend, ServerTake, ServerRead, ServerResend, Disturb, Stray,
         ServerRekeys, Fault, TypeOK
<1>2. PICK n \in 1 .. Len(Ends) + 1 : CalmFrom(n)
  BY <1>1 DEF InOrderWhenCalm
<1>3. n \in Nat \ {0} /\ Len(Ends) \in Nat
  OBVIOUS
<1>4. CASE ReceiveControl
  <2>1. /\ toClient # <<>> /\ toClient' = Tail(toClient) /\ conn = "open" /\ sNext' = sNext
        /\ Listening /\ Head(toClient).op = "control"
    BY <1>4 DEF ReceiveControl, Arrives, Listening
  <2>2. CASE Mine(Head(toClient))
    <3>1. Own(Head(toClient))
      BY <2>1, <2>2 DEF Mine, Own, OwnIsSent
    <3>2. Stream' = Stream \o Head(toClient).data
      <4>1. Head(toClient).data = <<>> \/ Return(reader, Head(toClient).data)
        BY <1>4, <2>2 DEF ReceiveControl
      <4>2. CASE Head(toClient).data = <<>>
        <5>1. UNCHANGED Stream
          BY <1>4, <2>2, <4>2 DEF ReceiveControl, Stream
        <5>2. Stream \in Seq(Nat)
          BY ConcatProperties DEF TypeOK, Stream
        <5>3. Stream \o <<>> = Stream
          BY <5>2, ConcatEmptySeq
        <5>4. QED
          BY <4>2, <5>1, <5>3
      <4>3. CASE Return(reader, Head(toClient).data)
        <5>1. /\ readBuf = <<>> /\ reader \in Nat \ {0} /\ got \in Seq(Nat)
          BY <1>4 DEF ReceiveControl, Arrives, WaitsEmpty, TypeOK
        <5>2. Head(toClient) \in PacketType
          BY <2>1, Taken DEF TypeOK
        <5>3. Head(toClient).data \in Seq(Nat)
          BY <5>2 DEF PacketType
        <5>4. got' \o readBuf' = got \o Head(toClient).data
          BY <4>3, <5>1, <5>3, ReturnKeeps
        <5>5. Stream = got
          BY <5>1, ConcatEmptySeq DEF Stream
        <5>6. QED
          BY <5>4, <5>5 DEF Stream
      <4>4. QED
        BY <4>1, <4>2, <4>3
    <3>3. QED
      BY <1>2, <2>1, <3>1, <3>2, CalmOwnOut
  <2>3. CASE ~Mine(Head(toClient))
    <3>1. ~Own(Head(toClient))
      BY <2>1, <2>3 DEF Mine, Own, OwnIsSent
    <3>2. UNCHANGED Stream
      BY <1>4, <2>3 DEF ReceiveControl, Stream
    <3>3. QED
      BY <1>2, <2>1, <3>1, <3>2, CalmOtherOut
  <2>4. QED
    BY <2>2, <2>3
<1>5. CASE DialReply
  <2>1. toClient # <<>> /\ UNCHANGED <<Stream, sNext>> /\ Listening
    BY <1>5 DEF DialReply, Stream, Listening
  <2>2. CASE Head(toClient).op = "hardResetServer" /\ Head(toClient).remote = LocalSID
    <3>1. toClient' = Tail(toClient) /\ ~Own(Head(toClient))
      BY <1>5, <2>2 DEF DialReply, Own
    <3>2. QED
      BY <1>2, <2>1, <3>1, CalmOtherOut
  <2>3. CASE ~(Head(toClient).op = "hardResetServer" /\ Head(toClient).remote = LocalSID)
    <3>1. ~Listening'
      BY <1>5, <2>3 DEF DialReply, Listening
    <3>2. QED
      BY <1>2, <2>1, <3>1, CalmIdle
  <2>4. QED
    BY <2>2, <2>3
<1>6. CASE ReceiveOther \/ ReceiveSoftReset
  <2>1. /\ toClient # <<>> /\ UNCHANGED <<Stream, sNext>> /\ Listening
        /\ toClient' = Tail(toClient) /\ ~Own(Head(toClient))
    BY <1>6 DEF ReceiveOther, ReceiveSoftReset, Arrives, Stream, Listening, Own
  <2>2. QED
    BY <1>2, <2>1, CalmOtherOut
<1>7. ASSUME NEW k \in ReadSizes, Read(k) PROVE CalmFrom(n)'
  <2>1. UNCHANGED <<sNext, conn, toClient>>
    BY <1>7 DEF Read
  <2>2. ~ReceiveControl
    BY <1>7 DEF Read, ReceiveControl, Arrives, TypeOK
  <2>3. UNCHANGED Stream
    BY <2>2, StreamStep
  <2>4. QED
    BY <1>2, <2>1, <2>3, CalmIdle DEF Listening
<1>8. CASE DialReset \/ WriteChunk \/ ReadTimeout \/ SocketFails \/ ServerRead
           \/ \E k \in WriteSizes : Write(k)
  <2>1. UNCHANGED <<Stream, sNext, toClient>> /\ (Listening' => Listening)
    BY <1>8 DEF DialReset, WriteChunk, ReadTimeout, SocketFails, ServerRead, Write,
                Stream, Listening
  <2>2. QED
    BY <1>2, <2>1, CalmIdle
<1>9. CASE DialTimeout \/ Close
  <2>1. UNCHANGED <<Stream, sNext>> /\ ~Listening'
    BY <1>9 DEF DialTimeout, Close, Stream, Listening
  <2>2. QED
    BY <1>2, <2>1, CalmIdle
<1>10. CASE ServerReset
  <2>0. <<>> \in Seq(Nat) /\ {0} \in SUBSET Nat
    OBVIOUS
  <2>1. PICK x : x = ServerPacket("hardResetServer", 0, <<>>, {0})
    OBVIOUS
  <2>2. x \in PacketType
    BY <2>0, <2>1, ServerPacketTyped DEF Ops
  <2>3. ~Own(x)
    BY <2>1, ServerPacketParts DEF Own
  <2>4. /\ toClient' = Append(toClient, x) /\ UNCHANGED <<Stream, conn>>
        /\ sNext = 0 /\ sNext' = 1
    BY <1>10, <2>1 DEF ServerReset, Stream, TypeOK
  <2>5. n = 1
    BY <1>2, <1>3, <2>4 DEF CalmFrom
  <2>6. toClient \in Seq(PacketType)
    BY DEF TypeOK
  <2>7. \A i \in DOMAIN toClient' : ~Own(toClient'[i])
    <3>1. \A p \in ToSet(toClient) : ~Own(p)
      BY <2>4 DEF OwnIsSent
    <3>2. \A p \in ToSet(toClient)' : ~Own(p)
      BY <2>2, <2>3, <2>4, <3>1, AddedToClient
    <3>3. QED
      BY <3>2 DEF ToSet
  <2>8. CalmFrom(1)'
    BY <1>2, <2>4, <2>5, <2>7 DEF CalmFrom, Own, Before, Bytes
  <2>9. QED
    BY <1>3, <2>8
<1>11. CASE ServerSend
  <2>1. PICK x : x = ServerPacket("control", sNext, ServerData(sNext), {1})
    OBVIOUS
  <2>2. sNext \in 1 .. Len(Ends)
    BY <1>11 DEF ServerSend, TypeOK
  <2>3. x \in PacketType
    BY <2>1, <2>2, Cuts, ServerPacketTyped DEF Ops
  <2>4. x.id = sNext /\ Own(x)
    BY <2>1, ServerPacketParts DEF Own
  <2>5. /\ toClient' = Append(toClient, x) /\ UNCHANGED <<Stream, conn>>
        /\ sNext' = sNext + 1 /\ Listening
    BY <1>11, <2>1 DEF ServerSend, Stream
  <2>6. sNext > 0
    BY <2>2
  <2>7. QED
    BY <1>2, <1>3, <2>3, <2>4, <2>5, <2>6, CalmOwnIn
<1>12. CASE ServerTake
  <2>1. PICK x : x = ServerPacket("ack", 0, <<>>, {Head(toServer).id})
    OBVIOUS
  <2>2. x \in PacketType
    <3>1. Head(toServer) \in PacketType
      BY <1>12, Taken DEF ServerTake, TypeOK
    <3>2. {Head(toServer).id} \in SUBSET Nat /\ <<>> \in Seq(Nat)
      BY <3>1 DEF PacketType
    <3>3. QED
      BY <2>1, <3>2, ServerPacketTyped DEF Ops
  <2>3. ~Own(x)
    BY <2>1, ServerPacketParts DEF Own
  <2>4. toClient' \in {toClient, Append(toClient, x)} /\ UNCHANGED <<Stream, conn, sNext>>
    BY <1>12, <2>1 DEF ServerTake, Stream
  <2>5. CASE toClient' = toClient
    BY <1>2, <2>4, <2>5, CalmIdle DEF Listening
  <2>6. CASE toClient' = Append(toClient, x)
    BY <1>2, <2>2, <2>3, <2>4, <2>6, CalmOtherIn
  <2>7. QED
    BY <2>4, <2>5, <2>6
<1>13. CASE (\E id \in 0 .. Len(Ends) : ServerResend(id)) \/ Disturb
  BY <1>13 DEF ServerResend, Disturb, Fault
<1>14. CASE Stray
  <2>1. PICK x \in Strays : toClient' = Append(toClient, x)
    BY <1>14 DEF Stray
  <2>2. x \in PacketType /\ ~Own(x)
    BY <2>1, StraysTyped, StrayParts
  <2>3. UNCHANGED <<Stream, sNext, conn>>
    BY <1>14 DEF Stray, Fault, Stream
  <2>4. QED
    BY <1>2, <2>1, <2>2, <2>3, CalmOtherIn
<1>15. CASE ServerRekeys
  <2>1. PICK x : x = ServerPacket("softReset", 0, <<>>, {})
    OBVIOUS
  <2>2. x \in PacketType
    <3>1. {} \in SUBSET Nat /\ <<>> \in Seq(Nat)
      OBVIOUS
    <3>2. QED
      BY <2>1, <3>1, ServerPacketTyped DEF Ops
  <2>3. ~Own(x)
    BY <2>1, ServerPacketParts DEF Own
  <2>4. toClient' = Append(toClient, x) /\ UNCHANGED <<Stream, conn, sNext>>
    BY <1>15, <2>1 DEF ServerRekeys, Fault, Stream
  <2>5. QED
    BY <1>2, <2>2, <2>3, <2>4, CalmOtherIn
<1>16. QED
  BY <1>2, <1>4, <1>5, <1>6, <1>7, <1>8, <1>9, <1>10, <1>11, <1>12, <1>13, <1>14, <1>15
     DEF Next

-----------------------------------------------------------------------------
(* The invariant and what follows from it.                                 *)

LEMMA InitIInv == ASSUME Init PROVE IInv
<1>1. TypeOK
  BY InitTyped
<1>2. ToSet(toServer) = {} /\ ToSet(toClient) = {} /\ Written = {} /\ Stream = <<>>
  BY DEF Init, ToSet, Written, Stream
<1>3. Bytes(0, 0) = <<>>
  BY DEF Bytes
<1>4. WrittenInOrder /\ PiecesFit /\ OwnIsSent /\ WaitsEmpty /\ AcksAreTrue
  BY <1>2, <1>3 DEF Init, WrittenInOrder, PiecesFit, OwnIsSent, WaitsEmpty, AcksAreTrue
<1>5. AckedIsDelivered
  BY DEF Init, AckedIsDelivered
<1>6. CalmFrom(1)
  BY <1>2, <1>3 DEF Init, CalmFrom, Before
<1>7. 1 \in 1 .. Len(Ends) + 1
  OBVIOUS
<1>8. QED
  BY <1>1, <1>4, <1>5, <1>6, <1>7 DEF IInv, InOrderWhenCalm

LEMMA IInvStep == IInv /\ [Next]_vars => IInv'
<1> SUFFICES ASSUME IInv, [Next]_vars PROVE IInv'
  OBVIOUS
<1>1. TypeOK /\ TypeOK'
  BY TypeStep DEF IInv
<1>2. CASE UNCHANGED vars
  <2>1. WrittenInOrder' /\ PiecesFit'
    BY <1>2 DEF vars, IInv, WrittenInOrder, PiecesFit, PieceOf, Written, Start, End, ToSet
  <2>2. OwnIsSent'
    BY <1>2 DEF vars, IInv, OwnIsSent, ToSet
  <2>3. WaitsEmpty'
    BY <1>2 DEF vars, IInv, WaitsEmpty
  <2>4. AcksAreTrue' /\ AckedIsDelivered'
    <3>1. UNCHANGED <<toServer, sNext, unacked>>
      BY <1>2 DEF vars
    <3>2. \A id : Delivered(id)' <=> Delivered(id)
      BY <1>2 DEF vars, Delivered, Stream
    <3>3. AcksAreTrue /\ AckedIsDelivered
      BY DEF IInv
    <3>4. AcksAreTrue'
      BY <3>1, <3>2, <3>3 DEF AcksAreTrue
    <3>5. AckedIsDelivered'
      BY <3>1, <3>2, <3>3 DEF AckedIsDelivered, Delivered, Stream
    <3>6. QED
      BY <3>4, <3>5
  <2>5. InOrderWhenCalm'
    BY <1>2 DEF vars, IInv, InOrderWhenCalm, CalmFrom, Stream, Listening
  <2>6. QED
    BY <1>1, <2>1, <2>2, <2>3, <2>4, <2>5 DEF IInv
<1>3. CASE Next
  <2>1. WriteInv /\ AckInv
    BY DEF IInv, WriteInv, AckInv
  <2>2. WrittenInOrder' /\ PiecesFit'
    BY <1>1, <1>3, <2>1, DialWrites, ChunkWrites, ReadWrites, ServerWrites, OtherWrites
       DEF Next
  <2>3. OwnIsSent'
    BY <1>1, <1>3, ClientOwn, ServerOwn DEF IInv, Next
  <2>4. WaitsEmpty'
    BY <1>1, <1>3, WaitsStep DEF IInv
  <2>5. AcksAreTrue' /\ AckedIsDelivered'
    BY <1>1, <1>3, <2>1, ControlAcks, ClientAcks, ServerAcks DEF Next
  <2>6. InOrderWhenCalm'
    BY <1>1, <1>3, CalmStep DEF IInv, InOrderWhenCalm
  <2>7. QED
    BY <1>1, <2>2, <2>3, <2>4, <2>5, <2>6 DEF IInv
<1>4. QED
  BY <1>2, <1>3

\* IInv holds in every reachable state, for any cuts, sizes and faults.
THEOREM InductiveInvariant == Spec => []IInv
BY InitIInv, IInvStep, PTL DEF Spec

\* Whatever the network loses, doubles or delays, the server puts together a
\* beginning of what TLS passed to Write: ids are given in order, once each,
\* to consecutive pieces.
THEOREM ServerReadsInOrder == Spec => []WrittenInOrder
<1>1. IInv => WrittenInOrder
  BY DEF IInv
<1>2. QED
  BY <1>1, InductiveInvariant, PTL

\* On every network, a packet the server no longer keeps has reached TLS or
\* waits in readBuf: Read acknowledges only what it takes.
THEOREM AckMeansDelivered == Spec => []AckedIsDelivered
<1>1. IInv => AckedIsDelivered
  BY DEF IInv
<1>2. QED
  BY <1>1, InductiveInvariant, PTL

\* As long as the network keeps every packet once and in order, whatever
\* strays come between them, Read returns a beginning of the server's stream
\* although it looks at no id.
THEOREM CalmReadsInOrder == Spec => []CalmStreamIsPrefix
<1>1. IInv => CalmStreamIsPrefix
  <2> SUFFICES ASSUME IInv, calm PROVE CalmStreamIsPrefix
    BY DEF CalmStreamIsPrefix
  <2>1. PICK n \in 1 .. Len(Ends) + 1 : CalmFrom(n)
    BY DEF IInv, InOrderWhenCalm
  <2>2. got \in Seq(Nat) /\ readBuf \in Seq(Nat) /\ sNext \in 0 .. Len(Ends) + 1
    BY DEF IInv, TypeOK
  <2>3. Len(got \o readBuf) = Len(got) + Len(readBuf)
    BY <2>2, ConcatProperties
  <2>4. Before(n) \in Nat /\ Before(n) <= Before(sNext)
    <3>1. CASE n <= sNext
      BY <2>2, <3>1, CutsGrow
    <3>2. CASE n = 1
      <4>1. Before(sNext) \in Nat
        BY <2>2, CutsGrow
      <4>2. QED
        BY <3>2, <4>1 DEF Before
    <3>3. QED
      BY <2>1, <3>1, <3>2 DEF CalmFrom
  <2>5. got \o readBuf = Bytes(0, Before(n)) /\ Len(Bytes(0, Before(n))) = Before(n)
    BY <2>1, <2>4, BytesSeq DEF CalmFrom, Stream
  <2>6. QED
    BY <2>3, <2>4, <2>5 DEF CalmStreamIsPrefix
<1>2. QED
  BY <1>1, InductiveInvariant, PTL
=============================================================================
