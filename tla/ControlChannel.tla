--------------------------- MODULE ControlChannel ---------------------------
(***************************************************************************)
(* controlUDPConn (tlsprobe.go) and its packets (protocol.go): the client  *)
(* half of OpenVPN's control channel, a net.Conn for TLS over UDP.         *)
(* dialControlUDP exchanges the hard resets, Write cuts its argument into  *)
(* numbered packets, Read acknowledges and returns what arrives.           *)
(*                                                                         *)
(* The server and the network are external.  The server is modelled by the *)
(* part of the protocol the client relies on: it numbers its packets from  *)
(* 0, keeps each until it is acknowledged, may send it again, and takes    *)
(* the client's packets in the order of their numbers.  The network keeps  *)
(* the order until it loses, doubles or delays a packet.                   *)
(*                                                                         *)
(* A byte is its position in the stream it belongs to; a byte of no stream *)
(* is 0.                                                                   *)
(***************************************************************************)
EXTENDS Naturals, Sequences, SequencesExt, FiniteSets

CONSTANTS Ends,        \* where the server's packets 1, 2, ... end in its stream
          MaxPayload,  \* bytes in a packet of Write (1000 in the code)
          WriteSizes,  \* lengths TLS calls Write with
          ReadSizes,   \* lengths TLS calls Read with
          ClientBytes, \* bound on the bytes TLS writes
          MaxFaults    \* bound on what the network and the timers do

ASSUME SizeAssumption ==
    /\ Ends \in Seq(Nat)
    /\ \A i, j \in 1 .. Len(Ends) : i <= j => Ends[i] <= Ends[j]
    /\ MaxPayload \in Nat \ {0}
    /\ WriteSizes \subseteq Nat \ {0} /\ ReadSizes \subseteq Nat \ {0}
    /\ ClientBytes \in Nat /\ MaxFaults \in Nat

VARIABLES conn,      \* "new", "reset" (sent), "open", "failed", "closed"
          remoteSID, \* the server's session id, once known
          nextID,    \* id of the next packet of Write
          asked,     \* bytes TLS has passed to Write
          wrote,     \* bytes of them handed to the socket
          reader,    \* length of the Read in progress, 0 if there is none
          readBuf,   \* received bytes not yet returned
          got,       \* bytes returned to TLS
          server,    \* "idle", "open"
          sNext,     \* the server's next packet id
          unacked,   \* ids it keeps for sending again
          expect,    \* the client id it takes next
          held,      \* client packets that came early
          sGot,      \* bytes it has taken
          toServer, toClient,  \* packets under way
          faults,    \* faults so far
          calm       \* nothing was lost, doubled, delayed or sent again

connVars == <<conn, remoteSID>>
writeVars == <<nextID, asked, wrote>>
readVars == <<reader, readBuf, got>>
sendVars == <<sNext, unacked>>
takeVars == <<expect, held, sGot>>
serverVars == <<server, sendVars, takeVars>>
netVars == <<toServer, toClient>>
faultVars == <<faults, calm>>
vars == <<connVars, writeVars, readVars, serverVars, netVars, faultVars>>

-----------------------------------------------------------------------------
(* Packets: what parseControlPacket finds in what marshal wrote.           *)

LocalSID == "c"
ServerSID == "s"
OtherSID == "x"      \* a session of another connection
NoSID == "none"      \* a packet without acks names no remote session

Packet(op, sid, acks, remote, id, data) ==
    [op |-> op, sid |-> sid, acks |-> acks, id |-> id, data |-> data,
     remote |-> IF acks = {} THEN NoSID ELSE remote]

Ack(id) == Packet("ack", LocalSID, {id}, remoteSID, 0, <<>>)

\* The n bytes after the first k of a stream.
Bytes(k, n) == [i \in 1 .. n |-> k + i]

\* Length of the server's packets before id.
Before(id) == IF id <= 1 THEN 0 ELSE Ends[id - 1]
ServerData(id) == Bytes(Before(id), Ends[id] - Before(id))

Least(a, b) == IF a < b THEN a ELSE b

Init ==
    /\ conn = "new" /\ remoteSID = NoSID
    /\ nextID = 0 /\ asked = 0 /\ wrote = 0
    /\ reader = 0 /\ readBuf = <<>> /\ got = <<>>
    /\ server = "idle" /\ sNext = 0 /\ unacked = {}
    /\ expect = 0 /\ held = {} /\ sGot = <<>>
    /\ toServer = <<>> /\ toClient = <<>>
    /\ faults = 0 /\ calm = TRUE

-----------------------------------------------------------------------------
(* dialControlUDP                                                          *)

DialReset ==
    /\ conn = "new"
    /\ conn' = "reset"
    /\ toServer' = Append(toServer,
                          Packet("hardResetClient", LocalSID, {}, NoSID, 0, <<>>))
    /\ UNCHANGED <<remoteSID, writeVars, readVars, serverVars, toClient,
                   faultVars>>

\* The first datagram decides: a server reset that names this session, which
\* is acknowledged, or an error that closes the socket.
DialReply ==
    /\ conn = "reset" /\ toClient # <<>>
    /\ LET resp == Head(toClient)
       IN  IF resp.op = "hardResetServer" /\ resp.remote = LocalSID
           THEN /\ conn' = "open"
                /\ remoteSID' = resp.sid
                /\ nextID' = 1
                /\ toServer' = Append(toServer,
                       Packet("ack", LocalSID, {resp.id}, resp.sid, 0, <<>>))
           ELSE conn' = "closed" /\ UNCHANGED <<remoteSID, nextID, toServer>>
    /\ toClient' = IF conn' = "closed" THEN <<>> ELSE Tail(toClient)
    /\ UNCHANGED <<asked, wrote, readVars, serverVars, faultVars>>

\* The deadline dialControlUDP sets passes.
DialTimeout ==
    /\ conn = "reset"
    /\ conn' = "closed"
    /\ toClient' = <<>>
    /\ UNCHANGED <<remoteSID, writeVars, readVars, serverVars, toServer,
                   faultVars>>

-----------------------------------------------------------------------------
(* Write: the call and its loop, one packet at a time.  Set-up calls Read  *)
(* and Write from one goroutine.                                           *)

Write(n) ==
    /\ conn = "open" /\ reader = 0
    /\ asked = wrote
    /\ asked + n <= ClientBytes
    /\ asked' = asked + n
    /\ UNCHANGED <<connVars, nextID, wrote, readVars, serverVars, netVars,
                   faultVars>>

\* Mutant: the packet id advances once per call, not once per packet.
WriteChunkSameID ==
    /\ conn = "open"
    /\ wrote < asked
    /\ LET n == Least(asked - wrote, MaxPayload)
       IN  /\ toServer' = Append(toServer, Packet("control", LocalSID, {}, NoSID,
                                                  nextID, Bytes(wrote, n)))
           /\ wrote' = wrote + n
           /\ nextID' = IF wrote + n = asked THEN nextID + 1 ELSE nextID
    /\ UNCHANGED <<connVars, asked, readVars, serverVars, toClient, faultVars>>

WriteChunk ==
    /\ conn = "open"
    /\ wrote < asked
    /\ LET n == Least(asked - wrote, MaxPayload)
       IN  /\ toServer' = Append(toServer, Packet("control", LocalSID, {}, NoSID,
                                                  nextID, Bytes(wrote, n)))
           /\ wrote' = wrote + n
    /\ nextID' = nextID + 1
    /\ UNCHANGED <<connVars, asked, readVars, serverVars, toClient, faultVars>>

-----------------------------------------------------------------------------
(* Read                                                                    *)

\* readBuf.Read(p), from the bytes b.
Return(n, b) ==
    /\ got' = got \o SubSeq(b, 1, Least(n, Len(b)))
    /\ readBuf' = SubSeq(b, n + 1, Len(b))
    /\ reader' = 0

Read(n) ==
    /\ conn = "open" /\ reader = 0
    /\ asked = wrote
    /\ IF readBuf # <<>> THEN Return(n, readBuf)
                         ELSE reader' = n /\ UNCHANGED <<readBuf, got>>
    /\ UNCHANGED <<connVars, writeVars, serverVars, netVars, faultVars>>

\* Mutant: whoever sent it.
MineAnySession(pkt) == pkt.remote \in {NoSID, LocalSID}

\* A packet of this session and for this end.
Mine(pkt) ==
    /\ pkt.sid = remoteSID
    /\ pkt.remote \in {NoSID, LocalSID}

Arrives(ops) ==
    /\ conn = "open" /\ reader > 0
    /\ toClient # <<>>
    /\ Head(toClient).op \in ops
    /\ toClient' = Tail(toClient)

\* Mutant: acknowledged before it is known whose packet it is.
ReceiveControlAcksFirst ==
    /\ Arrives({"control"})
    /\ LET pkt == Head(toClient)
       IN  /\ toServer' = Append(toServer, Ack(pkt.id))
           /\ IF Mine(pkt) /\ pkt.data # <<>> THEN Return(reader, pkt.data)
                                              ELSE UNCHANGED readVars
    /\ UNCHANGED <<connVars, writeVars, serverVars, faultVars>>

\* A packet of another session is skipped; one of this session is
\* acknowledged, and returned unless it is empty.  Ids are not looked at.
ReceiveControl ==
    /\ Arrives({"control"})
    /\ LET pkt == Head(toClient)
       IN  IF ~Mine(pkt) THEN UNCHANGED <<toServer, readVars>>
           ELSE /\ toServer' = Append(toServer, Ack(pkt.id))
                /\ IF pkt.data = <<>> THEN UNCHANGED readVars
                                      ELSE Return(reader, pkt.data)
    /\ UNCHANGED <<connVars, writeVars, serverVars, faultVars>>

\* Acks and every other opcode, late resets included, are skipped.
ReceiveOther ==
    /\ Arrives({"ack", "hardResetServer", "data"})
    /\ UNCHANGED <<connVars, writeVars, readVars, serverVars, toServer,
                   faultVars>>

\* A soft reset of this session is an error of Read.
ReceiveSoftReset ==
    /\ Arrives({"softReset"})
    /\ IF Head(toClient).sid = remoteSID THEN conn' = "failed" /\ reader' = 0
                                         ELSE UNCHANGED <<conn, reader>>
    /\ UNCHANGED <<remoteSID, writeVars, readBuf, got, serverVars, toServer,
                   faultVars>>

\* A deadline passes in udp.Read.  It is the callers' (SetDeadline in
\* establishLiveVPN), so here a Read may time out and is not said to: that the
\* set-up always has one is SessionSetup's subject (SetupEndsClean).
ReadTimeout ==
    /\ conn = "open" /\ reader > 0
    /\ conn' = "failed" /\ reader' = 0
    /\ UNCHANGED <<remoteSID, writeVars, readBuf, got, serverVars, netVars,
                   faultVars>>

\* A write of the socket fails, in Write or in sendAck: nothing is counted as
\* written and nothing is returned.
SocketFails ==
    /\ conn = "open"
    /\ wrote < asked \/ reader > 0
    /\ conn' = "failed" /\ reader' = 0
    /\ UNCHANGED <<remoteSID, writeVars, readBuf, got, serverVars, netVars,
                   faultVars>>

\* After an error TLS and then establishLiveVPN give the connection up; when
\* ctx is done, HandshakeContext closes it under a waiting Read.
Close ==
    /\ conn \in {"open", "failed"}
    /\ conn' = "closed"
    /\ reader' = 0
    /\ toClient' = <<>>
    /\ UNCHANGED <<remoteSID, writeVars, readBuf, got, serverVars, toServer,
                   faultVars>>

-----------------------------------------------------------------------------
(* The server.                                                             *)

\* What is sent to a closed socket reaches nobody and is left out.
Listening == conn # "closed"

ServerPacket(op, id, data, acks) == Packet(op, ServerSID, acks, LocalSID, id, data)

\* The client's reset is answered once.
ServerReset ==
    /\ server = "idle"
    /\ toServer # <<>> /\ Head(toServer).op = "hardResetClient"
    /\ server' = "open" /\ expect' = 1 /\ sNext' = 1 /\ unacked' = {0}
    /\ toServer' = Tail(toServer)
    /\ toClient' = Append(toClient, ServerPacket("hardResetServer", 0, <<>>, {0}))
    /\ Listening
    /\ UNCHANGED <<connVars, writeVars, readVars, held, sGot, faultVars>>

\* TLS records follow once the reset is acknowledged.  They carry an ack and
\* so name the client's session; one sent again does not.
ServerSend ==
    /\ server = "open" /\ 0 \notin unacked /\ Listening
    /\ sNext <= Len(Ends)
    /\ toClient' = Append(toClient,
                          ServerPacket("control", sNext, ServerData(sNext), {1}))
    /\ unacked' = unacked \cup {sNext}
    /\ sNext' = sNext + 1
    /\ UNCHANGED <<connVars, writeVars, readVars, server, takeVars, toServer,
                   faultVars>>

\* It takes a client packet in order, or holds it, and acknowledges it.
ServerTake ==
    /\ server = "open" /\ toServer # <<>>
    /\ LET pkt == Head(toServer)
       IN  IF pkt.op = "control"
           THEN /\ held' = IF pkt.id >= expect
                              /\ \A h \in held : h.id # pkt.id
                           THEN held \cup {pkt} ELSE held
                /\ toClient' = IF Listening
                      THEN Append(toClient, ServerPacket("ack", 0, <<>>, {pkt.id}))
                      ELSE toClient
                /\ UNCHANGED unacked
           ELSE /\ unacked' = unacked \ pkt.acks
                /\ UNCHANGED <<held, toClient>>
    /\ toServer' = Tail(toServer)
    /\ UNCHANGED <<connVars, writeVars, readVars, server, sNext, expect, sGot,
                   faultVars>>

ServerRead ==
    /\ \E pkt \in held :
          /\ pkt.id = expect
          /\ sGot' = sGot \o pkt.data
          /\ held' = held \ {pkt}
    /\ expect' = expect + 1
    /\ UNCHANGED <<connVars, writeVars, readVars, server, sendVars, netVars,
                   faultVars>>

-----------------------------------------------------------------------------
(* Faults.                                                                 *)

Fault(stillCalm) ==
    /\ faults < MaxFaults /\ Listening
    /\ faults' = faults + 1
    /\ calm' = (calm /\ stillCalm)
    /\ UNCHANGED <<connVars, writeVars, readVars, serverVars>>

ServerResend(id) ==
    /\ Fault(FALSE)
    /\ id \in unacked
    /\ toClient' = Append(toClient,
                          IF id = 0 THEN ServerPacket("hardResetServer", 0, <<>>, {0})
                                    ELSE ServerPacket("control", id, ServerData(id), {}))
    /\ UNCHANGED toServer

\* The packet in place i is lost, arrives twice, or falls to the back.
Disturbed(q, i) ==
    {RemoveAt(q, i), Append(q, q[i]), Append(RemoveAt(q, i), q[i])}

Disturb ==
    /\ Fault(FALSE)
    /\ \/ \E i \in DOMAIN toServer : toServer' \in Disturbed(toServer, i)
          /\ UNCHANGED toClient
       \/ \E i \in DOMAIN toClient : toClient' \in Disturbed(toClient, i)
          /\ UNCHANGED toServer

\* Packets the client must not take for its own: from another session, for
\* another client, of the data channel; and the server asking for new keys.
Strays ==
    {Packet("control", OtherSID, {}, NoSID, 1, <<0>>),
     Packet("control", ServerSID, {1}, OtherSID, 1, <<0>>),
     Packet("softReset", OtherSID, {}, NoSID, 1, <<>>),
     Packet("data", OtherSID, {}, NoSID, 1, <<0>>)}

Stray ==
    /\ Fault(TRUE)
    /\ \E pkt \in Strays : toClient' = Append(toClient, pkt)
    /\ UNCHANGED toServer

ServerRekeys ==
    /\ Fault(TRUE)
    /\ server = "open"
    /\ toClient' = Append(toClient, ServerPacket("softReset", 0, <<>>, {}))
    /\ UNCHANGED toServer

-----------------------------------------------------------------------------
Next ==
    \/ DialReset \/ DialReply \/ DialTimeout
    \/ WriteChunk
    \/ ReceiveControl \/ ReceiveOther \/ ReceiveSoftReset
    \/ ReadTimeout \/ SocketFails \/ Close
    \/ \E n \in WriteSizes : Write(n)
    \/ \E n \in ReadSizes : Read(n)
    \/ ServerReset \/ ServerSend \/ ServerTake \/ ServerRead
    \/ \E id \in 0 .. Len(Ends) : ServerResend(id)
    \/ Disturb \/ Stray \/ ServerRekeys

Spec == Init /\ [][Next]_vars

-----------------------------------------------------------------------------
PacketType ==
    [op : {"hardResetClient", "hardResetServer", "control", "ack", "softReset", "data"},
     sid : {LocalSID, ServerSID, OtherSID}, acks : SUBSET Nat, id : Nat,
     data : Seq(Nat), remote : {LocalSID, ServerSID, OtherSID, NoSID}]

TypeOK ==
    /\ conn \in {"new", "reset", "open", "failed", "closed"}
    /\ remoteSID \in {NoSID, LocalSID, ServerSID, OtherSID}
    /\ nextID \in Nat /\ wrote \in 0 .. asked /\ asked \in 0 .. ClientBytes
    /\ reader \in {0} \cup ReadSizes
    /\ readBuf \in Seq(Nat) /\ got \in Seq(Nat)
    /\ server \in {"idle", "open"}
    /\ unacked \subseteq 0 .. sNext - 1 /\ sNext \in 0 .. Len(Ends) + 1
    /\ sNext = 0 <=> server = "idle"
    /\ expect \in Nat /\ held \subseteq PacketType /\ sGot \in Seq(Nat)
    /\ toServer \in Seq(PacketType) /\ toClient \in Seq(PacketType)
    /\ faults \in 0 .. MaxFaults /\ calm \in BOOLEAN

\* Whatever the network does to Write's packets, the server never puts
\* together anything but a beginning of what TLS wrote: ids are given in
\* order and never twice.
WrittenInOrder == sGot = Bytes(0, Len(sGot)) /\ Len(sGot) <= wrote

\* On a network that keeps every packet once and in order, Read returns a
\* beginning of what the server sent and nothing of another session.
CalmStreamIsPrefix ==
    calm => /\ got \o readBuf = Bytes(0, Len(got) + Len(readBuf))
            /\ Len(got) + Len(readBuf) <= Before(sNext)

\* What the server will not send again has reached TLS, or waits in readBuf
\* for it, on every network: an ack stands for a packet that was taken.
AckedIsDelivered ==
    \A id \in (1 .. sNext - 1) \ unacked :
        ToSet(ServerData(id)) \subseteq ToSet(got \o readBuf)

-----------------------------------------------------------------------------
(* The inductive invariant.                                                *)

\* The packets of Write that are under way or held.
Written == held \cup {pkt \in ToSet(toServer) : pkt.op = "control"}

Start(pkt) == pkt.data[1] - 1
End(pkt) == Start(pkt) + Len(pkt.data)

\* Each carries a piece of what was written, under an id already given.
PieceOf(pkt) ==
    /\ pkt.id < nextID /\ pkt.data # <<>>
    /\ pkt.data = Bytes(Start(pkt), Len(pkt.data))
    /\ Start(pkt) \in Nat /\ End(pkt) <= wrote

\* Consecutive ids carry consecutive pieces, up to what was written last, and
\* the id the server takes next goes on where it stopped.
PiecesFit ==
    /\ \A p \in Written :
          /\ PieceOf(p)
          /\ p.id + 1 = nextID => End(p) = wrote
          /\ p.id = expect => Start(p) = Len(sGot)
    /\ \A p, q \in Written : p.id + 1 = q.id => End(p) = Start(q)
    /\ expect <= 1 \/ expect <= nextID
    /\ expect = nextID => Len(sGot) = wrote
    /\ nextID = 0 => wrote = 0
    /\ conn \in {"new", "reset"} \/ server = "idle" => nextID = 0
    /\ conn = "open" => nextID > 0

\* What the server sent on its stream to this client.
Own(pkt) == pkt.op = "control" /\ pkt.sid = ServerSID /\ pkt.remote \in {NoSID, LocalSID}

Stream == got \o readBuf
Delivered(id) == ToSet(ServerData(id)) \subseteq ToSet(Stream)

\* The client knows the server's session, and only its packets are its own.
OwnIsSent ==
    /\ conn = "open" => remoteSID = ServerSID
    /\ \A pkt \in ToSet(toClient) :
          /\ Own(pkt) => pkt.id \in 1 .. sNext - 1 /\ pkt.data = ServerData(pkt.id)
          /\ pkt.op = "hardResetServer" =>
                pkt.sid = ServerSID /\ pkt.id = 0 /\ server = "open"

\* Read waits only with an empty buffer.
WaitsEmpty == reader > 0 => readBuf = <<>> /\ conn = "open"

\* An ack under way stands for a packet that was taken.
AcksAreTrue ==
    \A pkt \in ToSet(toServer) : \A id \in pkt.acks :
        id = 0 \/ (id \in 1 .. sNext - 1 /\ Delivered(id))

\* On a calm network the packets before n were read and those from n on are
\* under way, in order.
CalmFrom(n) ==
    /\ n = 1 \/ n <= sNext
    /\ Stream = Bytes(0, Before(n))
    /\ Listening =>
        /\ \A i \in DOMAIN toClient : Own(toClient[i]) => toClient[i].id >= n
        /\ \A i, j \in DOMAIN toClient :
              i < j /\ Own(toClient[i]) /\ Own(toClient[j]) =>
                  toClient[i].id < toClient[j].id
        /\ \A id \in n .. sNext - 1 :
              \E i \in DOMAIN toClient : Own(toClient[i]) /\ toClient[i].id = id

InOrderWhenCalm == calm => \E n \in 1 .. Len(Ends) + 1 : CalmFrom(n)

IInv ==
    /\ TypeOK /\ WrittenInOrder /\ PiecesFit
    /\ OwnIsSent /\ WaitsEmpty /\ AcksAreTrue /\ AckedIsDelivered
    /\ InOrderWhenCalm
=============================================================================
