---------------------------- MODULE SessionSetup ----------------------------
(***************************************************************************)
(* Setting up a session with a gateway.  Five functions make the same      *)
(* calls in (almost) the same order and stop at different points; the      *)
(* variable flavour says which one runs:                                   *)
(*                                                                         *)
(*   "live"  establishLiveVPN    hands an open session over                *)
(*   "tls"   cmdTLSProbe         stops after the handshake                 *)
(*   "key"   cmdKeyProbe         after the key exchange                    *)
(*   "push"  cmdPushProbe        after the server's configuration          *)
(*   "data"  cmdDataProbe        after one DNS query through the tunnel    *)
(*                                                                         *)
(* The choice of the endpoint is EndpointSelection's, the transport below  *)
(* TLS is ControlChannel's, the identity file is StoredFiles' subject.     *)
(* The provider's web server and the gateway are the environment: they     *)
(* present what they like, in any order, or nothing at all.  A deadline    *)
(* on the socket is all that ends a read.                                  *)
(***************************************************************************)
EXTENDS EndpointSelection

CONSTANTS Flavours,     \* the functions considered
          Authorities,  \* certificate authorities
          Messages,     \* control messages a server may send
          Addresses,    \* IPv4 addresses in options, as opposed to other text
          Peers,        \* values that fit a peer id of 24 bits
          TxIDs,        \* DNS transaction ids are below this (2^16)
          MaxMessages,  \* control messages read before giving up, 16
          MaxReads      \* datagrams read while waiting for the answer, 40

IsPush(m) == m.kind = "PUSH_REPLY"
Aborts(m) == m.kind \in {"AUTH_FAILED", "RESTART", "HALT"}

ASSUME SetupAssumption ==
    /\ MaxMessages \in Nat \ {0} /\ MaxReads \in Nat \ {0}
    /\ TxIDs \in Nat /\ TxIDs > 1
    /\ Flavours \subseteq {"live", "tls", "key", "push", "data"}

\* A push reply is a list of options, each a name and a value; what ParseIP
\* and ParseUint accept is not empty.
Options == UNION {Range(m.opts) : m \in {m \in Messages : IsPush(m)}}

ASSUME MessageAssumption ==
    /\ \A m \in Messages : IsPush(m) => m.opts \in Seq(Options)
    /\ \A o \in Options : o = [name |-> o.name, value |-> o.value]
    /\ "" \notin Addresses /\ "" \notin Peers

VARIABLES flavour,
          todo,       \* the calls still to be made, the current one first
          pc,         \* "run" or "returned"
          failed,     \* the function returns an error
          udp,        \* the control connection's socket
          deadline,   \* of the socket: "none", "set", "passed"
          published,  \* the authority whose fingerprint provider.json has
          pinned,     \* trust.CA
          cert,       \* what the gateway presented: [issuer, cn, names]
          secretOut,  \* the client's key material has been written
          heard,      \* control messages read
          session,    \* the pushedSession
          txid,       \* of the DNS query, 0 before it
          reads,      \* datagrams read while waiting for its answer
          answered,   \* the answer to this very query was read
          proof       \* proof.TxID

netVars == <<udp, deadline>>
trustVars == <<published, pinned, cert, secretOut>>
queryVars == <<txid, reads, answered, proof>>
setupVars == <<flavour, todo, pc, failed, netVars, trustVars, heard, session,
               queryVars>>
vars == <<selectionVars, setupVars>>

-----------------------------------------------------------------------------
(* The calls each function makes.                                          *)

LiveCourse == <<"service", "select", "identity", "trust", "dial", "tls", "keyout",
                "keyin", "request", "reply", "parse", "handover">>
TLSCourse == <<"service", "select", "identity", "dial", "trust", "tls">>
KeyCourse == <<"service", "select", "identity", "trust", "dial", "tls", "keyout",
               "keyin">>
PushCourse == <<"service", "select", "identity", "trust", "dial", "tls", "keyout",
                "keyin", "request", "reply">>
DataCourse == <<"service", "select", "identity", "trust", "dial", "tls", "keyout",
                "keyin", "request", "reply", "parse", "query", "answer">>

Course == [live |-> LiveCourse, tls |-> TLSCourse, key |-> KeyCourse,
           push |-> PushCourse, data |-> DataCourse]

NoCert == [issuer |-> "none", cn |-> "none", names |-> {}]
NoSession == [ip |-> "", dns |-> "", peer |-> "", cipher |-> ""]

Init ==
    /\ SelectionInit
    /\ flavour \in Flavours
    /\ todo = Course[flavour] /\ pc = "run" /\ failed = FALSE
    /\ udp = "none" /\ deadline = "none"
    /\ published = "none" /\ pinned = "none" /\ cert = NoCert
    /\ secretOut = FALSE
    /\ heard = <<>> /\ session = NoSession
    /\ txid = 0 /\ reads = 0 /\ answered = FALSE /\ proof = 0

At(call) == pc = "run" /\ todo # <<>> /\ Head(todo) = call
Succeed == todo' = Tail(todo) /\ UNCHANGED failed
Fail == todo' = <<>> /\ failed' = TRUE

\* A deferred function closes the socket unless the session is handed over.
Return ==
    /\ pc = "run" /\ todo = <<>>
    /\ pc' = "returned"
    /\ udp' = IF udp = "open" /\ (failed \/ flavour # "live") THEN "closed" ELSE udp
    /\ UNCHANGED <<selectionVars, flavour, todo, failed, deadline, trustVars,
                   heard, session, queryVars>>

-----------------------------------------------------------------------------
(* Before the gateway.                                                     *)

\* API.service: the list of gateways, or an error (or an empty list).
Service ==
    /\ At("service")
    /\ Succeed \/ Fail
    /\ UNCHANGED <<selectionVars, flavour, pc, netVars, trustVars, heard, session,
                   queryVars>>

SelectStarts ==
    /\ At("select")
    /\ SelectionStarts
    /\ UNCHANGED setupVars

SelectRuns ==
    /\ At("select")
    /\ SelectionStep
    /\ UNCHANGED setupVars

SelectReturns ==
    /\ At("select")
    /\ SelectionReturns
    /\ IF stage = "chosen" THEN Succeed ELSE Fail
    /\ UNCHANGED <<flavour, pc, netVars, trustVars, heard, session, queryVars>>

\* loadOrFetchIdentity
LoadIdentity ==
    /\ At("identity")
    /\ Succeed \/ Fail
    /\ UNCHANGED <<selectionVars, flavour, pc, netVars, trustVars, heard, session,
                   queryVars>>

\* Mutant: the downloaded certificate is not compared with the fingerprint.
LoadTrustUnpinned ==
    /\ At("trust")
    /\ \E fp, ca \in Authorities :
          /\ published' = fp
          /\ pinned' = ca /\ Succeed
    /\ UNCHANGED <<selectionVars, flavour, pc, netVars, cert, secretOut, heard,
                   session, queryVars>>

\* loadProviderTrust: a fingerprint is published and a certificate downloaded,
\* each over a request of its own; they must belong together.  Anything else
\* about either that is refused is a failure like that of the request.
LoadTrust ==
    /\ At("trust")
    /\ \E fp, ca \in Authorities :
          /\ published' = fp
          /\ \/ ca = fp /\ pinned' = ca /\ Succeed
             \/ UNCHANGED pinned /\ Fail
    /\ UNCHANGED <<selectionVars, flavour, pc, netVars, cert, secretOut, heard,
                   session, queryVars>>

-----------------------------------------------------------------------------
(* The gateway.                                                            *)

\* Mutant: no deadline is set.
DialNoDeadline ==
    /\ At("dial")
    /\ \/ udp' = "open" /\ UNCHANGED deadline /\ Succeed
       \/ UNCHANGED netVars /\ Fail
    /\ UNCHANGED <<selectionVars, flavour, pc, trustVars, heard, session, queryVars>>

\* dialControlUDP, which closes its socket when it fails, and cc.SetDeadline.
Dial ==
    /\ At("dial")
    /\ \/ udp' = "open" /\ deadline' = "set" /\ Succeed
       \/ UNCHANGED netVars /\ Fail
    /\ UNCHANGED <<selectionVars, flavour, pc, trustVars, heard, session, queryVars>>

\* A host is its first label and its domain; the label is the CN that is
\* expected, and VerifyHostname looks for the host among the SANs.
expectedCN(host) == host[1]
Names(c, host) == c.cn = expectedCN(host) \/ host \in c.names

\* The connection's chain and name: the roots hold the pinned authority only,
\* and the CN or a SAN must be the chosen gateway's.
VerifyConnection(c) ==
    c.issuer = pinned /\ Names(c, UDPEndpoints[chosen].host)

Hosts == {UDPEndpoints[i].host : i \in Jobs}
Certificates == [issuer : Authorities, cn : {expectedCN(h) : h \in Hosts},
                 names : SUBSET Hosts]

Handshake ==
    /\ At("tls") /\ deadline # "passed"
    /\ cert' \in Certificates
    /\ IF VerifyConnection(cert') THEN Succeed ELSE Fail
    /\ UNCHANGED <<selectionVars, flavour, pc, netVars, published, pinned,
                   secretOut, heard, session, queryVars>>

\* randomClientKeySource, marshalClientKeyMethod, tc.Write
SendKeyMethod ==
    /\ At("keyout")
    /\ \/ deadline # "passed" /\ secretOut' = TRUE /\ Succeed
       \/ UNCHANGED secretOut /\ Fail
    /\ UNCHANGED <<selectionVars, flavour, pc, netVars, published, pinned, cert,
                   heard, session, queryVars>>

\* readServerKeyMethod: the server's half, or one that is refused.
ReadKeyMethod ==
    /\ At("keyin") /\ deadline # "passed"
    /\ Succeed \/ Fail
    /\ UNCHANGED <<selectionVars, flavour, pc, netVars, trustVars, heard, session,
                   queryVars>>

\* tc.Write("PUSH_REQUEST")
RequestPush ==
    /\ At("request")
    /\ (deadline # "passed" /\ Succeed) \/ Fail
    /\ UNCHANGED <<selectionVars, flavour, pc, netVars, trustVars, heard, session,
                   queryVars>>

Reading == \E call \in {"tls", "keyin", "reply", "answer"} : At(call)

\* The handshake or a read ends with the deadline ...
ReadFails ==
    /\ Reading
    /\ deadline = "passed"
    /\ Fail
    /\ UNCHANGED <<selectionVars, flavour, pc, netVars, trustVars, heard, session,
                   queryVars>>

\* ... or earlier, with an error of the connection or a done context.
ReadBreaks ==
    /\ Reading /\ deadline # "passed"
    /\ Fail
    /\ UNCHANGED <<selectionVars, flavour, pc, netVars, trustVars, heard, session,
                   queryVars>>

-----------------------------------------------------------------------------
(* The configuration the server pushes.                                    *)

\* Mutant: the first part of a reply is taken for all of it.
ReadFirstPushPart(m) ==
    /\ At("reply") /\ deadline # "passed"
    /\ heard' = Append(heard, m)
    /\ IF Aborts(m) THEN Fail
       ELSE IF IsPush(m) THEN Succeed
       ELSE IF Len(heard') = MaxMessages THEN Fail
       ELSE UNCHANGED <<todo, failed>>
    /\ UNCHANGED <<selectionVars, flavour, pc, netVars, trustVars, session,
                   queryVars>>

\* One turn of readPushReply: parts are collected until one does not announce
\* another; what is neither a part nor an end is skipped.
ReadPushReply(m) ==
    /\ At("reply") /\ deadline # "passed"
    /\ heard' = Append(heard, m)
    /\ IF Aborts(m) THEN Fail
       ELSE IF IsPush(m) /\ ~m.more THEN Succeed
       ELSE IF Len(heard') = MaxMessages THEN Fail
       ELSE UNCHANGED <<todo, failed>>
    /\ UNCHANGED <<selectionVars, flavour, pc, netVars, trustVars, session,
                   queryVars>>

\* The options of all parts in order.
flattenPushOptions(ms) ==
    FlattenSeq([i \in DOMAIN ms |-> IF IsPush(ms[i]) THEN ms[i].opts ELSE <<>>])

\* The value of the first of these options, "" for none or for one without.
FirstValue(opts, at) == IF at = {} THEN "" ELSE opts[Min(at)].value

findPushOption(opts, name) ==
    FirstValue(opts, {i \in DOMAIN opts : opts[i].name = name})

\* The first DNS server that is an IPv4 address counts, of the others the
\* first option of the name, whatever its value.
parsePushedSession(opts) ==
    [ip |-> findPushOption(opts, "ifconfig"),
     dns |-> FirstValue(opts, {i \in DOMAIN opts : /\ opts[i].name = "dns"
                                                   /\ opts[i].value \in Addresses}),
     peer |-> findPushOption(opts, "peer-id"),
     cipher |-> findPushOption(opts, "cipher")]

Usable(s) == /\ s.ip \in Addresses /\ s.dns # ""
             /\ s.peer \in Peers /\ s.cipher = "AES-256-GCM"

ParsePushedSession ==
    /\ At("parse")
    /\ LET s == parsePushedSession(flattenPushOptions(heard))
       IN  IF Usable(s) THEN session' = s /\ Succeed ELSE UNCHANGED session /\ Fail
    /\ UNCHANGED <<selectionVars, flavour, pc, netVars, trustVars, heard, queryVars>>

\* cc.SetDeadline(time.Time{}); cleanup = false
HandOver ==
    /\ At("handover")
    /\ deadline' = "none"
    /\ Succeed
    /\ UNCHANGED <<selectionVars, flavour, pc, udp, trustVars, heard, session,
                   queryVars>>

-----------------------------------------------------------------------------
(* The DNS query of cmdDataProbe.                                          *)

\* Mutant: any id is used as it comes.
QueryIDAny(random) == random

\* buildDNSQuery: 0 stands for "no answer" below and is not used.
QueryID(random) == IF random = 0 THEN 1 ELSE random

SendQuery ==
    /\ At("query")
    /\ \/ /\ \E r \in 0 .. TxIDs - 1 : txid' = QueryID(r)
          /\ deadline' = "set"
          /\ Succeed
       \/ UNCHANGED <<txid, deadline>> /\ Fail
    /\ UNCHANGED <<selectionVars, flavour, pc, udp, trustVars, heard, session,
                   reads, answered, proof>>

\* parseIPv4DNSReply: the id and the port, which follows from it, are the query's.
AnswersQuery(d) == d.dns /\ d.id = txid

\* A datagram: control traffic, one that does not decrypt, a keepalive and
\* other packets are skipped, and so is the answer to another query.  When the
\* loop is over, proof.TxID tells whether the right one came.
ReadDatagram ==
    /\ At("answer") /\ deadline # "passed"
    /\ reads' = reads + 1
    /\ \E d \in [dns : {TRUE}, id : 0 .. TxIDs - 1] \cup [dns : {FALSE}, id : {0}] :
          /\ answered' = AnswersQuery(d)
          /\ proof' = IF answered' THEN d.id ELSE 0
          /\ IF answered' \/ reads' = MaxReads
             THEN IF proof' = 0 THEN Fail ELSE Succeed
             ELSE UNCHANGED <<todo, failed>>
    /\ UNCHANGED <<selectionVars, flavour, pc, netVars, trustVars, heard, session,
                   txid>>

-----------------------------------------------------------------------------
DeadlinePasses ==
    /\ pc = "run" /\ deadline = "set"
    /\ deadline' = "passed"
    /\ UNCHANGED <<selectionVars, flavour, todo, pc, failed, udp, trustVars, heard,
                   session, queryVars>>

\* A signal, or the 35 s of the Windows start; the probes' context is the
\* background.
ContextDone ==
    /\ flavour = "live" /\ pc = "run" /\ ~ctxDone
    /\ ctxDone' = TRUE
    /\ UNCHANGED <<stage, localVars, chosen, setupVars>>

Own == Service \/ SelectStarts \/ SelectRuns \/ SelectReturns \/ LoadIdentity
       \/ LoadTrust \/ Dial \/ SendKeyMethod \/ RequestPush \/ ParsePushedSession
       \/ HandOver \/ SendQuery \/ ReadFails \/ Return

Peer == Handshake \/ ReadKeyMethod \/ (\E m \in Messages : ReadPushReply(m))
        \/ ReadDatagram \/ ReadBreaks

Next == Own \/ Peer \/ DeadlinePasses \/ ContextDone

\* The function goes on when it can: its HTTP requests and the resets of the
\* selection have timeouts of their own.  The gateway owes nothing.
Spec == Init /\ [][Next]_vars /\ WF_vars(Own) /\ WF_vars(DeadlinePasses)

-----------------------------------------------------------------------------
Calls == {"service", "select", "identity", "trust", "dial", "tls", "keyout",
          "keyin", "request", "reply", "parse", "handover", "query", "answer"}

TypeOK ==
    /\ flavour \in Flavours /\ todo \in Seq(Calls)
    /\ pc \in {"run", "returned"} /\ failed \in BOOLEAN
    /\ udp \in {"none", "open", "closed"} /\ deadline \in {"none", "set", "passed"}
    /\ published \in Authorities \cup {"none"} /\ pinned \in Authorities \cup {"none"}
    /\ cert \in Certificates \cup {NoCert}
    /\ secretOut \in BOOLEAN /\ heard \in Seq(Messages)
    /\ txid \in Nat /\ reads \in Nat /\ answered \in BOOLEAN /\ proof \in Nat

\* Whatever is served in place of the provider's certificate or the gateway,
\* and in whichever order the function loads and dials: key material is
\* written only to the holder of a certificate from the authority whose
\* fingerprint was published, in the name of the endpoint that was chosen or
\* under its first label, which a host of another domain may share.
SecretsOnlyToGateway ==
    secretOut => /\ cert.issuer = published
                 /\ Names(cert, UDPEndpoints[chosen].host)

\* A message after which the reply is still to come or to be continued, and
\* an option that was in some part of it.
GoesOn(m) == ~Aborts(m) /\ (IsPush(m) => m.more)
WasPushed(name, value) ==
    \E i \in DOMAIN heard : /\ IsPush(heard[i])
                            /\ [name |-> name, value |-> value] \in Range(heard[i].opts)

SessionWasPushed ==
    /\ WasPushed("ifconfig", session.ip) /\ WasPushed("dns", session.dns)
    /\ WasPushed("peer-id", session.peer) /\ WasPushed("cipher", session.cipher)

\* A configuration is accepted only when all its parts are here and the server
\* has not taken anything back in between, and every value of the session is
\* one the server sent under that name.
AcceptedReplyIsWhole ==
    heard # <<>> /\ ~failed /\ ~At("reply") =>
        /\ IsPush(Last(heard)) /\ ~Last(heard).more
        /\ \A i \in 1 .. Len(heard) - 1 : GoesOn(heard[i])
        /\ session # NoSession => SessionWasPushed

\* The data probe reports success exactly when the answer to its own query
\* came back through the tunnel, also for the id a random source may give.
ProbeReportsTruth ==
    pc = "returned" /\ flavour = "data" => (~failed <=> answered)

\* Against a gateway that may fall silent at any point the function returns,
\* and then the socket is either handed over open and without a deadline that
\* would fire later, or not open.
SetupEndsClean ==
    <>[](pc = "returned" /\ IF flavour = "live" /\ ~failed
                            THEN udp = "open" /\ deadline = "none"
                            ELSE udp # "open")

-----------------------------------------------------------------------------
(* The inductive invariant behind the first three.                         *)

\* The calls that are still to be made, and their order: nothing that decides
\* whom to trust comes after the handshake, the reply is read before it is
\* parsed, the answer is the last thing waited for.
Pending == {todo[i] : i \in DOMAIN todo}

MayPrecede(a, b) ==
    /\ a \in {"tls", "keyout"} => b \notin {"select", "trust", "tls"}
    /\ a \in {"reply", "parse"} => b # "reply"
    /\ a = "parse" => b # "parse"
    /\ a # "answer"

InOrder == \A i, j \in DOMAIN todo : i < j => MayPrecede(todo[i], todo[j])

Verified == /\ cert.issuer = published
            /\ Names(cert, UDPEndpoints[chosen].host)

\* What was downloaded is what was published; who is about to get the key
\* material, or has it, was verified and cannot be replaced.
TrustComesFirst ==
    /\ "keyout" \in Pending /\ "trust" \notin Pending => pinned = published
    /\ secretOut \/ ("keyout" \in Pending /\ "tls" \notin Pending) =>
          Verified /\ Pending \cap {"select", "trust", "tls"} = {}

\* Until the reply is complete, every part announces another.
ReplyIsCollected ==
    /\ "reply" \in Pending => /\ heard # <<>> => Head(todo) = "reply"
                              /\ \A i \in DOMAIN heard : GoesOn(heard[i])
                              /\ session = NoSession
    /\ heard # <<>> /\ ~failed /\ "reply" \notin Pending =>
          /\ IsPush(Last(heard)) /\ ~Last(heard).more
          /\ \A i \in 1 .. Len(heard) - 1 : GoesOn(heard[i])
    /\ session # NoSession => SessionWasPushed

\* The query has an id before its answer is read, and the answer ends the probe.
AnswerComesLast ==
    /\ "answer" \in Pending /\ "query" \notin Pending => txid # 0
    /\ answered => todo = <<>> /\ ~failed
    /\ flavour = "data" /\ ~failed => answered \/ "answer" \in Pending
    /\ failed => todo = <<>>
    /\ pc = "returned" => todo = <<>>

IInv == TypeOK /\ InOrder /\ TrustComesFirst /\ ReplyIsCollected /\ AnswerComesLast
=============================================================================
