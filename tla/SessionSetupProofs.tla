------------------------- MODULE SessionSetupProofs -------------------------
(***************************************************************************)
(* Proofs about SessionSetup for all five functions, any gateways, any     *)
(* authorities, any messages and any limits: its type invariant, the       *)
(* inductive invariant IInv, and from it that key material goes only to    *)
(* the gateway that was chosen and verified, that a configuration is taken *)
(* only when it is whole and says what the server sent, and that the data  *)
(* probe reports the truth; and from SelectionInv of EndpointSelection     *)
(* that no single lucky packet chooses the gateway.                        *)
(***************************************************************************)
EXTENDS SessionSetup, SequenceTheorems, FiniteSetTheorems, WellFoundedInduction, TLAPS

USE DEF netVars, trustVars, queryVars, setupVars, At, Succeed, Fail

-----------------------------------------------------------------------------
(* The calls still to be made.                                             *)

\* A function that fails makes no more calls.
LEMMA NoCallsLeft ==
  ASSUME todo' = <<>>
  PROVE  todo' \in Seq(Calls) /\ InOrder' /\ Pending' = {}
<1>1. DOMAIN todo' = {}
  OBVIOUS
<1>2. QED
  BY <1>1 DEF InOrder, Pending

\* A call that succeeds is off the list, and the others may follow it.
LEMMA OneCallLess ==
  ASSUME todo \in Seq(Calls), todo # <<>>, InOrder, todo' = Tail(todo)
  PROVE  /\ todo' \in Seq(Calls) /\ InOrder'
         /\ Pending = {Head(todo)} \cup Pending'
         /\ \A c \in Pending' : MayPrecede(Head(todo), c)
<1>1. /\ todo' \in Seq(Calls)
      /\ DOMAIN todo' = 1 .. Len(todo) - 1 /\ DOMAIN todo = 1 .. Len(todo)
      /\ Len(todo) \in Nat /\ Len(todo) > 0
      /\ \A i \in DOMAIN todo' : todo'[i] = todo[i + 1]
      /\ Head(todo) = todo[1]
  OBVIOUS
<1>2. InOrder'
  BY <1>1 DEF InOrder
<1>3. \A c \in Pending' : c \in Pending /\ MayPrecede(Head(todo), c)
  BY <1>1 DEF InOrder, Pending
<1>4. Head(todo) \in Pending
  BY <1>1 DEF Pending
<1>5. ASSUME NEW c \in Pending, c # Head(todo) PROVE c \in Pending'
  <2>1. PICK i \in DOMAIN todo : c = todo[i]
    BY DEF Pending
  <2>2. i - 1 \in DOMAIN todo' /\ todo'[i - 1] = c
    BY <1>1, <1>5, <2>1
  <2>3. QED
    BY <2>2 DEF Pending
<1>6. QED
  BY <1>1, <1>2, <1>3, <1>4, <1>5

\* What the lists of the five functions have in common.
LEMMA Courses ==
  ASSUME NEW f \in Flavours, todo = Course[f]
  PROVE  /\ todo \in Seq(Calls) /\ InOrder
         /\ "keyout" \in Pending => {"tls", "trust"} \subseteq Pending
         /\ "answer" \in Pending => "query" \in Pending
         /\ f = "data" => "answer" \in Pending
<1> USE DEF Course
<1>1. CASE f = "live"
  <2>1. Len(todo) = 12 /\ DOMAIN todo = 1 .. 12
    BY <1>1 DEF LiveCourse
  <2>2. todo \in Seq(Calls)
    BY <1>1 DEF LiveCourse, Calls
  <2>3. /\ todo[1] = "service" /\ todo[2] = "select" /\ todo[3] = "identity"
        /\ todo[4] = "trust" /\ todo[5] = "dial" /\ todo[6] = "tls"
        /\ todo[7] = "keyout" /\ todo[8] = "keyin" /\ todo[9] = "request"
        /\ todo[10] = "reply" /\ todo[11] = "parse" /\ todo[12] = "handover"
    BY <1>1 DEF LiveCourse
  <2>4. InOrder
    BY <2>1, <2>3 DEF InOrder, MayPrecede
  <2>5. QED
    BY <1>1, <2>1, <2>2, <2>3, <2>4 DEF Pending
<1>2. CASE f = "tls"
  <2>1. Len(todo) = 6 /\ DOMAIN todo = 1 .. 6
    BY <1>2 DEF TLSCourse
  <2>2. todo \in Seq(Calls)
    BY <1>2 DEF TLSCourse, Calls
  <2>3. /\ todo[1] = "service" /\ todo[2] = "select" /\ todo[3] = "identity"
        /\ todo[4] = "dial" /\ todo[5] = "trust" /\ todo[6] = "tls"
    BY <1>2 DEF TLSCourse
  <2>4. InOrder
    BY <2>1, <2>3 DEF InOrder, MayPrecede
  <2>5. QED
    BY <1>2, <2>1, <2>2, <2>3, <2>4 DEF Pending
<1>3. CASE f = "key"
  <2>1. Len(todo) = 8 /\ DOMAIN todo = 1 .. 8
    BY <1>3 DEF KeyCourse
  <2>2. todo \in Seq(Calls)
    BY <1>3 DEF KeyCourse, Calls
  <2>3. /\ todo[1] = "service" /\ todo[2] = "select" /\ todo[3] = "identity"
        /\ todo[4] = "trust" /\ todo[5] = "dial" /\ todo[6] = "tls"
        /\ todo[7] = "keyout" /\ todo[8] = "keyin"
    BY <1>3 DEF KeyCourse
  <2>4. InOrder
    BY <2>1, <2>3 DEF InOrder, MayPrecede
  <2>5. QED
    BY <1>3, <2>1, <2>2, <2>3, <2>4 DEF Pending
<1>4. CASE f = "push"
  <2>1. Len(todo) = 10 /\ DOMAIN todo = 1 .. 10
    BY <1>4 DEF PushCourse
  <2>2. todo \in Seq(Calls)
    BY <1>4 DEF PushCourse, Calls
  <2>3. /\ todo[1] = "service" /\ todo[2] = "select" /\ todo[3] = "identity"
        /\ todo[4] = "trust" /\ todo[5] = "dial" /\ todo[6] = "tls"
        /\ todo[7] = "keyout" /\ todo[8] = "keyin" /\ todo[9] = "request"
        /\ todo[10] = "reply"
    BY <1>4 DEF PushCourse
  <2>4. InOrder
    BY <2>1, <2>3 DEF InOrder, MayPrecede
  <2>5. QED
    BY <1>4, <2>1, <2>2, <2>3, <2>4 DEF Pending
<1>5. CASE f = "data"
  <2>1. Len(todo) = 13 /\ DOMAIN todo = 1 .. 13
    BY <1>5 DEF DataCourse
  <2>2. todo \in Seq(Calls)
    BY <1>5 DEF DataCourse, Calls
  <2>3. /\ todo[1] = "service" /\ todo[2] = "select" /\ todo[3] = "identity"
        /\ todo[4] = "trust" /\ todo[5] = "dial" /\ todo[6] = "tls"
        /\ todo[7] = "keyout" /\ todo[8] = "keyin" /\ todo[9] = "request"
        /\ todo[10] = "reply" /\ todo[11] = "parse" /\ todo[12] = "query"
        /\ todo[13] = "answer"
    BY <1>5 DEF DataCourse
  <2>4. InOrder
    BY <2>1, <2>3 DEF InOrder, MayPrecede
  <2>5. QED
    BY <1>5, <2>1, <2>2, <2>3, <2>4 DEF Pending
<1>6. QED
  BY <1>1, <1>2, <1>3, <1>4, <1>5, SetupAssumption

-----------------------------------------------------------------------------
(* Types.                                                                  *)

\* Every step leaves the list as it is, takes its first call off, or empties it.
LEMMA ListMoves ==
  ASSUME TypeOK, [Next]_vars
  PROVE  \/ UNCHANGED <<todo, failed>>
         \/ pc = "run" /\ todo # <<>> /\ Succeed
         \/ pc = "run" /\ todo # <<>> /\ Fail
BY DEF Next, Own, Peer, vars, Service, SelectStarts, SelectRuns, SelectReturns,
       LoadIdentity, LoadTrust, Dial, SendKeyMethod, RequestPush, ParsePushedSession,
       HandOver, SendQuery, ReadFails, Return, Handshake, ReadKeyMethod, ReadPushReply,
       ReadDatagram, ReadBreaks, Reading, DeadlinePasses, ContextDone

\* Every step keeps the variables of the set-up in their types.
LEMMA TypeStep == TypeOK /\ [Next]_vars => TypeOK'
<1> SUFFICES ASSUME TypeOK, [Next]_vars PROVE TypeOK'
  OBVIOUS
<1> USE DEF TypeOK
<1>1. todo' \in Seq(Calls) /\ failed' \in BOOLEAN
  <2>1. CASE UNCHANGED <<todo, failed>>
    BY <2>1
  <2>2. CASE todo # <<>> /\ Succeed
    BY <2>2
  <2>3. CASE Fail
    BY <2>3
  <2>4. QED
    BY <2>1, <2>2, <2>3, ListMoves
<1> HIDE DEF Succeed, Fail
<1>2. CASE Service \/ SelectStarts \/ SelectRuns \/ SelectReturns \/ LoadIdentity \/ Return
  BY <1>1, <1>2 DEF Service, SelectStarts, SelectRuns, SelectReturns, LoadIdentity, Return
<1>3. CASE LoadTrust \/ Dial \/ HandOver \/ SendKeyMethod \/ RequestPush \/ ReadKeyMethod
  BY <1>1, <1>3 DEF LoadTrust, Dial, HandOver, SendKeyMethod, RequestPush, ReadKeyMethod
<1>4. CASE Handshake \/ ReadFails \/ ReadBreaks \/ ParsePushedSession
  BY <1>1, <1>4 DEF Handshake, ReadFails, ReadBreaks, ParsePushedSession
<1>5. ASSUME NEW m \in Messages, ReadPushReply(m) PROVE TypeOK'
  <2>1. heard' \in Seq(Messages)
    BY <1>5 DEF ReadPushReply
  <2>2. QED
    BY <1>1, <1>5, <2>1 DEF ReadPushReply
<1>6. CASE SendQuery
  <2>1. txid' \in Nat
    BY <1>6, SetupAssumption DEF SendQuery, QueryID
  <2>2. QED
    BY <1>1, <1>6, <2>1 DEF SendQuery
<1>7. CASE ReadDatagram
  <2>1. PICK d \in [dns : {TRUE}, id : 0 .. TxIDs - 1] \cup [dns : {FALSE}, id : {0}] :
           answered' = AnswersQuery(d) /\ proof' = IF answered' THEN d.id ELSE 0
    BY <1>7 DEF ReadDatagram
  <2>2. answered' \in BOOLEAN
    BY <2>1, Zenon DEF AnswersQuery
  <2>3. d.id \in 0 .. TxIDs - 1 \/ d.id = 0
    <3>1. CASE d \in [dns : {TRUE}, id : 0 .. TxIDs - 1]
      BY <3>1, Zenon
    <3>2. CASE d \in [dns : {FALSE}, id : {0}]
      BY <3>2, Zenon
    <3>3. QED
      BY <3>1, <3>2, Zenon
  <2>4. d.id \in Nat
    BY <2>3, SetupAssumption
  <2>5. reads' \in Nat /\ proof' \in Nat
    BY <1>7, <2>1, <2>2, <2>4 DEF ReadDatagram
  <2>6. QED
    BY <1>1, <1>7, <2>2, <2>5 DEF ReadDatagram
<1>8. CASE DeadlinePasses \/ ContextDone \/ UNCHANGED vars
  BY <1>1, <1>8 DEF DeadlinePasses, ContextDone, vars
<1>9. QED
  BY <1>2, <1>3, <1>4, <1>5, <1>6, <1>7, <1>8 DEF Next, Own, Peer

LEMMA InitTyped == Init => TypeOK
<1> SUFFICES ASSUME Init PROVE TypeOK
  OBVIOUS
<1>1. todo \in Seq(Calls)
  BY Courses DEF Init
<1>2. heard \in Seq(Messages)
  BY DEF Init
<1>3. cert \in Certificates \cup {NoCert}
  BY DEF Init
<1>4. QED
  BY <1>1, <1>2, <1>3 DEF Init, TypeOK

\* The variables of a set-up keep their types.
THEOREM TypeCorrect == Spec => []TypeOK
<1>1. Init => TypeOK
  BY InitTyped
<1>2. QED
  BY <1>1, TypeStep, PTL DEF Spec

-----------------------------------------------------------------------------
(* The order of the calls.                                                 *)

\* What a step does to the calls that are still to be made.
LEMMA ListStep ==
  ASSUME TypeOK, InOrder, [Next]_vars
  PROVE  /\ InOrder'
         /\ \/ UNCHANGED <<todo, failed, Pending>>
            \/ /\ pc = "run" /\ todo # <<>> /\ Fail
               /\ Head(todo) \in Pending /\ Pending' = {}
            \/ /\ pc = "run" /\ todo # <<>> /\ Succeed
               /\ Pending = {Head(todo)} \cup Pending'
               /\ \A c \in Pending' : MayPrecede(Head(todo), c)
<1>1. CASE UNCHANGED <<todo, failed>>
  BY <1>1 DEF InOrder, Pending
<1>2. CASE pc = "run" /\ todo # <<>> /\ Succeed
  BY <1>2, OneCallLess DEF TypeOK
<1>3. CASE pc = "run" /\ todo # <<>> /\ Fail
  <2>1. Head(todo) \in Pending
    BY <1>3 DEF TypeOK, Pending
  <2>2. QED
    BY <1>3, <2>1, NoCallsLeft
<1>4. QED
  BY <1>1, <1>2, <1>3, ListMoves

\* A call that is neither the choice of the gateway nor one of the trust: it
\* leaves alone who is trusted.
LEMMA OtherCallsKeepTrust ==
  ASSUME TypeOK, InOrder, TrustComesFirst, [Next]_vars,
         UNCHANGED <<published, pinned, cert, secretOut, chosen>>,
         UNCHANGED todo \/ Head(todo) \notin {"trust", "tls"}
  PROVE  TrustComesFirst'
<1> HIDE DEF Succeed, Fail
<1>1. Pending' \subseteq Pending
  BY ListStep
<1>2. \A c \in {"trust", "tls"} : c \in Pending => c \in Pending' \/ Pending' = {}
  BY ListStep DEF Pending
<1>3. Verified' = Verified
  BY DEF Verified
<1>4. QED
  BY <1>1, <1>2, <1>3 DEF TrustComesFirst

\* The call that is being made is one of those still to be made.
LEMMA AtIsPending ==
  ASSUME TypeOK, NEW c, At(c) PROVE c \in Pending
BY DEF TypeOK, Pending

\* Trust is settled before the secret leaves, and stays settled.
LEMMA TrustStep ==
  ASSUME TypeOK, InOrder, TrustComesFirst, [Next]_vars
  PROVE  TrustComesFirst'
<1>1. CASE Service \/ SelectStarts \/ SelectReturns \/ LoadIdentity \/ Return \/ Dial
  BY <1>1, OtherCallsKeepTrust
     DEF Service, SelectStarts, SelectReturns, SelectionStarts, SelectionReturns,
         selectionVars, LoadIdentity, Return, Dial
<1>2. CASE RequestPush \/ ReadKeyMethod \/ ParsePushedSession \/ HandOver \/ SendQuery
  BY <1>2, OtherCallsKeepTrust
     DEF RequestPush, ReadKeyMethod, ParsePushedSession, HandOver, SendQuery, selectionVars
<1>3. CASE (\E m \in Messages : ReadPushReply(m)) \/ ReadDatagram
  BY <1>3, OtherCallsKeepTrust DEF ReadPushReply, ReadDatagram, selectionVars
<1>4. CASE DeadlinePasses \/ ContextDone \/ UNCHANGED vars
  BY <1>4, OtherCallsKeepTrust DEF DeadlinePasses, ContextDone, vars, selectionVars
<1>5. CASE SelectRuns
  <2>1. "select" \in Pending
    BY <1>5, AtIsPending DEF SelectRuns
  <2>2. UNCHANGED <<published, pinned, secretOut, Pending>>
    BY <1>5 DEF SelectRuns, Pending
  <2>3. QED
    BY <2>1, <2>2 DEF TrustComesFirst
<1>6. CASE ReadFails \/ ReadBreaks
  <2>1. /\ Pending' = {}
        /\ UNCHANGED <<published, pinned, cert, secretOut, chosen>>
    BY <1>6, NoCallsLeft DEF ReadFails, ReadBreaks, selectionVars
  <2>2. QED
    BY <2>1 DEF TrustComesFirst, Verified
<1>7. CASE LoadTrust
  <2>1. "trust" \in Pending /\ ~secretOut /\ UNCHANGED secretOut
    BY <1>7, AtIsPending DEF LoadTrust, TrustComesFirst
  <2>2. CASE Fail
    BY <2>1, <2>2, NoCallsLeft DEF TrustComesFirst
  <2>3. CASE pinned' = published' /\ Succeed
    <3>1. Pending = {"trust"} \cup Pending'
      BY <1>7, <2>3, OneCallLess DEF TypeOK, LoadTrust
    <3>2. QED
      BY <2>1, <2>3, <3>1 DEF TrustComesFirst
  <2>4. QED
    BY <1>7, <2>2, <2>3 DEF LoadTrust
<1>8. CASE Handshake
  <2>1. "tls" \in Pending /\ ~secretOut /\ UNCHANGED <<secretOut, published, pinned, chosen>>
    BY <1>8, AtIsPending DEF Handshake, TrustComesFirst, selectionVars
  <2>2. CASE Fail
    BY <2>1, <2>2, NoCallsLeft DEF TrustComesFirst
  <2>3. CASE VerifyConnection(cert') /\ Succeed
    <3>1. /\ Pending = {"tls"} \cup Pending'
          /\ \A c \in Pending' : c \notin {"select", "trust", "tls"}
      BY <1>8, <2>3, OneCallLess DEF TypeOK, Handshake, MayPrecede
    <3>2. "keyout" \in Pending' => Verified'
      BY <2>1, <2>3, <3>1 DEF TrustComesFirst, VerifyConnection, Verified
    <3>3. QED
      BY <2>1, <3>1, <3>2 DEF TrustComesFirst
  <2>4. QED
    BY <1>8, <2>2, <2>3 DEF Handshake
<1>9. CASE SendKeyMethod
  <2>1. "keyout" \in Pending /\ UNCHANGED <<published, pinned, cert, chosen>>
    BY <1>9, AtIsPending DEF SendKeyMethod, selectionVars
  <2>2. CASE secretOut' = secretOut /\ Fail
    BY <2>1, <2>2, NoCallsLeft DEF TrustComesFirst, Verified
  <2>3. CASE secretOut' = TRUE /\ Succeed
    <3>1. /\ Pending = {"keyout"} \cup Pending'
          /\ \A c \in Pending' : c \notin {"select", "trust", "tls"}
      BY <1>9, <2>3, OneCallLess DEF TypeOK, SendKeyMethod, MayPrecede
    <3>2. Verified'
      BY <2>1, <3>1 DEF TrustComesFirst, Verified
    <3>3. QED
      BY <2>1, <3>1, <3>2 DEF TrustComesFirst
  <2>4. QED
    BY <1>9, <2>2, <2>3 DEF SendKeyMethod
<1>10. QED
  BY <1>1, <1>2, <1>3, <1>4, <1>5, <1>6, <1>7, <1>8, <1>9 DEF Next, Own, Peer

-----------------------------------------------------------------------------
(* The options of a reply.  flattenPushOptions goes through its parts by   *)
(* recursion; the induction is on the least part where a claim fails.      *)

\* A set of naturals that is not empty has a least element.
LEMMA LeastElement ==
  ASSUME NEW S \in SUBSET Nat, S # {}
  PROVE  \E n \in S : \A m \in S : n <= m
<1> DEFINE R == {ss \in Nat \X Nat : ss[1] < ss[2]}
<1>1. R = OpToRel(<, Nat)
  BY Zenon DEF OpToRel
<1>2. IsWellFoundedOn(R, Nat)
  BY <1>1, NatLessThanWellFounded, Zenon
<1>3. \A x, y \in Nat : <<y, x>> \in R <=> y < x
  OBVIOUS
<1> HIDE DEF R
<1>4. PICK x \in S : \A y \in S : ~(<<y, x>> \in R)
  BY <1>2, WFMin, Zenon
<1>5. ASSUME NEW y \in S PROVE x <= y
  <2>1. x \in Nat /\ y \in Nat
    OBVIOUS
  <2>2. ~(y < x)
    BY <1>3, <1>4, <2>1, Zenon
  <2>3. QED
    BY <2>1, <2>2
<1>6. QED
  BY <1>5

\* The recursive function of FlattenSeq exists ...
LEMMA FlattenExists ==
  ASSUME NEW ss, NEW n \in Nat
  PROVE  \E g : g = [i \in 1 .. n |-> IF i = 1 THEN ss[i] ELSE g[i - 1] \o ss[i]]
<1> DEFINE Is(k, g) == g = [i \in 1 .. k |-> IF i = 1 THEN ss[i] ELSE g[i - 1] \o ss[i]]
           Bad == {k \in Nat : ~\E g : Is(k, g)}
<1> SUFFICES ASSUME Bad # {} PROVE FALSE
  OBVIOUS
<1>1. PICK k \in Bad : \A m \in Bad : k <= m
  BY LeastElement
<1>2. CASE k = 0
  <2>1. Is(0, [i \in 1 .. 0 |-> ss])
    OBVIOUS
  <2>2. QED
    BY <1>2, <2>1
<1>3. CASE k > 0
  <2>1. k - 1 \in Nat /\ k - 1 \notin Bad
    <3>1. k \in Nat
      OBVIOUS
    <3> HIDE DEF Bad
    <3>2. QED
      BY <1>1, <1>3, <3>1
  <2>2. PICK h : Is(k - 1, h)
    BY <2>1
  <2> DEFINE g == [i \in 1 .. k |-> IF i = k THEN IF i = 1 THEN ss[i] ELSE h[i - 1] \o ss[i]
                                            ELSE h[i]]
  <2>3. Is(k, g)
    <3>1. ASSUME NEW i \in 1 .. k
          PROVE  g[i] = IF i = 1 THEN ss[i] ELSE g[i - 1] \o ss[i]
      <4>1. CASE i = 1
        BY <2>2, <4>1
      <4>2. CASE i # 1
        <5>1. i - 1 \in 1 .. k - 1 /\ g[i - 1] = h[i - 1]
          BY <4>2
        <5>2. g[i] = h[i - 1] \o ss[i]
          <6>1. CASE i = k
            BY <4>2, <6>1
          <6>2. CASE i # k
            <7>1. i \in 1 .. k - 1
              BY <6>2
            <7>2. \A j \in 1 .. k - 1 : h[j] = IF j = 1 THEN ss[j] ELSE h[j - 1] \o ss[j]
              BY <2>2
            <7>3. g[i] = h[i]
              BY <6>2
            <7>4. QED
              BY <4>2, <7>1, <7>2, <7>3
          <6>3. QED
            BY <6>1, <6>2
        <5>3. QED
          BY <4>2, <5>1, <5>2
      <4>3. QED
        BY <4>1, <4>2
    <3>2. QED
      BY <3>1
  <2>4. QED
    BY <2>3
<1>4. QED
  BY <1>1, <1>2, <1>3

\* ... and what it returns is made of the elements of the parts.
LEMMA FlattenedFromParts ==
  ASSUME NEW S, NEW ss \in Seq(Seq(S))
  PROVE  /\ FlattenSeq(ss) \in Seq(S)
         /\ \A k \in DOMAIN FlattenSeq(ss) :
               \E i \in DOMAIN ss : \E j \in DOMAIN ss[i] : FlattenSeq(ss)[k] = ss[i][j]
<1> DEFINE Is(g) == g = [i \in 1 .. Len(ss) |->
                           IF i = 1 THEN ss[i] ELSE g[i - 1] \o ss[i]]
           f == CHOOSE g : Is(g)
           Made(s) == /\ s \in Seq(S)
                      /\ \A k \in DOMAIN s :
                            \E i \in DOMAIN ss : \E j \in DOMAIN ss[i] : s[k] = ss[i][j]
<1>1. CASE Len(ss) = 0
  BY <1>1 DEF FlattenSeq
<1>2. CASE Len(ss) # 0
  <2>1. Is(f)
    <3>1. \E g : Is(g)
      <4>1. Len(ss) \in Nat
        OBVIOUS
      <4>2. QED
        BY <4>1, FlattenExists
    <3>2. QED
      BY <3>1, Zenon
  <2>2. FlattenSeq(ss) = f[Len(ss)]
    BY <1>2 DEF FlattenSeq
  <2> HIDE DEF f
  <2>3. \A i \in 1 .. Len(ss) : f[i] = IF i = 1 THEN ss[i] ELSE f[i - 1] \o ss[i]
    BY <2>1
  <2>4. \A i \in 1 .. Len(ss) : Made(ss[i])
    OBVIOUS
  <2>5. ASSUME NEW s, NEW t, Made(s), Made(t) PROVE Made(s \o t)
    <3>1. s \in Seq(S) /\ t \in Seq(S) /\ s \o t \in Seq(S)
      BY <2>5
    <3>2. ASSUME NEW k \in DOMAIN (s \o t)
          PROVE  \E i \in DOMAIN ss : \E j \in DOMAIN ss[i] : (s \o t)[k] = ss[i][j]
      <4>1. CASE k \in DOMAIN s
        <5>1. (s \o t)[k] = s[k]
          BY <3>1, <4>1
        <5>2. QED
          BY <2>5, <4>1, <5>1
      <4>2. CASE k \notin DOMAIN s
        <5>1. k - Len(s) \in DOMAIN t /\ (s \o t)[k] = t[k - Len(s)]
          BY <3>1, <4>2
        <5>2. QED
          BY <2>5, <5>1
      <4>3. QED
        BY <4>1, <4>2
    <3>3. QED
      BY <3>1, <3>2
  <2> DEFINE Bad == {k \in Nat : k \in 1 .. Len(ss) /\ ~Made(f[k])}
  <2> HIDE DEF Made
  <2>6. ASSUME Bad # {} PROVE FALSE
    <3>1. PICK k \in Bad : \A m \in Bad : k <= m
      BY <2>6, LeastElement
    <3>2. CASE k = 1
      BY <2>3, <2>4, <3>1, <3>2
    <3>3. CASE k # 1
      <4>1. k - 1 \in 1 .. Len(ss) /\ k - 1 \notin Bad
        BY <3>1, <3>3
      <4>2. Made(f[k - 1]) /\ Made(ss[k])
        BY <2>4, <3>1, <4>1
      <4>3. Made(f[k])
        BY <2>3, <2>5, <3>1, <3>3, <4>2
      <4>4. QED
        BY <3>1, <4>3
    <3>4. QED
      BY <3>2, <3>3
  <2>7. Made(f[Len(ss)])
    BY <1>2, <2>6
  <2>8. QED
    BY <2>2, <2>7 DEF Made
<1>3. QED
  BY <1>1, <1>2

\* Every option flattenPushOptions returns was in some part of the reply.
LEMMA FlattenedWasPushed ==
  ASSUME TypeOK, NEW opts, opts = flattenPushOptions(heard)
  PROVE  /\ opts \in Seq(Options)
         /\ \A k \in DOMAIN opts : WasPushed(opts[k].name, opts[k].value)
<1> DEFINE parts == [i \in DOMAIN heard |-> IF IsPush(heard[i]) THEN heard[i].opts ELSE <<>>]
<1>1. heard \in Seq(Messages)
  BY DEF TypeOK
<1>2. \A i \in DOMAIN heard : parts[i] \in Seq(Options)
  <2> SUFFICES ASSUME NEW i \in DOMAIN heard PROVE parts[i] \in Seq(Options)
    OBVIOUS
  <2>1. heard[i] \in Messages
    BY <1>1
  <2>2. CASE IsPush(heard[i])
    BY <2>1, <2>2, MessageAssumption
  <2>3. CASE ~IsPush(heard[i])
    BY <2>3
  <2>4. QED
    BY <2>2, <2>3
<1>3. parts \in Seq(Seq(Options)) /\ DOMAIN parts = DOMAIN heard
  <2>1. DOMAIN parts = 1 .. Len(heard) /\ Len(heard) \in Nat
    BY <1>1
  <2>2. QED
    BY <1>2, <2>1
<1>4. opts = FlattenSeq(parts)
  BY DEF flattenPushOptions
<1>5. /\ opts \in Seq(Options)
      /\ \A k \in DOMAIN opts :
            \E i \in DOMAIN parts : \E j \in DOMAIN parts[i] : opts[k] = parts[i][j]
  <2> HIDE DEF parts
  <2> QED BY <1>3, <1>4, FlattenedFromParts
<1>6. ASSUME NEW k \in DOMAIN opts PROVE WasPushed(opts[k].name, opts[k].value)
  <2>1. PICK i \in DOMAIN parts : \E j \in DOMAIN parts[i] : opts[k] = parts[i][j]
    BY <1>5
  <2>2. PICK j \in DOMAIN parts[i] : opts[k] = parts[i][j]
    BY <2>1
  <2>3. IsPush(heard[i]) /\ parts[i] = heard[i].opts
    <3>1. CASE ~IsPush(heard[i])
      <4>1. parts[i] = <<>>
        BY <3>1
      <4>2. QED
        BY <2>2, <4>1
    <3>2. QED
      BY <3>1
  <2>4. opts[k] \in Range(heard[i].opts)
    BY <2>2, <2>3 DEF Range
  <2>5. opts[k] = [name |-> opts[k].name, value |-> opts[k].value]
    <3>1. opts[k] \in Options
      BY <1>5
    <3>2. QED
      BY <3>1, MessageAssumption, Zenon
  <2>6. QED
    BY <1>3, <2>3, <2>4, <2>5 DEF WasPushed
<1>7. QED
  BY <1>5, <1>6

\* The places of a list are natural numbers.
LEMMA PlacesAreNaturals ==
  ASSUME NEW S, NEW s \in Seq(S) PROVE DOMAIN s \in SUBSET Nat
<1>1. DOMAIN s = 1 .. Len(s) /\ Len(s) \in Nat
  OBVIOUS
<1>2. QED
  BY <1>1

\* A value that findPushOption or the search for a DNS server finds was pushed
\* under the name that was looked for.
LEMMA FoundWasPushed ==
  ASSUME TypeOK, NEW opts, opts = flattenPushOptions(heard),
         NEW name, NEW at \in SUBSET DOMAIN opts, \A i \in at : opts[i].name = name,
         FirstValue(opts, at) # ""
  PROVE  WasPushed(name, FirstValue(opts, at))
<1>1. opts \in Seq(Options)
  BY FlattenedWasPushed
<1>2. at # {} /\ at \in SUBSET Nat
  <2>1. at # {}
    BY Zenon DEF FirstValue
  <2>2. DOMAIN opts \in SUBSET Nat
    BY <1>1, PlacesAreNaturals, Zenon
  <2>3. QED
    BY <2>1, <2>2, Zenon
<1>3. Min(at) \in at
  <2>1. \E n \in at : \A m \in at : n <= m
    BY <1>2, LeastElement
  <2>2. QED
    BY <2>1 DEF Min
<1>4. WasPushed(opts[Min(at)].name, opts[Min(at)].value)
  BY <1>3, FlattenedWasPushed
<1>5. FirstValue(opts, at) = opts[Min(at)].value
  BY <1>2 DEF FirstValue
<1>6. QED
  BY <1>3, <1>4, <1>5

\* A usable session says what the server sent.
LEMMA UsableWasPushed ==
  ASSUME TypeOK, NEW s, s = parsePushedSession(flattenPushOptions(heard)), Usable(s)
  PROVE  /\ WasPushed("ifconfig", s.ip) /\ WasPushed("dns", s.dns)
         /\ WasPushed("peer-id", s.peer) /\ WasPushed("cipher", s.cipher)
<1> DEFINE opts == flattenPushOptions(heard)
           dnsAt == {i \in DOMAIN opts : opts[i].name = "dns" /\ opts[i].value \in Addresses}
           Places(name) == {i \in DOMAIN opts : opts[i].name = name}
<1>1. /\ s.ip = FirstValue(opts, Places("ifconfig")) /\ s.dns = FirstValue(opts, dnsAt)
      /\ s.peer = FirstValue(opts, Places("peer-id")) /\ s.cipher = FirstValue(opts, Places("cipher"))
  BY DEF parsePushedSession, findPushOption
<1>2. s.ip # "" /\ s.dns # "" /\ s.peer # "" /\ s.cipher # ""
  BY MessageAssumption DEF Usable
<1>3. QED
  <2> HIDE DEF opts
  <2>1. \A name : Places(name) \in SUBSET DOMAIN opts /\ \A i \in Places(name) : opts[i].name = name
    OBVIOUS
  <2>2. dnsAt \in SUBSET DOMAIN opts /\ \A i \in dnsAt : opts[i].name = "dns"
    OBVIOUS
  <2>3. opts = flattenPushOptions(heard)
    BY DEF opts
  <2> HIDE DEF Places, dnsAt
  <2>4. QED
    BY <1>1, <1>2, <2>1, <2>2, <2>3, FoundWasPushed

-----------------------------------------------------------------------------
(* The reply is collected whole.                                           *)

\* A call that neither reads messages nor takes a session over leaves what is
\* known of the reply.
LEMMA OtherCallsKeepReply ==
  ASSUME TypeOK, InOrder, ReplyIsCollected, AnswerComesLast, [Next]_vars,
         UNCHANGED <<heard, session>>,
         UNCHANGED <<todo, failed>> \/ Fail \/ Head(todo) # "reply"
  PROVE  ReplyIsCollected'
<1>1. \A n, v : WasPushed(n, v)' <=> WasPushed(n, v)
  BY DEF WasPushed
<1>2. CASE UNCHANGED <<todo, failed>>
  BY <1>1, <1>2 DEF ReplyIsCollected, SessionWasPushed, Pending
<1>3. CASE todo # <<>> /\ Fail
  <2>1. Pending' = {} /\ failed'
    BY <1>3, NoCallsLeft
  <2>2. QED
    BY <1>1, <2>1 DEF ReplyIsCollected, SessionWasPushed
<1>4. CASE todo # <<>> /\ Succeed /\ Head(todo) # "reply"
  <2>1. Pending = {Head(todo)} \cup Pending'
    BY <1>4, OneCallLess DEF TypeOK
  <2>2. "reply" \in Pending' <=> "reply" \in Pending
    BY <1>4, <2>1
  <2>3. "reply" \in Pending' => heard = <<>>
    BY <1>4, <2>2 DEF ReplyIsCollected
  <2>4. QED
    BY <1>1, <1>4, <2>2, <2>3 DEF ReplyIsCollected, SessionWasPushed
<1>5. CASE todo # <<>> /\ Succeed /\ Head(todo) = "reply"
  BY <1>2, <1>3, <1>5
<1>6. QED
  BY <1>2, <1>3, <1>4, <1>5, ListMoves

\* Messages are taken while they go on, and the session from all of them.
LEMMA ReplyStep ==
  ASSUME TypeOK, InOrder, ReplyIsCollected, AnswerComesLast, [Next]_vars
  PROVE  ReplyIsCollected'
<1>1. CASE Service \/ SelectStarts \/ SelectRuns \/ SelectReturns \/ LoadIdentity \/ Return
  BY <1>1, OtherCallsKeepReply
     DEF Service, SelectStarts, SelectRuns, SelectReturns, LoadIdentity, Return
<1>2. CASE LoadTrust \/ Dial \/ Handshake \/ SendKeyMethod \/ ReadKeyMethod \/ RequestPush
  BY <1>2, OtherCallsKeepReply
     DEF LoadTrust, Dial, Handshake, SendKeyMethod, ReadKeyMethod, RequestPush
<1>3. CASE HandOver \/ SendQuery \/ ReadDatagram \/ ReadFails \/ ReadBreaks
  BY <1>3, OtherCallsKeepReply DEF HandOver, SendQuery, ReadDatagram, ReadFails, ReadBreaks
<1>4. CASE DeadlinePasses \/ ContextDone \/ UNCHANGED vars
  BY <1>4, OtherCallsKeepReply DEF DeadlinePasses, ContextDone, vars
<1>5. ASSUME NEW m \in Messages, ReadPushReply(m) PROVE ReplyIsCollected'
  <2>1. /\ heard \in Seq(Messages) /\ heard' = Append(heard, m) /\ UNCHANGED session
        /\ todo # <<>> /\ Head(todo) = "reply" /\ "reply" \in Pending
    BY <1>5, AtIsPending DEF ReadPushReply, TypeOK
  <2>2. session' = NoSession /\ \A i \in DOMAIN heard : GoesOn(heard[i])
    BY <2>1 DEF ReplyIsCollected
  <2>3. /\ Len(heard') = Len(heard) + 1 /\ Last(heard') = m
        /\ \A i \in 1 .. Len(heard) : heard'[i] = heard[i]
        /\ DOMAIN heard = 1 .. Len(heard) /\ DOMAIN heard' = 1 .. Len(heard) + 1
        /\ Len(heard) \in Nat /\ heard'[Len(heard) + 1] = m
    BY <2>1 DEF Last
  <2>4. \A i \in 1 .. Len(heard') - 1 : GoesOn(heard'[i])
    BY <2>2, <2>3
  <2>5. CASE Fail
    BY <2>2, <2>5, NoCallsLeft DEF ReplyIsCollected
  <2>6. CASE IsPush(m) /\ ~m.more /\ Succeed
    <3>1. "reply" \notin Pending'
      BY <2>1, <2>6, OneCallLess DEF TypeOK, MayPrecede
    <3>2. QED
      BY <2>2, <2>3, <2>4, <2>6, <3>1 DEF ReplyIsCollected
  <2>7. CASE GoesOn(m) /\ UNCHANGED <<todo, failed>>
    <3>1. Pending' = Pending /\ Head(todo') = "reply"
      BY <2>1, <2>7 DEF Pending
    <3>2. \A i \in DOMAIN heard' : GoesOn(heard'[i])
      BY <2>3, <2>4, <2>7
    <3>3. QED
      BY <2>1, <2>2, <3>1, <3>2 DEF ReplyIsCollected
  <2>8. QED
    BY <1>5, <2>5, <2>6, <2>7 DEF ReadPushReply, GoesOn
<1>6. CASE ParsePushedSession
  <2> DEFINE s == parsePushedSession(flattenPushOptions(heard))
  <2>1. heard' = heard /\ Head(todo) = "parse" /\ todo # <<>>
    BY <1>6 DEF ParsePushedSession
  <2>2. CASE UNCHANGED session
    BY <1>6, <2>1, <2>2, OtherCallsKeepReply
  <2>3. CASE Usable(s) /\ session' = s /\ Succeed
    <3>1. \A n, v : WasPushed(n, v)' <=> WasPushed(n, v)
      BY <2>1 DEF WasPushed
    <3>2. /\ WasPushed("ifconfig", session'.ip) /\ WasPushed("dns", session'.dns)
          /\ WasPushed("peer-id", session'.peer) /\ WasPushed("cipher", session'.cipher)
      BY <2>3, UsableWasPushed
    <3>3. "reply" \notin Pending' /\ "reply" \notin Pending
      BY <2>1, <2>3, OneCallLess DEF TypeOK, MayPrecede
    <3>4. UNCHANGED failed
      BY <2>3
    <3> HIDE DEF s
    <3>5. QED
      BY <2>1, <3>1, <3>2, <3>3, <3>4 DEF ReplyIsCollected, SessionWasPushed
  <2>4. QED
    BY <1>6, <2>2, <2>3 DEF ParsePushedSession
<1>7. QED
  BY <1>1, <1>2, <1>3, <1>4, <1>5, <1>6 DEF Next, Own, Peer

-----------------------------------------------------------------------------
(* The answer comes last.                                                  *)

\* A call that has nothing to do with the query leaves what is known of it.
LEMMA OtherCallsKeepAnswer ==
  ASSUME TypeOK, InOrder, AnswerComesLast, [Next]_vars,
         UNCHANGED <<flavour, txid, answered>>,
         UNCHANGED <<todo, failed>> \/ Fail \/ Head(todo) \notin {"query", "answer"},
         UNCHANGED pc \/ todo = <<>>
  PROVE  AnswerComesLast'
<1>1. CASE UNCHANGED <<todo, failed>>
  BY <1>1 DEF AnswerComesLast, Pending
<1>2. CASE pc = "run" /\ todo # <<>> /\ Fail
  BY <1>2, NoCallsLeft DEF AnswerComesLast
<1>3. CASE pc = "run" /\ todo # <<>> /\ Succeed /\ Head(todo) \notin {"query", "answer"}
  <2>1. Pending = {Head(todo)} \cup Pending'
    BY <1>3, OneCallLess DEF TypeOK
  <2>2. QED
    BY <1>3, <2>1 DEF AnswerComesLast
<1>4. QED
  BY <1>1, <1>2, <1>3, ListMoves

LEMMA AnswerStep ==
  ASSUME TypeOK, InOrder, AnswerComesLast, [Next]_vars
  PROVE  AnswerComesLast'
<1>1. CASE Service \/ SelectStarts \/ SelectRuns \/ SelectReturns \/ LoadIdentity \/ Return
  BY <1>1, OtherCallsKeepAnswer
     DEF Service, SelectStarts, SelectRuns, SelectReturns, LoadIdentity, Return
<1>2. CASE LoadTrust \/ Dial \/ Handshake \/ SendKeyMethod \/ ReadKeyMethod \/ RequestPush
  BY <1>2, OtherCallsKeepAnswer
     DEF LoadTrust, Dial, Handshake, SendKeyMethod, ReadKeyMethod, RequestPush
<1>3. CASE HandOver \/ ReadFails \/ ReadBreaks \/ ParsePushedSession
  BY <1>3, OtherCallsKeepAnswer DEF HandOver, ReadFails, ReadBreaks, ParsePushedSession
<1>4. CASE DeadlinePasses \/ ContextDone \/ UNCHANGED vars
  BY <1>4, OtherCallsKeepAnswer DEF DeadlinePasses, ContextDone, vars
<1>5. ASSUME NEW m \in Messages, ReadPushReply(m) PROVE AnswerComesLast'
  BY <1>5, OtherCallsKeepAnswer DEF ReadPushReply
<1>6. CASE SendQuery
  <2>1. /\ todo # <<>> /\ Head(todo) = "query" /\ pc = "run"
        /\ UNCHANGED <<flavour, answered, pc>>
    BY <1>6 DEF SendQuery
  <2>2. CASE Fail
    BY <2>1, <2>2, NoCallsLeft DEF AnswerComesLast
  <2>3. CASE Succeed /\ \E r \in 0 .. TxIDs - 1 : txid' = QueryID(r)
    <3>1. txid' # 0
      BY <2>3, SetupAssumption DEF QueryID
    <3>2. Pending = {"query"} \cup Pending'
      BY <2>1, <2>3, OneCallLess DEF TypeOK
    <3>3. QED
      BY <2>1, <2>3, <3>1, <3>2 DEF AnswerComesLast
  <2>4. QED
    BY <1>6, <2>2, <2>3 DEF SendQuery
<1>7. CASE ReadDatagram
  <2>1. /\ todo # <<>> /\ Head(todo) = "answer" /\ pc = "run" /\ "answer" \in Pending
        /\ UNCHANGED <<flavour, txid, pc>> /\ ~failed
    BY <1>7, AtIsPending DEF ReadDatagram, AnswerComesLast
  <2>2. PICK d \in [dns : {TRUE}, id : 0 .. TxIDs - 1] \cup [dns : {FALSE}, id : {0}] :
           /\ answered' = AnswersQuery(d)
           /\ proof' = IF answered' THEN d.id ELSE 0
           /\ IF answered' \/ reads' = MaxReads
              THEN IF proof' = 0 THEN Fail ELSE Succeed
              ELSE UNCHANGED <<todo, failed>>
    BY <1>7 DEF ReadDatagram
  <2>3. answered' => d.id = txid
    BY <2>2 DEF AnswersQuery
  <2>4. todo \in Seq(Calls) /\ Len(todo) = 1 /\ todo[1] = "answer"
    <3>1. todo \in Seq(Calls)
      BY DEF TypeOK
    <3>2. DOMAIN todo = 1 .. Len(todo) /\ Len(todo) \in Nat /\ todo[1] = "answer"
      BY <2>1, <3>1
    <3>3. \A i \in DOMAIN todo : ~(1 < i)
      BY <3>2 DEF InOrder, MayPrecede
    <3>4. QED
      BY <2>1, <3>1, <3>2, <3>3
  <2>5. Pending = {"answer"} /\ Tail(todo) = <<>>
    <3>1. Pending = {"answer"}
      BY <2>4 DEF Pending
    <3>2. Tail(todo) \in Seq(Calls) /\ Len(Tail(todo)) = 0
      BY <2>1, <2>4
    <3>3. QED
      BY <3>1, <3>2, EmptySeq
  <2>6. txid # 0
    BY <2>5 DEF AnswerComesLast
  <2>7. CASE answered'
    <3>1. Succeed
      BY <2>2, <2>3, <2>6, <2>7
    <3>2. todo' = <<>> /\ ~failed' /\ Pending' = {}
      BY <2>1, <2>5, <3>1, NoCallsLeft
    <3>3. QED
      BY <2>1, <2>7, <3>2 DEF AnswerComesLast
  <2>8. CASE ~answered'
    <3>1. CASE Fail
      BY <2>1, <2>8, <3>1, NoCallsLeft DEF AnswerComesLast
    <3>2. CASE UNCHANGED <<todo, failed>>
      BY <2>1, <2>6, <2>8, <3>2 DEF AnswerComesLast, Pending
    <3>3. QED
      BY <2>2, <2>8, <3>1, <3>2
  <2>9. QED
    BY <2>7, <2>8
<1>8. QED
  BY <1>1, <1>2, <1>3, <1>4, <1>5, <1>6, <1>7 DEF Next, Own, Peer

-----------------------------------------------------------------------------
\* Before the first call nothing is known and everything is still to be done.
LEMMA InitIInv == Init => IInv
<1> SUFFICES ASSUME Init PROVE IInv
  OBVIOUS
<1>1. TypeOK
  BY InitTyped
<1>2. /\ InOrder
      /\ "keyout" \in Pending => {"tls", "trust"} \subseteq Pending
      /\ "answer" \in Pending => "query" \in Pending
      /\ flavour = "data" => "answer" \in Pending
  BY Courses DEF Init
<1>3. TrustComesFirst
  BY <1>2 DEF Init, TrustComesFirst
<1>4. ReplyIsCollected
  BY DEF Init, ReplyIsCollected
<1>5. AnswerComesLast
  BY <1>2 DEF Init, AnswerComesLast
<1>6. QED
  BY <1>1, <1>2, <1>3, <1>4, <1>5 DEF IInv

\* The inductive invariant of a set-up: whom to trust is settled before the
\* key material leaves, a reply is collected until it is complete, and the
\* answer to the query is the last thing awaited.
THEOREM InductiveInvariant == Spec => []IInv
<1>1. Init => IInv
  BY InitIInv
<1>2. IInv /\ [Next]_vars => IInv'
  BY TypeStep, ListStep, TrustStep, ReplyStep, AnswerStep DEF IInv
<1>3. QED
  BY <1>1, <1>2, PTL DEF Spec

\* Key material is written only to the holder of a certificate from the
\* published authority in the name of the chosen gateway, for whatever the
\* provider's server and the gateway present.
THEOREM SecretsReachGatewayOnly == Spec => []SecretsOnlyToGateway
<1>1. IInv => SecretsOnlyToGateway
  BY DEF IInv, TrustComesFirst, Verified, SecretsOnlyToGateway
<1>2. QED
  BY <1>1, InductiveInvariant, PTL

\* readPushReply and parsePushedSession accept only a whole reply, and every
\* value of the session was sent under its name, for any messages in any order
\* and number.
THEOREM OnlyWholeReplies == Spec => []AcceptedReplyIsWhole
<1>1. IInv => AcceptedReplyIsWhole
  <2> SUFFICES ASSUME IInv, heard # <<>>, ~failed, ~At("reply")
               PROVE  /\ IsPush(Last(heard)) /\ ~Last(heard).more
                      /\ \A i \in 1 .. Len(heard) - 1 : GoesOn(heard[i])
                      /\ session # NoSession => SessionWasPushed
    BY DEF AcceptedReplyIsWhole
  <2>1. "reply" \notin Pending
    <3>1. ASSUME todo = <<>> PROVE Pending = {}
      BY <3>1 DEF Pending
    <3>2. QED
      BY <3>1 DEF IInv, TypeOK, ReplyIsCollected, AnswerComesLast
  <2>2. QED
    BY <2>1 DEF IInv, ReplyIsCollected
<1>2. QED
  BY <1>1, InductiveInvariant, PTL

\* cmdDataProbe returns without an error exactly when the answer to its own
\* query was read, whatever id the random source gave.
THEOREM ProbeNeverLies == Spec => []ProbeReportsTruth
<1>1. IInv => ProbeReportsTruth
  <2>1. ASSUME todo = <<>> PROVE Pending = {}
    BY <2>1 DEF Pending
  <2>2. QED
    BY <2>1 DEF IInv, AnswerComesLast, ProbeReportsTruth
<1>2. QED
  BY <1>1, InductiveInvariant, PTL

-----------------------------------------------------------------------------
(* The choice of the gateway.                                              *)

\* With two or three samples an order exists, so Order(s) is one.
LEMMA OrderSorts ==
  ASSUME NEW n \in {2, 3}, NEW s \in [1 .. n -> Nat], Len(s) = n
  PROVE  /\ Order(s) \in [1 .. n -> 1 .. n]
         /\ \A i, j \in 1 .. n : i # j => Order(s)[i] # Order(s)[j]
         /\ \A i, j \in 1 .. n : i < j => s[Order(s)[i]] <= s[Order(s)[j]]
<1> DEFINE Perms == {f \in [1 .. n -> 1 .. n] : \A i, j \in 1 .. n : i # j => f[i] # f[j]}
           Asc(p) == \A i, j \in 1 .. n : i < j => s[p[i]] <= s[p[j]]
<1>1. DOMAIN s = 1 .. n /\ n \in Nat
  OBVIOUS
<1>2. SetToSeqs(DOMAIN s) = Perms
  <2>1. Cardinality(1 .. n) = n
    BY <1>1, FS_Interval
  <2>2. QED
    BY <1>1, <2>1 DEF SetToSeqs
<1>3. \E p \in Perms : Asc(p)
  <2>1. CASE n = 2
    <3>1. s[1] \in Nat /\ s[2] \in Nat
      BY <2>1
    <3>2. CASE s[1] <= s[2]
      <4>1. [i \in 1 .. n |-> i] \in Perms /\ Asc([i \in 1 .. n |-> i])
        BY <2>1, <3>1, <3>2
      <4>2. QED
        BY <4>1
    <3>3. CASE s[2] <= s[1]
      <4>1. [i \in 1 .. n |-> 3 - i] \in Perms /\ Asc([i \in 1 .. n |-> 3 - i])
        BY <2>1, <3>1, <3>3
      <4>2. QED
        BY <4>1
    <3>4. s[1] <= s[2] \/ s[2] <= s[1]
      BY <3>1
    <3> HIDE DEF Perms, Asc
    <3>5. QED
      BY <3>2, <3>3, <3>4
  <2>2. CASE n = 3
    <3>1. s[1] \in Nat /\ s[2] \in Nat /\ s[3] \in Nat
      BY <2>2
    <3>2. ASSUME NEW a \in 1 .. 3, NEW b \in 1 .. 3, NEW c \in 1 .. 3,
                 a # b, a # c, b # c, s[a] <= s[b], s[b] <= s[c]
          PROVE  \E p \in Perms : Asc(p)
      <4> DEFINE p == [i \in 1 .. n |-> IF i = 1 THEN a ELSE IF i = 2 THEN b ELSE c]
      <4>1. p[1] = a /\ p[2] = b /\ p[3] = c /\ p \in [1 .. n -> 1 .. n]
        BY <2>2
      <4> HIDE DEF p
      <4>2. p \in Perms
        BY <2>2, <3>2, <4>1
      <4>3. s[a] \in Nat /\ s[b] \in Nat /\ s[c] \in Nat
        BY <2>2
      <4>4. Asc(p)
        BY <2>2, <3>2, <4>1, <4>3
      <4>5. QED
        BY <4>2, <4>4
    <3>3. \E a, b, c \in 1 .. 3 :
             a # b /\ a # c /\ b # c /\ s[a] <= s[b] /\ s[b] <= s[c]
      <4> DEFINE Sorts(a, b, c) == s[a] <= s[b] /\ s[b] <= s[c]
      <4>1. \/ Sorts(1, 2, 3) \/ Sorts(1, 3, 2) \/ Sorts(2, 1, 3)
            \/ Sorts(2, 3, 1) \/ Sorts(3, 1, 2) \/ Sorts(3, 2, 1)
        BY <3>1
      <4>2. QED
        BY <4>1
    <3>4. QED
      BY <3>2, <3>3
  <2>3. QED
    BY <2>1, <2>2
<1>4. Order(s) = CHOOSE p \in Perms : Asc(p)
  BY <1>1, <1>2 DEF Order
<1>5. Order(s) \in Perms /\ Asc(Order(s))
  BY <1>3, <1>4
<1>6. QED
  BY <1>5

\* A set of places holds two exactly when it holds two different ones.
LEMMA TwoPlaces ==
  ASSUME NEW n \in Nat, NEW S \in SUBSET (1 .. n)
  PROVE  /\ Cardinality(S) \in Nat
         /\ Cardinality(S) >= 2 <=> \E x, y \in S : x # y
<1>1. IsFiniteSet(S)
  <2>1. IsFiniteSet(1 .. n)
    BY FS_Interval
  <2>2. QED
    BY <2>1, FS_Subset
<1>2. Cardinality(S) \in Nat
  BY <1>1, FS_CardinalityType
<1>3. ASSUME NEW x \in S, NEW y \in S, x # y PROVE Cardinality(S) >= 2
  <2>1. {x, y} = {x} \cup {y} /\ {x, y} \in SUBSET S
    OBVIOUS
  <2>2. Cardinality({x, y}) = 2
    <3>1. IsFiniteSet({x}) /\ Cardinality({x}) = 1 /\ y \notin {x}
      BY <1>3, FS_Singleton
    <3>2. Cardinality({x} \cup {y}) = 1 + 1
      BY <3>1, FS_AddElement
    <3>3. QED
      BY <2>1, <3>2
  <2>3. QED
    BY <1>1, <1>2, <2>1, <2>2, FS_Subset
<1>4. ASSUME Cardinality(S) >= 2 PROVE \E x, y \in S : x # y
  <2>1. S # {}
    BY <1>1, <1>4, FS_EmptySet
  <2>2. PICK x \in S : TRUE
    BY <2>1
  <2>3. S # {x}
    BY <1>1, <1>4, FS_Singleton
  <2>4. QED
    BY <2>2, <2>3
<1>5. QED
  BY <1>2, <1>3, <1>4

\* The median of two or three samples is the second in order.
LEMMA MedianIsSecond ==
  ASSUME NEW n \in {2, 3}, NEW s \in [1 .. n -> Nat], Len(s) = n
  PROVE  /\ medianLatency(s) = s[Order(s)[2]]
         /\ medianLatency(s) \in Nat
<1>1. n \div 2 + 1 = 2 /\ 2 \in DOMAIN s /\ DOMAIN s = 1 .. n
  OBVIOUS
<1>2. medianLatency(s) = s[Order(s)[2]]
  BY <1>1 DEF medianLatency, Sorted
<1>3. Order(s)[2] \in DOMAIN s
  BY <1>1, OrderSorts
<1>4. QED
  BY <1>2, <1>3

\* Two samples do not exceed the median.
LEMMA MedianIsReachedTwice ==
  ASSUME NEW n \in {2, 3}, NEW s \in [1 .. n -> Nat], Len(s) = n,
         NEW v \in Nat, medianLatency(s) <= v
  PROVE  AtMost(s, v) >= 2
<1>1. PICK p \in [1 .. n -> 1 .. n] :
         /\ p = Order(s)
         /\ \A i, j \in 1 .. n : i # j => p[i] # p[j]
         /\ \A i, j \in 1 .. n : i < j => s[p[i]] <= s[p[j]]
  BY OrderSorts
<1>2. PICK S \in SUBSET (1 .. n) : S = {i \in DOMAIN s : s[i] <= v}
  OBVIOUS
<1>3. PICK a \in 1 .. n, b \in 1 .. n : a = p[1] /\ b = p[2] /\ a # b
  <2>1. 1 \in 1 .. n /\ 2 \in 1 .. n
    OBVIOUS
  <2>2. p[1] \in 1 .. n /\ p[2] \in 1 .. n
    BY <2>1
  <2>3. p[1] # p[2]
    <3>1. \A i, j \in 1 .. n : i # j => p[i] # p[j]
      BY <1>1
    <3>2. QED
      BY <2>1, <3>1
  <2>4. QED
    BY <2>2, <2>3, Zenon
<1>4. s[a] <= s[b] /\ s[b] <= v
  <2>1. 1 \in 1 .. n /\ 2 \in 1 .. n /\ 1 < 2
    OBVIOUS
  <2>2. s[p[1]] <= s[p[2]]
    BY <1>1, <2>1
  <2>3. medianLatency(s) = s[p[2]]
    BY <1>1, MedianIsSecond
  <2>4. QED
    BY <1>3, <2>2, <2>3
<1>5. a \in S /\ b \in S
  BY <1>2, <1>4
<1>6. n \in Nat
  OBVIOUS
<1>7. QED
  BY <1>2, <1>3, <1>5, <1>6, TwoPlaces DEF AtMost

\* A value that two samples do not exceed is not below the median.
LEMMA TwoReachTheMedian ==
  ASSUME NEW n \in {2, 3}, NEW s \in [1 .. n -> Nat], Len(s) = n,
         NEW v \in Nat, AtMost(s, v) >= 2
  PROVE  medianLatency(s) <= v
<1>1. PICK p \in [1 .. n -> 1 .. n] :
         /\ p = Order(s)
         /\ \A i, j \in 1 .. n : i # j => p[i] # p[j]
         /\ \A i, j \in 1 .. n : i < j => s[p[i]] <= s[p[j]]
  BY OrderSorts
<1>2. PICK S \in SUBSET (1 .. n) : S = {i \in DOMAIN s : s[i] <= v}
  OBVIOUS
<1>3. PICK x \in S, y \in S : x # y
  <2>1. Cardinality(S) >= 2 /\ n \in Nat
    BY <1>2 DEF AtMost
  <2>2. QED
    BY <2>1, TwoPlaces
<1>4. \A z \in 1 .. n : \E i \in 1 .. n : p[i] = z
  <2>1. CASE n = 2
    <3>1. /\ p[1] \in 1 .. 2 /\ p[2] \in 1 .. 2 /\ p[1] # p[2]
      BY <1>1, <2>1
    <3>2. QED
      BY <2>1, <3>1
  <2>2. CASE n = 3
    <3>1. /\ p[1] \in 1 .. 3 /\ p[2] \in 1 .. 3 /\ p[3] \in 1 .. 3
          /\ p[1] # p[2] /\ p[1] # p[3] /\ p[2] # p[3]
      BY <1>1, <2>2
    <3>2. QED
      BY <2>2, <3>1
  <2>3. QED
    BY <2>1, <2>2
<1>5. PICK i \in 1 .. n : p[i] \in S /\ i # 1
  BY <1>3, <1>4
<1>6. PICK z \in 1 .. n : z = p[i] /\ s[z] <= v
  BY <1>1, <1>2, <1>5
<1>7. s[p[2]] <= s[z]
  <2>1. CASE i = 2
    BY <1>1, <1>6, <2>1
  <2>2. CASE i # 2
    BY <1>1, <1>5, <1>6, <2>2
  <2>3. QED
    BY <2>1, <2>2
<1>8. PICK m \in Nat : m = medianLatency(s) /\ m = s[p[2]]
  BY <1>1, MedianIsSecond
<1>9. PICK w \in Nat : w = s[z] /\ w <= v
  BY <1>6
<1>10. m <= w
  BY <1>7, <1>8, <1>9
<1>11. m <= v
  BY <1>9, <1>10
<1>12. QED
  BY <1>8, <1>11

\* The middle of two or three samples is not below their median.
LEMMA MiddleIsReachedTwice ==
  ASSUME NEW n \in {2, 3}, NEW s \in [1 .. n -> Nat], Len(s) = n
  PROVE  Middle(s) \in Nat /\ medianLatency(s) <= Middle(s)
<1>1. PICK m \in Nat : m = medianLatency(s)
  BY MedianIsSecond
<1>2. \A v \in Nat : AtMost(s, v) \in Nat
  <2>1. n \in Nat /\ \A v \in Nat : {i \in DOMAIN s : s[i] <= v} \in SUBSET (1 .. n)
    OBVIOUS
  <2>2. QED
    BY <2>1, TwoPlaces DEF AtMost
<1>3. Len(s) \div 2 = 1
  OBVIOUS
<1>4. PICK S : S = {v \in Range(s) : AtMost(s, v) > Len(s) \div 2}
  OBVIOUS
<1>5. \A v \in S : v \in Nat /\ AtMost(s, v) >= 2
  <2>1. Range(s) \in SUBSET Nat
    BY DEF Range
  <2>2. QED
    BY <1>2, <1>3, <1>4, <2>1
<1>6. \A v \in S : m <= v
  BY <1>1, <1>5, TwoReachTheMedian
<1>7. m \in S
  <2>1. Order(s)[2] \in DOMAIN s
    <3>1. 2 \in 1 .. n
      OBVIOUS
    <3>2. Order(s) \in [1 .. n -> 1 .. n]
      BY OrderSorts
    <3>3. QED
      BY <3>1, <3>2
  <2>2. m \in Range(s)
    BY <1>1, <2>1, MedianIsSecond DEF Range
  <2>3. AtMost(s, m) >= 2
    <3>1. medianLatency(s) <= m
      BY <1>1
    <3>2. QED
      BY <3>1, MedianIsReachedTwice
  <2>4. QED
    BY <1>2, <1>3, <1>4, <2>2, <2>3
<1>8. Min(S) \in S
  BY <1>6, <1>7 DEF Min
<1>9. Middle(s) = Min(S)
  BY <1>4 DEF Middle
<1>10. QED
  BY <1>1, <1>5, <1>6, <1>8, <1>9

\* A candidate that answered twice is ordered by a median of two or three.
LEMMA StableSamples ==
  ASSUME NEW s \in Seq(Nat), Len(s) \in 1 .. 3, Stable(s)
  PROVE  \E n \in {2, 3} : s \in [1 .. n -> Nat] /\ Len(s) = n
<1>1. PICK n \in Nat : n = Len(s) /\ s \in [1 .. n -> Nat]
  OBVIOUS
<1>2. n \in {2, 3}
  BY <1>1 DEF Stable
<1>3. QED
  BY <1>1, <1>2

\* The candidate the last sort puts first answered twice if any did, and two
\* of its packets were no slower than the middle one of any other.
LEMMA WinnerIsNotLucky ==
  ASSUME Measured, ChosenWins PROVE NotChosenByLuck
<1> SUFFICES ASSUME stage = "chosen", NEW h \in DOMAIN samples, Stable(samples[h])
             PROVE  \E k \in DOMAIN finalists :
                      /\ finalists[k] = chosen
                      /\ \A j \in DOMAIN samples :
                            Stable(samples[j]) => AtMost(samples[k], Middle(samples[j])) >= 2
  BY DEF NotChosenByLuck
<1>1. PICK k \in DOMAIN finalists : Wins(k) /\ chosen = finalists[k]
  BY DEF ChosenWins
<1>2. DOMAIN samples = DOMAIN finalists
  BY DEF Measured
<1>3. ASSUME NEW j \in DOMAIN finalists
      PROVE  samples[j] \in Seq(Nat) /\ Len(samples[j]) \in 1 .. 3
  <2>1. samples[j] \in Seq(Nat) /\ tries[j] \in 0 .. 2 /\ Len(samples[j]) \in 1 .. 1 + tries[j]
    BY DEF Measured, Extra
  <2>2. PICK t \in 0 .. 2, l \in Nat : t = tries[j] /\ l = Len(samples[j])
    BY <2>1
  <2>3. l \in 1 .. 1 + t
    BY <2>1, <2>2, Zenon
  <2>4. l \in 1 .. 3
    BY <2>3
  <2>5. QED
    BY <2>1, <2>2, <2>4
<1>4. Stable(samples[k])
  <2>1. CASE h = k
    BY <2>1
  <2>2. CASE h # k
    BY <1>1, <1>2, <2>2 DEF Wins, Preferred
  <2>3. QED
    BY <2>1, <2>2
<1>5. ASSUME NEW j \in DOMAIN finalists, Stable(samples[j])
      PROVE  AtMost(samples[k], Middle(samples[j])) >= 2
  <2>1. PICK a \in Seq(Nat), n \in {2, 3} : a = samples[k] /\ a \in [1 .. n -> Nat] /\ Len(a) = n
    BY <1>3, <1>4, StableSamples
  <2>2. PICK b \in Seq(Nat), m \in {2, 3} : b = samples[j] /\ b \in [1 .. m -> Nat] /\ Len(b) = m
    BY <1>3, <1>5, StableSamples
  <2>3. medianLatency(a) \in Nat /\ medianLatency(b) \in Nat
    BY <2>1, <2>2, MedianIsSecond
  <2>4. medianLatency(a) <= medianLatency(b)
    <3>1. CASE j = k
      BY <2>1, <2>2, <2>3, <3>1
    <3>2. CASE j # k
      <4>1. Preferred(k, j)
        BY <1>1, <3>2 DEF Wins
      <4>2. medianLatency(a) < medianLatency(b) \/ medianLatency(a) = medianLatency(b)
        BY <1>4, <1>5, <2>1, <2>2, <4>1 DEF Preferred
      <4>3. QED
        BY <2>3, <4>2
    <3>3. QED
      BY <3>1, <3>2
  <2>5. PICK v \in Nat : v = Middle(b) /\ medianLatency(b) <= v
    BY <2>2, MiddleIsReachedTwice
  <2>6. medianLatency(a) <= v
    BY <2>3, <2>4, <2>5
  <2>7. AtMost(a, v) >= 2
    BY <2>1, <2>6, MedianIsReachedTwice
  <2>8. QED
    BY <2>1, <2>2, <2>5, <2>7
<1>6. QED
  BY <1>1, <1>2, <1>5

\* Finitely many jobs answered.
LEMMA CardinalityOfJobs ==
  ASSUME NEW S \in SUBSET Jobs, Len(UDPEndpoints) \in Nat PROVE Cardinality(S) \in Nat
BY TwoPlaces DEF Jobs

\* A step of the selection keeps the candidates measured and the winner first.
LEMMA SelectionStepKeeps ==
  ASSUME SelectionInv, SelectionStep PROVE SelectionInv'
<1> USE DEF SelectionInv, Measured, ChosenWins
<1>1. ASSUME NEW i \in Jobs, Acquire(i) \/ GiveUp(i) PROVE SelectionInv'
  BY <1>1 DEF Acquire, GiveUp
<1>2. ASSUME NEW i \in Jobs, Probe(i) PROVE SelectionInv'
  <2>1. PICK l \in Nat : latency' = [latency EXCEPT ![i] = l]
    BY <1>2, SelectionAssumption DEF Probe
  <2>2. latency' \in [Jobs -> Nat]
    BY <2>1
  <2>3. QED
    BY <1>2, <2>2 DEF Probe
<1>3. CASE Rank
  <2>1. PICK r \in SetToSeqs({i \in Jobs : latency[i] # 0}) :
           finalists' = SubSeq(r, 1, Min({Len(r), Finalists}))
    BY <1>3 DEF Rank
  <2>2. stage' \in {"sample", "failed"} /\ latency' = latency
    BY <1>3 DEF Rank
  <2>3. ASSUME NEW k \in DOMAIN finalists' PROVE finalists'[k] \in Jobs
    <3>1. PICK c \in Nat : r \in [1 .. c -> Jobs]
      <4>1. r \in [1 .. Cardinality({i \in Jobs : latency[i] # 0}) -> Jobs]
        BY DEF SetToSeqs
      <4>2. Cardinality({i \in Jobs : latency[i] # 0}) \in Nat
        BY CardinalityOfJobs
      <4>3. QED
        BY <4>1, <4>2
    <3>2. r \in Seq(Jobs) /\ Len(r) \in Nat
      BY <3>1
    <3>3. PICK t : t = Min({Len(r), Finalists})
      OBVIOUS
    <3>4. t \in 0 .. Len(r)
      <4>1. t \in {Len(r), Finalists} /\ t <= Len(r)
        BY <3>2, <3>3, SelectionAssumption DEF Min
      <4>2. QED
        BY <3>2, <4>1, SelectionAssumption
    <3>5. SubSeq(r, 1, t) \in Seq(Jobs)
      BY <3>2, <3>4
    <3>6. finalists' \in Seq(Jobs)
      BY <2>1, <3>3, <3>5
    <3>7. QED
      BY <2>3, <3>6
  <2>4. /\ DOMAIN samples' = DOMAIN finalists' /\ DOMAIN tries' = DOMAIN finalists'
        /\ \A k \in DOMAIN finalists' :
              tries'[k] = 0 /\ samples'[k] = <<latency[finalists'[k]]>>
    BY <1>3 DEF Rank
  <2>5. ASSUME NEW k \in DOMAIN finalists'
        PROVE  samples'[k] \in Seq(Nat) /\ Len(samples'[k]) \in 1 .. 1 + tries'[k]
    <3>1. PICK l \in Nat : samples'[k] = <<l>>
      BY <2>3, <2>4
    <3>2. <<l>> \in Seq(Nat) /\ Len(<<l>>) = 1
      OBVIOUS
    <3>3. tries'[k] = 0 /\ 1 \in 1 .. 1 + 0
      BY <2>4
    <3>4. QED
      BY <3>1, <3>2, <3>3
  <2>6. QED
    BY <2>2, <2>4, <2>5 DEF Extra
<1>4. ASSUME NEW k \in 1 .. Finalists, Sample(k) PROVE SelectionInv'
  <2>1. /\ stage = "sample" /\ k \in DOMAIN finalists /\ tries[k] \in 0 .. 1
        /\ tries' = [tries EXCEPT ![k] = @ + 1]
        /\ UNCHANGED <<stage, latency, finalists>>
    BY <1>4 DEF Sample, Extra
  <2>2. \/ samples' = samples
        \/ \E l \in Nat : samples' = [samples EXCEPT ![k] = Append(@, l)]
    BY <1>4, SelectionAssumption DEF Sample
  <2>3. DOMAIN samples' = DOMAIN finalists /\ DOMAIN tries' = DOMAIN finalists
    BY <2>1, <2>2
  <2>4. ASSUME NEW j \in DOMAIN finalists, j # k
        PROVE  tries'[j] = tries[j] /\ samples'[j] = samples[j]
    BY <2>1, <2>2, <2>4
  <2>5. tries'[k] = tries[k] + 1 /\ tries'[k] \in 0 .. Extra
    BY <2>1 DEF Extra
  <2>6. samples'[k] \in Seq(Nat) /\ Len(samples'[k]) \in 1 .. 1 + tries'[k]
    <3>1. PICK s \in Seq(Nat), t \in Nat :
             s = samples[k] /\ t = tries[k] /\ Len(s) \in 1 .. 1 + t
      BY <2>1
    <3>2. samples'[k] = s \/ \E l \in Nat : samples'[k] = Append(s, l)
      BY <2>1, <2>2, <3>1
    <3>3. \A l \in Nat : Append(s, l) \in Seq(Nat) /\ Len(Append(s, l)) = Len(s) + 1
      OBVIOUS
    <3>4. tries'[k] = t + 1 /\ Len(s) \in Nat
      BY <2>5, <3>1
    <3>5. Len(s) \in 1 .. 1 + (t + 1) /\ Len(s) + 1 \in 1 .. 1 + (t + 1)
      BY <3>1, <3>4
    <3>6. CASE samples'[k] = s
      BY <3>4, <3>5, <3>6
    <3>7. ASSUME NEW l \in Nat, samples'[k] = Append(s, l)
          PROVE  samples'[k] \in Seq(Nat) /\ Len(samples'[k]) \in 1 .. 1 + tries'[k]
      BY <3>3, <3>4, <3>5, <3>7
    <3>8. QED
      BY <3>2, <3>6, <3>7
  <2>7. QED
    BY <2>1, <2>3, <2>4, <2>5, <2>6
<1>5. CASE Decide
  <2>1. PICK k \in DOMAIN finalists : Wins(k) /\ chosen' = finalists[k]
    BY <1>5 DEF Decide
  <2>2. UNCHANGED localVars
    BY <1>5 DEF Decide
  <2>3. Wins(k)'
    BY <2>1, <2>2 DEF Wins, Preferred, localVars
  <2>4. QED
    BY <1>5, <2>1, <2>2, <2>3 DEF Decide, localVars
<1>6. QED
  BY <1>1, <1>2, <1>3, <1>4, <1>5 DEF SelectionStep

\* The steps outside the selection leave its variables alone, and its start
\* and its return leave no candidate.
LEMMA SelectionKeeps == SelectionInv /\ [Next]_vars => SelectionInv'
<1> SUFFICES ASSUME SelectionInv, [Next]_vars PROVE SelectionInv'
  OBVIOUS
<1>1. CASE SelectRuns
  BY <1>1, SelectionStepKeeps DEF SelectRuns
<1>2. CASE SelectStarts
  BY <1>2 DEF SelectStarts, SelectionStarts, localVars, SelectionInv, Measured, ChosenWins
<1>3. CASE SelectReturns
  BY <1>3 DEF SelectReturns, SelectionReturns, SelectionInv, Measured, ChosenWins
<1>4. CASE UNCHANGED <<stage, localVars, chosen>>
  <2>1. Measured'
    BY <1>4 DEF localVars, SelectionInv, Measured
  <2>2. \A k : Wins(k) <=> Wins(k)'
    BY <1>4 DEF localVars, Wins, Preferred
  <2>3. ChosenWins'
    BY <1>4, <2>2 DEF localVars, SelectionInv, ChosenWins
  <2>4. QED
    BY <2>1, <2>3 DEF SelectionInv
<1>5. SelectRuns \/ SelectStarts \/ SelectReturns \/ UNCHANGED <<stage, localVars, chosen>>
  BY DEF Next, Own, Peer, vars, selectionVars, Service, LoadIdentity, LoadTrust, Dial,
         SendKeyMethod, RequestPush, ParsePushedSession, HandOver, SendQuery, ReadFails,
         Return, Handshake, ReadKeyMethod, ReadPushReply, ReadDatagram, ReadBreaks,
         DeadlinePasses, ContextDone
<1>6. QED
  BY <1>1, <1>2, <1>3, <1>4, <1>5

\* bestWireEndpoint returns no gateway that was fast once: for any number of
\* endpoints, any latencies and any losses, two of its packets were as fast as
\* the middle one of every finalist that answered twice.
THEOREM LuckChoosesNoGateway == Spec => []NotChosenByLuck
<1>1. Init => SelectionInv
  BY DEF Init, SelectionInit, SelectionInv, Measured, ChosenWins
<1>2. SelectionInv => NotChosenByLuck
  BY WinnerIsNotLucky DEF SelectionInv
<1>3. QED
  BY <1>1, <1>2, SelectionKeeps, PTL DEF Spec
=============================================================================
