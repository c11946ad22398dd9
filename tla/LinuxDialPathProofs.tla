------------------------- MODULE LinuxDialPathProofs ------------------------
(***************************************************************************)
(* Proofs about the two parts a client's connection goes through: the      *)
(* dialer and its child, and the HTTP proxy that calls it.                 *)
(*                                                                         *)
(* LinuxVPNDialer, for any set of dials and any size of the id space: its  *)
(* type invariant, the inductive invariant IInv, and from it that no       *)
(* sender ever waits on a channel, that a dial that gave up is out of      *)
(* reach and that no connection is lost; then, for fewer dials than ids,   *)
(* that every dial gets its own reply.                                     *)
(*                                                                         *)
(* LinuxHTTPProxy, for any set of connections and any number of goroutines *)
(* calling setMode: its type invariant, its inductive invariant, and from  *)
(* it NoStaleRoute, CloseMissesAtMostOne and ForgottenIsClosed.            *)
(***************************************************************************)
EXTENDS LinuxVPNDialer, LinuxHTTPProxy, FiniteSetTheorems, TLAPS

USE DialAssumption, IdAssumption
USE DEF Ids, Conn, Request, Reply, NoMsg, Returns,
        dialVars, closeVars, readVars, childVars

\* The wrapped counter is an id again.
LEMMA WrapIsId == ASSUME NEW n \in Ids PROVE (n + 1) % IdSpace \in Ids
OBVIOUS

\* Every step keeps the dialer's variables in their types.
LEMMA TypeStep == TypeOK /\ [Next]_vars => TypeOK'
<1> SUFFICES ASSUME TypeOK, [Next]_vars PROVE TypeOK'
  OBVIOUS
<1> USE DEF TypeOK
<1>1. ASSUME NEW d \in Dials, Alloc(d) PROVE TypeOK'
  <2>1. nextID' \in Ids
    BY <1>1, WrapIsId DEF Alloc
  <2>2. QED
    BY <1>1, <2>1 DEF Alloc
<1>2. ASSUME NEW d \in Dials, Register(d) PROVE TypeOK'
  BY <1>2 DEF Register
<1>3. ASSUME NEW d \in Dials, Send(d) PROVE TypeOK'
  BY <1>3 DEF Send
<1>4. ASSUME NEW d \in Dials, SendFails(d) \/ Timeout(d) \/ SeesClosed(d)
      PROVE TypeOK'
  <2>1. CASE SendFails(d)
    BY <2>1 DEF SendFails
  <2>2. CASE Timeout(d)
    BY <2>2 DEF Timeout
  <2>3. CASE SeesClosed(d)
    BY <2>3 DEF SeesClosed
  <2>4. QED
    BY <1>4, <2>1, <2>2, <2>3
<1>5. ASSUME NEW d \in Dials, NEW x \in Conn, Answered(d, x) PROVE TypeOK'
  BY <1>5 DEF Answered
<1>6. ASSUME NEW r \in replies, NEW x \in Conn, Recv(r, x) PROVE TypeOK'
  BY <1>6 DEF Recv
<1>7. CASE Lookup
  BY <1>7 DEF Lookup
<1>8. CASE Deliver
  <2>1. {msg.conn} \in SUBSET Conn
    OBVIOUS
  <2>2. chan' \in [Dials -> SUBSET Conn]
    BY <1>8, <2>1 DEF Deliver
  <2>3. QED
    BY <1>8, <2>2 DEF Deliver
<1>9. CASE RecvFails \/ ReaderExits \/ CloseSignal \/ CloseSocket \/ CloseReturn
  BY <1>9 DEF RecvFails, ReaderExits, CloseSignal, CloseSocket, CloseReturn
<1>10. CASE CloseSwap
  BY <1>10 DEF CloseSwap
<1>11. ASSUME NEW d \in Dials, DrainOne(d) PROVE TypeOK'
  BY <1>11 DEF DrainOne
<1>12. ASSUME NEW r \in requests, ChildReads(r) PROVE TypeOK'
  BY <1>12 DEF ChildReads
<1>13. ASSUME NEW r \in dialing, NEW x \in Conn, ChildAnswers(r, x) PROVE TypeOK'
  BY <1>13 DEF ChildAnswers
<1>14. CASE ChildDies
  BY <1>14 DEF ChildDies
<1>15. CASE UNCHANGED vars
  BY <1>15 DEF vars
<1>16. QED
  BY <1>1, <1>2, <1>3, <1>4, <1>5, <1>6, <1>7, <1>8, <1>9, <1>10, <1>11,
     <1>12, <1>13, <1>14, <1>15
     DEF Next, DialStep, ReadStep, CloseStep, ChildStep

\* The dialer newLinuxVPNDialer makes has the types it keeps.
LEMMA InitTyped == ASSUME Init PROVE TypeOK
<1>1. 0 \in Ids /\ FirstID \in Ids
  OBVIOUS
<1>2. msg \in Reply
  BY DEF Init
<1>3. /\ nextID \in Ids
      /\ id \in [Dials -> Ids]
      /\ pending \in [Ids -> Dials \cup {NoDial}]
  BY DEF Init
<1>4. /\ pc \in [Dials -> {"alloc", "realloc", "register", "send", "wait", "done"}]
      /\ chan \in [Dials -> SUBSET Conn]
      /\ ret \in [Dials -> Returns]
      /\ got \in [Dials -> Conn]
  BY DEF Init
<1> HIDE DEF Ids, Reply, Request
<1>5. QED
  BY <1>2, <1>3, <1>4 DEF Init, TypeOK

\* The dialer's variables always have their types; in particular an id never
\* leaves the counter's range.
THEOREM TypeCorrect == Spec => []TypeOK
<1>1. Init => TypeOK
  BY InitTyped
<1>2. QED
  BY <1>1, TypeStep, PTL DEF Spec

-----------------------------------------------------------------------------
(* IInv is inductive.  Two dials may even share an id here: what it says   *)
(* about channels does not need ids to be distinct.                        *)

\* IInv speaks of these variables only.
LEMMA FrameStep ==
  ASSUME IInv, TypeOK',
         UNCHANGED <<id, pending, pc, chan, ret, drain, reader, target>>
  PROVE  IInv'
<1> USE DEF IInv
<1>1. RegisteredUnderOwnId' /\ GivenUpIsGone' /\ UnansweredHasNoConn'
  BY DEF RegisteredUnderOwnId, GivenUpIsGone, UnansweredHasNoConn
<1>2. RegisteredIsUnsent' /\ EarlyIsUntouched'
  BY DEF RegisteredIsUnsent, EarlyIsUntouched, Taken
<1>3. TakenIsUnsent' /\ OneSender' /\ ReaderHasTarget'
  BY DEF TakenIsUnsent, OneSender, ReaderHasTarget, Taken
<1>4. QED
  BY <1>1, <1>2, <1>3

\* A registered channel is empty and in no sender's hands, and its dial has
\* got past Register.
LEMMA RegisteredIsFree ==
  ASSUME IInv, NEW i \in Ids, NEW e \in Dials, pending[i] = e
  PROVE  /\ chan[e] = {} /\ target # e /\ e \notin drain
         /\ pc[e] \notin {"alloc", "realloc", "register"}
BY DEF IInv, Taken, RegisteredUnderOwnId, RegisteredIsUnsent

\* A step of DialContext keeps IInv: a channel is registered before anyone
\* can have taken it, and leaves the map when its dial gives up.
LEMMA DialKeepsIInv ==
  ASSUME NEW d \in Dials, IInv, TypeOK', DialStep(d)
  PROVE  IInv'
<1> USE DEF IInv, TypeOK, Taken, RegisteredUnderOwnId, RegisteredIsUnsent,
            TakenIsUnsent, OneSender, ReaderHasTarget, EarlyIsUntouched,
            GivenUpIsGone, UnansweredHasNoConn
<1>1. CASE Alloc(d)
  BY <1>1 DEF Alloc
<1>2. CASE Register(d)
  <2>1. \A i \in Ids, e \in Dials :
            pending'[i] = e => (e = d /\ i = id[d]) \/ (e # d /\ pending[i] = e)
    BY <1>2 DEF Register
  <2>2. ~Taken(d) /\ chan[d] = {} /\ ret[d] = "none"
    BY <1>2 DEF Register
  <2>3. RegisteredUnderOwnId' /\ RegisteredIsUnsent' /\ GivenUpIsGone'
    BY <1>2, <2>1, <2>2 DEF Register
  <2>4. QED
    BY <1>2, <2>3 DEF Register
<1>3. CASE Send(d)
  BY <1>3 DEF Send
<1>4. CASE SendFails(d)
  BY <1>4 DEF SendFails
<1>5. ASSUME NEW x \in Conn, Answered(d, x)
      PROVE IInv'
  BY <1>5 DEF Answered
<1>6. CASE Timeout(d)
  BY <1>6 DEF Timeout
<1>7. CASE SeesClosed(d)
  BY <1>7 DEF SeesClosed
<1>8. QED
  BY <1>1, <1>2, <1>3, <1>4, <1>5, <1>6, <1>7 DEF DialStep

\* A step of readLoop keeps IInv: deliver empties the entry it takes.
LEMMA ReadKeepsIInv ==
  ASSUME IInv, TypeOK', ReadStep \/ RecvFails
  PROVE  IInv'
<1> USE DEF IInv, TypeOK, Taken, RegisteredUnderOwnId, RegisteredIsUnsent,
            TakenIsUnsent, OneSender, ReaderHasTarget, EarlyIsUntouched,
            GivenUpIsGone, UnansweredHasNoConn
<1>1. ASSUME NEW r \in replies, NEW x \in Conn, Recv(r, x)
      PROVE IInv'
  BY <1>1 DEF Recv
<1>2. CASE Lookup
  <2>1. \A i \in Ids, e \in Dials :
            pending'[i] = e => i # msg.id /\ pending[i] = e
    BY <1>2 DEF Lookup
  <2>2. \A e \in Dials : target' = e => pending[msg.id] = e /\ reader' = "send"
    BY <1>2 DEF Lookup
  <2>3. \A i \in Ids, e \in Dials : pending'[i] = e => target' # e
    BY <2>1, <2>2
  <2>4. RegisteredUnderOwnId' /\ RegisteredIsUnsent' /\ GivenUpIsGone'
    BY <1>2, <2>1, <2>3 DEF Lookup
  <2>5. TakenIsUnsent' /\ OneSender' /\ EarlyIsUntouched'
    <3>1. msg.id \in Ids
      BY DEF Reply
    <3>2. ASSUME NEW e \in Dials, target' = e
          PROVE  /\ chan[e] = {} /\ e \notin drain
                 /\ pc[e] \notin {"alloc", "realloc", "register"}
      <4>1. pending[msg.id] = e
        BY <2>2, <3>2
      <4> HIDE DEF IInv
      <4>2. QED
        BY <3>1, <4>1, RegisteredIsFree
    <3>3. UNCHANGED <<chan, drain, pc>>
      BY <1>2 DEF Lookup
    <3>4. /\ \A e \in Dials : e \in drain => chan[e] = {}
          /\ \A e \in Dials : pc[e] \in {"alloc", "realloc", "register"}
                                => e \notin drain /\ chan[e] = {}
      OBVIOUS
    <3> HIDE DEF IInv, TypeOK
    <3>5. QED
      BY <3>2, <3>3, <3>4
  <2>6. ReaderHasTarget' /\ UnansweredHasNoConn'
    BY <1>2 DEF Lookup
  <2>7. QED
    BY <2>4, <2>5, <2>6
<1>3. CASE Deliver
  BY <1>3 DEF Deliver
<1>4. CASE ReaderExits \/ RecvFails
  BY <1>4 DEF ReaderExits, RecvFails
<1>5. QED
  BY <1>1, <1>2, <1>3, <1>4 DEF ReadStep

\* A step of Close keeps IInv: the swap takes every registered channel at
\* once, and none of them is in readLoop's hands.
LEMMA CloseKeepsIInv ==
  ASSUME IInv, TypeOK', CloseSignal \/ CloseStep
  PROVE  IInv'
<1> USE DEF IInv, TypeOK, Taken, RegisteredUnderOwnId, RegisteredIsUnsent,
            TakenIsUnsent, OneSender, ReaderHasTarget, EarlyIsUntouched,
            GivenUpIsGone, UnansweredHasNoConn
<1>1. CASE CloseSignal \/ CloseSocket \/ CloseReturn
  BY <1>1, FrameStep DEF CloseSignal, CloseSocket, CloseReturn
<1>2. CASE CloseSwap
  <2>1. \A i \in Ids, e \in Dials : pending'[i] # e
    BY <1>2 DEF CloseSwap
  <2>2. \A e \in Dials : e \in drain' <=> \E i \in Ids : pending[i] = e
    BY <1>2 DEF CloseSwap
  <2>3. RegisteredUnderOwnId' /\ RegisteredIsUnsent' /\ GivenUpIsGone'
    BY <2>1
  <2>4. TakenIsUnsent' /\ OneSender' /\ EarlyIsUntouched'
    <3>1. \A e \in Dials : e \in drain' =>
              /\ chan[e] = {} /\ target # e
              /\ pc[e] \notin {"alloc", "realloc", "register"}
      <4> SUFFICES ASSUME NEW e \in Dials, e \in drain'
                   PROVE  /\ chan[e] = {} /\ target # e
                          /\ pc[e] \notin {"alloc", "realloc", "register"}
        OBVIOUS
      <4>1. PICK i \in Ids : pending[i] = e
        BY <2>2
      <4> HIDE DEF IInv
      <4>2. QED
        BY <4>1, RegisteredIsFree
    <3>2. UNCHANGED <<chan, target, pc>>
      BY <1>2 DEF CloseSwap
    <3>3. QED
      BY <3>1, <3>2
  <2>5. ReaderHasTarget' /\ UnansweredHasNoConn'
    BY <1>2 DEF CloseSwap
  <2>6. QED
    BY <2>3, <2>4, <2>5
<1>3. ASSUME NEW d \in Dials, DrainOne(d)
      PROVE IInv'
  BY <1>3 DEF DrainOne
<1>4. QED
  BY <1>1, <1>2, <1>3 DEF CloseStep

\* Every step keeps IInv; the child touches none of what it speaks of.
LEMMA IInvStep == IInv /\ [Next]_vars => IInv'
<1> SUFFICES ASSUME IInv, [Next]_vars PROVE IInv'
  OBVIOUS
<1>1. TypeOK'
  BY TypeStep DEF IInv
<1>2. CASE ChildStep \/ ChildDies \/ UNCHANGED vars
  BY <1>1, <1>2, FrameStep
     DEF ChildStep, ChildReads, ChildAnswers, ChildDies, vars
<1>3. CASE ReadStep \/ RecvFails
  BY <1>1, <1>3, ReadKeepsIInv
<1>4. CASE CloseSignal \/ CloseStep
  BY <1>1, <1>4, CloseKeepsIInv
<1>5. ASSUME NEW d \in Dials, DialStep(d) PROVE IInv'
  BY <1>1, <1>5, DialKeepsIInv
<1>6. QED
  BY <1>2, <1>3, <1>4, <1>5 DEF Next

\* It holds of the new dialer.
LEMMA InitIInv == ASSUME Init PROVE IInv
BY InitTyped DEF Init, IInv, Taken, RegisteredUnderOwnId, RegisteredIsUnsent,
       TakenIsUnsent, OneSender, ReaderHasTarget, EarlyIsUntouched,
       GivenUpIsGone, UnansweredHasNoConn

\* IInv holds in every reachable state.
THEOREM InductiveInvariant == Spec => []IInv
<1>1. Init => IInv
  BY InitIInv
<1>2. QED
  BY <1>1, IInvStep, PTL DEF Spec

-----------------------------------------------------------------------------
(* What IInv gives.                                                        *)

\* readLoop and Close find room in every channel they send to.
THEOREM NoSenderBlocks == Spec => []SendersNeverBlock
<1>1. IInv => SendersNeverBlock
  BY DEF IInv, TypeOK, Taken, TakenIsUnsent, OneSender, ReaderHasTarget,
         SendersNeverBlock
<1>2. QED
  BY <1>1, InductiveInvariant, PTL

\* A dial that timed out or could not send is never again taken by a sender.
THEOREM GivenUpStaysAlone == Spec => GivenUpIsUnreachable
<1> DEFINE Step ==
      \A d \in Dials :
          ret[d] \in {"timeout", "sendfail"} /\ ~Taken(d) => ~Taken(d)'
<1>1. IInv /\ [Next]_vars => [Step]_vars
  <2> SUFFICES ASSUME IInv, Next, NEW d \in Dials,
                      ret[d] \in {"timeout", "sendfail"}, ~Taken(d)
               PROVE  ~Taken(d)'
    OBVIOUS
  <2>1. \A i \in Ids : pending[i] # d
    BY DEF IInv, GivenUpIsGone
  <2>2. CASE Lookup
    BY <2>1, <2>2 DEF Lookup, Taken, IInv, TypeOK
  <2>3. CASE CloseSwap
    BY <2>1, <2>3 DEF CloseSwap, Taken
  <2>4. CASE Deliver \/ \E e \in Dials : DrainOne(e)
    BY <2>4 DEF Deliver, DrainOne, Taken
  <2>5. CASE ~Lookup /\ ~CloseSwap /\ ~Deliver /\ \A e \in Dials : ~DrainOne(e)
    <3>1. UNCHANGED <<target, drain>>
      BY <2>5 DEF Next, DialStep, ReadStep, CloseStep, ChildStep, Alloc, Register,
             Send, SendFails, Answered, Timeout, SeesClosed, Recv, RecvFails,
             ReaderExits, CloseSignal, CloseSocket, CloseReturn, ChildReads,
             ChildAnswers, ChildDies
    <3>2. QED
      BY <3>1 DEF Taken
  <2>6. QED
    BY <2>2, <2>3, <2>4, <2>5
<1>2. QED
  BY <1>1, InductiveInvariant, PTL DEF Spec, GivenUpIsUnreachable

-----------------------------------------------------------------------------
(* No connection is lost between readLoop and the dial it is for.          *)

\* ConnInv looks at these variables only, besides what IInv does.
LEMMA ConnFrame ==
  ASSUME ConnInv, IInv', UNCHANGED <<pc, chan, got, reader, msg, received, shut>>
  PROVE  ConnInv'
BY DEF ConnInv, OnePlace, NothingGotYet, NoConnVanishes

\* Every step keeps ConnInv: a connection passes from readLoop's hands to the
\* channel, which is empty then, and from there to the dial, which holds none.
LEMMA ConnStep == ConnInv /\ [Next]_vars => ConnInv'
<1> SUFFICES ASSUME ConnInv, [Next]_vars PROVE ConnInv'
  OBVIOUS
<1>1. IInv /\ IInv' /\ TypeOK /\ TypeOK'
  BY IInvStep DEF ConnInv, IInv
<1> USE DEF ConnInv, OnePlace, NothingGotYet, NoConnVanishes
<1>2. ASSUME NEW d \in Dials, DialStep(d) PROVE ConnInv'
  <2>1. CASE Alloc(d)
    BY <1>1, <2>1 DEF Alloc, TypeOK
  <2>2. CASE Register(d) \/ Send(d)
    BY <1>1, <2>2 DEF Register, Send, TypeOK
  <2>3. CASE SendFails(d) \/ Timeout(d) \/ SeesClosed(d)
    BY <1>1, <2>3 DEF SendFails, Timeout, SeesClosed, TypeOK
  <2>4. ASSUME NEW x \in Conn, Answered(d, x) PROVE ConnInv'
    <3>1. chan[d] = {x} /\ got[d] = NoDial
      BY <2>4, <1>1 DEF Answered, TypeOK
    <3>2. NoConnVanishes'
      BY <1>1, <2>4, <3>1 DEF Answered, TypeOK
    <3>3. QED
      BY <1>1, <2>4, <3>2 DEF Answered, TypeOK
  <2>5. QED
    BY <1>2, <2>1, <2>2, <2>3, <2>4 DEF DialStep
<1>3. ASSUME NEW r \in replies, NEW x \in Conn, Recv(r, x) PROVE ConnInv'
  BY <1>1, <1>3 DEF Recv, TypeOK
<1>4. CASE Lookup
  BY <1>1, <1>4 DEF Lookup, TypeOK
<1>5. CASE Deliver
  <2>1. target \in Dials /\ chan[target] = {} /\ chan'[target] = {msg.conn}
    BY <1>1, <1>5 DEF Deliver, TypeOK, IInv, ReaderHasTarget
  <2>2. QED
    BY <1>1, <1>5, <2>1 DEF Deliver, TypeOK
<1>6. ASSUME NEW d \in Dials, DrainOne(d) PROVE ConnInv'
  BY <1>1, <1>6 DEF DrainOne, TypeOK
<1>7. CASE RecvFails \/ ReaderExits
  BY <1>1, <1>7 DEF RecvFails, ReaderExits
<1>8. CASE CloseSignal \/ CloseSocket \/ CloseSwap \/ CloseReturn
  BY <1>1, <1>8, ConnFrame DEF CloseSignal, CloseSocket, CloseSwap, CloseReturn
<1>9. CASE ChildStep \/ ChildDies \/ UNCHANGED vars
  BY <1>1, <1>9, ConnFrame
     DEF ChildStep, ChildReads, ChildAnswers, ChildDies, vars
<1>10. QED
  BY <1>2, <1>3, <1>4, <1>5, <1>6, <1>7, <1>8, <1>9 DEF Next, ReadStep, CloseStep

\* A connection that reached the parent is never dropped open: it is in
\* readLoop's hands, in a channel, returned by a dial, or closed.
THEOREM NoConnIsLost == Spec => []NoConnVanishes
<1>1. Init => ConnInv
  BY InitIInv DEF Init, ConnInv, OnePlace, NothingGotYet, NoConnVanishes
<1>2. ConnInv => NoConnVanishes
  BY DEF ConnInv
<1>3. QED
  BY <1>1, <1>2, ConnStep, PTL DEF Spec

-----------------------------------------------------------------------------
(* An answer reaches the dial it was made for: no two dials have one id,   *)
(* because there are fewer of them than ids, and the skipped 0.            *)

\* The counter is a number below IdSpace, so its wrap can be told by cases.
LEMMA Wrap ==
  ASSUME NEW n \in Ids
  PROVE  (n + 1) % IdSpace = IF n + 1 = IdSpace THEN 0 ELSE n + 1
<1>1. CASE n + 1 = IdSpace
  BY <1>1
<1>2. CASE n + 1 # IdSpace
  BY <1>2
<1>3. QED
  BY <1>1, <1>2

\* Offset tells ids apart.
LEMMA OffsetInjective ==
  ASSUME NEW i \in Ids, NEW j \in Ids
  PROVE  Offset(i) \in Nat /\ (Offset(i) = Offset(j) => i = j)
BY DEF Offset

\* There are finitely many dials with an id, and a dial without one is not
\* among them.
LEMMA ServedIsFinite ==
  /\ IsFiniteSet(Served) /\ Cardinality(Served) \in Nat
  /\ Cardinality(Dials) \in Nat /\ Cardinality(Served) <= Cardinality(Dials)
  /\ \A d \in Dials : d \notin Served => Cardinality(Served) < Cardinality(Dials)
<1>1. Served \in SUBSET Dials
  BY DEF Served
<1>2. IsFiniteSet(Dials) /\ IsFiniteSet(Served)
  BY <1>1, LapAssumption, FS_Subset
<1>3. Cardinality(Dials) \in Nat /\ Cardinality(Served) \in Nat
  BY <1>2, FS_CardinalityType
<1>4. Cardinality(Served) <= Cardinality(Dials)
  BY <1>1, <1>2, FS_Subset
<1>5. ASSUME NEW d \in Dials, d \notin Served
      PROVE  Cardinality(Served) # Cardinality(Dials)
  BY <1>1, <1>2, <1>5, FS_Subset
<1>6. QED
  BY <1>2, <1>3, <1>4, <1>5

\* Alloc moves the counter one further, and never back to where it began.
LEMMA AllocAdvances ==
  ASSUME TypeOK, CounterCounts, NEW d \in Dials, Alloc(d)
  PROVE  /\ Offset(nextID') = Offset(nextID) + 1
         /\ nextID' = 0 => nextID >= FirstID /\ FirstID > 0 /\ pc[d] = "alloc"
         /\ nextID' # 0 => (nextID' < FirstID <=> nextID < FirstID)
<1>1. nextID \in Ids /\ nextID' = IF nextID + 1 = IdSpace THEN 0 ELSE nextID + 1
  BY Wrap DEF TypeOK, Alloc
<1>2. d \notin Served
  BY DEF Served, Alloc
<1>3. Cardinality(Served) \in Nat /\ Cardinality(Dials) \in Nat
      /\ Cardinality(Served) + 2 < IdSpace
  BY <1>2, ServedIsFinite, LapAssumption
<1>4. Offset(nextID) \in Nat /\ Offset(nextID) + 1 < IdSpace
  BY <1>1, <1>3 DEF CounterCounts, Offset
<1>5. pc[d] = "realloc" => nextID < FirstID
  BY DEF CounterCounts
<1>6. pc[d] \in {"alloc", "realloc"}
  BY DEF Alloc
<1>7. QED
  BY <1>1, <1>4, <1>5, <1>6 DEF Offset

\* Alloc keeps the counter's account and gives an id no other dial has.
LEMMA AllocKeepsIds ==
  ASSUME TypeOK, TypeOK', CounterCounts, IdsAreBehind, IdsAreDistinct,
         NEW d \in Dials, Alloc(d)
  PROVE  CounterCounts' /\ IdsAreBehind' /\ IdsAreDistinct'
<1>1. /\ Offset(nextID') = Offset(nextID) + 1
      /\ nextID' = 0 => nextID >= FirstID /\ FirstID > 0 /\ pc[d] = "alloc"
      /\ nextID' # 0 => (nextID' < FirstID <=> nextID < FirstID)
  BY AllocAdvances
<1>2. nextID \in Ids /\ nextID' \in Ids /\ Offset(nextID) \in Nat
  BY OffsetInjective DEF TypeOK
<1>3. d \notin Served /\ \A e \in Dials : e # d => pc'[e] = pc[e] /\ id'[e] = id[e]
  BY DEF Served, Alloc, TypeOK
<1>4. id'[d] = nextID'
  BY DEF Alloc, TypeOK
<1>5. IsFiniteSet(Served) /\ Cardinality(Served) \in Nat
  BY ServedIsFinite
<1>6. Served' = IF nextID' = 0 THEN Served ELSE Served \cup {d}
  <2>1. pc'[d] = IF nextID' = 0 THEN "realloc" ELSE "register"
    BY <1>1 DEF Alloc, TypeOK
  <2>2. \A e \in Dials : e \in Served' <=>
            (e \in Served \/ (e = d /\ nextID' # 0))
    BY <1>3, <2>1 DEF Served
  <2>3. Served' \subseteq Dials /\ Served \subseteq Dials
    BY DEF Served
  <2>4. QED
    BY <2>2, <2>3
<1>7. Cardinality(Served') = Cardinality(Served) + IF nextID' = 0 THEN 0 ELSE 1
  <2>1. Cardinality(Served \cup {d}) = Cardinality(Served) + 1
    BY <1>3, <1>5, FS_AddElement
  <2>2. QED
    BY <1>5, <1>6, <2>1
<1>8. CounterCounts'
  <2>1. Offset(nextID') = Cardinality(Served') + IF nextID' < FirstID THEN 1 ELSE 0
    BY <1>1, <1>2, <1>5, <1>7 DEF CounterCounts
  <2>2. \A e \in Dials : pc'[e] = "realloc" => nextID' < FirstID
    BY <1>1, <1>2, <1>3 DEF CounterCounts, Alloc, TypeOK
  <2>3. QED
    BY <2>1, <2>2 DEF CounterCounts, Offset
<1>9. \A e \in Served : e \in Dials /\ e # d /\ id'[e] = id[e] /\ id[e] \in Ids
                       /\ Offset(id[e]) \in 1 .. Offset(nextID)
  BY <1>3 DEF Served, TypeOK, IdsAreBehind
<1>10. IdsAreBehind'
  <2>1. \A e \in Served' : Offset(id'[e]) \in 1 .. Offset(nextID')
    BY <1>1, <1>2, <1>4, <1>6, <1>9
  <2>2. QED
    BY <2>1 DEF IdsAreBehind, Offset
<1>11. IdsAreDistinct'
  <2>1. \A e \in Served : id'[e] # id'[d]
    <3> SUFFICES ASSUME NEW e \in Served PROVE id[e] # nextID'
      BY <1>4, <1>9
    <3>1. Offset(id[e]) \in 1 .. Offset(nextID)
      BY <1>9
    <3>2. QED
      BY <1>1, <1>2, <3>1
  <2>2. QED
    BY <1>6, <1>9, <2>1 DEF IdsAreDistinct
<1>12. QED
  BY <1>8, <1>10, <1>11

\* Only Alloc gives ids or touches the counter.
LEMMA OthersKeepIds ==
  ASSUME TypeOK, [Next]_vars, \A d \in Dials : ~Alloc(d)
  PROVE  /\ UNCHANGED <<nextID, id, Served>>
         /\ \A d \in Dials : pc'[d] = "realloc" => pc[d] = "realloc"
<1>1. UNCHANGED <<nextID, id>> /\
      \A d \in Dials : pc'[d] = pc[d] \/ {pc[d], pc'[d]} \subseteq {"register", "send", "wait", "done"}
  <2>1. ASSUME NEW e \in Dials, DialStep(e)
        PROVE  /\ UNCHANGED <<nextID, id>>
               /\ \A d \in Dials : pc'[d] = pc[d] \/
                     {pc[d], pc'[d]} \subseteq {"register", "send", "wait", "done"}
    BY <2>1 DEF TypeOK, DialStep, Register, Send, SendFails, Answered, Timeout,
                SeesClosed
  <2>2. CASE UNCHANGED dialVars
    BY <2>2
  <2>3. CASE ~UNCHANGED dialVars
    BY <2>1, <2>3 DEF Next, vars, ReadStep, CloseStep, ChildStep, Recv, Lookup, Deliver,
          RecvFails, ReaderExits, CloseSignal, CloseSocket, CloseSwap, DrainOne,
          CloseReturn, ChildReads, ChildAnswers, ChildDies
  <2>4. QED
    BY <2>2, <2>3
<1>2. Served' = Served
  BY <1>1 DEF Served
<1>3. QED
  BY <1>1, <1>2

\* Every step keeps the ids distinct.
LEMMA IdsStep ==
  ASSUME TypeOK, TypeOK', CounterCounts, IdsAreBehind, IdsAreDistinct, [Next]_vars
  PROVE  /\ CounterCounts' /\ IdsAreBehind' /\ IdsAreDistinct'
         /\ Served \subseteq Served' /\ \A d \in Served : id'[d] = id[d]
<1>1. ASSUME NEW d \in Dials, Alloc(d)
      PROVE  Served \subseteq Served' /\ \A e \in Served : id'[e] = id[e]
  BY <1>1 DEF Alloc, Served, TypeOK
<1>2. CASE \A d \in Dials : ~Alloc(d)
  BY <1>2, OthersKeepIds DEF CounterCounts, IdsAreBehind, IdsAreDistinct, Offset
<1>3. QED
  BY <1>1, <1>2, AllocKeepsIds

\* Every step of DialContext keeps the labels: a request leaves with the id of
\* its dial.
LEMMA DialKeepsLabels ==
  ASSUME LabelInv, TypeOK', NEW d \in Dials, DialStep(d),
         Served \subseteq Served', \A e \in Served : id'[e] = id[e]
  PROVE  RequestsAreLabelled' /\ RepliesAreLabelled' /\ TargetIsLabelled' /\ OwnConnOnly'
<1> USE DEF LabelInv, IInv, RequestsAreLabelled, RepliesAreLabelled,
            TargetIsLabelled, OwnConnOnly
<1>1. CASE Send(d)
  <2>1. d \in Served
    BY <1>1 DEF Send, Served
  <2>2. requests' = requests \cup {[id |-> id[d], dest |-> d]} /\ id' = id
        /\ UNCHANGED <<chan, got, ret, readVars, dialing, replies>>
    BY <1>1 DEF Send
  <2>3. RequestsAreLabelled'
    BY <2>1, <2>2
  <2>4. QED
    BY <2>2, <2>3
<1>2. ASSUME NEW x \in Conn, Answered(d, x) PROVE OwnConnOnly'
  BY <1>2 DEF Answered, TypeOK
<1>3. ASSUME NEW x \in Conn, Answered(d, x)
      PROVE RequestsAreLabelled' /\ RepliesAreLabelled' /\ TargetIsLabelled'
  BY <1>3 DEF Answered
<1>4. CASE Alloc(d) \/ Register(d) \/ SendFails(d) \/ Timeout(d) \/ SeesClosed(d)
  <2>1. UNCHANGED <<requests, dialing, replies, reader, msg, target, chan, got>>
    BY <1>4 DEF Alloc, Register, SendFails, Timeout, SeesClosed
  <2>2. OwnConnOnly'
    <3>1. pc[d] # "done" /\ ret[d] = "none"
      BY <1>4 DEF Alloc, Register, SendFails, Timeout, SeesClosed, UnansweredHasNoConn
    <3>2. \A e \in Dials : ret'[e] = "conn" => ret[e] = "conn"
      BY <1>4 DEF Alloc, Register, SendFails, Timeout, SeesClosed, TypeOK
    <3>3. \A e \in Dials : ret'[e] = ret[e] \/ e = d
      BY <1>4 DEF Alloc, Register, SendFails, Timeout, SeesClosed, TypeOK
    <3>4. QED
      BY <2>1, <3>1, <3>2, <3>3
  <2>3. QED
    BY <2>1, <2>2
<1>5. QED
  BY <1>1, <1>2, <1>3, <1>4 DEF DialStep

\* Every other step keeps them: deliver finds under a reply's id the dial that
\* has that id, and no other dial has it.
LEMMA OthersKeepLabels ==
  ASSUME LabelInv, TypeOK', [Next]_vars, \A d \in Dials : ~DialStep(d),
         Served' = Served, id' = id
  PROVE  RequestsAreLabelled' /\ RepliesAreLabelled' /\ TargetIsLabelled' /\ OwnConnOnly'
<1> USE DEF LabelInv, IInv, RequestsAreLabelled, RepliesAreLabelled,
            TargetIsLabelled, OwnConnOnly
<1>1. ASSUME NEW r \in replies, NEW x \in Conn, Recv(r, x)
      PROVE  RequestsAreLabelled' /\ RepliesAreLabelled' /\ TargetIsLabelled' /\ OwnConnOnly'
  BY <1>1 DEF Recv, TypeOK
<1>2. CASE Lookup
  <2>1. target' # NoDial => target' \in Served /\ id[target'] = msg.id
    <3>1. msg.id \in Ids /\ target' = pending[msg.id] /\ target' \in Dials \cup {NoDial}
      BY <1>2 DEF Lookup, TypeOK
    <3>2. \A e \in Dials : pending[msg.id] = e => id[e] = msg.id /\ e \in Served
      BY <3>1 DEF RegisteredUnderOwnId, Served
    <3>3. QED
      BY <3>1, <3>2
  <2>2. QED
    BY <1>2, <2>1 DEF Lookup
<1>3. CASE Deliver
  <2>1. target \in Served /\ msg.id = id[target]
    BY <1>3 DEF Deliver
  <2>2. msg.conn \in {target, NoDial}
    BY <1>3, <2>1 DEF Deliver, IdsAreDistinct
  <2>3. OwnConnOnly'
    BY <1>3, <2>2 DEF Deliver, TypeOK
  <2>4. QED
    BY <1>3, <2>3 DEF Deliver
<1>4. ASSUME NEW d \in Dials, DrainOne(d)
      PROVE  RequestsAreLabelled' /\ RepliesAreLabelled' /\ TargetIsLabelled' /\ OwnConnOnly'
  BY <1>4 DEF DrainOne, TypeOK
<1>5. CASE RecvFails \/ ReaderExits \/ CloseSignal \/ CloseSwap \/ CloseReturn
  BY <1>5 DEF RecvFails, ReaderExits, CloseSignal, CloseSwap, CloseReturn
<1>6. CASE CloseSocket
  BY <1>6 DEF CloseSocket
<1>7. ASSUME NEW r \in requests, ChildReads(r)
      PROVE  RequestsAreLabelled' /\ RepliesAreLabelled' /\ TargetIsLabelled' /\ OwnConnOnly'
  BY <1>7 DEF ChildReads
<1>8. ASSUME NEW r \in dialing, NEW x \in Conn, ChildAnswers(r, x)
      PROVE  RequestsAreLabelled' /\ RepliesAreLabelled' /\ TargetIsLabelled' /\ OwnConnOnly'
  <2>1. r.dest \in Served /\ r.id = id[r.dest] /\ x \in {r.dest, NoDial}
    BY <1>8 DEF ChildAnswers
  <2>2. replies' \subseteq replies \cup {[id |-> r.id, conn |-> x]}
    BY <1>8 DEF ChildAnswers
  <2>3. RepliesAreLabelled'
    BY <1>8, <2>1, <2>2 DEF ChildAnswers
  <2>4. QED
    BY <1>8, <2>3 DEF ChildAnswers
<1>9. CASE ChildDies
  BY <1>9 DEF ChildDies
<1>10. CASE UNCHANGED vars
  BY <1>10 DEF vars
<1>11. QED
  BY <1>1, <1>2, <1>3, <1>4, <1>5, <1>6, <1>7, <1>8, <1>9, <1>10
     DEF Next, ReadStep, CloseStep, ChildStep

\* The new dialer has given no id and sent nothing.
LEMMA InitLabels == ASSUME Init PROVE LabelInv
<1>1. Served = {} /\ Cardinality(Served) = 0
  BY FS_EmptySet DEF Init, Served
<1>2. CounterCounts
  BY <1>1 DEF Init, CounterCounts, Offset
<1>3. IdsAreBehind /\ IdsAreDistinct
  BY <1>1 DEF IdsAreBehind, IdsAreDistinct
<1>4. RequestsAreLabelled /\ RepliesAreLabelled /\ TargetIsLabelled /\ OwnConnOnly
  BY DEF Init, RequestsAreLabelled, RepliesAreLabelled, TargetIsLabelled, OwnConnOnly
<1>5. QED
  BY <1>2, <1>3, <1>4, InitIInv DEF LabelInv

\* LabelInv holds in every reachable state.
THEOREM LabelInvariant == Spec => []LabelInv
<1>1. Init => LabelInv
  BY InitLabels
<1>2. LabelInv /\ [Next]_vars => LabelInv'
  <2> SUFFICES ASSUME LabelInv, [Next]_vars PROVE LabelInv'
    OBVIOUS
  <2>1. IInv' /\ TypeOK /\ TypeOK'
    BY IInvStep DEF LabelInv, IInv
  <2>2. /\ CounterCounts' /\ IdsAreBehind' /\ IdsAreDistinct'
        /\ Served \subseteq Served' /\ \A d \in Served : id'[d] = id[d]
    BY <2>1, IdsStep DEF LabelInv
  <2>3. RequestsAreLabelled' /\ RepliesAreLabelled' /\ TargetIsLabelled' /\ OwnConnOnly'
    <3>1. ASSUME NEW d \in Dials, DialStep(d)
          PROVE  RequestsAreLabelled' /\ RepliesAreLabelled' /\ TargetIsLabelled'
                 /\ OwnConnOnly'
      BY <2>1, <2>2, <3>1, DialKeepsLabels
    <3>2. CASE \A d \in Dials : ~DialStep(d)
      <4>1. UNCHANGED <<id, Served>>
        BY <2>1, <3>2, OthersKeepIds DEF DialStep
      <4>2. QED
        BY <2>1, <3>2, <4>1, OthersKeepLabels
    <3>3. QED
      BY <3>1, <3>2
  <2>4. QED
    BY <2>1, <2>2, <2>3 DEF LabelInv
<1>3. QED
  BY <1>1, <1>2, PTL DEF Spec

\* With fewer dials in flight than ids, a dial that returns a connection
\* returns the one dialled for it, however late and out of order the child
\* answers and wherever the counter wraps.
THEOREM DialGetsOwnReply == Spec => []OwnReply
<1>1. LabelInv => OwnReply
  BY DEF LabelInv, OwnConnOnly, OwnReply
<1>2. QED
  BY <1>1, LabelInvariant, PTL

-----------------------------------------------------------------------------
(* The HTTP proxy.                                                         *)

USE DEF Modes, Direct, VPN, NoRoute, Pumps, Writers, Sweepers, ConnPCs

\* Every step of the proxy keeps its variables in their types.
LEMMA ProxyTypeStep == ProxyTypeOK /\ [ProxyNext]_proxyVars => ProxyTypeOK'
<1> SUFFICES ASSUME ProxyTypeOK, [ProxyNext]_proxyVars PROVE ProxyTypeOK'
  OBVIOUS
<1> USE DEF ProxyTypeOK
<1>1. ASSUME NEW c \in Conns, Accept(c) \/ Track(c)
             \/ CloseClient(c) \/ Untrack(c)
      PROVE ProxyTypeOK'
  BY <1>1 DEF Accept, Track, CloseClient, Untrack, sweepVars
<1>2. ASSUME NEW c \in Conns, RequestRead(c) \/ RequestFails(c)
             \/ LoadMode(c) \/ DialFails(c)
      PROVE ProxyTypeOK'
  BY <1>2 DEF RequestRead, RequestFails, LoadMode, DialFails, sweepVars
<1>3. ASSUME NEW c \in Conns, DialSucceeds(c) \/ StartRelay(c)
             \/ ForwardFails(c) \/ EndRelay(c)
      PROVE ProxyTypeOK'
  BY <1>3 DEF DialSucceeds, StartRelay, ForwardFails, EndRelay, sweepVars
<1>4. ASSUME NEW c \in Conns, NEW p \in Pumps, PumpEOF(c, p)
             \/ PumpCut(c, p)
      PROVE ProxyTypeOK'
  BY <1>4 DEF PumpEOF, PumpCut, sweepVars
<1>5. ASSUME NEW c \in Conns, NEW w \in Writers, WriteBlocks(c, w)
             \/ WriteResumes(c, w)
      PROVE ProxyTypeOK'
  BY <1>5 DEF WriteBlocks, WriteResumes, sweepVars
<1>6. ASSUME NEW t \in Switchers, NEW m \in Modes, SwapMode(t, m)
      PROVE ProxyTypeOK'
  BY <1>6 DEF SwapMode, connVars
<1>7. CASE CloseListener
  BY <1>7 DEF CloseListener, connVars
<1>8. ASSUME NEW t \in Sweepers, Sweep(t)
      PROVE ProxyTypeOK'
  BY <1>8 DEF Sweep, Snapshot, SweepOne, SweepReturn, connVars
<1>9. CASE UNCHANGED proxyVars
  BY <1>9 DEF proxyVars, connVars, sweepVars
<1>10. QED
  BY <1>1, <1>2, <1>3, <1>4, <1>5, <1>6, <1>7, <1>8, <1>9
     DEF ProxyNext, Handle, Forward

\* The proxy's variables always have their types: mode is one of the two
\* constants of the atomic, and the map only ever holds accepted connections.
THEOREM ProxyTypeCorrect == ProxySpec => []ProxyTypeOK
<1>1. ProxyInit => ProxyTypeOK
  BY DEF ProxyInit, ProxyTypeOK
<1>2. QED
  BY <1>1, ProxyTypeStep, PTL DEF ProxySpec

-----------------------------------------------------------------------------
(* ProxyInv is inductive.                                                  *)

\* A step of one connection's goroutine keeps every part of ProxyInv: it is in
\* the map before it reads the mode and closed before it leaves the map.
LEMMA ProxyHandlerStep ==
  ASSUME NEW c \in Conns, ProxyInv, ProxyTypeOK',
         Accept(c) \/ Handle(c) \/ Forward(c)
  PROVE  ProxyInv'
<1> USE DEF ProxyInv, ProxyTypeOK, connVars, sweepVars,
            StaleIsDoomed, OpenIsTracked,
            EarlyHasNoRoute, OneInHand, EndedIsClosed,
                UpstreamInHandler,
            LeftWhileClosing, CloserWaits, CloserCovers
<1>1. CASE Accept(c)
  BY <1>1 DEF Accept
<1>2. CASE Track(c)
  BY <1>2 DEF Track
<1>3. CASE RequestRead(c)
  BY <1>3 DEF RequestRead
<1>4. CASE RequestFails(c)
  BY <1>4 DEF RequestFails
<1>5. CASE LoadMode(c)
  BY <1>5 DEF LoadMode
<1>6. CASE DialFails(c)
  BY <1>6 DEF DialFails
<1>7. CASE DialSucceeds(c)
  BY <1>7 DEF DialSucceeds
<1>8. CASE StartRelay(c)
  BY <1>8 DEF StartRelay
<1>9. CASE ForwardFails(c)
  BY <1>9 DEF ForwardFails
<1>10. CASE EndRelay(c)
  BY <1>10 DEF EndRelay
<1>11. CASE CloseClient(c)
  BY <1>11 DEF CloseClient
<1>12. CASE Untrack(c)
  BY <1>12 DEF Untrack
<1>13. QED
  BY <1>1, <1>2, <1>3, <1>4, <1>5, <1>6, <1>7, <1>8, <1>9, <1>10, <1>11, <1>12
     DEF Handle, Forward

\* A copy goroutine that ends, and a write that blocks or resumes, disturb
\* nothing ProxyInv speaks of.
LEMMA ProxyPumpStep ==
  ASSUME NEW c \in Conns, NEW w \in Writers, ProxyInv, ProxyTypeOK',
         PumpEOF(c, w) \/ PumpCut(c, w) \/ WriteBlocks(c, w) \/ WriteResumes(c, w)
  PROVE  ProxyInv'
BY DEF PumpEOF, PumpCut, WriteBlocks, WriteResumes, ProxyInv, ProxyTypeOK, sweepVars,
       StaleIsDoomed, OpenIsTracked, EarlyHasNoRoute, OneInHand,
       EndedIsClosed, UpstreamInHandler,
       LeftWhileClosing, CloserWaits, CloserCovers

\* A step of a caller of setMode or Close keeps ProxyInv.  The swap makes
\* every connection on the other route stale and its caller a sweep in waiting; the
\* snapshot then covers them all, because an open routed connection is tracked.
LEMMA ProxySweepStep ==
  ASSUME ProxyInv, ProxyTypeOK',
         \/ \E t \in Switchers, m \in Modes : SwapMode(t, m)
         \/ CloseListener
         \/ \E t \in Sweepers : Sweep(t)
  PROVE  ProxyInv'
<1> USE DEF ProxyInv, ProxyTypeOK, connVars, StaleIsDoomed,
        OpenIsTracked, EarlyHasNoRoute, OneInHand, EndedIsClosed,
        UpstreamInHandler, LeftWhileClosing, CloserWaits, CloserCovers
<1> USE CloserAssumption
<1>1. ASSUME NEW t \in Switchers, NEW m \in Modes, SwapMode(t, m)
      PROVE ProxyInv'
  <2>1. CASE mode = m
    BY <1>1, <2>1 DEF SwapMode
  <2>2. CASE mode # m
    <3>1. sweep'[t] = "snapshot"
      BY <1>1, <2>2 DEF SwapMode
    <3>2. StaleIsDoomed'
      BY <3>1
    <3>3. QED
      BY <1>1, <2>2, <3>2 DEF SwapMode
  <2>3. QED
    BY <2>1, <2>2
<1>2. CASE CloseListener
  BY <1>2 DEF CloseListener
<1>3. ASSUME NEW t \in Sweepers, Snapshot(t)
      PROVE ProxyInv'
  <2>1. StaleIsDoomed'
    <3>1. SUFFICES ASSUME NEW c \in open, route[c] \notin {NoRoute, mode}
                   PROVE \E s \in Switchers : sweep'[s] = "snapshot" \/ c \in left'[s]
      BY <1>3 DEF Snapshot
    <3>2. c \in active
      BY <3>1
    <3>3. PICK s \in Switchers : sweep[s] = "snapshot" \/ c \in left[s]
      BY <3>1
    <3>4. CASE s = t
      BY <1>3, <3>2, <3>4 DEF Snapshot
    <3>5. CASE s # t
      BY <1>3, <3>3, <3>5 DEF Snapshot
    <3>6. QED
      BY <3>4, <3>5
  <2>2. CloserCovers'
    BY <1>3 DEF Snapshot
  <2>3. QED
    BY <1>3, <2>1, <2>2 DEF Snapshot
<1>4. ASSUME NEW t \in Sweepers, NEW c \in Conns, SweepOne(t, c)
      PROVE ProxyInv'
  BY <1>4 DEF SweepOne
<1>5. ASSUME NEW t \in Sweepers, SweepReturn(t)
      PROVE ProxyInv'
  BY <1>5 DEF SweepReturn
<1>6. QED
  BY <1>1, <1>2, <1>3, <1>4, <1>5 DEF Sweep

\* ProxyInv holds in every reachable state, for any connections and callers.
THEOREM ProxyInductiveInvariant == ProxySpec => []ProxyInv
<1>1. ProxyInit => ProxyInv
  BY DEF ProxyInit, ProxyInv, ProxyTypeOK, StaleIsDoomed, OpenIsTracked,
         EarlyHasNoRoute, OneInHand, EndedIsClosed, UpstreamInHandler,
         LeftWhileClosing, CloserWaits, CloserCovers
<1>2. ProxyInv /\ [ProxyNext]_proxyVars => ProxyInv'
  <2> SUFFICES ASSUME ProxyInv, [ProxyNext]_proxyVars PROVE ProxyInv'
    OBVIOUS
  <2>1. ProxyTypeOK'
    BY ProxyTypeStep DEF ProxyInv
  <2>2. CASE UNCHANGED proxyVars
    BY <2>2 DEF proxyVars, connVars, sweepVars, ProxyInv, ProxyTypeOK,
                StaleIsDoomed, OpenIsTracked, EarlyHasNoRoute, OneInHand,
                EndedIsClosed, UpstreamInHandler, LeftWhileClosing, CloserWaits,
                CloserCovers
  <2>3. CASE ProxyNext
    BY <2>1, <2>3, ProxyHandlerStep, ProxyPumpStep, ProxySweepStep DEF ProxyNext
  <2>4. QED
    BY <2>2, <2>3
<1>3. QED
  BY <1>1, <1>2, PTL DEF ProxySpec

-----------------------------------------------------------------------------
(* What ProxyInv gives.                                                    *)

\* With no setMode running, every open routed client connection is on the
\* current route: Swap, then the snapshot of active, is enough.
THEOREM RouteSwitchIsComplete == ProxySpec => []NoStaleRoute
<1>1. ProxyInv => NoStaleRoute
  BY DEF ProxyInv, StaleIsDoomed, LeftWhileClosing, NoStaleRoute
<1>2. QED
  BY <1>1, ProxyInductiveInvariant, PTL

\* After Close has returned, at most the connection the accept loop had in
\* hand is open.
THEOREM CloseIsAlmostComplete == ProxySpec => []CloseMissesAtMostOne
<1>1. ProxyInv => CloseMissesAtMostOne
  BY DEF ProxyInv, LeftWhileClosing, CloserCovers, CloseMissesAtMostOne
<1>2. QED
  BY <1>1, ProxyInductiveInvariant, PTL

\* The map forgets a connection only when its two sockets are closed.
THEOREM ForgetsOnlyClosed == ProxySpec => ForgottenIsClosed
<1> DEFINE Step == \A c \in Conns : c \in active \ active' => c \notin open \cup upstream
<1>1. ProxyInv /\ [ProxyNext]_proxyVars => [Step]_proxyVars
  <2> SUFFICES ASSUME ProxyInv, ProxyNext, NEW c \in Conns, c \in active \ active'
               PROVE c \notin open \cup upstream
    OBVIOUS
  <2>1. \A t \in Sweepers : ~Sweep(t)
    BY DEF Sweep, Snapshot, SweepOne, SweepReturn
  <2>2. Untrack(c)
    BY <2>1 DEF ProxyNext, Accept, Handle, Forward, Track, RequestRead, RequestFails, LoadMode,
                DialFails, DialSucceeds, StartRelay, ForwardFails, EndRelay,
                CloseClient, Untrack, PumpEOF, PumpCut, WriteBlocks,
                WriteResumes, SwapMode, CloseListener
  <2>3. QED
    BY <2>2 DEF Untrack, ProxyInv, EndedIsClosed, UpstreamInHandler
<1>2. QED
  BY <1>1, ProxyInductiveInvariant, PTL DEF ProxySpec, ForgottenIsClosed
=============================================================================
