-------------------------- MODULE VPNBackendProofs --------------------------
(***************************************************************************)
(* Proofs about VPNBackend for every flavour of session and every size of  *)
(* the packet id space, 2^32 included: the inductive invariant IInv, and   *)
(* from it the types, that nothing is served before it is bridged, that no *)
(* GCM nonce is used twice, and that a session leaves nothing behind.      *)
(***************************************************************************)
EXTENDS VPNBackend, FiniteSetTheorems, SequenceTheorems, TLAPS

USE PidAssumption, FlavourAssumption
USE DEF parentVars, ctxVars, childVars, sockVars, idVars, bridgeVars, Handle, ErrCap

\* sendPayload's counter goes up by one, or wraps to 0, which is not sent.
LEMMA WrapIsZero ==
  ASSUME NEW n \in 0 .. PidSpace - 1
  PROVE  /\ (n + 1) % PidSpace \in 0 .. PidSpace - 1
         /\ (n + 1) % PidSpace = n + 1 \/ (n + 1) % PidSpace = 0
<1>1. CASE n + 1 < PidSpace
  BY <1>1
<1>2. CASE n + 1 = PidSpace
  BY <1>2
<1>3. QED
  BY <1>1, <1>2

\* The steps of a child's setup are the ones of the type.
LEMMA SetupTyped == ChildSetup \in Seq(SetupSteps)
<1>1. NetworkSetup \in Seq(SetupSteps) /\ DNSSetup \in Seq(SetupSteps)
  BY DEF NetworkSetup, DNSSetup, SetupSteps
<1>2. NetworkSetup \o DNSSetup \in Seq(SetupSteps)
  BY <1>1, ConcatProperties
<1>3. QED
  BY <1>1, <1>2 DEF ChildSetup

\* What a longer list holds: the head goes, the rest stays.
LEMMA HoldsAfterRelease ==
  ASSUME NEW s \in Seq(Releases), s # <<>>, NEW r, Holds(s, r), r # Head(s)
  PROVE  Holds(Tail(s), r)
<1>1. PICK i \in 1 .. Len(s) : s[i] = r
  BY DEF Holds
<1>2. /\ Len(Tail(s)) = Len(s) - 1 /\ Len(s) \in Nat
      /\ \A j \in 1 .. Len(Tail(s)) : Tail(s)[j] = s[j + 1]
      /\ Head(s) = s[1]
  OBVIOUS
<1>3. i - 1 \in 1 .. Len(Tail(s)) /\ Tail(s)[i - 1] = s[i]
  BY <1>1, <1>2
<1>4. QED
  BY <1>1, <1>3 DEF Holds

\* A concatenation holds what either part holds.
LEMMA HoldsInConcat ==
  ASSUME NEW s \in Seq(Releases), NEW t \in Seq(Releases), NEW r,
         Holds(s, r) \/ Holds(t, r)
  PROVE  Holds(s \o t, r)
<1>1. /\ Len(s \o t) = Len(s) + Len(t) /\ Len(s) \in Nat /\ Len(t) \in Nat
      /\ \A i \in 1 .. Len(s) + Len(t) :
            (s \o t)[i] = IF i <= Len(s) THEN s[i] ELSE t[i - Len(s)]
  BY ConcatProperties
<1>2. CASE Holds(s, r)
  BY <1>1, <1>2 DEF Holds
<1>3. CASE Holds(t, r)
  <2>1. PICK j \in 1 .. Len(t) : t[j] = r
    BY <1>3 DEF Holds
  <2>2. j + Len(s) \in 1 .. Len(s) + Len(t) /\ (s \o t)[j + Len(s)] = t[j]
    BY <1>1, <2>1
  <2>3. QED
    BY <1>1, <2>1, <2>2 DEF Holds
<1>4. QED
  BY <1>2, <1>3

\* The exit paths of the select are lists of releases, and hold what they name.
LEMMA SelectExits ==
  LET e == KillChild \o Deferred
      d == <<"cancel">> \o Deferred
  IN  /\ e \in Seq(Releases) /\ d \in Seq(Releases)
      /\ \A r \in {"tun", "sock", "udp"} : Holds(e, r) /\ Holds(d, r)
      /\ Holds(e, "kill")
<1>1. /\ KillChild \in Seq(Releases) /\ Deferred \in Seq(Releases)
      /\ <<"cancel">> \in Seq(Releases)
  <2>1. <<"cancel", "kill", "reap">> \in Seq(Releases) /\ <<"cancel", "kill">> \in Seq(Releases)
    BY DEF Releases
  <2>2. KillChild \in Seq(Releases)
    BY <2>1 DEF KillChild
  <2>3. QED
    BY <2>2 DEF Deferred, Releases
<1>2. \A r \in {"tun", "sock", "udp"} : Holds(Deferred, r)
  <2>1. /\ Len(Deferred) = 3
        /\ Deferred[1] = "tun" /\ Deferred[2] = "sock" /\ Deferred[3] = "udp"
    BY DEF Deferred
  <2>2. QED
    BY <2>1 DEF Holds
<1>3. Holds(KillChild, "kill")
  <2>1. Len(KillChild) >= 2 /\ KillChild[2] = "kill" /\ Len(KillChild) \in Nat
    BY DEF KillChild
  <2>2. QED
    BY <2>1 DEF Holds
<1>4. QED
  BY <1>1, <1>2, <1>3, HoldsInConcat, ConcatProperties

\* The other exit paths: each holds the releases of what the path can have.
LEMMA PlainExits ==
  LET tunFirst == <<"cancel", "tun", "kill", "sock", "udp">>
      killFirst == <<"cancel", "kill", "tun", "sock", "udp">>
      close == <<"sock", "cancel", "tun", "kill", "udp">>
  IN  /\ <<>> \in Seq(Releases) /\ <<"udp">> \in Seq(Releases) /\ Holds(<<"udp">>, "udp")
      /\ RecvFailed \in Seq(Releases)
      /\ \A r \in {"kill", "sock", "udp"} : Holds(RecvFailed, r)
      /\ \A e \in {tunFirst, killFirst, close} :
            e \in Seq(Releases) /\ \A r \in {"tun", "kill", "sock", "udp"} : Holds(e, r)
<1> DEFINE tunFirst == <<"cancel", "tun", "kill", "sock", "udp">>
           killFirst == <<"cancel", "kill", "tun", "sock", "udp">>
           close == <<"sock", "cancel", "tun", "kill", "udp">>
<1>1. /\ <<>> \in Seq(Releases) /\ <<"udp">> \in Seq(Releases)
      /\ RecvFailed \in Seq(Releases) /\ tunFirst \in Seq(Releases)
      /\ killFirst \in Seq(Releases) /\ close \in Seq(Releases)
  BY DEF Releases, RecvFailed
<1>2. /\ Len(<<"udp">>) = 1 /\ <<"udp">>[1] = "udp"
      /\ Len(RecvFailed) = 3
      /\ RecvFailed[1] = "kill" /\ RecvFailed[2] = "sock" /\ RecvFailed[3] = "udp"
  BY DEF RecvFailed
<1>3. /\ Len(tunFirst) = 5 /\ Len(killFirst) = 5 /\ Len(close) = 5
      /\ tunFirst[2] = "tun" /\ tunFirst[3] = "kill" /\ tunFirst[4] = "sock"
      /\ tunFirst[5] = "udp"
      /\ killFirst[2] = "kill" /\ killFirst[3] = "tun" /\ killFirst[4] = "sock"
      /\ killFirst[5] = "udp"
      /\ close[1] = "sock" /\ close[3] = "tun" /\ close[4] = "kill" /\ close[5] = "udp"
  OBVIOUS
<1>4. Holds(<<"udp">>, "udp") /\ \A r \in {"kill", "sock", "udp"} : Holds(RecvFailed, r)
  BY <1>2 DEF Holds
<1> HIDE DEF tunFirst, killFirst, close
<1>5. \A r \in {"tun", "kill", "sock", "udp"} :
         Holds(tunFirst, r) /\ Holds(killFirst, r) /\ Holds(close, r)
  BY <1>3 DEF Holds
<1>6. QED
  BY <1>1, <1>4, <1>5 DEF tunFirst, killFirst, close

-----------------------------------------------------------------------------
(* Types.                                                                  *)

Typed == TypeOK /\ SetupInOrder /\ ErrorsFit /\ NotYetBridged

\* The child's next setup step is one of its list.
LEMMA SetupGoesOn ==
  ASSUME TypeOK, SetupInOrder, ChildConfigures
  PROVE  SetupInOrder' /\ net' \in Seq(SetupSteps)
<1>1. ChildSetup \in Seq(SetupSteps) /\ net \in Seq(SetupSteps)
  BY SetupTyped DEF TypeOK
<1>2. Len(net) # Len(ChildSetup)
  BY <1>1, SeqEqual DEF SetupInOrder, ChildConfigures
<1>3. Len(net) + 1 \in 1 .. Len(ChildSetup) /\ Len(net) \in Nat
  BY <1>1, <1>2 DEF SetupInOrder
<1>4. ChildSetup[Len(net) + 1] \in SetupSteps
  BY <1>1, <1>3
<1>5. /\ net' \in Seq(SetupSteps) /\ Len(net') = Len(net) + 1
      /\ \A i \in 1 .. Len(net) : net'[i] = net[i]
      /\ net'[Len(net) + 1] = ChildSetup[Len(net) + 1]
  BY <1>1, <1>4, AppendProperties DEF ChildConfigures
<1>6. ChildSetup' = ChildSetup
  BY DEF ChildConfigures, ChildSetup, NetworkSetup, DNSSetup
<1>7. Len(net') <= Len(ChildSetup) /\ \A i \in 1 .. Len(net') : net'[i] = ChildSetup[i]
  BY <1>3, <1>5 DEF SetupInOrder
<1>8. QED
  BY <1>5, <1>6, <1>7 DEF SetupInOrder

\* SetupInOrder speaks of the flavour and the setup only.
LEMMA SetupFrame ==
  ASSUME SetupInOrder, UNCHANGED <<flavour, net>> PROVE SetupInOrder'
BY DEF SetupInOrder, ChildSetup, NetworkSetup, DNSSetup

\* sendPayload sends under the next id, which is not 0, or ends the goroutine.
LEMMA SendCases ==
  ASSUME TypeOK, NEW next, SendPayload(next)
  PROVE  /\ packetID' \in 0 .. PidSpace - 1
         /\ \/ /\ packetID' = packetID + 1 /\ udp = "open"
               /\ sent' = sent \cup {packetID'} /\ toVPN' = toVPN + 1
               /\ up' = next /\ bridgeErr' = bridgeErr
            \/ /\ sent' = sent /\ toVPN' = toVPN
               /\ up' = "done" /\ bridgeErr' = bridgeErr + 1
<1>1. /\ packetID' \in 0 .. PidSpace - 1
      /\ packetID' = packetID + 1 \/ packetID' = 0
  BY WrapIsZero DEF TypeOK, SendPayload
<1>2. \/ /\ packetID' # 0 /\ udp = "open"
         /\ sent' = sent \cup {packetID'} /\ toVPN' = toVPN + 1
         /\ up' = next /\ bridgeErr' = bridgeErr
      \/ /\ sent' = sent /\ toVPN' = toVPN
         /\ up' = "done" /\ bridgeErr' = bridgeErr + 1
  BY Zenon DEF SendPayload, UpEnds
<1>3. QED
  BY <1>1, <1>2

\* sendPayload keeps the id in its range, and its error has a place.
LEMMA SendTyped ==
  ASSUME TypeOK, ErrorsFit, up # "done", NEW next \in {"io", "check"},
         SendPayload(next), UNCHANGED down
  PROVE  /\ packetID' \in 0 .. PidSpace - 1 /\ sent' \subseteq 0 .. PidSpace - 1
         /\ toVPN' \in Nat /\ up' \in {"io", "check", "done"}
         /\ bridgeErr' \in 0 .. ErrCap /\ ErrorsFit'
<1>1. /\ packetID' \in 0 .. PidSpace - 1
      /\ \/ /\ sent' = sent \cup {packetID'} /\ toVPN' = toVPN + 1
            /\ up' = next /\ bridgeErr' = bridgeErr
         \/ /\ sent' = sent /\ toVPN' = toVPN
            /\ up' = "done" /\ bridgeErr' = bridgeErr + 1
  BY SendCases
<1>2. sent' \subseteq 0 .. PidSpace - 1 /\ toVPN' \in Nat
  <2>1. sent \subseteq 0 .. PidSpace - 1 /\ toVPN \in Nat
    BY DEF TypeOK
  <2>2. sent' = sent \/ sent' = sent \cup {packetID'}
    BY <1>1
  <2>3. toVPN' = toVPN \/ toVPN' = toVPN + 1
    BY <1>1
  <2>4. \A x \in sent' : x \in 0 .. PidSpace - 1
    BY <1>1, <2>1, <2>2
  <2>5. QED
    BY <2>1, <2>3, <2>4
<1>3. up' \in {"io", "check", "done"} /\ bridgeErr' \in 0 .. ErrCap /\ ErrorsFit'
  BY <1>1 DEF TypeOK, ErrorsFit
<1>4. QED
  BY <1>1, <1>2, <1>3

\* Every step keeps the types: the setup stays within its list, and the two
\* errors of the bridge fit its channel.
LEMMA TypeStep == Typed /\ [Next]_vars => Typed'
<1> SUFFICES ASSUME Typed, [Next]_vars PROVE Typed'
  OBVIOUS
<1> USE DEF Typed, TypeOK, NotYetBridged
<1>1. CASE Establish
  <2>1. SetupInOrder' /\ ErrorsFit'
    BY <1>1, SetupFrame DEF Establish, ErrorsFit
  <2>2. todo' \in Seq(Releases)
    BY <1>1, PlainExits DEF Establish, Exit
  <2>3. QED
    BY <1>1, <2>1, <2>2 DEF Establish, Exit
<1>2. CASE Launch
  <2>1. SetupInOrder' /\ ErrorsFit'
    BY <1>2, SetupFrame DEF Launch, ErrorsFit
  <2>2. todo' \in Seq(Releases)
    BY <1>2, PlainExits DEF Launch, Exit
  <2>3. QED
    BY <1>2, <2>1, <2>2 DEF Launch, Exit
<1>3. CASE WaitChild
  <2>1. SetupInOrder' /\ ErrorsFit'
    BY <1>3, SetupFrame DEF WaitChild, ErrorsFit
  <2>2. todo' \in Seq(Releases)
    BY <1>3, PlainExits DEF WaitChild, Exit
  <2>3. QED
    BY <1>3, <2>1, <2>2 DEF WaitChild, Exit
<1>4. CASE WaitDeadline
  <2>1. SetupInOrder' /\ ErrorsFit'
    BY <1>4, SetupFrame DEF WaitDeadline, ErrorsFit
  <2>2. todo' \in Seq(Releases)
    BY <1>4, PlainExits DEF WaitDeadline, Exit
  <2>3. QED
    BY <1>4, <2>1, <2>2 DEF WaitDeadline, Exit
<1>5. CASE SignalReady
  <2>1. SetupInOrder' /\ ErrorsFit'
    BY <1>5, SetupFrame DEF SignalReady, ErrorsFit
  <2>2. todo' \in Seq(Releases)
    BY <1>5, PlainExits DEF SignalReady, Exit
  <2>3. readySent' \in BOOLEAN
    BY <1>5 DEF SignalReady
  <2>4. QED
    BY <1>5, <2>1, <2>2, <2>3 DEF SignalReady, Exit
<1>6. CASE MakeBlocking
  <2>1. SetupInOrder' /\ ErrorsFit'
    BY <1>6, SetupFrame DEF MakeBlocking, ErrorsFit
  <2>2. todo' \in Seq(Releases)
    BY <1>6, PlainExits DEF MakeBlocking, Exit
  <2>3. QED
    BY <1>6, <2>1, <2>2 DEF MakeBlocking, Exit
<1>7. CASE Close
  <2>1. SetupInOrder' /\ ErrorsFit'
    BY <1>7, SetupFrame DEF Close, ErrorsFit
  <2>2. todo' \in Seq(Releases)
    BY <1>7, PlainExits DEF Close, Exit
  <2>3. QED
    BY <1>7, <2>1, <2>2 DEF Close, Exit
<1>8. CASE SelectChild
  <2>1. SetupInOrder' /\ ErrorsFit'
    BY <1>8, SetupFrame DEF SelectChild, ErrorsFit
  <2>2. todo' \in Seq(Releases)
    BY <1>8, SelectExits DEF SelectChild, Exit
  <2>3. QED
    BY <1>8, <2>1, <2>2 DEF SelectChild, Exit
<1>9. CASE SelectDone
  <2>1. SetupInOrder' /\ ErrorsFit'
    BY <1>9, SetupFrame DEF SelectDone, ErrorsFit
  <2>2. todo' \in Seq(Releases)
    BY <1>9, SelectExits DEF SelectDone, Exit
  <2>3. QED
    BY <1>9, <2>1, <2>2 DEF SelectDone, Exit
<1>10. CASE SelectBridge
  <2>1. SetupInOrder' /\ ErrorsFit' /\ bridgeErr' \in 0 .. ErrCap
    BY <1>10, SetupFrame DEF SelectBridge, ErrorsFit
  <2>2. todo' \in Seq(Releases)
    BY <1>10, SelectExits DEF SelectBridge, Exit
  <2>3. QED
    BY <1>10, <2>1, <2>2 DEF SelectBridge, Exit
<1>11. CASE Release
  <2>1. SetupInOrder' /\ ErrorsFit'
    BY <1>11, SetupFrame DEF Release, ErrorsFit
  <2>2. todo' \in Seq(Releases)
    BY <1>11, HeadTailProperties DEF Release
  <2>3. QED
    BY <1>11, <2>1, <2>2 DEF Release
<1>12. CASE StartBridge
  <2>1. SetupInOrder' /\ UNCHANGED bridgeErr /\ bridgeErr = 0
    BY <1>12, SetupFrame DEF StartBridge, ErrorsFit
  <2>2. QED
    BY <1>12, <2>1 DEF StartBridge, ErrorsFit
<1>13. CASE Poll
  <2>1. SetupInOrder' /\ ErrorsFit'
    BY <1>13, SetupFrame DEF Poll, ErrorsFit
  <2>2. fdInFlight' \in BOOLEAN /\ readySent' \in BOOLEAN
    BY <1>13 DEF Poll
  <2>3. todo' \in Seq(Releases)
    BY <1>13, PlainExits DEF Poll, Exit
  <2>4. QED
    BY <1>13, <2>1, <2>2, <2>3 DEF Poll, Exit
<1>14. CASE WaitTick
  <2>1. SetupInOrder' /\ ErrorsFit'
    BY <1>14, SetupFrame DEF WaitTick, ErrorsFit
  <2>2. QED
    BY <1>14, <2>1 DEF WaitTick
<1>15. CASE Return
  <2>1. SetupInOrder' /\ ErrorsFit'
    BY <1>15, SetupFrame DEF Return, ErrorsFit
  <2>2. QED
    BY <1>15, <2>1 DEF Return
<1>16. CASE Cancel
  <2>1. SetupInOrder' /\ ErrorsFit'
    BY <1>16, SetupFrame DEF Cancel, ErrorsFit
  <2>2. QED
    BY <1>16, <2>1 DEF Cancel
<1>17. CASE Expire
  <2>1. SetupInOrder' /\ ErrorsFit'
    BY <1>17, SetupFrame DEF Expire, ErrorsFit
  <2>2. QED
    BY <1>17, <2>1 DEF Expire
<1>18. CASE Reap
  <2>1. SetupInOrder' /\ ErrorsFit'
    BY <1>18, SetupFrame DEF Reap, ErrorsFit
  <2>2. QED
    BY <1>18, <2>1 DEF Reap
<1>19. CASE ChildSends
  <2>1. SetupInOrder' /\ ErrorsFit'
    BY <1>19, SetupFrame DEF ChildSends, ErrorsFit
  <2>2. fdInFlight' \in BOOLEAN /\ readySent' \in BOOLEAN
    BY <1>19 DEF ChildSends
  <2>3. QED
    BY <1>19, <2>1, <2>2 DEF ChildSends
<1>20. CASE ChildReady
  <2>1. SetupInOrder' /\ ErrorsFit'
    BY <1>20, SetupFrame DEF ChildReady, ErrorsFit
  <2>2. fdInFlight' \in BOOLEAN /\ readySent' \in BOOLEAN
    BY <1>20 DEF ChildReady
  <2>3. QED
    BY <1>20, <2>1, <2>2 DEF ChildReady
<1>21. CASE ChildDies
  <2>1. SetupInOrder' /\ ErrorsFit'
    BY <1>21, SetupFrame DEF ChildDies, ErrorsFit
  <2>2. fdInFlight' \in BOOLEAN /\ readySent' \in BOOLEAN
    BY <1>21 DEF ChildDies
  <2>3. QED
    BY <1>21, <2>1, <2>2 DEF ChildDies
<1>22. CASE ChildConfigures
  <2>1. SetupInOrder' /\ net' \in Seq(SetupSteps) /\ ErrorsFit'
    BY <1>22, SetupGoesOn DEF ChildConfigures, ErrorsFit
  <2>2. QED
    BY <1>22, <2>1 DEF ChildConfigures
<1>23. CASE UpCheck
  <2>1. SetupInOrder' /\ ErrorsFit' /\ bridgeErr' \in 0 .. ErrCap
    BY <1>23, SetupFrame DEF UpCheck, UpEnds, ErrorsFit
  <2>2. QED
    BY <1>23, <2>1 DEF UpCheck, UpEnds
<1>24. CASE DownCheck
  <2>1. SetupInOrder' /\ ErrorsFit' /\ bridgeErr' \in 0 .. ErrCap
    BY <1>24, SetupFrame DEF DownCheck, DownEnds, ErrorsFit
  <2>2. QED
    BY <1>24, <2>1 DEF DownCheck, DownEnds
<1>25. CASE DownRead
  <2>1. SetupInOrder' /\ ErrorsFit' /\ bridgeErr' \in 0 .. ErrCap
    BY <1>25, SetupFrame DEF DownRead, DownEnds, ErrorsFit
  <2>2. QED
    BY <1>25, <2>1 DEF DownRead, DownEnds
<1>26. CASE UpPing
  <2>1. SetupInOrder'
    BY <1>26, SetupFrame DEF UpPing
  <2>2. SendPayload("io") /\ up # "done" /\ UNCHANGED down
    BY <1>26 DEF UpPing
  <2>3. QED
    BY <1>26, <2>1, <2>2, SendTyped DEF UpPing
<1>27. CASE UpRead
  <2>1. SetupInOrder' /\ UNCHANGED down /\ up = "io"
    BY <1>27, SetupFrame DEF UpRead
  <2>2. CASE SendPayload("check")
    BY <1>27, <2>1, <2>2, SendTyped DEF UpRead
  <2>3. CASE \/ up' = "check" /\ UNCHANGED <<bridgeErr, idVars>>
             \/ UpEnds /\ UNCHANGED idVars
    <3>1. ErrorsFit' /\ bridgeErr' \in 0 .. ErrCap /\ up' \in {"check", "done"}
      BY <2>1, <2>3 DEF UpEnds, ErrorsFit
    <3>2. UNCHANGED <<parentVars, ctxVars, childVars, sockVars, stopBridge, down, udp, tun,
                      idVars>>
      BY <1>27, <2>3 DEF UpRead
    <3>3. QED
      BY <2>1, <3>1, <3>2
  <2>4. QED
    BY <1>27, <2>2, <2>3 DEF UpRead
<1>28. CASE UNCHANGED vars
  BY <1>28, SetupFrame DEF vars, ErrorsFit
<1>29. QED
  BY <1>1, <1>2, <1>3, <1>4, <1>5, <1>6, <1>7, <1>8, <1>9, <1>10, <1>11, <1>12,
     <1>13, <1>14, <1>15, <1>16, <1>17, <1>18, <1>19, <1>20, <1>21, <1>22,
     <1>23, <1>24, <1>25, <1>26, <1>27, <1>28
     DEF Next, StartStep, EndStep, ChildStep, UpStep, DownStep

-----------------------------------------------------------------------------
(* The order of descriptor, bridge and ready signal.                       *)

\* The parent, the child and the bridge keep their order: the child of a
\* proxy or an application serves only on a signal that follows the bridge.
LEMMA OrderStep ==
  ASSUME Typed, BridgeInOrder, [Next]_vars PROVE BridgeInOrder'
<1> USE DEF Typed, TypeOK, NotYetBridged, BridgeInOrder
<1>1. UNCHANGED flavour /\ ChildSetup' = ChildSetup
  BY DEF Next, StartStep, EndStep, ChildStep, UpStep, DownStep, Establish, Launch, Poll,
         WaitChild, WaitDeadline, WaitTick, StartBridge, SignalReady, MakeBlocking,
         SelectChild, SelectBridge, SelectDone, Release, Return, Close, ChildConfigures,
         ChildSends, ChildReady, ChildDies, Reap, UpCheck, UpPing, UpRead, DownCheck,
         DownRead, Cancel, Expire, vars, ChildSetup, NetworkSetup, DNSSetup
<1>2. CASE \/ Establish \/ WaitChild \/ WaitDeadline \/ WaitTick \/ MakeBlocking \/ Close
           \/ SelectChild \/ SelectBridge \/ SelectDone \/ Return \/ Reap \/ Cancel \/ Expire
           \/ UNCHANGED vars
  <2>1. UNCHANGED <<up, down, child, net, fdInFlight, readySent>>
    BY <1>2 DEF Establish, WaitChild, WaitDeadline, WaitTick, MakeBlocking, Close,
       SelectChild, SelectBridge, SelectDone, Return, Reap, Cancel, Expire, vars
  <2>2. pc' \notin {"bridge", "signal"} \/ UNCHANGED pc
    BY <1>2 DEF Establish, WaitChild, WaitDeadline, WaitTick, MakeBlocking, Close,
       SelectChild, SelectBridge, SelectDone, Return, Reap, Cancel, Expire, Exit, vars
  <2>3. QED
    BY <1>1, <2>1, <2>2
<1>3. CASE Launch
  BY <1>1, <1>3 DEF Launch, Exit
<1>4. CASE Poll
  BY <1>1, <1>4 DEF Poll, Exit
<1>5. CASE StartBridge
  BY <1>1, <1>5 DEF StartBridge
<1>6. CASE SignalReady
  BY <1>1, <1>6 DEF SignalReady, Exit
<1>7. CASE Release
  BY <1>1, <1>7 DEF Release
<1>8. CASE ChildConfigures
  BY <1>1, <1>8 DEF ChildConfigures
<1>9. CASE ChildSends
  BY <1>1, <1>9 DEF ChildSends
<1>10. CASE ChildReady \/ ChildDies
  BY <1>1, <1>10 DEF ChildReady, ChildDies
<1>11. CASE UpCheck \/ DownCheck \/ DownRead
  BY <1>1, <1>11 DEF UpCheck, DownCheck, DownRead, UpEnds, DownEnds
<1>12. CASE UpPing \/ UpRead
  <2>1. up # "off" /\ up' # "off"
    BY <1>12, SendCases DEF UpPing, UpRead, UpEnds
  <2>2. UNCHANGED <<pc, down, child, net, fdInFlight, readySent>>
    BY <1>12 DEF UpPing, UpRead
  <2>3. QED
    BY <1>1, <2>1, <2>2
<1>13. QED
  BY <1>2, <1>3, <1>4, <1>5, <1>6, <1>7, <1>8, <1>9, <1>10, <1>11, <1>12
     DEF Next, StartStep, EndStep, ChildStep, UpStep, DownStep

-----------------------------------------------------------------------------
(* Packet ids.                                                             *)

\* An id sendPayload sends under is one no packet had, and when the counter
\* wraps the goroutine is over.
LEMMA SendIsFresh ==
  ASSUME TypeOK, IdsAreSpent, up # "done", NEW next, next # "done", SendPayload(next)
  PROVE  IdsAreSpent'
<1> USE DEF TypeOK
<1>1. CASE /\ packetID' = packetID + 1
           /\ sent' = sent \cup {packetID'} /\ toVPN' = toVPN + 1
  <2>1. IsFiniteSet(sent) /\ sent \subseteq 1 .. packetID /\ Cardinality(sent) = toVPN
    BY DEF IdsAreSpent, NonceNeverRepeats
  <2>2. packetID' \notin sent /\ sent' \subseteq 1 .. packetID'
    BY <1>1, <2>1
  <2>3. IsFiniteSet(sent') /\ Cardinality(sent') = toVPN + 1
    BY <1>1, <2>1, <2>2, FS_AddElement
  <2>4. QED
    BY <1>1, <2>2, <2>3 DEF IdsAreSpent, NonceNeverRepeats
<1>2. CASE sent' = sent /\ toVPN' = toVPN /\ up' = "done"
  BY <1>2 DEF IdsAreSpent, NonceNeverRepeats
<1>3. QED
  BY <1>1, <1>2, SendCases

\* Nothing else touches the ids, and no step revives an ended goroutine.
LEMMA IdsStep ==
  ASSUME Typed, IdsAreSpent, [Next]_vars PROVE IdsAreSpent'
<1>1. ASSUME UNCHANGED idVars, up' # "done" => up # "done" PROVE IdsAreSpent'
  BY <1>1 DEF IdsAreSpent, NonceNeverRepeats
<1>2. CASE UpPing
  BY <1>2, SendIsFresh DEF UpPing, Typed
<1>3. CASE UpRead
  <2>1. CASE SendPayload("check")
    BY <1>3, <2>1, SendIsFresh DEF UpRead, Typed
  <2>2. CASE UNCHANGED idVars
    BY <1>1, <1>3, <2>2 DEF UpRead
  <2>3. QED
    BY <1>3, <2>1, <2>2 DEF UpRead
<1>4. CASE UpCheck
  BY <1>1, <1>4 DEF UpCheck
<1>5. CASE StartBridge
  BY <1>1, <1>5 DEF StartBridge, Typed, NotYetBridged
<1>6. CASE UNCHANGED <<idVars, up>>
  BY <1>1, <1>6
<1>7. QED
  BY <1>2, <1>3, <1>4, <1>5, <1>6
     DEF Next, StartStep, EndStep, ChildStep, UpStep, DownStep, Establish, Launch, Poll,
         WaitChild, WaitDeadline, WaitTick, SignalReady, MakeBlocking,
         SelectChild, SelectBridge, SelectDone, Release, Return, Close, ChildConfigures,
         ChildSends, ChildReady, ChildDies, Reap, DownCheck, DownRead, Cancel, Expire, vars

-----------------------------------------------------------------------------
(* What is held is released.                                               *)

\* One release of the exit path: what it does not release is still on the list.
LEMMA ReleaseKeepsRest ==
  ASSUME TypeOK, ToBeReleased, Release PROVE ToBeReleased'
<1> USE DEF TypeOK
<1>1. /\ todo # <<>> /\ todo' = Tail(todo)
      /\ udp' = "open" => udp = "open" /\ Head(todo) # "udp"
      /\ sock' = "open" => sock = "open" /\ Head(todo) # "sock"
      /\ tun' = "open" => tun = "open" /\ Head(todo) # "tun"
      /\ Alive' => Alive /\ Head(todo) # "kill"
  BY DEF Release, Alive
<1>2. \A r : Holds(todo, r) /\ r # Head(todo) => Holds(todo', r)
  BY <1>1, HoldsAfterRelease
<1>3. QED
  BY <1>1, <1>2 DEF ToBeReleased

\* Every way out takes a list with all that is held at that point, and what is
\* acquired during the exit -- nothing -- needs none.
LEMMA HeldStep ==
  ASSUME Typed, HeldInOrder, [Next]_vars PROVE HeldInOrder'
<1> USE DEF Typed, TypeOK, HeldInOrder
<1>1. CASE Establish
  BY <1>1, PlainExits DEF Establish, Exit, ToBeReleased, Alive
<1>2. CASE Launch
  BY <1>2, PlainExits DEF Launch, Exit, ToBeReleased, Alive
<1>3. CASE Poll
  BY <1>3, PlainExits DEF Poll, Exit, ToBeReleased
<1>4. CASE WaitChild
  BY <1>4, PlainExits DEF WaitChild, Exit, ToBeReleased
<1>5. CASE WaitDeadline
  BY <1>5, PlainExits DEF WaitDeadline, Exit, ToBeReleased
<1>6. CASE SignalReady
  BY <1>6, PlainExits DEF SignalReady, Exit, ToBeReleased
<1>7. CASE MakeBlocking
  BY <1>7, PlainExits DEF MakeBlocking, Exit, ToBeReleased
<1>8. CASE Close
  BY <1>8, PlainExits DEF Close, Exit, ToBeReleased
<1>9. CASE SelectChild
  BY <1>9, SelectExits DEF SelectChild, Exit, ToBeReleased, Alive
<1>10. CASE SelectBridge
  BY <1>10, SelectExits DEF SelectBridge, Exit, ToBeReleased
<1>11. CASE SelectDone
  BY <1>11, SelectExits DEF SelectDone, Exit, ToBeReleased
<1>12. CASE Release
  <2>1. ToBeReleased'
    BY <1>12, ReleaseKeepsRest DEF Release
  <2>2. QED
    BY <1>12, <2>1 DEF Release
<1>13. CASE Return
  BY <1>13 DEF Return, ToBeReleased, Alive
<1>14. CASE ChildSends
  BY <1>14 DEF ChildSends, ToBeReleased, Alive
<1>15. CASE ChildReady
  BY <1>15 DEF ChildReady, ToBeReleased, Alive
<1>16. CASE ChildDies
  BY <1>16 DEF ChildDies, ToBeReleased, Alive
<1>17. CASE Reap
  BY <1>17 DEF Reap, ToBeReleased, Alive
<1>18. CASE WaitTick \/ StartBridge
  BY <1>18 DEF WaitTick, StartBridge
<1>19. CASE UNCHANGED <<pc, todo, udp, sock, tun, child, childDone, fdInFlight>>
  BY <1>19 DEF ToBeReleased, Alive
<1>20. QED
  BY <1>1, <1>2, <1>3, <1>4, <1>5, <1>6, <1>7, <1>8, <1>9, <1>10, <1>11, <1>12, <1>13,
     <1>14, <1>15, <1>16, <1>17, <1>18, <1>19
     DEF Next, StartStep, EndStep, ChildStep, UpStep, DownStep, ChildConfigures,
         UpCheck, UpPing, UpRead, DownCheck, DownRead, Cancel, Expire, vars

-----------------------------------------------------------------------------
\* IInv is inductive, whatever step of the parent, the child or the bridge
\* fails and in whatever order they come.
THEOREM InductiveInvariant == Spec => []IInv
<1>1. Init => IInv
  <2> SUFFICES ASSUME Init PROVE IInv
    OBVIOUS
  <2>1. TypeOK
    <3>1. <<>> \in Seq(Releases) /\ <<>> \in Seq(SetupSteps)
      OBVIOUS
    <3>2. /\ cancelled \in BOOLEAN /\ expired \in BOOLEAN /\ stopBridge \in BOOLEAN
          /\ fdInFlight \in BOOLEAN /\ readySent \in BOOLEAN
      BY DEF Init
    <3>3. /\ 0 \in 0 .. ErrCap /\ 0 \in 0 .. PidSpace - 1
      OBVIOUS
    <3>4. QED
      BY <3>1, <3>2, <3>3 DEF Init, TypeOK
  <2>2. SetupInOrder
    <3>1. Len(ChildSetup) \in Nat /\ Len(net) = 0
      BY SetupTyped DEF Init
    <3>2. QED
      BY <3>1 DEF SetupInOrder
  <2>3. ErrorsFit /\ NotYetBridged /\ BridgeInOrder
    BY DEF Init, ErrorsFit, NotYetBridged, BridgeInOrder
  <2>4. IdsAreSpent
    BY FS_EmptySet DEF Init, IdsAreSpent, NonceNeverRepeats
  <2>5. HeldInOrder
    BY DEF Init, HeldInOrder
  <2>6. QED
    BY <2>1, <2>2, <2>3, <2>4, <2>5 DEF IInv
<1>2. IInv /\ [Next]_vars => IInv'
  BY TypeStep, OrderStep, IdsStep, HeldStep DEF IInv, Typed
<1>3. QED
  BY <1>1, <1>2, PTL DEF Spec

\* The session's variables always have their types: the child makes no step
\* beyond its list, and bridgeTunAndVPN's errCh never holds more than two.
THEOREM TypeCorrect == Spec => []TypeOK
<1>1. IInv => TypeOK
  BY DEF IInv
<1>2. QED
  BY <1>1, InductiveInvariant, PTL

\* The child of a proxy or an application serves only once the bridge carries
\* its packets, and the bridge only starts on a namespace that is set up.
THEOREM NothingBeforeTheBridge == Spec => []ServedOnlyBridged
<1>1. IInv => ServedOnlyBridged
  BY DEF IInv, BridgeInOrder, ServedOnlyBridged
<1>2. QED
  BY <1>1, InductiveInvariant, PTL

\* However large the id space and however long the session, encryptDataV2 is
\* never given an id twice: the counter's wrap to 0 ends the sender.
THEOREM NoNonceTwice == Spec => []NonceNeverRepeats
<1>1. IInv => NonceNeverRepeats
  BY DEF IInv, IdsAreSpent
<1>2. QED
  BY <1>1, InductiveInvariant, PTL

\* Once the function has returned it holds no socket, no descriptor and no
\* running child, on each of its exit paths.
THEOREM NothingIsLeftOpen == Spec => []NothingLeaks
<1>1. IInv => NothingLeaks
  BY DEF IInv, TypeOK, HeldInOrder, ToBeReleased, Holds, NothingLeaks
<1>2. QED
  BY <1>1, InductiveInvariant, PTL
=============================================================================
