------------------------ MODULE WindowsSessionProofs ------------------------
(***************************************************************************)
(* Proofs about WindowsSession for any flows, any packets, any MSS limit   *)
(* and any size of the packet counter: its type invariant, the inductive   *)
(* invariant IInv, and from it that every packet on the wire was sealed    *)
(* with live keys under an id used once in its turn of the counter, and    *)
(* that whichever way the program ends it leaves nothing behind; and that  *)
(* PacketNAT's operators do to every packet what they should.              *)
(***************************************************************************)
EXTENDS WindowsSession, SequenceTheorems, WellFoundedInduction, TLAPS

USE DEF mainVars, logVars, idVars, sendVars

-----------------------------------------------------------------------------
(* Types.                                                                  *)

\* The wrapped counter is a packet id again.
LEMMA WrapIsId ==
  ASSUME NEW n \in 0 .. PidSpace - 1
  PROVE  (n + 1) % PidSpace = IF n + 1 = PidSpace THEN 0 ELSE n + 1
<1> USE SessionAssumption
<1>1. CASE n + 1 = PidSpace
  BY <1>1
<1>2. CASE n + 1 # PidSpace
  BY <1>2
<1>3. QED
  BY <1>1, <1>2

\* The steps of the start, by number.
LEMMA CourseIs ==
  /\ Course \in Seq(Steps) /\ Len(Course) = 13
  /\ Course[1] = "elevate" /\ Course[2] = "path" /\ Course[3] = "stop"
  /\ Course[4] = "vpn" /\ Course[5] = "wd" /\ Course[6] = "flowH"
  /\ Course[7] = "socketH" /\ Course[8] = "synH" /\ Course[9] = "spawn"
  /\ Course[10] = "discord" /\ Course[11] = "hook" /\ Course[12] = "readers"
  /\ Course[13] = "select"
<1>1. /\ Course[1] = "elevate" /\ Course[2] = "path" /\ Course[3] = "stop"
      /\ Course[4] = "vpn" /\ Course[5] = "wd" /\ Course[6] = "flowH"
      /\ Course[7] = "socketH" /\ Course[8] = "synH" /\ Course[9] = "spawn"
      /\ Course[10] = "discord" /\ Course[11] = "hook" /\ Course[12] = "readers"
      /\ Course[13] = "select"
  BY DEF Course
<1>2. Len(Course) = 13
  BY DEF Course
<1>3. Course \in Seq(Steps)
  BY DEF Course, Steps
<1>4. QED
  BY <1>1, <1>2, <1>3

\* A goroutine with nothing in hand.
LEMMA IdleTyped ==
  ASSUME NEW l \in {"off", "recv", "add", "stopped"}
  PROVE  /\ Idle(l) \in SenderStates /\ Idle(l).pc = l
         /\ Idle(l).id = 0 /\ Idle(l).turn = 0
<1>1. NoPacket \in SentPackets
  BY DEF SentPackets
<1>2. QED
  BY <1>1, SessionAssumption DEF Idle, SenderStates

\* What is in a sender's hands with a packet,
LEMMA PacketInHand ==
  ASSUME NEW g \in SenderStates, NEW o \in Outgoing
  PROVE  /\ WithPacket(g, o) \in SenderStates
         /\ WithPacket(g, o).pc = "add"
         /\ WithPacket(g, o).id = g.id /\ WithPacket(g, o).turn = g.turn
<1>1. Carried[o] \in SentPackets
  BY DEF SentPackets
<1>2. QED
  BY <1>1 DEF WithPacket, SenderStates

\* with an id for it,
LEMMA IdInHand ==
  ASSUME NEW g \in SenderStates, NEW i \in 0 .. PidSpace - 1, NEW t \in Nat
  PROVE  /\ WithId(g, i, t) \in SenderStates
         /\ WithId(g, i, t).pc \in {"again", "seal"}
         /\ WithId(g, i, t).id = i /\ WithId(g, i, t).turn = t
BY DEF WithId, SenderStates

\* and sealed.
LEMMA SealedInHand ==
  ASSUME NEW g \in SenderStates, NEW how \in {"whole", "erased"}
  PROVE  /\ WithSeal(g, how) \in SenderStates
         /\ WithSeal(g, how).pc = "write" /\ WithSeal(g, how).sealed = how
         /\ WithSeal(g, how).id = g.id /\ WithSeal(g, how).turn = g.turn
BY DEF WithSeal, SenderStates

\* The receiver with nothing in hand.
LEMMA RxTyped ==
  ASSUME NEW l \in {"off", "recv", "stopped"} PROVE RxIdle(l) \in RxStates
<1>1. NoPacket \in InjectedPackets
  BY DEF InjectedPackets
<1>2. QED
  BY <1>1 DEF RxIdle, RxStates

\* What cleanup and every failure path release, as sequences of sets.
LEMMA ReleaseListsTyped ==
  <<>> \in ReleaseLists /\ VPNClose \in ReleaseLists /\ Cleanup \in ReleaseLists
<1> USE DEF ReleaseLists
<1>1. VPNClose \in ReleaseLists
  BY DEF VPNClose, Releases, Things
<1>2. Cleanup \in ReleaseLists
  BY <1>1 DEF Cleanup, Releases, Things
<1>3. QED
  BY <1>1, <1>2

LEMMA FailPathTyped == ASSUME NEW step PROVE FailPath(step) \in ReleaseLists
<1>1. /\ <<{"wd"}>> \in ReleaseLists
      /\ <<{"flowH", "wd"}>> \in ReleaseLists
      /\ <<{"socketH", "flowH", "wd"}>> \in ReleaseLists
      /\ <<{"kill"}>> \in ReleaseLists
  BY DEF ReleaseLists, Releases, Things
<1>2. /\ <<{"wd"}>> \o VPNClose \in ReleaseLists
      /\ <<{"flowH", "wd"}>> \o VPNClose \in ReleaseLists
      /\ <<{"socketH", "flowH", "wd"}>> \o VPNClose \in ReleaseLists
      /\ <<{"kill"}>> \o Cleanup \in ReleaseLists
  BY <1>1, ReleaseListsTyped DEF ReleaseLists
<1>3. QED
  BY <1>2, ReleaseListsTyped DEF FailPath

\* The lists with which the select goes on.
LEMMA SelectListsTyped ==
  /\ Cleanup \o <<{"unhook"}>> \in ReleaseLists
  /\ Cleanup \o <<{"wait"}, {"unhook"}>> \in ReleaseLists
  /\ Cleanup \o <<{"kill"}, {"unhook"}>> \in ReleaseLists
<1>1. /\ <<{"unhook"}>> \in ReleaseLists
      /\ <<{"wait"}, {"unhook"}>> \in ReleaseLists
      /\ <<{"kill"}, {"unhook"}>> \in ReleaseLists
  BY DEF ReleaseLists, Releases
<1>2. QED
  BY <1>1, ReleaseListsTyped DEF ReleaseLists

\* Neither the senders nor the receiver touch what main keeps.
LEMMA OthersLeaveMain ==
  ASSUME NEW s \in Senders, Take(s) \/ SenderStep(s)
  PROVE  UNCHANGED <<mainVars, discord, logVars, rx>>
BY DEF Take, SenderStep, Advance, Seal, Write, SenderStops

LEMMA RxLeavesMain ==
  ASSUME (\E i \in Incoming : RxMatch(i)) \/ RxInject \/ RxStops
  PROVE  UNCHANGED <<mainVars, discord, logVars, sendVars>>
<1>1. ASSUME NEW i \in Incoming, RxMatch(i)
      PROVE  UNCHANGED <<mainVars, discord, logVars, sendVars>>
  BY <1>1 DEF RxMatch
<1>2. CASE RxInject \/ RxStops
  BY <1>2 DEF RxInject, RxStops
<1>3. QED
  BY <1>1, <1>2

\* main's own variables.
LEMMA MainTypedStep == ASSUME MainTyped, [Next]_vars PROVE MainTyped'
<1> USE DEF MainTyped
<1>1. CASE StartFails
  <2>1. todo' \in ReleaseLists
    <3>1. todo' = FailPath(Head(todo))
      BY <1>1 DEF StartFails
    <3>2. FailPath(Head(todo)) \in ReleaseLists
      BY FailPathTyped
    <3>3. QED
      BY <3>1, <3>2
  <2>2. pc' = "exit" /\ UNCHANGED <<held, discord, hook>>
    BY <1>1 DEF StartFails
  <2>3. QED
    BY <2>1, <2>2
<1>2. CASE StartStep
  <2>1. /\ held' \subseteq Things
        /\ discord' \in {"off", "running", "exited"} /\ hook' \in {"no", "yes", "removed"}
    BY <1>2 DEF StartStep, Opened, Things
  <2>2. todo' \in StartLists /\ pc' \in {"start", "select"}
    BY <1>2 DEF StartStep, StartLists
  <2>3. QED
    BY <2>1, <2>2
<1>3. CASE Relaunched
  BY <1>3, ReleaseListsTyped DEF Relaunched
<1>4. CASE SelectDone \/ SelectReady \/ SelectErr
  <2>1. todo' \in ReleaseLists
    <3>1. CASE SelectDone
      BY <3>1, SelectListsTyped DEF SelectDone
    <3>2. CASE SelectReady
      BY <3>2, SelectListsTyped DEF SelectReady
    <3>3. CASE SelectErr
      BY <3>3, SelectListsTyped DEF SelectErr
    <3>4. QED
      BY <1>4, <3>1, <3>2, <3>3
  <2>2. pc' = "exit" /\ UNCHANGED <<held, discord, hook>>
    BY <1>4 DEF SelectDone, SelectReady, SelectErr
  <2>3. QED
    BY <2>1, <2>2
<1>5. CASE Release
  <2>1. todo' \in ReleaseLists
    BY <1>5 DEF Release, ReleaseLists
  <2>2. QED
    BY <1>5, <2>1 DEF Release
<1>6. CASE Return \/ DiscordExits \/ SessionLine \/ ConsoleClosed
  BY <1>6 DEF Return, DiscordExits, SessionLine, ConsoleClosed
<1>7. CASE UNCHANGED <<mainVars, discord>>
  BY <1>7
<1>8. QED
  BY <1>1, <1>2, <1>3, <1>4, <1>5, <1>6, <1>7, OthersLeaveMain, RxLeavesMain
     DEF Next, MainStep, vars

\* A failed send leaves its goroutine with nothing in hand.
LEMMA SendFailsTyped ==
  ASSUME NEW s \in Senders, SendFails(s), FlagsTyped,
         sender \in [Senders -> SenderStates]
  PROVE  /\ sender' \in [Senders -> SenderStates]
         /\ \A t \in Senders : t # s => sender'[t] = sender[t]
         /\ sender'[s].pc \in {"recv", "stopped"}
         /\ sender'[s].id = 0 /\ sender'[s].turn = 0
BY IdleTyped DEF SendFails

\* The channels and flags, one by one.
LEMMA RunDoneStep ==
  ASSUME runDone \in BOOLEAN, [Next]_vars PROVE runDone' \in BOOLEAN
<1>1. CASE Release
  BY <1>1 DEF Release
<1>2. CASE UNCHANGED runDone
  BY <1>2
<1>3. QED
  BY <1>1, <1>2, OthersLeaveMain, RxLeavesMain
     DEF Next, MainStep, vars, StartStep, SelectDone, SelectReady, SelectErr,
         Return, StartFails, Relaunched, DiscordExits, SessionLine, ConsoleClosed

LEMMA ReadyStep ==
  ASSUME ready \in BOOLEAN, established \in BOOLEAN, [Next]_vars
  PROVE  ready' \in BOOLEAN /\ established' \in BOOLEAN
<1>1. CASE SelectReady
  BY <1>1 DEF SelectReady
<1>2. CASE SessionLine
  BY <1>2 DEF SessionLine
<1>3. CASE UNCHANGED logVars
  BY <1>3
<1>4. QED
  BY <1>1, <1>2, <1>3, OthersLeaveMain, RxLeavesMain
     DEF Next, MainStep, vars, StartStep, SelectDone, SelectErr, Release, Return,
         StartFails, Relaunched, DiscordExits, ConsoleClosed

LEMMA SenderErr ==
  ASSUME NEW s \in Senders, Take(s) \/ SenderStep(s), errCh \in BOOLEAN
  PROVE  errCh' \in BOOLEAN
BY DEF Take, SenderStep, Advance, Seal, Write, SenderStops, SendFails

LEMMA RxErr ==
  ASSUME (\E i \in Incoming : RxMatch(i)) \/ RxInject \/ RxStops, errCh \in BOOLEAN
  PROVE  errCh' \in BOOLEAN
<1>1. ASSUME NEW i \in Incoming, RxMatch(i) PROVE errCh' \in BOOLEAN
  BY <1>1 DEF RxMatch
<1>2. CASE RxInject
  BY <1>2 DEF RxInject
<1>3. CASE RxStops
  BY <1>3 DEF RxStops
<1>4. QED
  BY <1>1, <1>2, <1>3

LEMMA ErrChStep == ASSUME errCh \in BOOLEAN, [Next]_vars PROVE errCh' \in BOOLEAN
<1>1. CASE SelectErr
  BY <1>1 DEF SelectErr
<1>2. CASE UNCHANGED errCh
  BY <1>2
<1>3. QED
  BY <1>1, <1>2, SenderErr, RxErr
     DEF Next, MainStep, vars, StartStep, SelectDone, SelectReady, Release, Return,
         StartFails, Relaunched, DiscordExits, SessionLine, ConsoleClosed

LEMMA FlagsTypedStep == ASSUME FlagsTyped, [Next]_vars PROVE FlagsTyped'
BY RunDoneStep, ReadyStep, ErrChStep DEF FlagsTyped

\* The senders and their counter.
LEMMA SendTypedStep ==
  ASSUME SendTyped, FlagsTyped, [Next]_vars PROVE SendTyped'
<1> USE DEF SendTyped
<1>1. ASSUME NEW s \in Senders, Take(s) PROVE SendTyped'
  <2>1. sender' \in [Senders -> SenderStates]
    <3>1. CASE s = "keepalive"
      BY <1>1, <3>1, IdleTyped DEF Take
    <3>2. CASE s # "keepalive"
      BY <1>1, <3>2, PacketInHand DEF Take
    <3>3. QED
      BY <3>1, <3>2
  <2>2. QED
    BY <1>1, <2>1 DEF Take
<1>2. ASSUME NEW s \in Senders, Advance(s) PROVE SendTyped'
  <2>1. packetID' \in 0 .. PidSpace - 1 /\ turn' \in Nat
    BY <1>2, WrapIsId, SessionAssumption DEF Advance
  <2>2. sender' \in [Senders -> SenderStates]
    BY <1>2, <2>1, IdInHand DEF Advance
  <2>3. QED
    BY <2>1, <2>2
<1>3. ASSUME NEW s \in Senders, Seal(s) PROVE SendTyped'
  <2>1. sender' \in [Senders -> SenderStates]
    <3>1. CASE sender[s].id = 0
      BY <1>3, <3>1, SendFailsTyped DEF Seal
    <3>2. CASE sender[s].id # 0
      BY <1>3, <3>2, SealedInHand DEF Seal
    <3>3. QED
      BY <3>1, <3>2
  <2>2. QED
    BY <1>3, <2>1 DEF Seal
<1>4. ASSUME NEW s \in Senders, Write(s) PROVE SendTyped'
  <2>1. sender' \in [Senders -> SenderStates]
    BY <1>4, SendFailsTyped, IdleTyped DEF Write
  <2>2. QED
    BY <1>4, <2>1 DEF Write
<1>5. ASSUME NEW s \in Senders, SenderStops(s) PROVE SendTyped'
  BY <1>5, IdleTyped DEF SenderStops
<1>6. CASE StartStep \/ ConsoleClosed
  BY <1>6, IdleTyped DEF StartStep, ConsoleClosed
<1>7. CASE UNCHANGED sendVars
  BY <1>7
<1>8. QED
  BY <1>1, <1>2, <1>3, <1>4, <1>5, <1>6, <1>7, RxLeavesMain
     DEF Next, MainStep, SenderStep, vars, SelectDone, SelectReady, SelectErr,
         Release, Return, StartFails, Relaunched, DiscordExits, SessionLine

\* The receiver.
LEMMA RxTypedStep == ASSUME rx \in RxStates, [Next]_vars PROVE rx' \in RxStates
<1>1. ASSUME NEW i \in Incoming, RxMatch(i) PROVE rx' \in RxStates
  <2>1. ASSUME NEW f \in Matching(i.packet)
        PROVE  [pc |-> "inject", carries |-> i, packet |-> Delivered[<<i, f>>]] \in RxStates
    <3>1. <<i, f>> \in Incoming \X Flows
      BY <2>1 DEF Matching
    <3>2. Delivered[<<i, f>>] \in InjectedPackets
      BY <3>1 DEF InjectedPackets
    <3>3. QED
      BY <3>2 DEF RxStates
  <2>2. CASE UNCHANGED rx
    BY <2>2
  <2>3. CASE \E f \in Matching(i.packet) :
               rx' = [pc |-> "inject", carries |-> i, packet |-> Delivered[<<i, f>>]]
    BY <2>1, <2>3
  <2>4. QED
    BY <1>1, <2>2, <2>3 DEF RxMatch
<1>2. CASE RxInject \/ RxStops \/ StartStep \/ ConsoleClosed
  BY <1>2, RxTyped DEF RxInject, RxStops, StartStep, ConsoleClosed
<1>3. QED
  BY <1>1, <1>2, OthersLeaveMain
     DEF Next, MainStep, vars, SelectDone, SelectReady, SelectErr, Release, Return,
         StartFails, Relaunched, DiscordExits, SessionLine

\* Every step keeps the types.
LEMMA TypeStep == TypeOK /\ [Next]_vars => TypeOK'
BY MainTypedStep, FlagsTypedStep, SendTypedStep, RxTypedStep DEF TypeOK

\* cmdDiscordVPN begins in its types.
LEMMA InitTyped == ASSUME Init PROVE TypeOK
<1>1. Course \in StartLists
  BY CourseIs DEF StartLists
<1>2. MainTyped
  BY <1>1 DEF Init, MainTyped
<1>6. FlagsTyped
  BY DEF Init, FlagsTyped
<1>3. SendTyped
  BY IdleTyped, SessionAssumption DEF Init, SendTyped
<1>4. rx \in RxStates
  BY RxTyped DEF Init
<1>5. QED
  BY <1>2, <1>3, <1>4, <1>6 DEF TypeOK

\* The session's variables always have their types: a packet id stays in the
\* counter's range, and what main has to do is a list of its kind.
THEOREM TypeCorrect == Spec => []TypeOK
<1>1. Init => TypeOK
  BY InitTyped
<1>2. QED
  BY <1>1, TypeStep, PTL DEF Spec

-----------------------------------------------------------------------------
(* The lists of releases.                                                  *)

\* What is left to be released is in the rest of the list or comes now, and a
\* release that waits for another does not come now.
LEMMA TailReleases ==
  ASSUME NEW l \in ReleaseLists, l # <<>>, NEW these, NEW that,
         \A r \in these : r \notin Head(l)
  PROVE  /\ Releasing(l, these) => Releasing(Tail(l), these)
         /\ OnlyAfter(l, these, that) =>
               that \notin Head(l) /\ OnlyAfter(Tail(l), these, that)
<1>1. /\ Len(l) \in Nat \ {0} /\ Len(Tail(l)) = Len(l) - 1
      /\ Head(l) = l[1] /\ \A k \in 1 .. Len(l) - 1 : Tail(l)[k] = l[k + 1]
  BY DEF ReleaseLists
<1>2. ASSUME Releasing(l, these) PROVE Releasing(Tail(l), these)
  <2>1. PICK k \in 1 .. Len(l) : \E r \in these : r \in l[k]
    BY <1>2 DEF Releasing
  <2>2. k # 1 /\ k - 1 \in 1 .. Len(Tail(l)) /\ Tail(l)[k - 1] = l[k]
    BY <1>1, <2>1
  <2>3. QED
    BY <2>1, <2>2 DEF Releasing
<1>3. ASSUME OnlyAfter(l, these, that)
      PROVE  that \notin Head(l) /\ OnlyAfter(Tail(l), these, that)
  <2>1. that \notin Head(l)
    BY <1>1, <1>3 DEF OnlyAfter
  <2>2. ASSUME NEW j \in 1 .. Len(Tail(l)), that \in Tail(l)[j]
        PROVE  \E k \in 1 .. j - 1 : \E r \in these : r \in Tail(l)[k]
    <3>1. j + 1 \in 1 .. Len(l) /\ that \in l[j + 1]
      BY <1>1, <2>2
    <3>2. PICK k \in 1 .. j : \E r \in these : r \in l[k]
      BY <1>3, <3>1 DEF OnlyAfter
    <3>3. k # 1 /\ k - 1 \in 1 .. j - 1 /\ Tail(l)[k - 1] = l[k]
      BY <1>1, <3>1, <3>2
    <3>4. QED
      BY <3>2, <3>3
  <2>3. QED
    BY <2>1, <2>2 DEF OnlyAfter
<1>4. QED
  BY <1>2, <1>3

\* cleanup, written out.
LEMMA CleanupIs ==
  /\ Cleanup \in ReleaseLists /\ Len(Cleanup) = 5
  /\ Cleanup[1] = {"cancel"} /\ Cleanup[2] = {"flows"}
  /\ Cleanup[3] = {"flowH", "socketH", "synH", "wd"}
  /\ Cleanup[4] = {"udp"} /\ Cleanup[5] = {"keys"}
<1>1. Cleanup \in ReleaseLists
  BY ReleaseListsTyped
<1>2. QED
  BY <1>1 DEF Cleanup, VPNClose

\* After the select everything is released, the keys after the socket, and the
\* handler stays until Discord has ended or was killed.
LEMMA SelectReleases ==
  ASSUME NEW end \in {"wait", "kill"}, NEW h \in Things
  PROVE  LET l == Cleanup \o <<{end}, {"unhook"}>>
         IN  /\ Releasing(l, {h}) /\ OnlyAfter(l, {"udp"}, "keys")
             /\ Releasing(l, {"unhook"}) /\ Releasing(l, {"kill", "wait"})
             /\ OnlyAfter(l, {"kill", "wait"}, "unhook")
<1> DEFINE l == Cleanup \o <<{end}, {"unhook"}>>
<1>1. /\ Len(l) = 7 /\ l[1] = {"cancel"} /\ l[2] = {"flows"}
      /\ l[3] = {"flowH", "socketH", "synH", "wd"} /\ l[4] = {"udp"} /\ l[5] = {"keys"}
      /\ l[6] = {end} /\ l[7] = {"unhook"}
  BY DEF Cleanup, VPNClose
<1> HIDE DEF l
<1>2. Releasing(l, {h})
  BY <1>1 DEF Releasing, Things
<1>3. OnlyAfter(l, {"udp"}, "keys")
  BY <1>1 DEF OnlyAfter
<1>4. Releasing(l, {"unhook"}) /\ Releasing(l, {"kill", "wait"})
  BY <1>1 DEF Releasing
<1>5. OnlyAfter(l, {"kill", "wait"}, "unhook")
  BY <1>1 DEF OnlyAfter
<1>6. QED
  BY <1>2, <1>3, <1>4, <1>5 DEF l

\* The end of every failure path that closes the VPN.
LEMMA EndsWithVPNClose ==
  ASSUME NEW first
  PROVE  LET l == <<first>> \o VPNClose
         IN  /\ Len(l) = 3 /\ l[1] = first /\ l[2] = {"udp"} /\ l[3] = {"keys"}
BY DEF VPNClose

\* What each step of the start has opened is released when a later one fails,
\* the keys after the socket; when the handler cannot be installed, Discord is
\* killed first.
LEMMA FailReleases ==
  ASSUME NEW m \in 1 .. 13, Course[m] \in MayFail
  PROVE  /\ \A k \in 1 .. m - 1 : \A h \in Opened(Course[k]) :
               Releasing(FailPath(Course[m]), {h})
         /\ OnlyAfter(FailPath(Course[m]), {"udp"}, "keys")
         /\ OnlyAfter(FailPath(Course[m]), {"kill", "wait"}, "unhook")
         /\ m > 10 => m = 11 /\ Releasing(FailPath(Course[m]), {"kill", "wait"})
<1> DEFINE l == FailPath(Course[m])
<1>1. \A k \in 1 .. m - 1 : \A h \in Opened(Course[k]) :
        /\ m > 4
        /\ h = "wd" => m > 5
        /\ h = "flowH" => m > 6
        /\ h = "socketH" => m > 7
        /\ h = "synH" => m > 8
        /\ h = "flows" => m > 9
        /\ h \in Things
  BY CourseIs DEF Opened, Things
<1>2. m \in {1, 2, 4, 5, 6, 7, 8, 10, 11}
  BY CourseIs DEF MayFail
<1>3. CASE m \in {1, 2, 4}
  <2>1. l = <<>>
    BY <1>3, CourseIs DEF FailPath
  <2>2. OnlyAfter(l, {"udp"}, "keys") /\ OnlyAfter(l, {"kill", "wait"}, "unhook")
    BY <2>1 DEF OnlyAfter
  <2>3. QED
    BY <1>1, <1>3, <2>2
<1>4. CASE m = 5
  <2>1. Len(l) = 2 /\ l[1] = {"udp"} /\ l[2] = {"keys"}
    BY <1>4, CourseIs DEF FailPath, VPNClose
  <2> HIDE DEF l
  <2>2. \A h \in Things \ {"wd", "flowH", "socketH", "synH", "flows"} : Releasing(l, {h})
    BY <2>1 DEF Releasing, Things
  <2>3. OnlyAfter(l, {"udp"}, "keys") /\ OnlyAfter(l, {"kill", "wait"}, "unhook")
    BY <2>1 DEF OnlyAfter
  <2>4. QED
    BY <1>1, <1>4, <2>2, <2>3 DEF l
<1>5. ASSUME NEW first \in SUBSET {"wd", "flowH", "socketH"}, l = <<first>> \o VPNClose,
             m < 10, m > 5 => "wd" \in first, m > 6 => "flowH" \in first,
             m > 7 => "socketH" \in first, m <= 8
      PROVE  /\ \A k \in 1 .. m - 1 : \A h \in Opened(Course[k]) : Releasing(l, {h})
             /\ OnlyAfter(l, {"udp"}, "keys")
             /\ OnlyAfter(l, {"kill", "wait"}, "unhook")
  <2>1. Len(l) = 3 /\ l[1] = first /\ l[2] = {"udp"} /\ l[3] = {"keys"}
    BY <1>5, EndsWithVPNClose
  <2> HIDE DEF l
  <2>2. \A h \in first \cup {"udp", "keys"} : Releasing(l, {h})
    BY <2>1 DEF Releasing
  <2>3. OnlyAfter(l, {"udp"}, "keys") /\ OnlyAfter(l, {"kill", "wait"}, "unhook")
    BY <2>1, <1>5 DEF OnlyAfter
  <2>4. \A k \in 1 .. m - 1 : \A h \in Opened(Course[k]) : h \in first \cup {"udp", "keys"}
    <3> SUFFICES ASSUME NEW k \in 1 .. m - 1, NEW h \in Opened(Course[k])
                 PROVE  h \in first \cup {"udp", "keys"}
      OBVIOUS
    <3>1. h \in Things /\ h \notin {"synH", "flows"}
      BY <1>1, <1>5
    <3>2. h \in {"wd", "flowH", "socketH"} => h \in first
      BY <1>1, <1>5
    <3>3. QED
      BY <3>1, <3>2 DEF Things
  <2>5. QED
    BY <2>2, <2>3, <2>4
<1>6. CASE m = 6
  <2>1. l = <<{"wd"}>> \o VPNClose
    BY <1>6, CourseIs DEF FailPath
  <2>2. QED
    BY <1>5, <1>6, <2>1
<1>7. CASE m = 7
  <2>1. l = <<{"flowH", "wd"}>> \o VPNClose
    BY <1>7, CourseIs DEF FailPath
  <2>2. QED
    BY <1>5, <1>7, <2>1
<1>8. CASE m = 8
  <2>1. l = <<{"socketH", "flowH", "wd"}>> \o VPNClose
    BY <1>8, CourseIs DEF FailPath
  <2>2. {"socketH", "flowH", "wd"} \in SUBSET {"wd", "flowH", "socketH"}
    OBVIOUS
  <2> HIDE DEF l
  <2>3. /\ \A k \in 1 .. m - 1 : \A h \in Opened(Course[k]) : Releasing(l, {h})
        /\ OnlyAfter(l, {"udp"}, "keys")
        /\ OnlyAfter(l, {"kill", "wait"}, "unhook")
    BY <1>5, <1>8, <2>1, <2>2
  <2>4. QED
    BY <1>8, <2>3 DEF l
<1>9. CASE m = 10
  <2>1. l = Cleanup
    BY <1>9, CourseIs DEF FailPath
  <2>2. /\ Len(l) = 5 /\ l[1] = {"cancel"} /\ l[2] = {"flows"}
        /\ l[3] = {"flowH", "socketH", "synH", "wd"} /\ l[4] = {"udp"} /\ l[5] = {"keys"}
    BY <2>1, CleanupIs
  <2> HIDE DEF l
  <2>3. \A h \in Things : Releasing(l, {h})
    BY <2>2 DEF Releasing, Things
  <2>4. OnlyAfter(l, {"udp"}, "keys") /\ OnlyAfter(l, {"kill", "wait"}, "unhook")
    BY <2>2 DEF OnlyAfter
  <2>5. QED
    BY <1>1, <1>9, <2>3, <2>4 DEF l
<1>10. CASE m = 11
  <2>1. l = <<{"kill"}>> \o Cleanup
    BY <1>10, CourseIs DEF FailPath
  <2>2. /\ Len(l) = 6 /\ l[1] = {"kill"} /\ l[2] = {"cancel"} /\ l[3] = {"flows"}
        /\ l[4] = {"flowH", "socketH", "synH", "wd"} /\ l[5] = {"udp"} /\ l[6] = {"keys"}
    BY <2>1 DEF Cleanup, VPNClose
  <2> HIDE DEF l
  <2>3. \A h \in Things : Releasing(l, {h})
    BY <2>2 DEF Releasing, Things
  <2>4. OnlyAfter(l, {"udp"}, "keys") /\ OnlyAfter(l, {"kill", "wait"}, "unhook")
    BY <2>2 DEF OnlyAfter
  <2>5. Releasing(l, {"kill", "wait"})
    BY <2>2 DEF Releasing
  <2>6. QED
    BY <1>1, <1>10, <2>3, <2>4, <2>5 DEF l
<1>11. QED
  BY <1>2, <1>3, <1>4, <1>6, <1>7, <1>8, <1>9, <1>10

-----------------------------------------------------------------------------
(* main: the start, the way out, and the end.                              *)

\* Where the start is, and what its next step will add to what has been done.
LEMMA StartPlace ==
  ASSUME MainTyped, StartInOrder, pc = "start", todo # <<>>
  PROVE  \E m \in 1 .. 13 :
            /\ Len(todo) = 14 - m /\ Head(todo) = Course[m]
            /\ Passed = {Course[k] : k \in 1 .. m - 1}
            /\ held = UNION {Opened(step) : step \in Passed}
<1>1. todo \in StartLists /\ Len(todo) \in 1 .. 13 /\ Len(Course) = 13
  BY CourseIs DEF MainTyped, StartInOrder
<1>2. Head(todo) = todo[1] /\ todo[1] = Course[13 - Len(todo) + 1]
  BY <1>1 DEF StartInOrder, StartLists
<1>3. Passed = {Course[k] : k \in 1 .. 13 - Len(todo)}
  BY <1>1 DEF Passed
<1>4. held = UNION {Opened(step) : step \in Passed}
  BY DEF StartInOrder
<1>5. PICK m \in 1 .. 13 :
          Len(todo) = 14 - m /\ 13 - Len(todo) + 1 = m /\ 13 - Len(todo) = m - 1
  <2>1. \A n \in 1 .. 13 : \E m \in 1 .. 13 :
            n = 14 - m /\ 13 - n + 1 = m /\ 13 - n = m - 1
    <3> SUFFICES ASSUME NEW n \in 1 .. 13
                 PROVE  \E m \in 1 .. 13 : n = 14 - m /\ 13 - n + 1 = m /\ 13 - n = m - 1
      OBVIOUS
    <3> WITNESS 14 - n \in 1 .. 13
    <3> QED
      OBVIOUS
  <2>2. QED
    BY <1>1, <2>1
<1>6. QED
  BY <1>2, <1>3, <1>4, <1>5

OrderInv ==
    StartInOrder /\ ExitInOrder /\ KeysOutliveSocket /\ HandlerStays
    /\ WindowsExitLeavesNothing

\* A step of the start adds to what has been done, in order.
LEMMA StartStepInOrder ==
  ASSUME MainTyped, MainTyped', SendTyped, OrderInv, StartStep
  PROVE  OrderInv'
<1>1. pc = "start" /\ todo # <<>> /\ StartInOrder
  BY DEF StartStep, OrderInv
<1>2. PICK m \in 1 .. 13 :
            /\ Len(todo) = 14 - m /\ Head(todo) = Course[m]
            /\ Passed = {Course[k] : k \in 1 .. m - 1}
            /\ held = UNION {Opened(step) : step \in Passed}
  BY <1>1, StartPlace
<1>3. todo' = Tail(todo) /\ Len(todo') = 13 - m
      /\ \A k \in 1 .. 13 - m : todo'[k] = todo[k + 1]
  BY <1>1, <1>2 DEF StartStep, MainTyped, StartLists
<1>4. Passed' = Passed \cup {Course[m]}
  <2>1. Passed' = {Course[k] : k \in 1 .. m}
    BY <1>2, <1>3, CourseIs DEF Passed
  <2>2. QED
    BY <1>2, <2>1
<1>5. /\ held' = held \cup Opened(Course[m])
      /\ discord' = IF Course[m] = "discord" THEN "running" ELSE discord
      /\ hook' = IF Course[m] = "hook" THEN "yes" ELSE hook
      /\ pc' \in {"start", "select"}
      /\ pc' = "start" => todo' # <<>>
  BY <1>2 DEF StartStep
<1>6. held' = UNION {Opened(step) : step \in Passed'}
  BY <1>2, <1>4, <1>5
<1>7. StartInOrder'
  <2> SUFFICES ASSUME pc' = "start" PROVE StartInOrder'
    BY DEF StartInOrder
  <2>1. Len(todo') \in 1 .. 13
    <3>1. todo' # <<>> /\ todo' \in StartLists
      BY <1>5 DEF MainTyped
    <3>2. Len(todo') # 0
      BY <3>1 DEF StartLists
    <3>3. Len(todo') = 13 - m /\ 13 - m # 0
      BY <1>3, <3>2
    <3>4. 13 - m \in 1 .. 13
      BY <3>3
    <3>5. QED
      BY <3>3, <3>4
  <2>2. \A k \in 1 .. Len(todo') : todo'[k] = Course[13 - Len(todo') + k]
    <3>1. \A k \in 1 .. Len(todo) : todo[k] = Course[13 - Len(todo) + k]
      BY <1>1, CourseIs DEF StartInOrder
    <3>2. ASSUME NEW k \in 1 .. 13 - m
          PROVE  todo'[k] = Course[m + k]
      <4>1. k + 1 \in 1 .. 14 - m /\ 13 - (14 - m) + (k + 1) = m + k
        OBVIOUS
      <4>2. todo[k + 1] = Course[13 - (14 - m) + (k + 1)]
        BY <1>2, <3>1, <4>1
      <4>3. QED
        BY <1>3, <4>1, <4>2
    <3>3. ASSUME NEW k \in 1 .. 13 - m PROVE 13 - (13 - m) + k = m + k
      OBVIOUS
    <3>4. QED
      BY <1>3, <3>2, <3>3
  <2>3. "spawn" \notin Passed' => \A s \in Senders : sender'[s].pc = "off"
    BY <1>1, <1>2, <1>4 DEF StartInOrder, StartStep, SendTyped
  <2>4. "discord" \notin Passed' => discord' = "off"
    BY <1>1, <1>4, <1>5 DEF StartInOrder
  <2>5. hook' = IF "hook" \in Passed' THEN "yes" ELSE "no"
    BY <1>1, <1>4, <1>5 DEF StartInOrder
  <2>6. QED
    BY <1>6, <2>1, <2>2, <2>3, <2>4, <2>5, CourseIs DEF StartInOrder
<1>8. KeysOutliveSocket'
  BY <1>5 DEF OrderInv, KeysOutliveSocket, Opened
<1>9. HandlerStays' /\ ExitInOrder' /\ WindowsExitLeavesNothing'
  <2>1. hook # "removed"
    BY <1>1 DEF StartInOrder
  <2>2. QED
    BY <1>5, <2>1 DEF HandlerStays, ExitInOrder, WindowsExitLeavesNothing
<1>10. QED
  BY <1>7, <1>8, <1>9 DEF OrderInv

\* A failing step of the start releases what the earlier ones opened.
LEMMA StartFailsInOrder ==
  ASSUME MainTyped, OrderInv, StartFails
  PROVE  OrderInv'
<1>1. pc = "start" /\ todo # <<>> /\ StartInOrder /\ Head(todo) \in MayFail
      /\ pc' = "exit" /\ todo' = FailPath(Head(todo)) /\ UNCHANGED <<held, discord, hook>>
  BY DEF StartFails, OrderInv
<1>2. PICK m \in 1 .. 13 :
            /\ Len(todo) = 14 - m /\ Head(todo) = Course[m]
            /\ Passed = {Course[k] : k \in 1 .. m - 1}
            /\ held = UNION {Opened(step) : step \in Passed}
  BY <1>1, StartPlace
<1>3. /\ \A k \in 1 .. m - 1 : \A h \in Opened(Course[k]) : Releasing(todo', {h})
      /\ OnlyAfter(todo', {"udp"}, "keys")
      /\ OnlyAfter(todo', {"kill", "wait"}, "unhook")
      /\ m > 10 => m = 11 /\ Releasing(todo', {"kill", "wait"})
  <2>1. Course[m] \in MayFail /\ todo' = FailPath(Course[m])
    BY <1>1, <1>2
  <2>2. QED
    BY <2>1, FailReleases
<1>4. \A h \in held : Releasing(todo', {h})
  BY <1>2, <1>3
<1>5. m <= 11
  BY <1>1, <1>2, <1>3
<1>6. hook = "no"
  <2>1. "hook" \notin Passed
    BY <1>2, <1>5, CourseIs
  <2>2. QED
    BY <1>1, <2>1 DEF StartInOrder
<1>7. discord = "running" => m > 10
  <2>1. "discord" \in Passed => m > 10
    BY <1>2, CourseIs
  <2>2. QED
    BY <1>1, <2>1 DEF StartInOrder
<1>8. ExitInOrder'
  BY <1>1, <1>3, <1>4, <1>6, <1>7 DEF ExitInOrder
<1>9. QED
  BY <1>1, <1>6, <1>8
     DEF OrderInv, StartInOrder, KeysOutliveSocket, HandlerStays, WindowsExitLeavesNothing

\* After the select everything is still to be released.
LEMMA SelectInOrder ==
  ASSUME MainTyped, OrderInv, SelectDone \/ SelectReady \/ SelectErr
  PROVE  OrderInv'
<1>1. pc = "select" /\ pc' = "exit" /\ UNCHANGED <<held, discord, hook>> /\ held \subseteq Things
  BY DEF SelectDone, SelectReady, SelectErr, MainTyped
<1>2. /\ \A h \in Things : Releasing(todo', {h})
      /\ OnlyAfter(todo', {"udp"}, "keys")
      /\ Releasing(todo', {"unhook"})
      /\ discord = "running" => /\ Releasing(todo', {"kill", "wait"})
                                /\ OnlyAfter(todo', {"kill", "wait"}, "unhook")
  <2>1. ASSUME NEW end \in {"wait", "kill"}, todo' = Cleanup \o <<{end}, {"unhook"}>>
        PROVE  /\ \A h \in Things : Releasing(todo', {h})
               /\ OnlyAfter(todo', {"udp"}, "keys")
               /\ Releasing(todo', {"unhook"})
               /\ Releasing(todo', {"kill", "wait"})
               /\ OnlyAfter(todo', {"kill", "wait"}, "unhook")
    <3>1. "udp" \in Things
      BY DEF Things
    <3>2. QED
      BY <2>1, <3>1, SelectReleases
  <2>2. CASE SelectReady
    BY <2>1, <2>2 DEF SelectReady
  <2>3. CASE SelectErr
    BY <2>1, <2>3 DEF SelectErr
  <2>4. CASE SelectDone
    <3>1. discord = "exited" /\ todo' = Cleanup \o <<{"unhook"}>>
      BY <2>4 DEF SelectDone
    <3>2. /\ Len(todo') = 6 /\ todo'[1] = {"cancel"} /\ todo'[2] = {"flows"}
          /\ todo'[3] = {"flowH", "socketH", "synH", "wd"} /\ todo'[4] = {"udp"}
          /\ todo'[5] = {"keys"} /\ todo'[6] = {"unhook"}
      BY <3>1 DEF Cleanup, VPNClose
    <3>3. \A h \in Things : Releasing(todo', {h})
      BY <3>2 DEF Releasing, Things
    <3>4. OnlyAfter(todo', {"udp"}, "keys")
      BY <3>2 DEF OnlyAfter
    <3>5. Releasing(todo', {"unhook"})
      BY <3>2 DEF Releasing
    <3>6. QED
      BY <3>1, <3>3, <3>4, <3>5
  <2>5. QED
    BY <2>2, <2>3, <2>4
<1>3. ExitInOrder'
  BY <1>1, <1>2 DEF ExitInOrder
<1>4. QED
  BY <1>1, <1>3
     DEF OrderInv, StartInOrder, KeysOutliveSocket, HandlerStays, WindowsExitLeavesNothing

\* A release takes one entry off the list, and only that.
LEMMA ReleaseInOrder ==
  ASSUME MainTyped, OrderInv, Release
  PROVE  OrderInv'
<1>1. /\ pc = "exit" /\ pc' = "exit" /\ todo \in ReleaseLists /\ todo # <<>>
      /\ todo' = Tail(todo) /\ held' = held \ Head(todo)
      /\ "wait" \in Head(todo) => discord = "exited"
      /\ discord' = IF "kill" \in Head(todo) THEN "exited" ELSE discord
      /\ hook' = IF "unhook" \in Head(todo) THEN "removed" ELSE hook
  BY DEF Release, MainTyped
<1>2. ExitInOrder /\ KeysOutliveSocket /\ HandlerStays
  BY DEF OrderInv
<1>3. ASSUME NEW h \in held' PROVE Releasing(todo', {h})
  BY <1>1, <1>2, <1>3, TailReleases DEF ExitInOrder
<1>4. ASSUME "udp" \in held' PROVE OnlyAfter(todo', {"udp"}, "keys") /\ "keys" \in held'
  <2>1. "udp" \in held /\ "udp" \notin Head(todo) /\ OnlyAfter(todo, {"udp"}, "keys")
    BY <1>1, <1>2, <1>4 DEF ExitInOrder
  <2>2. "keys" \notin Head(todo) /\ OnlyAfter(todo', {"udp"}, "keys")
    BY <1>1, <2>1, TailReleases
  <2>3. QED
    BY <1>1, <1>2, <2>1, <2>2 DEF KeysOutliveSocket
<1>5. ASSUME hook' = "yes" PROVE Releasing(todo', {"unhook"})
  <2>1. "unhook" \notin Head(todo) /\ Releasing(todo, {"unhook"})
    BY <1>1, <1>2, <1>5 DEF ExitInOrder
  <2>2. QED
    BY <1>1, <2>1, TailReleases
<1>6. ASSUME discord' = "running"
      PROVE  /\ Releasing(todo', {"kill", "wait"})
             /\ OnlyAfter(todo', {"kill", "wait"}, "unhook")
             /\ hook' # "removed"
  <2>1. /\ discord = "running" /\ "kill" \notin Head(todo) /\ "wait" \notin Head(todo)
        /\ Releasing(todo, {"kill", "wait"}) /\ OnlyAfter(todo, {"kill", "wait"}, "unhook")
    BY <1>1, <1>2, <1>6 DEF ExitInOrder
  <2>2. \A r \in {"kill", "wait"} : r \notin Head(todo)
    BY <2>1
  <2>3. /\ Releasing(todo', {"kill", "wait"}) /\ "unhook" \notin Head(todo)
        /\ OnlyAfter(todo', {"kill", "wait"}, "unhook")
    BY <1>1, <2>1, <2>2, TailReleases
  <2>4. QED
    BY <1>1, <1>2, <2>1, <2>3 DEF HandlerStays
<1>7. ExitInOrder'
  BY <1>3, <1>4, <1>5, <1>6 DEF ExitInOrder
<1>8. KeysOutliveSocket' /\ HandlerStays'
  BY <1>4, <1>6 DEF KeysOutliveSocket, HandlerStays
<1>9. QED
  BY <1>1, <1>7, <1>8 DEF OrderInv, StartInOrder, WindowsExitLeavesNothing

\* When the list is empty nothing is left; when the console is closed the
\* system closes what was open and an installed handler ends Discord.
LEMMA EndInOrder ==
  ASSUME MainTyped, OrderInv, Return \/ ConsoleClosed \/ Relaunched
  PROVE  OrderInv'
<1>1. CASE Return
  <2>1. /\ pc = "exit" /\ pc' = "returned" /\ todo = <<>>
        /\ UNCHANGED <<held, discord, hook>>
    BY <1>1 DEF Return
  <2>2. \A these : ~Releasing(todo, these)
    BY <2>1 DEF Releasing
  <2>3. held = {} /\ hook # "yes" /\ discord # "running"
    BY <2>1, <2>2 DEF OrderInv, ExitInOrder
  <2>4. QED
    BY <2>1, <2>3 DEF OrderInv, StartInOrder, ExitInOrder, KeysOutliveSocket,
                      HandlerStays, WindowsExitLeavesNothing
<1>2. CASE ConsoleClosed
  <2>1. /\ pc' = "killed" /\ held' = {} /\ hook' = hook
        /\ discord' = IF hook = "yes" THEN "exited" ELSE discord
    BY <1>2 DEF ConsoleClosed
  <2>2. hook \in {"no", "yes", "removed"} /\ HandlerStays
    BY DEF MainTyped, OrderInv
  <2>3. QED
    BY <2>1, <2>2 DEF OrderInv, StartInOrder, ExitInOrder, KeysOutliveSocket,
                      HandlerStays, WindowsExitLeavesNothing
<1>3. CASE Relaunched
  <2>1. /\ pc = "start" /\ todo = Course /\ pc' = "exit"
        /\ UNCHANGED <<held, discord, hook>>
    BY <1>3 DEF Relaunched
  <2>2. Passed = {}
    BY <2>1, CourseIs DEF Passed
  <2>3. held = {} /\ hook = "no" /\ discord = "off"
    BY <2>1, <2>2 DEF OrderInv, StartInOrder
  <2>4. QED
    BY <2>1, <2>3 DEF OrderInv, StartInOrder, ExitInOrder, KeysOutliveSocket,
                      HandlerStays, WindowsExitLeavesNothing
<1>4. QED
  BY <1>1, <1>2, <1>3

\* The other goroutines leave main's order alone; a sender that is not yet
\* started does nothing.
LEMMA OthersInOrder ==
  ASSUME OrderInv, UNCHANGED mainVars,
         UNCHANGED discord \/ DiscordExits,
         \A s \in Senders : sender[s].pc = "off" => sender'[s].pc = "off"
  PROVE  OrderInv'
<1>1. /\ UNCHANGED <<pc, todo, held, hook>> /\ UNCHANGED Passed
      /\ discord' = discord \/ (discord = "running" /\ discord' = "exited"
                                /\ pc \notin {"returned", "killed"})
  BY DEF DiscordExits, Running, Passed
<1>2. StartInOrder'
  BY <1>1 DEF OrderInv, StartInOrder
<1>3. ExitInOrder' /\ KeysOutliveSocket' /\ HandlerStays'
  BY <1>1 DEF OrderInv, ExitInOrder, KeysOutliveSocket, HandlerStays
<1>4. WindowsExitLeavesNothing'
  BY <1>1 DEF OrderInv, WindowsExitLeavesNothing
<1>5. QED
  BY <1>2, <1>3, <1>4 DEF OrderInv

\* No step starts a sender but the start's own, and none changes a sender's
\* place but that sender's.
LEMMA SenderMoves ==
  ASSUME SendTyped, NEW s \in Senders, Take(s) \/ SenderStep(s)
  PROVE  /\ sender[s].pc # "off"
         /\ \A t \in Senders : t # s => sender'[t] = sender[t]
<1>1. CASE Take(s)
  BY <1>1 DEF Take, SendTyped
<1>2. CASE Advance(s) \/ SenderStops(s)
  BY <1>2 DEF Advance, SenderStops, SendTyped
<1>3. CASE Seal(s)
  BY <1>3 DEF Seal, SendFails, SendTyped
<1>4. CASE Write(s)
  BY <1>4 DEF Write, SendFails, SendTyped
<1>5. QED
  BY <1>1, <1>2, <1>3, <1>4 DEF SenderStep

\* Every step keeps the order of the start and of the way out.
LEMMA OrderStep ==
  ASSUME MainTyped, MainTyped', SendTyped, OrderInv, [Next]_vars
  PROVE  OrderInv'
<1>1. ASSUME NEW s \in Senders, Take(s) \/ SenderStep(s) PROVE OrderInv'
  <2>1. UNCHANGED <<mainVars, discord>>
    BY <1>1, OthersLeaveMain
  <2>2. \A t \in Senders : sender[t].pc = "off" => sender'[t].pc = "off"
    BY <1>1, SenderMoves
  <2> HIDE DEF mainVars
  <2>3. QED
    BY <2>1, <2>2, OthersInOrder
<1>2. CASE (\E i \in Incoming : RxMatch(i)) \/ RxInject \/ RxStops
  <2>1. UNCHANGED <<mainVars, discord, sender>>
    BY <1>2, RxLeavesMain
  <2> HIDE DEF mainVars
  <2>2. QED
    BY <2>1, OthersInOrder
<1>3. CASE DiscordExits \/ SessionLine \/ UNCHANGED vars
  <2>1. UNCHANGED mainVars /\ sender' = sender /\ (UNCHANGED discord \/ DiscordExits)
    BY <1>3 DEF DiscordExits, SessionLine, vars
  <2> HIDE DEF mainVars
  <2>2. QED
    BY <2>1, OthersInOrder
<1>4. QED
  BY <1>1, <1>2, <1>3, StartStepInOrder, StartFailsInOrder, SelectInOrder,
     ReleaseInOrder, EndInOrder DEF Next, MainStep

-----------------------------------------------------------------------------
(* The senders: the counter's turns, and what reaches the wire.            *)

\* One more turn.
LEMMA NextTurn ==
  ASSUME NEW t \in Nat, NEW i \in 0 .. PidSpace - 1, AtTurn(t, i)
  PROVE  AtTurn(t + 1, (i + 1) % PidSpace)
<1> USE SessionAssumption
<1>1. PICK lap \in 0 .. t : t = lap * PidSpace + i
  BY DEF AtTurn
<1>2. CASE i + 1 = PidSpace
  <2>1. (lap + 1) * PidSpace = lap * PidSpace + PidSpace
    OBVIOUS
  <2>2. t + 1 = (lap + 1) * PidSpace + 0 /\ lap + 1 \in 0 .. t + 1
    BY <1>1, <1>2, <2>1
  <2>3. AtTurn(t + 1, 0)
    <3> SUFFICES \E n \in 0 .. t + 1 : t + 1 = n * PidSpace + 0
      BY DEF AtTurn
    <3> WITNESS lap + 1 \in 0 .. t + 1
    <3>1. QED
      BY <2>2
  <2>4. (i + 1) % PidSpace = 0
    BY <1>2, WrapIsId
  <2>5. QED
    BY <2>3, <2>4
<1>3. CASE i + 1 # PidSpace
  <2>1. t + 1 = lap * PidSpace + (i + 1) /\ lap \in 0 .. t + 1
    BY <1>1
  <2>2. QED
    BY <1>3, <2>1, WrapIsId DEF AtTurn
<1>4. QED
  BY <1>2, <1>3

\* The same id at another turn is a whole lap away.
LEMMA LapsApart ==
  ASSUME NEW t \in Nat, NEW u \in Nat, NEW i \in Nat, t # u,
         AtTurn(t, i), AtTurn(u, i)
  PROVE  t - u >= PidSpace \/ u - t >= PidSpace
<1> USE SessionAssumption
<1>1. PICK p \in 0 .. t : t = p * PidSpace + i
  BY DEF AtTurn
<1>2. PICK q \in 0 .. u : u = q * PidSpace + i
  BY DEF AtTurn
<1>3. ASSUME NEW a \in Nat, NEW b \in Nat, a > b
      PROVE  a * PidSpace - b * PidSpace >= PidSpace
  <2>1. PICK c \in Nat : a = b + 1 + c
    <3>1. a - b - 1 \in Nat /\ a = b + 1 + (a - b - 1)
      BY <1>3
    <3>2. QED
      BY <3>1
  <2>2. (b + 1 + c) * PidSpace = b * PidSpace + PidSpace + c * PidSpace
    OBVIOUS
  <2>3. c * PidSpace \in Nat /\ b * PidSpace \in Nat
    OBVIOUS
  <2>4. QED
    BY <2>1, <2>2, <2>3
<1>4. p # q
  BY <1>1, <1>2
<1>5. CASE p > q
  <2>1. p * PidSpace - q * PidSpace >= PidSpace
    BY <1>3, <1>5
  <2>2. p * PidSpace \in Nat /\ q * PidSpace \in Nat
    OBVIOUS
  <2>3. QED
    BY <1>1, <1>2, <2>1, <2>2
<1>6. CASE q > p
  <2>1. q * PidSpace - p * PidSpace >= PidSpace
    BY <1>3, <1>6
  <2>2. p * PidSpace \in Nat /\ q * PidSpace \in Nat
    OBVIOUS
  <2>3. QED
    BY <1>1, <1>2, <2>1, <2>2
<1>7. QED
  BY <1>4, <1>5, <1>6

\* What the wire holds is sound, so SealedOnce holds.
LEMMA WireIsSealed == ASSUME WireIsSound PROVE SealedOnce
<1>1. \A w \in wire : w[2] # 0 /\ w[3] = "whole"
  BY SessionAssumption DEF WireIsSound
<1>2. ASSUME NEW v \in wire, NEW w \in wire, v[2] = w[2], v # w
      PROVE  v[1] - w[1] >= PidSpace \/ w[1] - v[1] >= PidSpace
  <2>1. /\ v[1] \in Nat /\ w[1] \in Nat /\ v[2] \in Nat
        /\ AtTurn(v[1], v[2]) /\ AtTurn(w[1], v[2])
    BY <1>2, SessionAssumption DEF WireIsSound
  <2>2. v = <<v[1], v[2], "whole">> /\ w = <<w[1], w[2], "whole">>
    BY DEF WireIsSound
  <2>3. v[1] # w[1]
    BY <1>2, <2>2
  <2>4. QED
    BY <2>1, <2>3, LapsApart
<1>3. QED
  BY <1>1, <1>2 DEF SealedOnce

\* A goroutine with nothing in hand is at turn 0.
LEMMA IdleAtTurn == AtTurn(0, 0)
<1>1. 0 = 0 * PidSpace + 0
  BY SessionAssumption
<1>2. QED
  BY <1>1 DEF AtTurn

\* A step that leaves a sender alone, or puts it down, and opens no socket
\* keeps what is known of it.
LEMMA SendersKept ==
  ASSUME CounterInTurn, WireIsSound, UNCHANGED <<idVars, wire>>,
         "udp" \in held' => "udp" \in held,
         \A s \in Senders :
             \/ sender'[s] = sender[s]
             \/ sender'[s].pc # "write" /\ AtTurn(sender'[s].turn, sender'[s].id)
  PROVE  CounterInTurn' /\ WireIsSound'
<1>1. AtTurn(turn, packetID)' /\ WireIsSound'
  BY DEF CounterInTurn, WireIsSound, AtTurn
<1>2. ASSUME NEW s \in Senders
      PROVE  /\ AtTurn(sender'[s].turn, sender'[s].id)
             /\ sender'[s].pc = "write" =>
                   /\ sender'[s].id # 0 /\ sender'[s].sealed # "no"
                   /\ sender'[s].sealed = "erased" => "udp" \notin held'
  BY <1>2 DEF CounterInTurn
<1>3. QED
  BY <1>1, <1>2 DEF CounterInTurn, AtTurn

\* A failed send puts the packet down.
LEMMA SendFailsKept ==
  ASSUME SendTyped, FlagsTyped, NEW s \in Senders, SendFails(s),
         CounterInTurn, WireIsSound, UNCHANGED <<idVars, wire, held>>
  PROVE  CounterInTurn' /\ WireIsSound'
<1>1. \A t \in Senders :
             \/ sender'[t] = sender[t]
             \/ sender'[t].pc # "write" /\ AtTurn(sender'[t].turn, sender'[t].id)
  BY SendFailsTyped, IdleAtTurn DEF SendTyped
<1> HIDE DEF idVars
<1>2. QED
  BY <1>1, SendersKept

\* Each step of a sender keeps the turns and the wire.
LEMMA SenderKeepsTurns ==
  ASSUME SendTyped, SendTyped', FlagsTyped, KeysOutliveSocket, NEW s \in Senders,
         Take(s) \/ SenderStep(s), CounterInTurn, WireIsSound
  PROVE  CounterInTurn' /\ WireIsSound'
<1>1. UNCHANGED held /\ \A t \in Senders : t # s => sender'[t] = sender[t]
  BY OthersLeaveMain, SenderMoves
<1>2. sender[s] \in SenderStates /\ sender'[s] \in SenderStates
      /\ AtTurn(sender[s].turn, sender[s].id)
  BY DEF SendTyped, CounterInTurn
<1>3. CASE Take(s)
  <2>1. sender'[s].pc = "add" /\ AtTurn(sender'[s].turn, sender'[s].id)
    <3>1. CASE s = "keepalive"
      <4>1. sender'[s] = Idle("add")
        BY <1>3, <3>1 DEF Take, SendTyped
      <4>2. QED
        BY <4>1, IdleTyped, IdleAtTurn
    <3>2. CASE s # "keepalive"
      <4>1. PICK o \in Outgoing : sender'[s] = WithPacket(sender[s], o)
        BY <1>3, <3>2 DEF Take, SendTyped
      <4>2. QED
        BY <1>2, <4>1, PacketInHand
    <3>3. QED
      BY <3>1, <3>2
  <2>2. UNCHANGED <<idVars, wire>>
    BY <1>3 DEF Take
  <2> HIDE DEF idVars
  <2>3. QED
    BY <1>1, <2>1, <2>2, SendersKept
<1>4. CASE Advance(s)
  <2>1. /\ packetID' = (packetID + 1) % PidSpace /\ turn' = turn + 1 /\ wire' = wire
        /\ sender'[s] = WithId(sender[s], packetID', turn')
    BY <1>4 DEF Advance, SendTyped
  <2>2. AtTurn(turn + 1, (packetID + 1) % PidSpace)
    BY NextTurn DEF CounterInTurn, SendTyped
  <2>3. /\ sender'[s].pc # "write" /\ sender'[s].id = packetID' /\ sender'[s].turn = turn'
    <3>1. packetID' \in 0 .. PidSpace - 1 /\ turn' \in Nat
      BY DEF SendTyped
    <3>2. sender'[s].pc \in {"again", "seal"} /\ sender'[s].id = packetID'
          /\ sender'[s].turn = turn'
      BY <1>2, <2>1, <3>1, IdInHand
    <3>3. QED
      BY <3>2
  <2>4. AtTurn(turn, packetID)' /\ WireIsSound'
    BY <2>1, <2>2 DEF WireIsSound, AtTurn
  <2>5. ASSUME NEW t \in Senders
        PROVE  /\ AtTurn(sender'[t].turn, sender'[t].id)
               /\ sender'[t].pc = "write" =>
                     /\ sender'[t].id # 0 /\ sender'[t].sealed # "no"
                     /\ sender'[t].sealed = "erased" => "udp" \notin held'
    <3>1. CASE t = s
      BY <2>1, <2>2, <2>3, <3>1
    <3>2. CASE t # s
      BY <1>1, <3>2 DEF CounterInTurn
    <3>3. QED
      BY <3>1, <3>2
  <2>6. QED
    BY <2>4, <2>5 DEF CounterInTurn, AtTurn
<1>5. CASE Seal(s)
  <2>1. UNCHANGED <<idVars, wire>>
    BY <1>5 DEF Seal
  <2>2. CASE sender[s].id = 0
    <3>1. SendFails(s)
      BY <1>5, <2>2 DEF Seal
    <3> HIDE DEF idVars
    <3>2. QED
      BY <1>1, <2>1, <3>1, SendFailsKept
  <2>3. CASE sender[s].id # 0
    <3>1. PICK how \in {"whole", "erased"} :
            /\ sender'[s] = WithSeal(sender[s], how)
            /\ how = "erased" => "keys" \notin held
      BY <1>5, <2>3 DEF Seal, SendTyped
    <3>2. /\ sender'[s].id = sender[s].id /\ sender'[s].turn = sender[s].turn
          /\ sender'[s].sealed = how
      BY <1>2, <3>1, SealedInHand
    <3>3. how = "erased" => "udp" \notin held'
      BY <1>1, <3>1 DEF KeysOutliveSocket
    <3>4. AtTurn(turn, packetID)' /\ WireIsSound'
      BY <2>1 DEF CounterInTurn, WireIsSound, AtTurn
    <3>5. ASSUME NEW t \in Senders
          PROVE  /\ AtTurn(sender'[t].turn, sender'[t].id)
                 /\ sender'[t].pc = "write" =>
                       /\ sender'[t].id # 0 /\ sender'[t].sealed # "no"
                       /\ sender'[t].sealed = "erased" => "udp" \notin held'
      <4>1. CASE t = s
        BY <1>2, <2>3, <3>1, <3>2, <3>3, <4>1
      <4>2. CASE t # s
        BY <1>1, <4>2 DEF CounterInTurn
      <4>3. QED
        BY <4>1, <4>2
    <3>6. QED
      BY <3>4, <3>5 DEF CounterInTurn, AtTurn
  <2>4. QED
    BY <2>2, <2>3
<1>6. CASE Write(s)
  <2>1. UNCHANGED idVars
    BY <1>6 DEF Write
  <2>2. CASE SendFails(s) /\ UNCHANGED wire
    <3> HIDE DEF idVars
    <3>1. QED
      BY <1>1, <2>1, <2>2, SendFailsKept
  <2>3. CASE /\ "udp" \in held
             /\ wire' = wire \cup {<<sender[s].turn, sender[s].id, sender[s].sealed>>}
             /\ sender' = [sender EXCEPT ![s] = Idle("recv")]
    <3>1. /\ sender[s].pc = "write" /\ sender[s].id # 0 /\ sender[s].sealed = "whole"
          /\ sender[s].turn \in Nat /\ sender[s].id \in 1 .. PidSpace - 1
      <4>1. sender[s].pc = "write"
        BY <1>6 DEF Write
      <4>2. sender[s].id # 0 /\ sender[s].sealed # "no" /\ sender[s].sealed # "erased"
        BY <2>3, <4>1 DEF CounterInTurn
      <4>3. /\ sender[s].sealed \in {"no", "whole", "erased"}
            /\ sender[s].turn \in Nat /\ sender[s].id \in 0 .. PidSpace - 1
        BY <1>2 DEF SenderStates
      <4>4. QED
        BY <4>1, <4>2, <4>3, SessionAssumption
    <3>2. WireIsSound'
      <4>1. wire' = wire \cup {<<sender[s].turn, sender[s].id, "whole">>}
        BY <2>3, <3>1
      <4>2. QED
        BY <1>2, <3>1, <4>1 DEF WireIsSound, AtTurn
    <3>3. sender'[s].pc = "recv" /\ sender'[s].turn = 0 /\ sender'[s].id = 0
      BY <2>3, IdleTyped DEF SendTyped
    <3>4. ASSUME NEW t \in Senders
          PROVE  /\ AtTurn(sender'[t].turn, sender'[t].id)
                 /\ sender'[t].pc = "write" =>
                       /\ sender'[t].id # 0 /\ sender'[t].sealed # "no"
                       /\ sender'[t].sealed = "erased" => "udp" \notin held'
      <4>1. CASE t = s
        BY <3>3, <4>1, IdleAtTurn
      <4>2. CASE t # s
        BY <1>1, <4>2 DEF CounterInTurn
      <4>3. QED
        BY <4>1, <4>2
    <3>5. AtTurn(turn, packetID)'
      BY <2>1 DEF CounterInTurn, AtTurn
    <3>6. QED
      BY <3>2, <3>4, <3>5 DEF CounterInTurn, AtTurn
  <2>4. QED
    BY <1>6, <2>2, <2>3 DEF Write
<1>7. CASE SenderStops(s)
  <2>1. sender'[s] = Idle("stopped")
    BY <1>7 DEF SenderStops, SendTyped
  <2>2. sender'[s].pc # "write" /\ AtTurn(sender'[s].turn, sender'[s].id)
    BY <2>1, IdleTyped, IdleAtTurn
  <2>3. UNCHANGED <<idVars, wire>>
    BY <1>7 DEF SenderStops
  <2> HIDE DEF idVars
  <2>4. QED
    BY <1>1, <2>2, <2>3, SendersKept
<1>8. QED
  BY <1>3, <1>4, <1>5, <1>6, <1>7 DEF SenderStep

\* So does every step of main: the socket is opened before there are senders.
LEMMA MainKeepsTurns ==
  ASSUME MainTyped, SendTyped, StartInOrder, CounterInTurn, WireIsSound,
         MainStep \/ StartFails \/ Relaunched \/ ConsoleClosed
  PROVE  CounterInTurn' /\ WireIsSound'
<1>1. CASE StartStep
  <2>1. UNCHANGED <<idVars, wire>>
    BY <1>1 DEF StartStep
  <2>2. \A s \in Senders :
             \/ sender'[s] = sender[s]
             \/ sender'[s].pc # "write" /\ AtTurn(sender'[s].turn, sender'[s].id)
    <3>1. \A s \in Senders : sender'[s] = sender[s] \/ sender'[s] = Idle("recv")
      BY <1>1 DEF StartStep
    <3>2. QED
      BY <3>1, IdleTyped, IdleAtTurn
  <2>3. CASE "udp" \in held' => "udp" \in held
    <3> HIDE DEF idVars
    <3>1. QED
      BY <2>1, <2>2, <2>3, SendersKept
  <2>4. CASE "udp" \in held' /\ "udp" \notin held
    <3>1. pc = "start" /\ todo # <<>> /\ held' = held \cup Opened(Head(todo))
      BY <1>1 DEF StartStep
    <3>2. Head(todo) = "vpn"
      BY <2>4, <3>1 DEF Opened
    <3>3. PICK m \in 1 .. 13 :
            /\ Head(todo) = Course[m] /\ Passed = {Course[k] : k \in 1 .. m - 1}
      BY <3>1, StartPlace
    <3>4. m = 4
      BY <3>2, <3>3, CourseIs
    <3>5. "spawn" \notin Passed
      BY <3>3, <3>4, CourseIs
    <3>6. \A s \in Senders : sender[s].pc = "off" /\ sender'[s] = sender[s]
      BY <1>1, <3>1, <3>2, <3>5 DEF StartInOrder, StartStep
    <3>7. UNCHANGED <<packetID, turn, wire>>
      BY <2>1
    <3>8. QED
      BY <3>6, <3>7 DEF CounterInTurn, WireIsSound, AtTurn
  <2>5. QED
    BY <2>3, <2>4
<1>2. CASE ConsoleClosed
  <2>1. UNCHANGED <<idVars, wire>> /\ held' = {}
        /\ \A s \in Senders : sender'[s] = Idle("stopped")
    BY <1>2 DEF ConsoleClosed
  <2>2. \A s \in Senders :
            sender'[s].pc # "write" /\ AtTurn(sender'[s].turn, sender'[s].id)
    BY <2>1, IdleTyped, IdleAtTurn
  <2> HIDE DEF idVars
  <2>3. QED
    BY <2>1, <2>2, SendersKept
<1>3. CASE ~StartStep /\ ~ConsoleClosed
  <2>1. UNCHANGED sendVars /\ held' \subseteq held
    BY <1>3 DEF MainStep, SelectDone, SelectReady, SelectErr, Release, Return,
                StartFails, Relaunched
  <2>2. UNCHANGED <<idVars, wire>> /\ sender' = sender
    BY <2>1
  <2> HIDE DEF idVars
  <2>3. QED
    BY <2>1, <2>2, SendersKept
<1>4. QED
  BY <1>1, <1>2, <1>3

\* Every step keeps the turns and the wire.
LEMMA TurnStep ==
  ASSUME TypeOK, TypeOK', OrderInv, CounterInTurn, WireIsSound, [Next]_vars
  PROVE  CounterInTurn' /\ WireIsSound'
<1>1. ASSUME NEW s \in Senders, Take(s) \/ SenderStep(s)
      PROVE  CounterInTurn' /\ WireIsSound'
  BY <1>1, SenderKeepsTurns DEF TypeOK, OrderInv
<1>2. CASE MainStep \/ StartFails \/ Relaunched \/ ConsoleClosed
  BY <1>2, MainKeepsTurns DEF TypeOK, OrderInv
<1>3. CASE UNCHANGED sendVars /\ UNCHANGED held
  <2>1. UNCHANGED <<idVars, wire>> /\ sender' = sender
    BY <1>3
  <2> HIDE DEF idVars
  <2>2. QED
    BY <1>3, <2>1, SendersKept
<1>4. CASE DiscordExits \/ SessionLine \/ UNCHANGED vars
  BY <1>3, <1>4 DEF DiscordExits, SessionLine, vars
<1>5. CASE (\E i \in Incoming : RxMatch(i)) \/ RxInject \/ RxStops
  BY <1>3, <1>5, RxLeavesMain
<1>6. QED
  BY <1>1, <1>2, <1>4, <1>5 DEF Next

-----------------------------------------------------------------------------
(* The theorems.                                                           *)

\* cmdDiscordVPN begins with nothing open and nothing sent.
LEMMA InitIInv == ASSUME Init PROVE IInv
<1>1. TypeOK
  BY InitTyped
<1>2. StartInOrder
  <2>1. pc = "start" /\ todo = Course /\ Len(todo) = 13
        /\ held = {} /\ discord = "off" /\ hook = "no"
    BY CourseIs DEF Init
  <2>2. Passed = {}
    BY <2>1, CourseIs DEF Passed
  <2>3. \A k \in 1 .. 13 : Course[13 - 13 + k] = Course[k]
    OBVIOUS
  <2>4. \A s \in Senders : sender[s].pc = "off"
    BY IdleTyped DEF Init
  <2>5. QED
    BY <2>1, <2>2, <2>3, <2>4, CourseIs DEF StartInOrder
<1>3. ExitInOrder /\ KeysOutliveSocket /\ HandlerStays /\ WindowsExitLeavesNothing
  BY DEF Init, ExitInOrder, KeysOutliveSocket, HandlerStays, WindowsExitLeavesNothing
<1>4. CounterInTurn /\ WireIsSound
  <2>1. \A s \in Senders :
            sender[s].pc = "off" /\ sender[s].id = 0 /\ sender[s].turn = 0
    BY IdleTyped DEF Init
  <2>2. turn = 0 /\ packetID = 0 /\ wire = {}
    BY DEF Init
  <2>3. QED
    BY <2>1, <2>2, IdleAtTurn DEF CounterInTurn, WireIsSound
<1>5. QED
  BY <1>1, <1>2, <1>3, <1>4 DEF IInv

\* IInv holds in every reachable state.
THEOREM InductiveInvariant == Spec => []IInv
<1>1. Init => IInv
  BY InitIInv
<1>2. IInv /\ [Next]_vars => IInv'
  <2> SUFFICES ASSUME IInv, [Next]_vars PROVE IInv'
    OBVIOUS
  <2>1. TypeOK /\ TypeOK' /\ OrderInv
    BY TypeStep DEF IInv, OrderInv
  <2>2. OrderInv'
    BY <2>1, OrderStep DEF TypeOK
  <2>3. CounterInTurn' /\ WireIsSound'
    BY <2>1, TurnStep DEF IInv
  <2>4. QED
    BY <2>1, <2>2, <2>3 DEF IInv, OrderInv
<1>3. QED
  BY <1>1, <1>2, PTL DEF Spec

\* Although the gate, the capturers and keepalive share one counter and run on
\* while cleanup closes the session, no packet leaves with erased keys, with
\* id 0, or with an id another packet of the same turn of the counter had.
THEOREM EveryPacketSealedOnce == Spec => []SealedOnce
<1>1. IInv => SealedOnce
  BY WireIsSealed DEF IInv
<1>2. QED
  BY <1>1, InductiveInvariant, PTL

\* Whichever step of the start fails, whatever ends the select, and whenever
\* the console is closed, no handle stays open and no Discord runs on, save
\* for a console closed before the handler was installed.
THEOREM ExitLeavesNothing == Spec => []WindowsExitLeavesNothing
<1>1. IInv => WindowsExitLeavesNothing
  BY DEF IInv
<1>2. QED
  BY <1>1, InductiveInvariant, PTL

-----------------------------------------------------------------------------
(* The options clampTCPMSS writes, for every list of options.  Encoded and *)
(* MSSPositions are recursive functions: each exists because the prefixes  *)
(* (or suffixes) on which it exists have no least end at which it fails,   *)
(* and what it computes is found the same way.                             *)

\* A set of naturals that is not empty has a least element.
LEMMA LeastElement ==
  ASSUME NEW S \in SUBSET Nat, S # {}
  PROVE  \E n \in S : \A m \in S : n <= m
<1> DEFINE R == {ss \in Nat \X Nat : ss[1] < ss[2]}
<1>1. R = OpToRel(<, Nat)
  BY Zenon DEF OpToRel
<1>2. IsWellFoundedOn(R, Nat)
  BY <1>1, NatLessThanWellFounded, Zenon
<1>3. \A x, y \in Nat : <<y, x>> \in R <=> y < x
  OBVIOUS
<1> HIDE DEF R
<1>4. PICK x \in S : \A y \in S : ~(<<y, x>> \in R)
  BY <1>2, WFMin, Zenon
<1>5. ASSUME NEW y \in S PROVE x <= y
  <2>1. x \in Nat /\ y \in Nat
    OBVIOUS
  <2>2. ~(y < x)
    BY <1>3, <1>4, <2>1, Zenon
  <2>3. QED
    BY <2>1, <2>2
<1>6. QED
  BY <1>5

\* The bytes of each kind of option.
LEMMA EncodeIs ==
  ASSUME NEW o \in Option
  PROVE  /\ Encode(o) \in Seq(Nat)
         /\ o.kind = "nop" => Encode(o) = <<1>>
         /\ o.kind = "mss" => Encode(o) = <<2, 4, o.mss \div 256, o.mss % 256>>
         /\ o.kind \in {"other", "rest"} => Encode(o) = o.bytes
<1>1. o.kind \in {"nop", "mss", "other", "rest"} /\ o.mss \in Nat /\ o.bytes \in Seq(Nat)
  BY DEF Option
<1>2. o.mss \div 256 \in Nat /\ o.mss % 256 \in Nat
  BY <1>1
<1>3. CASE o.kind = "nop"
  BY <1>3 DEF Encode
<1>4. CASE o.kind = "mss"
  <2>1. Encode(o) = <<2, 4, o.mss \div 256, o.mss % 256>>
    BY <1>4 DEF Encode
  <2>2. QED
    BY <1>2, <1>4, <2>1
<1>5. CASE o.kind \in {"other", "rest"}
  BY <1>1, <1>5 DEF Encode
<1>6. QED
  BY <1>1, <1>3, <1>4, <1>5

\* The recursive function of Encoded exists.
LEMMA UpToExists ==
  ASSUME NEW list, NEW n \in Nat
  PROVE  \E g : g = [k \in 0 .. n |-> IF k = 0 THEN <<>> ELSE g[k - 1] \o Encode(list[k])]
<1> DEFINE Is(k, g) == g = [i \in 0 .. k |->
                              IF i = 0 THEN <<>> ELSE g[i - 1] \o Encode(list[i])]
           Bad == {k \in Nat : ~\E g : Is(k, g)}
<1> SUFFICES ASSUME Bad # {} PROVE FALSE
  OBVIOUS
<1>1. PICK k \in Bad : \A m \in Bad : k <= m
  BY LeastElement
<1>2. CASE k = 0
  <2>1. Is(0, [i \in 0 .. 0 |-> <<>>])
    OBVIOUS
  <2>2. QED
    BY <1>2, <2>1
<1>3. CASE k > 0
  <2>1. k - 1 \in Nat /\ k - 1 \notin Bad
    <3>1. k \in Nat
      OBVIOUS
    <3> HIDE DEF Bad
    <3>2. QED
      BY <1>1, <1>3, <3>1
  <2>2. PICK h : Is(k - 1, h)
    BY <2>1
  <2>3. PICK last : last = h[k - 1] \o Encode(list[k])
    OBVIOUS
  <2> DEFINE g == [i \in 0 .. k |-> IF i = k THEN last ELSE h[i]]
  <2>4. ASSUME NEW i \in 0 .. k
        PROVE  g[i] = IF i = 0 THEN <<>> ELSE g[i - 1] \o Encode(list[i])
    <3>1. CASE i = k
      <4>1. g[i] = last /\ g[i - 1] = h[i - 1]
        BY <1>3, <3>1
      <4>2. QED
        BY <1>3, <2>3, <3>1, <4>1
    <3>2. CASE i # k
      <4>1. i \in 0 .. k - 1 /\ g[i] = h[i] /\ (i # 0 => g[i - 1] = h[i - 1])
        BY <3>2
      <4>2. h[i] = IF i = 0 THEN <<>> ELSE h[i - 1] \o Encode(list[i])
        BY <2>2, <4>1
      <4>3. QED
        BY <4>1, <4>2
    <3>3. QED
      BY <3>1, <3>2
  <2>5. Is(k, g)
    <3>1. g = [i \in 0 .. k |-> g[i]]
      OBVIOUS
    <3> HIDE DEF g
    <3>2. QED
      BY <2>4, <3>1
  <2>6. QED
    BY <2>5
<1>4. QED
  BY <1>1, <1>2, <1>3

\* Sequences that grow at the end are prefixes of each other.
Grows(n, f, e) ==
    /\ n \in Nat
    /\ \A k \in 0 .. n : f[k] \in Seq(Nat)
    /\ \A k \in 1 .. n : e[k] \in Seq(Nat) /\ f[k] = f[k - 1] \o e[k]
Prefixes(n, f) ==
    \A j \in 0 .. n : \A l \in j .. n :
        /\ Len(f[j]) <= Len(f[l])
        /\ \A i \in 1 .. Len(f[j]) : f[l][i] = f[j][i]

LEMMA Growing ==
  ASSUME NEW n, NEW f, NEW e, Grows(n, f, e) PROVE Prefixes(n, f)
<1> USE DEF Grows, Prefixes
<1> TAKE j \in 0 .. n
<1> TAKE l \in j .. n
<1> DEFINE Fits(k) == /\ Len(f[j]) <= Len(f[k])
                      /\ \A i \in 1 .. Len(f[j]) : f[k][i] = f[j][i]
           Bad == {k \in Nat : k \in j .. n /\ ~Fits(k)}
<1>1. Fits(j)
  OBVIOUS
<1>2. ASSUME NEW k \in j + 1 .. n, Fits(k - 1) PROVE Fits(k)
  <2>1. k - 1 \in 0 .. n /\ k \in 1 .. n /\ k \in 0 .. n
    OBVIOUS
  <2>2. PICK s \in Seq(Nat), t \in Seq(Nat), a \in Seq(Nat) :
           s = f[k - 1] /\ t = e[k] /\ a = f[j] /\ f[k] = s \o t
    BY <2>1
  <2>3. Len(a) <= Len(s) /\ \A i \in 1 .. Len(a) : s[i] = a[i]
    BY <1>2, <2>2
  <2>4. Len(s \o t) = Len(s) + Len(t) /\ \A i \in 1 .. Len(s) : (s \o t)[i] = s[i]
    OBVIOUS
  <2>5. Len(a) <= Len(s \o t) /\ \A i \in 1 .. Len(a) : (s \o t)[i] = a[i]
    BY <2>3, <2>4
  <2>6. QED
    BY <2>2, <2>5
<1> HIDE DEF Fits
<1>3. ASSUME Bad # {} PROVE FALSE
  <2>1. PICK k \in Bad : \A m \in Bad : k <= m
    BY <1>3, LeastElement
  <2>2. k \in j .. n /\ ~Fits(k) /\ k # j
    BY <1>1, <2>1
  <2>3. k - 1 \in Nat /\ k - 1 \in j .. n /\ k \in j + 1 .. n /\ k - 1 < k
    BY <2>2
  <2>4. k - 1 \notin Bad
    <3> HIDE DEF Bad
    <3>1. QED
      BY <2>1, <2>3
  <2>5. QED
    BY <1>2, <2>2, <2>3, <2>4
<1>4. Fits(l)
  BY <1>3
<1>5. QED
  BY <1>4 DEF Fits

\* Where the bytes of each option are: off[k] bytes come before option k + 1.
Laid(list, off) ==
    /\ off \in [0 .. Len(list) -> Nat]
    /\ Encoded(list) \in Seq(Nat)
    /\ off[0] = 0 /\ off[Len(list)] = Len(Encoded(list))
    /\ \A k \in 1 .. Len(list) : off[k] = off[k - 1] + Len(Encode(list[k]))
    /\ \A j \in 0 .. Len(list) : \A k \in j .. Len(list) : off[j] <= off[k]
    /\ \A k \in 1 .. Len(list) : \A i \in 1 .. Len(Encode(list[k])) :
          Encoded(list)[off[k - 1] + i] = Encode(list[k])[i]

LEMMA Layout ==
  ASSUME NEW list \in Seq(Option) PROVE \E off : Laid(list, off)
<1> DEFINE Is(g) == g = [n \in 0 .. Len(list) |->
                           IF n = 0 THEN <<>> ELSE g[n - 1] \o Encode(list[n])]
           f == CHOOSE g : Is(g)
<1>1. PICK n \in Nat : n = Len(list)
  OBVIOUS
<1>2. Is(f)
  <2>1. \E g : Is(g)
    BY <1>1, UpToExists
  <2>2. QED
    BY <2>1, Zenon
<1>3. Encoded(list) = f[Len(list)]
  BY DEF Encoded
<1> HIDE DEF f
<1>4. f[0] = <<>> /\ \A k \in 1 .. n : f[k] = f[k - 1] \o Encode(list[k])
  BY <1>1, <1>2
<1> HIDE DEF Is
<1>5. PICK e : e = [k \in 1 .. n |-> Encode(list[k])]
  OBVIOUS
<1>6. \A k \in 1 .. n : e[k] = Encode(list[k]) /\ e[k] \in Seq(Nat)
  <2>1. ASSUME NEW k \in 1 .. n PROVE list[k] \in Option
    BY <1>1
  <2>2. QED
    BY <1>5, <2>1, EncodeIs
<1>7. \A k \in 0 .. n : f[k] \in Seq(Nat)
  <2> DEFINE Bad == {k \in Nat : k \in 0 .. n /\ f[k] \notin Seq(Nat)}
  <2>1. ASSUME Bad # {} PROVE FALSE
    <3>1. PICK k \in Bad : \A m \in Bad : k <= m
      BY <2>1, LeastElement
    <3>2. k \in 0 .. n /\ f[k] \notin Seq(Nat) /\ k # 0
      <4>1. f[0] \in Seq(Nat)
        BY <1>4
      <4>2. QED
        BY <3>1, <4>1
    <3>3. k \in 1 .. n /\ k - 1 \in Nat /\ k - 1 \in 0 .. n /\ k - 1 < k
      BY <3>2
    <3>4. k - 1 \notin Bad
      <4> HIDE DEF Bad
      <4>1. QED
        BY <3>1, <3>3
    <3>5. f[k - 1] \in Seq(Nat)
      BY <3>3, <3>4
    <3>6. f[k] = f[k - 1] \o e[k] /\ e[k] \in Seq(Nat)
      BY <1>4, <1>6, <3>3
    <3>7. QED
      BY <3>2, <3>5, <3>6
  <2>2. QED
    BY <2>1
<1>8. \A k \in 1 .. n : e[k] \in Seq(Nat) /\ f[k] = f[k - 1] \o e[k]
  BY <1>4, <1>6
<1>9. \A j \in 0 .. n : \A l \in j .. n :
         /\ Len(f[j]) <= Len(f[l])
         /\ \A i \in 1 .. Len(f[j]) : f[l][i] = f[j][i]
  <2>1. Grows(n, f, e)
    BY <1>7, <1>8 DEF Grows
  <2>2. Prefixes(n, f)
    BY <2>1, Growing
  <2>3. QED
    BY <2>2 DEF Prefixes
<1>10. PICK off \in [0 .. n -> Nat] : \A k \in 0 .. n : off[k] = Len(f[k])
  <2>1. \A k \in 0 .. n : Len(f[k]) \in Nat
    BY <1>7
  <2>2. [k \in 0 .. n |-> Len(f[k])] \in [0 .. n -> Nat]
    BY <2>1
  <2>3. QED
    BY <2>2
<1>11. off[0] = 0 /\ off[n] = Len(Encoded(list)) /\ Encoded(list) \in Seq(Nat)
  <2>1. 0 \in 0 .. n /\ n \in 0 .. n
    OBVIOUS
  <2>2. QED
    BY <1>1, <1>3, <1>4, <1>7, <1>10, <2>1
<1>12. ASSUME NEW k \in 1 .. n
       PROVE  /\ off[k] = off[k - 1] + Len(e[k])
              /\ \A i \in 1 .. Len(e[k]) : Encoded(list)[off[k - 1] + i] = e[k][i]
  <2>1. k \in 0 .. n /\ k - 1 \in 0 .. n /\ n \in k .. n
    OBVIOUS
  <2>2. PICK s \in Seq(Nat), t \in Seq(Nat) : s = f[k - 1] /\ t = e[k] /\ f[k] = s \o t
    BY <1>7, <1>8, <2>1
  <2>3. Len(s \o t) = Len(s) + Len(t)
        /\ \A i \in 1 .. Len(t) : (s \o t)[Len(s) + i] = t[i]
    OBVIOUS
  <2>4. \A i \in 1 .. Len(t) : Len(s) + i \in 1 .. Len(s \o t)
    BY <2>3
  <2>5. \A i \in 1 .. Len(f[k]) : f[n][i] = f[k][i]
    BY <1>9, <2>1
  <2>6. off[k] = Len(s \o t) /\ off[k - 1] = Len(s)
    BY <1>10, <2>1, <2>2
  <2>7. QED
    BY <1>1, <1>3, <2>2, <2>3, <2>4, <2>5, <2>6
<1>13. \A j \in 0 .. n : \A k \in j .. n : off[j] <= off[k]
  <2>1. ASSUME NEW j \in 0 .. n, NEW k \in j .. n PROVE off[j] <= off[k]
    <3>1. k \in 0 .. n
      OBVIOUS
    <3>2. QED
      BY <1>9, <1>10, <3>1
  <2>2. QED
    BY <2>1
<1>14. Laid(list, off)
  <2>1. \A k \in 1 .. Len(list) : off[k] = off[k - 1] + Len(Encode(list[k]))
    BY <1>1, <1>6, <1>12
  <2>2. \A k \in 1 .. Len(list) : \A i \in 1 .. Len(Encode(list[k])) :
           Encoded(list)[off[k - 1] + i] = Encode(list[k])[i]
    BY <1>1, <1>6, <1>12
  <2>3. QED
    BY <1>1, <1>11, <1>13, <2>1, <2>2 DEF Laid
<1>15. QED
  BY <1>14

\* Every byte belongs to an option.
InBlock(list, off, i) ==
    \E k \in 1 .. Len(list), j \in Nat :
        j \in 1 .. Len(Encode(list[k])) /\ i = off[k - 1] + j

LEMMA BlockOf ==
  ASSUME NEW list \in Seq(Option), NEW off, Laid(list, off),
         NEW i \in 1 .. Len(Encoded(list))
  PROVE  InBlock(list, off, i)
<1> USE DEF InBlock
<1>1. PICK n \in Nat : n = Len(list)
  OBVIOUS
<1>2. /\ off \in [0 .. n -> Nat] /\ off[0] = 0 /\ i <= off[n]
      /\ \A k \in 1 .. n : off[k] = off[k - 1] + Len(Encode(list[k]))
  BY <1>1 DEF Laid
<1> DEFINE Past == {k \in Nat : k \in 0 .. n /\ i <= off[k]}
<1>3. n \in Past
  BY <1>2
<1>4. PICK k \in Past : \A m \in Past : k <= m
  BY <1>3, LeastElement
<1>5. k \in 0 .. n /\ i <= off[k] /\ k # 0
  BY <1>2, <1>4
<1>6. k \in 1 .. n /\ k - 1 \in Nat /\ k - 1 \in 0 .. n /\ k - 1 < k
  BY <1>5
<1>7. k - 1 \notin Past
  <2> HIDE DEF Past
  <2>1. QED
    BY <1>4, <1>6
<1>8. off[k - 1] \in Nat /\ off[k - 1] < i
  BY <1>2, <1>6, <1>7
<1>9. PICK l \in Nat : l = Len(Encode(list[k])) /\ off[k] = off[k - 1] + l
  <2>1. list[k] \in Option
    BY <1>1, <1>6
  <2>2. Encode(list[k]) \in Seq(Nat)
    BY <2>1, EncodeIs
  <2>3. QED
    BY <1>2, <1>6, <2>2
<1>10. PICK j \in Nat : j = i - off[k - 1]
  BY <1>8
<1>11. j \in 1 .. l /\ i = off[k - 1] + j
  BY <1>5, <1>8, <1>9, <1>10
<1>12. QED
  BY <1>1, <1>6, <1>9, <1>11

\* One round of clampTCPMSS's loop at position i, g being what the later rounds
\* find.
Round(opts, g, i) ==
    IF i > Len(opts) \/ opts[i] = 0 THEN {}
    ELSE IF opts[i] = 1 THEN g[i + 1]
    ELSE IF i = Len(opts) THEN {}
    ELSE LET n == opts[i + 1]
         IN  IF n < 2 \/ i + n - 1 > Len(opts) THEN {}
             ELSE (IF opts[i] = 2 /\ n = 4 THEN {i} ELSE {}) \cup g[i + n]

\* A round looks only at later ones.
LEMMA RoundLooksAhead ==
  ASSUME NEW opts \in Seq(Nat), NEW i \in 1 .. Len(opts) + 1, NEW g, NEW h,
         \A j \in i + 1 .. Len(opts) + 1 : g[j] = h[j]
  PROVE  Round(opts, g, i) = Round(opts, h, i)
<1>1. PICK n \in Nat : n = Len(opts)
  OBVIOUS
<1>2. CASE i > n \/ opts[i] = 0
  BY <1>1, <1>2 DEF Round
<1>3. CASE i \in 1 .. n /\ opts[i] # 0
  <2>1. i + 1 \in i + 1 .. n + 1
    BY <1>3
  <2>2. CASE opts[i] = 1 \/ i = n
    BY <1>1, <1>3, <2>1, <2>2 DEF Round
  <2>3. CASE opts[i] # 1 /\ i # n
    <3>1. PICK m \in Nat : m = opts[i + 1]
      <4>1. i + 1 \in 1 .. Len(opts)
        BY <1>1, <1>3, <2>3
      <4>2. QED
        BY <4>1
    <3>2. CASE m < 2 \/ i + m - 1 > n
      BY <1>1, <1>3, <2>3, <3>1, <3>2 DEF Round
    <3>3. CASE m >= 2 /\ i + m - 1 <= n
      <4>1. i + m \in i + 1 .. n + 1
        BY <1>3, <3>3
      <4>2. g[i + m] = h[i + m]
        BY <1>1, <4>1
      <4>3. ASSUME NEW x
            PROVE  Round(opts, x, i) =
                     (IF opts[i] = 2 /\ m = 4 THEN {i} ELSE {}) \cup x[i + m]
        BY <1>1, <1>3, <2>3, <3>1, <3>3 DEF Round
      <4>4. QED
        BY <4>2, <4>3
    <3>4. QED
      BY <3>2, <3>3
  <2>4. QED
    BY <2>2, <2>3
<1>4. QED
  BY <1>1, <1>2, <1>3

\* The recursive function of MSSPositions exists.
LEMMA RoundsExist ==
  ASSUME NEW opts \in Seq(Nat)
  PROVE  \E g : g = [i \in 1 .. Len(opts) + 1 |-> Round(opts, g, i)]
<1>1. PICK n \in Nat : n = Len(opts)
  OBVIOUS
<1> DEFINE Is(k, g) == g = [i \in k .. n + 1 |-> Round(opts, g, i)]
           Good == {k \in Nat : k \in 1 .. n + 1 /\ \E g : Is(k, g)}
<1>2. n + 1 \in Good
  <2>1. \A g : Round(opts, g, n + 1) = {}
    BY <1>1 DEF Round
  <2> DEFINE g == [i \in n + 1 .. n + 1 |-> {}]
  <2>2. g = [i \in n + 1 .. n + 1 |-> Round(opts, g, i)]
    <3>1. \A i \in n + 1 .. n + 1 : i = n + 1
      OBVIOUS
    <3>2. \A i \in n + 1 .. n + 1 : Round(opts, g, i) = {}
      BY <2>1, <3>1
    <3>3. QED
      BY <3>2
  <2>3. n + 1 \in Nat /\ n + 1 \in 1 .. n + 1
    OBVIOUS
  <2>4. QED
    BY <2>2, <2>3
<1>3. PICK k \in Good : \A m \in Good : k <= m
  BY <1>2, LeastElement
<1>4. ASSUME k # 1 PROVE FALSE
  <2>1. k \in 1 .. n + 1 /\ k - 1 \in Nat /\ k - 1 \in 1 .. n + 1 /\ k - 1 < k
    BY <1>3, <1>4
  <2>2. PICK g : Is(k, g)
    BY <1>3
  <2>3. PICK first : first = Round(opts, g, k - 1)
    OBVIOUS
  <2> DEFINE h == [i \in k - 1 .. n + 1 |-> IF i = k - 1 THEN first ELSE g[i]]
  <2>4. ASSUME NEW i \in k - 1 .. n + 1 PROVE h[i] = Round(opts, h, i)
    <3>1. i \in 1 .. Len(opts) + 1
      BY <1>1, <2>1
    <3>2. \A j \in i + 1 .. Len(opts) + 1 : h[j] = g[j]
      BY <1>1, <2>1
    <3>3. Round(opts, h, i) = Round(opts, g, i)
      <4> HIDE DEF h
      <4>1. QED
        BY <3>1, <3>2, RoundLooksAhead
    <3>4. CASE i = k - 1
      BY <2>3, <3>3, <3>4
    <3>5. CASE i # k - 1
      <4>1. i \in k .. n + 1
        BY <2>1, <3>5
      <4>2. g[i] = Round(opts, g, i)
        BY <2>2, <4>1
      <4>3. h[i] = g[i]
        BY <3>5
      <4>4. QED
        BY <3>3, <4>2, <4>3
    <3>6. QED
      BY <3>4, <3>5
  <2>5. Is(k - 1, h)
    <3>1. h = [i \in k - 1 .. n + 1 |-> h[i]]
      OBVIOUS
    <3> HIDE DEF h
    <3>2. QED
      BY <2>4, <3>1
  <2>6. k - 1 \in Good
    BY <2>1, <2>5
  <2> HIDE DEF Good
  <2>7. QED
    BY <1>3, <2>1, <2>6
<1>5. \E g : Is(1, g)
  BY <1>3, <1>4
<1>6. QED
  BY <1>1, <1>5

\* What the first round finds, and what each round does.
Rounds(opts, at) == \A i \in 1 .. Len(opts) + 1 : at[i] = Round(opts, at, i)

LEMMA PositionsByRound ==
  ASSUME NEW opts \in Seq(Nat)
  PROVE  \E at : MSSPositions(opts) = at[1] /\ Rounds(opts, at)
<1> DEFINE Is(g) == g = [i \in 1 .. Len(opts) + 1 |-> Round(opts, g, i)]
           f == CHOOSE g : Is(g)
<1>1. Is(f)
  <2>1. \E g : Is(g)
    BY RoundsExist
  <2>2. QED
    BY <2>1, Zenon
<1>2. MSSPositions(opts) = f[1]
  BY DEF MSSPositions, Round
<1> HIDE DEF f
<1>3. Rounds(opts, f)
  BY <1>1 DEF Rounds
<1>4. QED
  BY <1>2, <1>3

\* A round at an option that has a length and fits.
Fits(opts, i, kind, m) ==
    /\ opts \in Seq(Nat) /\ i \in Nat /\ m \in Nat
    /\ 1 <= i /\ 2 <= m /\ i + m <= Len(opts) + 1
    /\ opts[i] = kind /\ kind # 0 /\ kind # 1 /\ opts[i + 1] = m

LEMMA RoundSteps ==
  ASSUME NEW opts, NEW at, NEW i, NEW kind, NEW m, Fits(opts, i, kind, m)
  PROVE  Round(opts, at, i) = IF kind = 2 /\ m = 4 THEN {i} \cup at[i + m] ELSE at[i + m]
<1> USE DEF Fits
<1>1. PICK n \in Nat : n = Len(opts)
  OBVIOUS
<1>2. ~(i > n) /\ i # n /\ ~(m < 2) /\ ~(i + m - 1 > n)
  BY <1>1
<1>3. QED
  BY <1>1, <1>2 DEF Round

LEMMA RoundSkips ==
  ASSUME NEW opts, NEW at, NEW i, NEW kind, NEW m, Fits(opts, i, kind, m),
         kind # 2 \/ m # 4
  PROVE  Round(opts, at, i) = at[i + m]
BY RoundSteps

\* The bytes e stand in b after the first c.
Stands(b, c, e) ==
    /\ b \in Seq(Nat) /\ e \in Seq(Nat) /\ c \in Nat /\ c + Len(e) <= Len(b)
    /\ \A i \in 1 .. Len(e) : b[c + i] = e[i]

\* An option with a length that is no MSS is stepped over.
LEMMA OtherIsSkipped ==
  ASSUME NEW b, NEW c, NEW e, NEW at, Stands(b, c, e), NoMSS(e)
  PROVE  Round(b, at, c + 1) = at[(c + Len(e)) + 1]
<1>1. PICK m \in Nat, l \in Nat : m = Len(e) /\ l = Len(b) /\ m >= 2 /\ c + m <= l /\ c \in Nat
  BY DEF Stands, NoMSS
<1>2. 1 \in 1 .. Len(e) /\ 2 \in 1 .. Len(e)
  BY <1>1
<1>3. b[c + 1] = e[1] /\ b[c + 2] = e[2] /\ e[1] \in Nat
  <2>1. b[c + 1] = e[1] /\ b[c + 2] = e[2]
    BY <1>2 DEF Stands
  <2>2. e[1] \in Nat
    <3>1. e \in Seq(Nat)
      BY DEF Stands
    <3>2. QED
      BY <1>2, <3>1
  <2>3. QED
    BY <2>1, <2>2
<1>4. PICK t \in Nat : t = e[1] /\ t # 0 /\ t # 1 /\ (t # 2 \/ m # 4) /\ e[2] = m
  BY <1>1, <1>3 DEF NoMSS
<1>5. (c + 1) + 1 = c + 2 /\ (c + 1) + m = (c + m) + 1 /\ (c + 1) + m <= l + 1
  BY <1>1
<1>6. b \in Seq(Nat) /\ b[c + 1] = t /\ b[(c + 1) + 1] = m
  BY <1>3, <1>4, <1>5 DEF Stands
<1>7. Fits(b, c + 1, t, m)
  BY <1>1, <1>4, <1>5, <1>6 DEF Fits
<1>8. Round(b, at, c + 1) = at[(c + 1) + m]
  BY <1>4, <1>7, RoundSkips
<1>9. QED
  BY <1>1, <1>5, <1>8

\* What cannot be read, at the end of the options, ends the loop.
LEMMA RestIsLeft ==
  ASSUME NEW b, NEW c, NEW e, NEW at, Stands(b, c, e), Len(b) = c + Len(e), Unreadable(e)
  PROVE  Round(b, at, c + 1) = {}
<1>1. PICK m \in Nat, l \in Nat : m = Len(e) /\ l = Len(b) /\ m >= 1 /\ l = c + m /\ c \in Nat
  BY DEF Stands, Unreadable
<1>2. 1 \in 1 .. Len(e) /\ ~(c + 1 > l)
  BY <1>1
<1>3. b[c + 1] = e[1]
  BY <1>2 DEF Stands
<1>4. CASE e[1] = 0
  BY <1>3, <1>4 DEF Round
<1>5. CASE e[1] # 0 /\ m = 1
  <2>1. c + 1 = l /\ e[1] # 1
    BY <1>1, <1>5 DEF Unreadable
  <2>2. QED
    BY <1>1, <1>2, <1>3, <1>5, <2>1 DEF Round
<1>6. CASE e[1] # 0 /\ m # 1
  <2>1. 2 \in 1 .. Len(e)
    BY <1>1, <1>6
  <2>2. PICK v \in Nat : v = e[2] /\ b[c + 2] = v
    BY <2>1 DEF Stands
  <2>3. e[1] # 1 /\ (v < 2 \/ v > m)
    BY <1>1, <1>6, <2>2 DEF Unreadable
  <2>4. (c + 1) + 1 = c + 2 /\ c + 1 # l /\ (v < 2 \/ (c + 1) + v - 1 > l)
    BY <1>1, <1>6, <2>3
  <2>5. b[(c + 1) + 1] = v
    BY <2>2, <2>4
  <2>6. QED
    BY <1>1, <1>2, <1>3, <1>6, <2>3, <2>4, <2>5 DEF Round
<1>7. QED
  BY <1>4, <1>5, <1>6

\* A round at the head of an option steps over it, and notes an MSS; at what
\* cannot be read it stops.
LEMMA RoundOfOption ==
  ASSUME NEW list, OptionList(list), NEW off, Laid(list, off),
         NEW at, Rounds(Encoded(list), at),
         NEW k \in 1 .. Len(list)
  PROVE  /\ list[k].kind \in {"nop", "other"} => at[off[k - 1] + 1] = at[off[k] + 1]
         /\ list[k].kind = "mss" =>
               at[off[k - 1] + 1] = {off[k - 1] + 1} \cup at[off[k] + 1]
         /\ list[k].kind = "rest" => at[off[k - 1] + 1] = {}
<1>1. PICK b \in Seq(Nat) : b = Encoded(list)
  BY DEF Laid
<1>2. PICK n \in Nat : n = Len(list)
  BY DEF OptionList
<1>3. PICK c \in Nat, l \in Nat : c = off[k - 1] /\ l = Len(b) /\ off[k] <= l
  <2>1. k - 1 \in 0 .. n /\ n \in k .. n /\ k \in 0 .. n
    BY <1>2
  <2>2. off[k - 1] \in Nat /\ off[k] <= off[n] /\ off[n] = Len(b)
    BY <1>1, <1>2, <2>1 DEF Laid
  <2>3. QED
    BY <2>2
<1>4. PICK e \in Seq(Nat) : e = Encode(list[k])
  <2>1. list[k] \in Option
    BY DEF OptionList
  <2>2. QED
    BY <2>1, EncodeIs
<1>5. off[k] = c + Len(e) /\ \A i \in 1 .. Len(e) : b[c + i] = e[i]
  BY <1>1, <1>3, <1>4 DEF Laid
<1>6. list[k] \in Option
  BY DEF OptionList
<1>7. l = Len(b)
  BY <1>3
<1>8. c + 1 \in 1 .. l + 1 /\ at[c + 1] = Round(b, at, c + 1)
  <2>1. c + 1 \in 1 .. l + 1
    <3>1. off[k] \in Nat /\ c <= off[k]
      BY <1>3, <1>4, <1>5
    <3>2. QED
      BY <1>3, <3>1
  <2>2. QED
    BY <1>1, <1>3, <2>1 DEF Rounds
<1>9. CASE list[k].kind = "nop"
  <2>1. e = <<1>>
    BY <1>4, <1>6, <1>9, EncodeIs
  <2>2. Len(e) = 1 /\ e[1] = 1
    BY <2>1
  <2>3. b[c + 1] = 1 /\ off[k] = c + 1
    BY <1>5, <2>2
  <2>4. c + 1 <= l
    BY <1>3, <2>3
  <2>5. at[c + 1] = at[(c + 1) + 1]
    BY <1>3, <1>8, <2>3, <2>4 DEF Round
  <2>6. QED
    BY <1>3, <1>9, <2>3, <2>5
<1>10. CASE list[k].kind = "mss"
  <2>1. e = <<2, 4, list[k].mss \div 256, list[k].mss % 256>>
    BY <1>4, <1>6, <1>10, EncodeIs
  <2>2. Len(e) = 4 /\ e[1] = 2 /\ e[2] = 4
    BY <2>1
  <2>3. b[c + 1] = 2 /\ b[c + 2] = 4 /\ off[k] = c + 4
    BY <1>5, <2>2
  <2>4. c + 4 <= l
    BY <1>3, <2>3
  <2>5. (c + 1) + 1 = c + 2 /\ (c + 1) + 4 = (c + 4) + 1 /\ (c + 1) + 4 <= l + 1
    BY <2>4
  <2>6. Round(b, at, c + 1) = {c + 1} \cup at[(c + 1) + 4]
    <3>1. c + 1 \in Nat /\ 1 <= c + 1 /\ (c + 1) + 4 <= Len(b) + 1
      BY <1>7, <2>5
    <3>2. b[c + 1] = 2 /\ b[(c + 1) + 1] = 4
      BY <2>3, <2>5
    <3>3. Fits(b, c + 1, 2, 4)
      BY <3>1, <3>2 DEF Fits
    <3>4. QED
      BY <3>3, RoundSteps
  <2>7. QED
    BY <1>3, <1>8, <1>10, <2>3, <2>5, <2>6
<1>11. Stands(b, c, e)
  BY <1>3, <1>5 DEF Stands
<1>12. CASE list[k].kind = "other"
  <2>1. e = list[k].bytes /\ NoMSS(list[k].bytes)
    BY <1>4, <1>6, <1>12, EncodeIs DEF OptionList
  <2>2. Round(b, at, c + 1) = at[(c + Len(e)) + 1]
    BY <1>11, <2>1, OtherIsSkipped
  <2>3. QED
    BY <1>3, <1>5, <1>8, <1>12, <2>2
<1>13. CASE list[k].kind = "rest"
  <2>1. e = list[k].bytes
    BY <1>4, <1>6, <1>13, EncodeIs
  <2>2. k = n /\ Unreadable(list[k].bytes)
    BY <1>2, <1>13 DEF OptionList
  <2>3. Len(b) = c + Len(e)
    BY <1>1, <1>2, <1>5, <2>2 DEF Laid
  <2>4. Round(b, at, c + 1) = {}
    BY <1>11, <2>1, <2>2, <2>3, RestIsLeft
  <2>5. QED
    BY <1>3, <1>8, <1>13, <2>4
<1>14. QED
  BY <1>6, <1>9, <1>10, <1>12, <1>13 DEF Option

\* The heads of the MSS options after the first n.
Heads(list, off, n) ==
    {i \in Nat : \E m \in n + 1 .. Len(list) :
        list[m].kind = "mss" /\ i = off[m - 1] + 1}

LEMMA HeadsOfOption ==
  ASSUME NEW list, OptionList(list), NEW off, Laid(list, off),
         NEW k \in 1 .. Len(list)
  PROVE  /\ list[k].kind \in {"nop", "other"} => Heads(list, off, k - 1) = Heads(list, off, k)
         /\ list[k].kind = "mss" =>
               Heads(list, off, k - 1) = {off[k - 1] + 1} \cup Heads(list, off, k)
         /\ list[k].kind = "rest" => Heads(list, off, k - 1) = {}
<1>1. PICK n \in Nat : n = Len(list)
  BY DEF OptionList
<1>2. off[k - 1] + 1 \in Nat
  <2>1. k - 1 \in 0 .. n
    BY <1>1
  <2>2. off \in [0 .. n -> Nat]
    BY <1>1 DEF Laid
  <2>3. off[k - 1] \in Nat
    BY <2>1, <2>2
  <2>4. QED
    BY <2>3
<1>3. (k - 1) + 1 = k /\ k \in k .. n /\ \A m \in k .. n : m = k \/ m \in k + 1 .. n
  BY <1>1
<1>4. \A m \in k + 1 .. n : m \in k .. n
  BY <1>1
<1>5. CASE list[k].kind \in {"nop", "other"}
  BY <1>1, <1>3, <1>4, <1>5 DEF Heads
<1>6. CASE list[k].kind = "mss"
  <2>1. \A i \in Nat : i \in Heads(list, off, k - 1) <=>
                          i = off[k - 1] + 1 \/ i \in Heads(list, off, k)
    BY <1>1, <1>3, <1>4, <1>6 DEF Heads
  <2>2. Heads(list, off, k - 1) \subseteq Nat /\ Heads(list, off, k) \subseteq Nat
    BY DEF Heads
  <2>3. QED
    BY <1>2, <1>6, <2>1, <2>2
<1>7. CASE list[k].kind = "rest"
  <2>1. k = n
    BY <1>1, <1>7 DEF OptionList
  <2>2. \A m \in (k - 1) + 1 .. n : m = k
    BY <1>1, <2>1
  <2>3. QED
    BY <1>1, <1>7, <2>2 DEF Heads
<1>8. list[k].kind \in {"nop", "mss", "other", "rest"}
  <2>1. list[k] \in Option
    BY DEF OptionList
  <2>2. QED
    BY <2>1 DEF Option
<1>9. QED
  BY <1>5, <1>6, <1>7, <1>8

\* The loop of clampTCPMSS meets exactly the MSS options that can be read.
LEMMA PositionsAreHeads ==
  ASSUME NEW list, OptionList(list), NEW off, Laid(list, off)
  PROVE  MSSPositions(Encoded(list)) = Heads(list, off, 0)
<1>1. PICK n \in Nat : n = Len(list)
  BY DEF OptionList
<1>2. Encoded(list) \in Seq(Nat)
  BY DEF Laid
<1>3. PICK at : MSSPositions(Encoded(list)) = at[1] /\ Rounds(Encoded(list), at)
  BY <1>2, PositionsByRound
<1> DEFINE Agree(k) == at[off[k] + 1] = Heads(list, off, k)
           Good == {k \in Nat : k \in 0 .. n /\ Agree(k)}
<1>4. n \in Good
  <2>1. Heads(list, off, n) = {}
    BY <1>1 DEF Heads
  <2>2. PICK l \in Nat : l = Len(Encoded(list)) /\ off[n] = l
    BY <1>1, <1>2 DEF Laid
  <2>3. l + 1 \in 1 .. l + 1 /\ l + 1 > l
    OBVIOUS
  <2>4. at[l + 1] = {}
    BY <1>3, <2>2, <2>3 DEF Round, Rounds
  <2>5. n \in 0 .. n /\ Agree(n)
    BY <2>1, <2>2, <2>4
  <2>6. QED
    BY <2>5
<1>5. ASSUME NEW k \in 1 .. n, Agree(k) PROVE Agree(k - 1)
  <2>1. k \in 1 .. Len(list)
    BY <1>1
  <2>2. list[k] \in Option
    BY <2>1 DEF OptionList
  <2>3. list[k].kind \in {"nop", "mss", "other", "rest"}
    BY <2>2 DEF Option
  <2>4. /\ list[k].kind \in {"nop", "other"} => at[off[k - 1] + 1] = at[off[k] + 1]
        /\ list[k].kind = "mss" =>
              at[off[k - 1] + 1] = {off[k - 1] + 1} \cup at[off[k] + 1]
        /\ list[k].kind = "rest" => at[off[k - 1] + 1] = {}
    BY <1>3, <2>1, RoundOfOption
  <2>5. /\ list[k].kind \in {"nop", "other"} =>
              Heads(list, off, k - 1) = Heads(list, off, k)
        /\ list[k].kind = "mss" =>
              Heads(list, off, k - 1) = {off[k - 1] + 1} \cup Heads(list, off, k)
        /\ list[k].kind = "rest" => Heads(list, off, k - 1) = {}
    BY <2>1, HeadsOfOption
  <2>6. QED
    BY <1>5, <2>3, <2>4, <2>5
<1> HIDE DEF Agree
<1>6. PICK k \in Good : \A m \in Good : k <= m
  BY <1>4, LeastElement
<1>7. k = 0
  <2> SUFFICES ASSUME k # 0 PROVE FALSE
    OBVIOUS
  <2>1. k \in 0 .. n /\ Agree(k)
    BY <1>6
  <2>2. k \in 1 .. n /\ k - 1 \in Nat /\ k - 1 \in 0 .. n /\ k - 1 < k
    BY <2>1
  <2>3. k - 1 \in Good
    BY <1>5, <2>1, <2>2
  <2> HIDE DEF Good
  <2>4. QED
    BY <1>6, <2>2, <2>3
<1>8. Agree(0)
  BY <1>6, <1>7
<1>9. off[0] + 1 = 1
  BY DEF Laid
<1>10. QED
  BY <1>3, <1>8, <1>9 DEF Agree

\* An MSS that is above the limit.
Over(list, max, k) == list[k].kind = "mss" /\ list[k].mss > max

\* Clamped changes no kind, and no size.
LEMMA ClampedIs ==
  ASSUME NEW list, OptionList(list), NEW max \in Nat, NEW c, c = Clamped(list, max)
  PROVE  /\ OptionList(c) /\ Len(c) = Len(list)
         /\ \A k \in 1 .. Len(list) :
               /\ Over(list, max, k) => c[k].kind = "mss" /\ c[k].mss = max
               /\ ~Over(list, max, k) => c[k] = list[k]
               /\ Len(Encode(c[k])) = Len(Encode(list[k]))
<1>1. PICK n \in Nat : n = Len(list) /\ list \in [1 .. n -> Option]
  BY DEF OptionList
<1>2. c = [k \in 1 .. n |-> IF Over(list, max, k) THEN [list[k] EXCEPT !.mss = max]
                            ELSE list[k]]
  BY <1>1 DEF Clamped, Over
<1>3. ASSUME NEW k \in 1 .. n
      PROVE  /\ c[k] \in Option /\ c[k].kind = list[k].kind /\ c[k].bytes = list[k].bytes
             /\ Over(list, max, k) => c[k].kind = "mss" /\ c[k].mss = max
             /\ ~Over(list, max, k) => c[k] = list[k]
             /\ Len(Encode(c[k])) = Len(Encode(list[k]))
  <2>1. list[k] \in Option
    BY <1>1
  <2>2. CASE ~Over(list, max, k)
    BY <1>2, <2>1, <2>2
  <2>3. CASE Over(list, max, k)
    <3>1. c[k] = [list[k] EXCEPT !.mss = max] /\ list[k].kind = "mss"
      BY <1>2, <2>3 DEF Over
    <3>2. /\ c[k] \in Option /\ c[k].kind = "mss" /\ c[k].mss = max
          /\ c[k].bytes = list[k].bytes
      BY <2>1, <3>1 DEF Option
    <3>3. /\ Encode(c[k]) = <<2, 4, c[k].mss \div 256, c[k].mss % 256>>
          /\ Encode(list[k]) = <<2, 4, list[k].mss \div 256, list[k].mss % 256>>
      BY <2>1, <3>1, <3>2, EncodeIs
    <3>4. Len(Encode(c[k])) = 4 /\ Len(Encode(list[k])) = 4
      BY <3>3
    <3>5. QED
      BY <2>3, <3>1, <3>2, <3>4
  <2>4. QED
    BY <2>2, <2>3
<1>4. c \in Seq(Option) /\ Len(c) = n
  <2>1. c \in [1 .. n -> Option]
    BY <1>2, <1>3
  <2>2. QED
    BY <2>1
<1>5. OptionList(c)
  <2>1. DOMAIN c = 1 .. n /\ DOMAIN list = 1 .. n
    BY <1>1, <1>2
  <2>2. QED
    BY <1>1, <1>3, <1>4, <2>1 DEF OptionList
<1>6. QED
  BY <1>1, <1>3, <1>4, <1>5

\* Options of the same sizes are at the same places.
SameSizes(list, c, n) ==
  /\ Len(list) = n /\ Len(c) = n
  /\ \A k \in 1 .. n : Len(Encode(c[k])) = Len(Encode(list[k]))

LEMMA SameLayout ==
  ASSUME NEW list, NEW c, NEW n \in Nat, SameSizes(list, c, n),
         NEW off, NEW other, Laid(list, off), Laid(c, other)
  PROVE  \A k \in 0 .. n : other[k] = off[k]
<1> DEFINE Bad == {k \in Nat : k \in 0 .. n /\ other[k] # off[k]}
<1>1. /\ off[0] = 0 /\ other[0] = 0
      /\ \A k \in 1 .. n : /\ off[k] = off[k - 1] + Len(Encode(list[k]))
                           /\ other[k] = other[k - 1] + Len(Encode(list[k]))
  BY DEF Laid, SameSizes
<1>2. ASSUME Bad # {} PROVE FALSE
  <2>1. PICK k \in Bad : \A m \in Bad : k <= m
    BY <1>2, LeastElement
  <2>2. k \in 0 .. n /\ other[k] # off[k] /\ k # 0
    BY <1>1, <2>1
  <2>3. k \in 1 .. n /\ k - 1 \in Nat /\ k - 1 \in 0 .. n /\ k - 1 < k
    BY <2>2
  <2>4. k - 1 \notin Bad
    <3> HIDE DEF Bad
    <3>1. QED
      BY <2>1, <2>3
  <2>5. other[k - 1] = off[k - 1]
    BY <2>3, <2>4
  <2>6. QED
    BY <1>1, <2>2, <2>3, <2>5
<1>3. QED
  BY <1>2

\* The two bytes of a word are the word.
LEMMA WordOfBytes == ASSUME NEW v \in Nat PROVE (v \div 256) * 256 + (v % 256) = v
OBVIOUS

LEMMA WordIs ==
  ASSUME NEW b, NEW i, NEW v \in Nat, b[i] = v \div 256, b[i + 1] = v % 256
  PROVE  Word(b, i) = v
<1>1. Word(b, i) = (v \div 256) * 256 + (v % 256)
  BY Zenon DEF Word
<1>2. QED
  BY <1>1, WordOfBytes, Zenon

\* An MSS above the limit is found, and nothing else is.
HighAt(opts, max) == {i \in MSSPositions(opts) : Word(opts, i + 2) > max}

LEMMA HighIs ==
  ASSUME NEW list, OptionList(list), NEW off, Laid(list, off), NEW max \in Nat, NEW i
  PROVE  i \in HighAt(Encoded(list), max) <=>
            \E m \in 1 .. Len(list) : Over(list, max, m) /\ i = off[m - 1] + 1
<1>0. PICK high : /\ high = HighAt(Encoded(list), max)
                  /\ high = {x \in MSSPositions(Encoded(list)) :
                                Word(Encoded(list), x + 2) > max}
  BY DEF HighAt
<1>1. PICK n \in Nat : n = Len(list)
  BY DEF OptionList
<1>2. ASSUME NEW m \in 1 .. n, list[m].kind = "mss"
      PROVE  Word(Encoded(list), off[m - 1] + 1 + 2) = list[m].mss
  <2>1. PICK a \in Nat : a = off[m - 1]
    <3>1. m - 1 \in 0 .. n /\ off \in [0 .. n -> Nat]
      BY <1>1 DEF Laid
    <3>2. QED
      BY <3>1
  <2>2. PICK v \in Nat : /\ v = list[m].mss
                         /\ Encode(list[m]) = <<2, 4, v \div 256, v % 256>>
    <3>1. list[m] \in Option
      BY <1>1 DEF OptionList
    <3>2. list[m].mss \in Nat
      BY <3>1 DEF Option
    <3>3. QED
      BY <1>2, <3>1, <3>2, EncodeIs
  <2>3. PICK b : b = Encoded(list)
    OBVIOUS
  <2>4. \A j \in 1 .. Len(Encode(list[m])) : b[a + j] = Encode(list[m])[j]
    BY <1>1, <2>1, <2>3 DEF Laid
  <2>5. PICK e : e = Encode(list[m])
    OBVIOUS
  <2>6. Len(e) = 4 /\ e[3] = v \div 256 /\ e[4] = v % 256
    BY <2>2, <2>5
  <2>7. b[a + 3] = v \div 256 /\ b[a + 4] = v % 256
    BY <2>4, <2>5, <2>6
  <2>8. a + 1 + 2 = a + 3 /\ (a + 3) + 1 = a + 4
    OBVIOUS
  <2>9. Word(b, a + 3) = v
    BY <2>7, <2>8, WordIs
  <2>10. QED
    BY <2>1, <2>2, <2>3, <2>8, <2>9
<1>3. MSSPositions(Encoded(list)) = Heads(list, off, 0)
  BY PositionsAreHeads
<1>4. ASSUME i \in high
      PROVE  \E m \in 1 .. n : Over(list, max, m) /\ i = off[m - 1] + 1
  <2>1. i \in Heads(list, off, 0) /\ Word(Encoded(list), i + 2) > max
    BY <1>0, <1>3, <1>4
  <2>2. PICK m \in 1 .. n : list[m].kind = "mss" /\ i = off[m - 1] + 1
    BY <1>1, <2>1 DEF Heads
  <2>3. list[m].mss > max
    BY <1>2, <2>1, <2>2
  <2>4. QED
    BY <2>2, <2>3 DEF Over
<1>5. ASSUME NEW m \in 1 .. n, Over(list, max, m), i = off[m - 1] + 1
      PROVE  i \in high
  <2>1. off[m - 1] \in Nat
    <3>1. m - 1 \in 0 .. n /\ off \in [0 .. n -> Nat]
      BY <1>1 DEF Laid
    <3>2. QED
      BY <3>1
  <2>2. i \in Nat
    BY <1>5, <2>1
  <2>3. i \in Heads(list, off, 0)
    BY <1>1, <1>5, <2>2 DEF Heads, Over
  <2>4. Word(Encoded(list), i + 2) > max
    BY <1>2, <1>5 DEF Over
  <2>5. QED
    BY <1>0, <1>3, <2>3, <2>4
<1>6. QED
  BY <1>0, <1>1, <1>4, <1>5

\* A byte is the third or fourth of an MSS above the limit exactly when the
\* loop overwrites it.
LEMMA OverwrittenIs ==
  ASSUME NEW list, OptionList(list), NEW off, Laid(list, off), NEW max \in Nat,
         NEW high, high = HighAt(Encoded(list), max), NEW k \in 1 .. Len(list), NEW j \in Nat, j \in 1 .. Len(Encode(list[k])),
         NEW d \in 2 .. 3
  PROVE  (off[k - 1] + j) - d \in high <=> Over(list, max, k) /\ j = d + 1
<1>1. PICK n \in Nat : n = Len(list)
  BY DEF OptionList
<1>2. /\ off \in [0 .. n -> Nat]
      /\ \A m \in 1 .. n : off[m] = off[m - 1] + Len(Encode(list[m]))
      /\ \A l \in 0 .. n : \A m \in l .. n : off[l] <= off[m]
  BY <1>1 DEF Laid
<1>3. PICK a \in Nat : a = off[k - 1] /\ off[k] = a + Len(Encode(list[k]))
  <2>1. k - 1 \in 0 .. n
    BY <1>1
  <2>2. QED
    BY <1>1, <1>2, <2>1
<1>4. (a + j) - d \in high <=>
         \E m \in 1 .. n : Over(list, max, m) /\ (a + j) - d = off[m - 1] + 1
  BY <1>1, HighIs
<1>5. ASSUME Over(list, max, k), j = d + 1 PROVE (a + j) - d = off[k - 1] + 1
  BY <1>3, <1>5
<1>6. ASSUME NEW m \in 1 .. n, Over(list, max, m), (a + j) - d = off[m - 1] + 1
      PROVE  m = k /\ j = d + 1
  <2>1. PICK c \in Nat : c = off[m - 1] /\ off[m] = c + 4
    <3>1. m - 1 \in 0 .. n
      OBVIOUS
    <3>2. Encode(list[m]) = <<2, 4, list[m].mss \div 256, list[m].mss % 256>>
      <4>1. list[m] \in Option
        BY <1>1 DEF OptionList
      <4>2. QED
        BY <1>6, <4>1, EncodeIs DEF Over
    <3>3. Len(Encode(list[m])) = 4
      BY <3>2
    <3>4. QED
      BY <1>2, <3>1, <3>3
  <2>2. a + j = c + 1 + d
    BY <1>6, <2>1
  <2>3. PICK b \in Nat : b = off[k] /\ a + j <= b
    <3>1. PICK l \in Nat : l = Len(Encode(list[k])) /\ j <= l
      <4>1. list[k] \in Option
        BY <1>1 DEF OptionList
      <4>2. Encode(list[k]) \in Seq(Nat)
        BY <4>1, EncodeIs
      <4>3. QED
        BY <4>2
    <3>2. a + l \in Nat /\ a + j <= a + l
      BY <3>1
    <3>3. QED
      BY <1>3, <3>1, <3>2
  <2>4. ~(m < k)
    <3>1. ASSUME m < k PROVE FALSE
      <4>1. m \in 0 .. n /\ k - 1 \in m .. n
        BY <1>1, <3>1
      <4>2. c + 4 <= a
        BY <1>2, <1>3, <2>1, <4>1
      <4>3. QED
        BY <2>2, <4>2
    <3>2. QED
      BY <3>1
  <2>5. ~(m > k)
    <3>1. ASSUME m > k PROVE FALSE
      <4>1. k \in 0 .. n /\ m - 1 \in k .. n
        BY <1>1, <3>1
      <4>2. b <= c
        BY <1>2, <2>1, <2>3, <4>1
      <4>3. QED
        BY <2>2, <2>3, <4>2
    <3>2. QED
      BY <3>1
  <2>6. m = k
    BY <1>1, <2>4, <2>5
  <2>7. a = c
    BY <1>3, <2>1, <2>6
  <2>8. QED
    BY <2>2, <2>6, <2>7
<1>7. QED
  BY <1>1, <1>3, <1>4, <1>5, <1>6

\* What clampTCPMSS writes into the options is the encoding of the list with
\* every readable MSS limited, and nothing else changed.
LEMMA OptionsAreClamped ==
  ASSUME NEW list, OptionList(list), NEW max \in Nat,
         NEW opts, opts = Encoded(list),
         NEW high, high = HighAt(opts, max)
  PROVE  [i \in DOMAIN opts |-> IF i - 2 \in high THEN max \div 256
                                ELSE IF i - 3 \in high THEN max % 256 ELSE opts[i]]
            = Encoded(Clamped(list, max))
<1>1. PICK c : c = Clamped(list, max)
  OBVIOUS
<1>2. PICK n \in Nat : n = Len(list) /\ list \in Seq(Option)
  BY DEF OptionList
<1>3. /\ OptionList(c) /\ Len(c) = n /\ c \in Seq(Option)
      /\ \A k \in 1 .. n :
            /\ Over(list, max, k) => c[k].kind = "mss" /\ c[k].mss = max
            /\ ~Over(list, max, k) => c[k] = list[k]
            /\ Len(Encode(c[k])) = Len(Encode(list[k]))
  BY <1>1, <1>2, ClampedIs DEF OptionList
<1>4. PICK off : Laid(list, off)
  BY <1>2, Layout
<1>5. PICK other : Laid(c, other)
  BY <1>3, Layout
<1>6. \A k \in 0 .. n : other[k] = off[k]
  <2>1. SameSizes(list, c, n)
    BY <1>2, <1>3 DEF SameSizes
  <2>2. QED
    BY <1>4, <1>5, <2>1, SameLayout
<1>7. PICK new : new = Encoded(c)
  OBVIOUS
<1>8. opts \in Seq(Nat) /\ new \in Seq(Nat) /\ Len(opts) = Len(new)
  <2>1. n \in 0 .. n
    OBVIOUS
  <2>2. QED
    BY <1>2, <1>3, <1>4, <1>5, <1>6, <1>7, <2>1 DEF Laid
<1>9. ASSUME NEW i \in 1 .. Len(opts)
      PROVE  new[i] = IF i - 2 \in high THEN max \div 256
                      ELSE IF i - 3 \in high THEN max % 256 ELSE opts[i]
  <2>1. PICK k \in 1 .. n, j \in Nat :
           j \in 1 .. Len(Encode(list[k])) /\ i = off[k - 1] + j
    <3>1. i \in 1 .. Len(Encoded(list))
      OBVIOUS
    <3>2. InBlock(list, off, i)
      BY <1>2, <1>4, <3>1, BlockOf
    <3>3. QED
      BY <1>2, <3>2 DEF InBlock
  <2>2. PICK e, w : e = Encode(list[k]) /\ w = Encode(c[k])
    OBVIOUS
  <2>3. opts[i] = e[j]
    BY <1>2, <1>4, <2>1, <2>2 DEF Laid
  <2>4. new[i] = w[j]
    <3>1. k - 1 \in 0 .. n /\ k \in 1 .. Len(c)
      BY <1>3
    <3>2. other[k - 1] = off[k - 1]
      BY <1>6, <3>1
    <3>3. j \in 1 .. Len(w)
      BY <1>3, <2>1, <2>2
    <3>4. new[other[k - 1] + j] = w[j]
      BY <1>5, <1>7, <2>2, <3>1, <3>3 DEF Laid
    <3>5. QED
      BY <2>1, <3>2, <3>4
  <2>5. \A d \in 2 .. 3 : (off[k - 1] + j) - d \in high <=> Over(list, max, k) /\ j = d + 1
    <3>1. k \in 1 .. Len(list) /\ high = HighAt(Encoded(list), max)
      BY <1>2
    <3>2. j \in Nat /\ j \in 1 .. Len(Encode(list[k]))
      BY <2>1
    <3>3. ASSUME NEW d \in 2 .. 3
          PROVE  (off[k - 1] + j) - d \in high <=> Over(list, max, k) /\ j = d + 1
      BY <1>4, <3>1, <3>2, OverwrittenIs
    <3>4. QED
      BY <3>3
  <2>6. /\ i - 2 \in high <=> Over(list, max, k) /\ j = 3
        /\ i - 3 \in high <=> Over(list, max, k) /\ j = 4
    BY <2>1, <2>5
  <2>7. CASE ~Over(list, max, k)
    BY <1>3, <2>2, <2>3, <2>4, <2>6, <2>7
  <2>8. CASE Over(list, max, k)
    <3>1. list[k] \in Option /\ c[k] \in Option
      BY <1>2, <1>3
    <3>2. list[k].kind = "mss" /\ c[k].kind = "mss" /\ c[k].mss = max
      BY <1>3, <2>8 DEF Over
    <3>3. /\ e = <<2, 4, list[k].mss \div 256, list[k].mss % 256>>
          /\ w = <<2, 4, max \div 256, max % 256>>
      BY <2>2, <3>1, <3>2, EncodeIs
    <3>4. /\ Len(e) = 4 /\ e[1] = 2 /\ e[2] = 4
          /\ w[1] = 2 /\ w[2] = 4 /\ w[3] = max \div 256 /\ w[4] = max % 256
      BY <3>3
    <3>5. j = 1 \/ j = 2 \/ j = 3 \/ j = 4
      BY <2>1, <2>2, <3>4
    <3>6. QED
      BY <2>3, <2>4, <2>6, <2>8, <3>4, <3>5
  <2>9. QED
    BY <2>7, <2>8
<1>10. DOMAIN opts = 1 .. Len(opts) /\ new = [i \in 1 .. Len(opts) |-> new[i]]
  BY <1>8
<1>11. QED
  BY <1>1, <1>7, <1>9, <1>10

-----------------------------------------------------------------------------
(* The packets.                                                            *)

\* The checksums of a packet that was rewritten are those of the packet.
LEMMA Recalculated ==
  ASSUME NEW p, IsPacket(p)
  PROVE  LET q == recalcIPv4TransportChecksums(p)
         IN  /\ IsPacket(q) /\ Current(q)
             /\ q.src = p.src /\ q.dst = p.dst /\ q.sport = p.sport /\ q.dport = p.dport
             /\ q.syn = p.syn /\ q.opts = p.opts
<1>1. PICK h, t, q : /\ h = HeaderSum(p) /\ t = TransportSum(p)
                     /\ q = recalcIPv4TransportChecksums(p)
  OBVIOUS
<1>2. q = [p EXCEPT !.ipsum = h, !.l4sum = t]
  BY <1>1 DEF recalcIPv4TransportChecksums
<1>3. q = [src |-> p.src, dst |-> p.dst, sport |-> p.sport, dport |-> p.dport,
           syn |-> p.syn, opts |-> p.opts, ipsum |-> h, l4sum |-> t]
  BY <1>2 DEF IsPacket
<1>4. /\ q.src = p.src /\ q.dst = p.dst /\ q.sport = p.sport /\ q.dport = p.dport
      /\ q.syn = p.syn /\ q.opts = p.opts /\ q.ipsum = h /\ q.l4sum = t
  BY <1>3
<1>5. IsPacket(q)
  BY <1>3, <1>4 DEF IsPacket
<1>6. HeaderSum(q) = h /\ TransportSum(q) = t
  BY <1>1, <1>4, Zenon DEF HeaderSum, TransportSum
<1>7. QED
  BY <1>1, <1>4, <1>5, <1>6 DEF Current

LEMMA SourceIs ==
  ASSUME NEW p, IsPacket(p), NEW ip
  PROVE  LET q == rewriteIPv4Source(p, ip)
         IN  /\ IsPacket(q) /\ Current(q)
             /\ q.src = ip /\ q.dst = p.dst /\ q.sport = p.sport /\ q.dport = p.dport
             /\ q.syn = p.syn /\ q.opts = p.opts
<1>1. PICK r : r = [p EXCEPT !.src = ip]
  OBVIOUS
<1>2. /\ IsPacket(r) /\ r.src = ip /\ r.dst = p.dst /\ r.sport = p.sport
      /\ r.dport = p.dport /\ r.syn = p.syn /\ r.opts = p.opts
  BY <1>1 DEF IsPacket
<1>3. QED
  BY <1>1, <1>2, Recalculated DEF rewriteIPv4Source

LEMMA DestinationIs ==
  ASSUME NEW p, IsPacket(p), NEW ip
  PROVE  LET q == rewriteIPv4Destination(p, ip)
         IN  /\ IsPacket(q) /\ Current(q)
             /\ q.src = p.src /\ q.dst = ip /\ q.sport = p.sport /\ q.dport = p.dport
             /\ q.syn = p.syn /\ q.opts = p.opts
<1>1. PICK r : r = [p EXCEPT !.dst = ip]
  OBVIOUS
<1>2. /\ IsPacket(r) /\ r.src = p.src /\ r.dst = ip /\ r.sport = p.sport
      /\ r.dport = p.dport /\ r.syn = p.syn /\ r.opts = p.opts
  BY <1>1 DEF IsPacket
<1>3. QED
  BY <1>1, <1>2, Recalculated DEF rewriteIPv4Destination

\* The options a packet with these should leave with.
Wanted(syn, list, max) == Encoded(IF syn THEN Clamped(list, max) ELSE list)

LEMMA ClampIs ==
  ASSUME NEW p, IsPacket(p), NEW list, OptionList(list), p.opts = Encoded(list),
         NEW max \in Nat, NEW q, q = clampTCPMSS(p, max)
  PROVE  /\ IsPacket(q)
         /\ Current(p) => Current(q)
         /\ q.src = p.src /\ q.dst = p.dst /\ q.sport = p.sport /\ q.dport = p.dport
         /\ q.opts = Wanted(p.syn, list, max)
<1>1. PICK high, opts :
         /\ high = HighAt(p.opts, max)
         /\ opts = [i \in DOMAIN p.opts |->
                       IF i - 2 \in high THEN max \div 256
                       ELSE IF i - 3 \in high THEN max % 256 ELSE p.opts[i]]
  OBVIOUS
<1>2. opts = Encoded(Clamped(list, max))
  BY <1>1, OptionsAreClamped
<1>3. q = IF ~p.syn \/ high = {} THEN p
          ELSE recalcIPv4TransportChecksums([p EXCEPT !.opts = opts])
  BY <1>1 DEF clampTCPMSS, HighAt
<1>4. CASE ~p.syn
  BY <1>1, <1>3, <1>4 DEF Wanted
<1>5. CASE p.syn /\ high = {}
  <2>1. q = p
    BY <1>3, <1>5
  <2>2. p.opts = opts
    <3>1. opts = [i \in DOMAIN p.opts |-> p.opts[i]]
      BY <1>1, <1>5
    <3>2. PICK off : Laid(list, off)
      BY Layout DEF OptionList
    <3>3. p.opts \in Seq(Nat)
      BY <3>2 DEF Laid
    <3>4. p.opts = [i \in DOMAIN p.opts |-> p.opts[i]]
      BY <3>3
    <3>5. QED
      BY <3>1, <3>4
  <2>3. QED
    BY <1>1, <1>2, <1>5, <2>1, <2>2 DEF Wanted
<1>6. CASE p.syn /\ high # {}
  <2>1. PICK r : r = [p EXCEPT !.opts = opts]
    OBVIOUS
  <2>2. /\ IsPacket(r) /\ r.src = p.src /\ r.dst = p.dst /\ r.sport = p.sport
        /\ r.dport = p.dport /\ r.opts = opts
    BY <2>1 DEF IsPacket
  <2>3. q = recalcIPv4TransportChecksums(r)
    BY <1>3, <1>6, <2>1
  <2>4. QED
    BY <1>1, <1>2, <1>6, <2>2, <2>3, Recalculated DEF Wanted
<1>7. QED
  BY <1>4, <1>5, <1>6

\* What a sender and the receiver make of a packet is what it should be.
LEMMA CarriedIs ==
  ASSUME NEW o \in Outgoing, NEW p, p = Carried[o]
  PROVE  /\ Current(p) /\ p.src = VPNAddress /\ p.dst = o.packet.dst
         /\ p.opts = WantedOptions[o]
<1>1. IsPacket(o.packet) /\ OptionList(o.list) /\ o.packet.opts = Encoded(o.list)
  BY PacketAssumption
<1>2. PICK q : q = clampTCPMSS(o.packet, MaxMSS)
  OBVIOUS
<1>3. /\ IsPacket(q) /\ q.dst = o.packet.dst
      /\ q.opts = Wanted(o.packet.syn, o.list, MaxMSS)
  <2>1. MaxMSS \in Nat
    BY SessionAssumption
  <2>2. PICK g, list : g = o.packet /\ list = o.list
    OBVIOUS
  <2>3. IsPacket(g) /\ OptionList(list) /\ g.opts = Encoded(list) /\ q = clampTCPMSS(g, MaxMSS)
    BY <1>1, <1>2, <2>2
  <2>4. IsPacket(q) /\ q.dst = g.dst /\ q.opts = Wanted(g.syn, list, MaxMSS)
    BY <2>1, <2>3, ClampIs
  <2>5. QED
    BY <2>2, <2>4
<1>4. p = rewriteIPv4Source(q, VPNAddress)
  BY <1>2 DEF Carried
<1>5. WantedOptions[o] = Wanted(o.packet.syn, o.list, MaxMSS)
  BY DEF WantedOptions, Wanted
<1>6. QED
  BY <1>3, <1>4, <1>5, SourceIs

LEMMA DeliveredIs ==
  ASSUME NEW i \in Incoming, NEW f \in Matching(i.packet), NEW p, p = Delivered[<<i, f>>],
         f = [local |-> f.local, lport |-> f.lport, remote |-> f.remote, rport |-> f.rport]
  PROVE  /\ Current(p) /\ p.opts = WantedOptions[i]
         /\ [local |-> p.dst, lport |-> p.dport,
             remote |-> p.src, rport |-> p.sport] = f
<1>1. IsPacket(i.packet) /\ OptionList(i.list) /\ i.packet.opts = Encoded(i.list)
  BY PacketAssumption
<1>2. PICK q : q = rewriteIPv4Destination(i.packet, f.local)
  OBVIOUS
<1>3. /\ IsPacket(q) /\ Current(q) /\ q.dst = f.local /\ q.src = i.packet.src
      /\ q.sport = i.packet.sport /\ q.dport = i.packet.dport
      /\ q.syn = i.packet.syn /\ q.opts = i.packet.opts
  BY <1>1, <1>2, DestinationIs
<1>4. f \in Flows /\ f.lport = i.packet.dport /\ f.remote = i.packet.src
      /\ f.rport = i.packet.sport
  BY DEF Matching, ReverseKeyOf
<1>5. p = clampTCPMSS(q, MaxMSS)
  BY <1>2, <1>4 DEF Delivered
<1>6. /\ Current(p) /\ p.src = q.src /\ p.dst = q.dst /\ p.sport = q.sport
      /\ p.dport = q.dport /\ p.opts = Wanted(q.syn, i.list, MaxMSS)
  <2>1. MaxMSS \in Nat
    BY SessionAssumption
  <2>2. q.opts = Encoded(i.list)
    BY <1>1, <1>3
  <2>3. PICK list : list = i.list
    OBVIOUS
  <2>4. OptionList(list) /\ q.opts = Encoded(list)
    BY <1>1, <2>2, <2>3
  <2>5. QED
    BY <1>3, <1>5, <2>1, <2>3, <2>4, ClampIs
<1>7. WantedOptions[i] = Wanted(i.packet.syn, i.list, MaxMSS)
  BY DEF WantedOptions, Wanted
<1>8. QED
  BY <1>3, <1>4, <1>6, <1>7

LEMMA PacketsAreSound == ASSUME PacketsInHand PROVE CarriedPacketsAreSound
<1>1. ASSUME NEW s \in Senders, sender[s].packet # NoPacket
      PROVE  /\ Current(sender[s].packet)
             /\ sender[s].packet.src = VPNAddress
             /\ sender[s].packet.dst = sender[s].carries.packet.dst
             /\ sender[s].packet.opts = WantedOptions[sender[s].carries]
  <2>1. sender[s].carries \in Outgoing /\ sender[s].packet = Carried[sender[s].carries]
    BY <1>1 DEF PacketsInHand
  <2>2. QED
    BY <2>1, CarriedIs
<1>2. ASSUME rx.packet # NoPacket
      PROVE  /\ Current(rx.packet)
             /\ rx.packet.opts = WantedOptions[rx.carries]
             /\ [local |-> rx.packet.dst, lport |-> rx.packet.dport,
                 remote |-> rx.packet.src, rport |-> rx.packet.sport] \in Flows
  <2>1. PICK f \in Matching(rx.carries.packet) :
           rx.carries \in Incoming /\ rx.packet = Delivered[<<rx.carries, f>>]
    BY <1>2 DEF PacketsInHand
  <2>2. f \in Flows
    BY DEF Matching
  <2>3. f = [local |-> f.local, lport |-> f.lport, remote |-> f.remote, rport |-> f.rport]
    BY <2>2, FlowAssumption
  <2>4. QED
    BY <2>1, <2>2, <2>3, DeliveredIs
<1>3. QED
  BY <1>1, <1>2 DEF CarriedPacketsAreSound

\* A sender's hands, and the receiver's.
SenderHand(g) ==
    g.packet # NoPacket => g.carries \in Outgoing /\ g.packet = Carried[g.carries]
RxHand(r) ==
    r.packet # NoPacket =>
        r.carries \in Incoming
        /\ \E f \in Matching(r.carries.packet) : r.packet = Delivered[<<r.carries, f>>]

LEMMA HandsAre ==
  /\ PacketsInHand <=> (\A s \in Senders : SenderHand(sender[s])) /\ RxHand(rx)
  /\ PacketsInHand' <=> (\A s \in Senders : SenderHand(sender'[s])) /\ RxHand(rx')
BY DEF PacketsInHand, SenderHand, RxHand, Carried, Delivered, Matching

\* Empty hands, and what is put into them.
LEMMA HandsFilled ==
  /\ \A l : SenderHand(Idle(l)) /\ RxHand(RxIdle(l))
  /\ \A g \in SenderStates, o \in Outgoing : SenderHand(WithPacket(g, o))
  /\ \A g \in SenderStates : \A i, t : SenderHand(g) => SenderHand(WithId(g, i, t))
  /\ \A g \in SenderStates : \A how : SenderHand(g) => SenderHand(WithSeal(g, how))
<1>1. ASSUME NEW l PROVE SenderHand(Idle(l)) /\ RxHand(RxIdle(l))
  <2>1. Idle(l).packet = NoPacket /\ RxIdle(l).packet = NoPacket
    BY DEF Idle, RxIdle
  <2>2. QED
    BY <2>1 DEF SenderHand, RxHand
<1>2. ASSUME NEW g \in SenderStates, NEW o \in Outgoing PROVE SenderHand(WithPacket(g, o))
  <2>1. WithPacket(g, o).carries = o /\ WithPacket(g, o).packet = Carried[o]
    BY DEF WithPacket, SenderStates
  <2>2. QED
    BY <2>1 DEF SenderHand
<1>3. ASSUME NEW g \in SenderStates, NEW i, NEW t, SenderHand(g)
      PROVE  SenderHand(WithId(g, i, t))
  <2>1. WithId(g, i, t).carries = g.carries /\ WithId(g, i, t).packet = g.packet
    BY DEF WithId, SenderStates
  <2>2. QED
    BY <1>3, <2>1 DEF SenderHand
<1>4. ASSUME NEW g \in SenderStates, NEW how, SenderHand(g)
      PROVE  SenderHand(WithSeal(g, how))
  <2>1. WithSeal(g, how).carries = g.carries /\ WithSeal(g, how).packet = g.packet
    BY DEF WithSeal, SenderStates
  <2>2. QED
    BY <1>4, <2>1 DEF SenderHand
<1>5. QED
  BY <1>1, <1>2, <1>3, <1>4

LEMMA SendFailsHands ==
  ASSUME NEW s \in Senders, SendFails(s), sender \in [Senders -> SenderStates],
         \A t \in Senders : SenderHand(sender[t])
  PROVE  \A t \in Senders : SenderHand(sender'[t])
BY HandsFilled DEF SendFails

LEMMA SenderHandsStep ==
  ASSUME SendTyped, [Next]_vars, \A t \in Senders : SenderHand(sender[t])
  PROVE  \A t \in Senders : SenderHand(sender'[t])
<1> USE DEF SendTyped
<1> DEFINE Goal == \A t \in Senders : SenderHand(sender'[t])
<1>1. ASSUME NEW s \in Senders, Take(s) PROVE Goal
  <2>1. CASE s = "keepalive"
    BY <1>1, <2>1, HandsFilled DEF Take
  <2>2. CASE s # "keepalive"
    BY <1>1, <2>2, HandsFilled DEF Take
  <2>3. QED
    BY <2>1, <2>2
<1>2. ASSUME NEW s \in Senders, Advance(s) PROVE Goal
  BY <1>2, HandsFilled DEF Advance
<1>3. ASSUME NEW s \in Senders, Seal(s) PROVE Goal
  <2>1. CASE sender[s].id = 0
    BY <1>3, <2>1, SendFailsHands DEF Seal
  <2>2. CASE sender[s].id # 0
    BY <1>3, <2>2, HandsFilled DEF Seal
  <2>3. QED
    BY <2>1, <2>2
<1>4. ASSUME NEW s \in Senders, Write(s) PROVE Goal
  BY <1>4, SendFailsHands, HandsFilled DEF Write
<1>5. ASSUME NEW s \in Senders, SenderStops(s) PROVE Goal
  BY <1>5, HandsFilled DEF SenderStops
<1>6. CASE StartStep \/ ConsoleClosed
  BY <1>6, HandsFilled DEF StartStep, ConsoleClosed
<1>7. CASE UNCHANGED sender
  BY <1>7
<1>8. QED
  BY <1>1, <1>2, <1>3, <1>4, <1>5, <1>6, <1>7, RxLeavesMain
     DEF Next, MainStep, SenderStep, vars, SelectDone, SelectReady, SelectErr,
         Release, Return, StartFails, Relaunched, DiscordExits, SessionLine

LEMMA RxHandStep == ASSUME [Next]_vars, RxHand(rx) PROVE RxHand(rx')
<1>1. ASSUME NEW i \in Incoming, RxMatch(i) PROVE RxHand(rx')
  <2>1. CASE UNCHANGED rx
    BY <2>1
  <2>2. ASSUME NEW f \in Matching(i.packet),
               rx' = [pc |-> "inject", carries |-> i, packet |-> Delivered[<<i, f>>]]
        PROVE  RxHand(rx')
    <3>1. rx'.carries = i /\ rx'.packet = Delivered[<<i, f>>]
      BY <2>2
    <3>2. QED
      BY <3>1 DEF RxHand
  <2>3. QED
    BY <1>1, <2>1, <2>2 DEF RxMatch
<1>2. CASE RxInject \/ RxStops \/ StartStep \/ ConsoleClosed
  BY <1>2, HandsFilled DEF RxInject, RxStops, StartStep, ConsoleClosed
<1>3. QED
  BY <1>1, <1>2, OthersLeaveMain
     DEF Next, MainStep, vars, SelectDone, SelectReady, SelectErr, Release, Return,
         StartFails, Relaunched, DiscordExits, SessionLine

\* For any packets of Discord and any answers, with any TCP options (of any kinds
\* and lengths, and with any bytes that cannot be read as one at their end):
\* what leaves comes from the VPN address, what is injected goes to the local
\* address of a flow, both have the checksums of the packet as it leaves, and
\* the options are those of the original with every MSS that can be read
\* limited and no other byte changed.
THEOREM RewritingIsSound == Spec => []CarriedPacketsAreSound
<1>1. Init => TypeOK /\ PacketsInHand
  <2> SUFFICES ASSUME Init PROVE TypeOK /\ PacketsInHand
    OBVIOUS
  <2>1. (\A s \in Senders : SenderHand(sender[s])) /\ RxHand(rx)
    BY HandsFilled DEF Init
  <2>2. QED
    BY <2>1, InitTyped, HandsAre
<1>2. TypeOK /\ PacketsInHand /\ [Next]_vars => TypeOK' /\ PacketsInHand'
  <2> SUFFICES ASSUME TypeOK, PacketsInHand, [Next]_vars PROVE PacketsInHand'
    BY TypeStep
  <2>1. (\A s \in Senders : SenderHand(sender[s])) /\ RxHand(rx)
    BY HandsAre
  <2>2. (\A s \in Senders : SenderHand(sender'[s])) /\ RxHand(rx')
    BY <2>1, SenderHandsStep, RxHandStep DEF TypeOK
  <2>3. QED
    BY <2>2, HandsAre
<1>3. PacketsInHand => CarriedPacketsAreSound
  BY PacketsAreSound
<1>4. QED
  BY <1>1, <1>2, <1>3, PTL DEF Spec
=============================================================================
