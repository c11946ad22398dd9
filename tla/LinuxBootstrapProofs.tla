------------------------ MODULE LinuxBootstrapProofs ------------------------
(***************************************************************************)
(* Proofs about LinuxBootstrap for any streams and any number of marker    *)
(* lines: the types and the phases of the main goroutine, and from them    *)
(* that the command leaves nothing running; then the order in which the    *)
(* two readers handle the markers, and from it that the handoff is final   *)
(* unless the markers are split over the streams, and that the bootstrap   *)
(* implements StartupPath.                                                 *)
(***************************************************************************)
EXTENDS LinuxBootstrap, SequenceTheorems, TLAPS

USE StreamAssumption
USE DEF mainVars, proxyVars, backendVars, logVars, discordVars, Markers, ErrCap

-----------------------------------------------------------------------------
(* Types and phases.                                                       *)

\* A line that is read leaves its pipe, one that is written joins it.
LEMMA PipeTyped ==
  ASSUME TypeOK, NEW s \in Streams
  PROVE  /\ pipe[s] # <<>> => [pipe EXCEPT ![s] = Tail(@)] \in [Streams -> Seq(Markers)]
         /\ \A l \in Markers :
               [pipe EXCEPT ![s] = Append(@, l)] \in [Streams -> Seq(Markers)]
<1>1. pipe \in [Streams -> Seq(Markers)]
  BY DEF TypeOK
<1>2. pipe[s] # <<>> => Tail(pipe[s]) \in Seq(Markers)
  BY <1>1, HeadTailProperties
<1>3. \A l \in Markers : Append(pipe[s], l) \in Seq(Markers)
  BY <1>1, AppendProperties
<1>4. QED
  BY <1>1, <1>2, <1>3

\* The lines a reader still holds when cmd.Wait closes its pipe are the first
\* of those it had not read.
LEMMA ReapTyped ==
  ASSUME TypeOK, Reap
  PROVE  /\ pipe' \in [Streams -> Seq(Markers)]
         /\ \A s \in Streams : /\ Len(pipe'[s]) <= Len(pipe[s])
                               /\ \A i \in 1 .. Len(pipe'[s]) : pipe'[s][i] = pipe[s][i]
<1>1. pipe \in [Streams -> Seq(Markers)]
  BY DEF TypeOK
<1>2. PICK held \in [Streams -> 0 .. MaxLines] :
          /\ \A s \in Streams : held[s] <= Len(pipe[s])
          /\ pipe' = [s \in Streams |-> SubSeq(pipe[s], 1, held[s])]
  BY DEF Reap
<1>3. ASSUME NEW s \in Streams
      PROVE  /\ pipe'[s] \in Seq(Markers) /\ Len(pipe'[s]) <= Len(pipe[s])
             /\ \A i \in 1 .. Len(pipe'[s]) : pipe'[s][i] = pipe[s][i]
  <2>1. PICK n \in Nat : n = held[s]
    BY <1>2, <1>3
  <2>2. pipe[s] \in Seq(Markers) /\ pipe'[s] = SubSeq(pipe[s], 1, n) /\ n <= Len(pipe[s])
    BY <1>1, <1>2, <1>3, <2>1
  <2>3. PICK q : q = pipe[s]
    OBVIOUS
  <2>4. q \in Seq(Markers) /\ n <= Len(q) /\ Len(q) \in Nat
    BY <2>2, <2>3, LenProperties
  <2>5. /\ SubSeq(q, 1, n) \in Seq(Markers) /\ Len(SubSeq(q, 1, n)) = n
        /\ \A i \in 1 .. n : SubSeq(q, 1, n)[i] = q[i]
    BY <2>4
  <2>6. QED
    BY <2>2, <2>3, <2>4, <2>5
<1>4. QED
  BY <1>2, <1>3

\* Every step of the goroutines and of Discord keeps the types.
LEMMA TypeStep == TypeOK /\ [Next]_vars => TypeOK'
<1> SUFFICES ASSUME TypeOK, [Next]_vars PROVE TypeOK'
  OBVIOUS
<1> USE DEF TypeOK
<1>1. CASE StartBackend
  BY <1>1 DEF StartBackend
<1>2. CASE StartProxy
  <2>1. serving' \in BOOLEAN
    BY <1>2 DEF StartProxy
  <2>2. QED
    BY <1>2, <2>1 DEF StartProxy
<1>3. CASE StartDiscord
  BY <1>3 DEF StartDiscord
<1>4. CASE MainDone
  <2>1. seen' \in BOOLEAN
    BY <1>4 DEF MainDone
  <2>2. QED
    BY <1>4, <2>1 DEF MainDone
<1>5. CASE MainReady
  <2>1. ready' \in BOOLEAN /\ handedOff' \in BOOLEAN
    BY <1>5 DEF MainReady
  <2>2. QED
    BY <1>5, <2>1 DEF MainReady
<1>6. CASE MainHandoff
  BY <1>6 DEF MainHandoff
<1>7. CASE MainErr
  BY <1>7 DEF MainErr
<1>8. CASE MainCancelled
  BY <1>8 DEF MainCancelled
<1>9. CASE WaitPoll
  <2>1. seen' \in BOOLEAN
    BY <1>9 DEF WaitPoll
  <2>2. QED
    BY <1>9, <2>1 DEF WaitPoll
<1>10. CASE WaitGrace
  <2>1. grace' \in BOOLEAN
    BY <1>10 DEF WaitGrace
  <2>2. QED
    BY <1>10, <2>1 DEF WaitGrace
<1>11. CASE StopDiscord
  BY <1>11 DEF StopDiscord, KillDiscord
<1>12. CASE FinalStop
  BY <1>12 DEF FinalStop, KillDiscord
<1>13. CASE CloseProxy
  <2>1. serving' \in BOOLEAN
    BY <1>13 DEF CloseProxy
  <2>2. QED
    BY <1>13, <2>1 DEF CloseProxy
<1>14. CASE CloseBackend
  BY <1>14 DEF CloseBackend
<1>15. ASSUME NEW s \in Streams, ReadLaunch(s) PROVE TypeOK'
  <2>1. pipe' \in [Streams -> Seq(Markers)] /\ activated' \in BOOLEAN
    BY <1>15, PipeTyped DEF ReadLaunch
  <2>2. QED
    BY <1>15, <2>1 DEF ReadLaunch
<1>16. ASSUME NEW s \in Streams, ReadEstablished(s) PROVE TypeOK'
  <2>1. pipe' \in [Streams -> Seq(Markers)] /\ ready' \in BOOLEAN
    BY <1>16, PipeTyped DEF ReadEstablished
  <2>2. QED
    BY <1>16, <2>1 DEF ReadEstablished
<1>17. CASE BackendBreaks
  BY <1>17 DEF BackendBreaks
<1>18. CASE MonitorReports
  BY <1>18 DEF MonitorReports
<1>19. CASE MonitorClosed
  BY <1>19 DEF MonitorClosed
<1>20. ASSUME NEW s \in Streams, NEW l \in Markers, LogLine(s, l) PROVE TypeOK'
  <2>1. pipe' \in [Streams -> Seq(Markers)]
    BY <1>20, PipeTyped DEF LogLine
  <2>2. QED
    BY <1>20, <2>1 DEF LogLine
<1>21. CASE AppStarts
  BY <1>21 DEF AppStarts
<1>22. CASE AppExits
  BY <1>22 DEF AppExits
<1>23. CASE LauncherExits
  BY <1>23 DEF LauncherExits
<1>24. CASE Reap
  <2>1. pipe' \in [Streams -> Seq(Markers)]
    BY <1>24, ReapTyped
  <2>2. QED
    BY <1>24, <2>1 DEF Reap
<1>25. CASE Cancel
  <2>1. cancelled' \in BOOLEAN
    BY <1>25 DEF Cancel
  <2>2. QED
    BY <1>25, <2>1 DEF Cancel
<1>26. CASE UNCHANGED vars
  BY <1>26 DEF vars
<1>27. QED
  BY <1>1, <1>2, <1>3, <1>4, <1>5, <1>6, <1>7, <1>8, <1>9, <1>10, <1>11, <1>12,
     <1>13, <1>14, <1>15, <1>16, <1>17, <1>18, <1>19, <1>20, <1>21, <1>22,
     <1>23, <1>24, <1>25, <1>26
     DEF Next, MainStep, StreamStep, MonitorStep, Environment

\* Every step keeps the order of the phases: the defers close the proxy before
\* the backend, and the handoff closes the backend under the proxy.
LEMMA PhaseStep ==
  ASSUME PhaseInv, TypeOK', [Next]_vars
  PROVE  PhaseInv'
<1> USE DEF PhaseInv, TypeOK, PhasesInOrder, DiscordInOrder, ServesOverTunnel
<1>1. CASE StartBackend
  BY <1>1 DEF StartBackend
<1>2. CASE StartProxy
  BY <1>2 DEF StartProxy
<1>3. CASE StartDiscord
  BY <1>3 DEF StartDiscord
<1>4. CASE MainDone
  BY <1>4 DEF MainDone
<1>5. CASE MainReady
  BY <1>5 DEF MainReady
<1>6. CASE MainHandoff
  BY <1>6 DEF MainHandoff
<1>7. CASE MainErr
  BY <1>7 DEF MainErr
<1>8. CASE MainCancelled
  BY <1>8 DEF MainCancelled
<1>9. CASE WaitPoll
  BY <1>9 DEF WaitPoll
<1>10. CASE WaitGrace
  BY <1>10 DEF WaitGrace
<1>11. CASE StopDiscord
  BY <1>11 DEF StopDiscord, KillDiscord
<1>12. CASE FinalStop
  BY <1>12 DEF FinalStop, KillDiscord
<1>13. CASE CloseProxy
  BY <1>13 DEF CloseProxy
<1>14. CASE CloseBackend
  BY <1>14 DEF CloseBackend
<1>15. CASE BackendBreaks
  BY <1>15 DEF BackendBreaks
<1>16. CASE \E s \in Streams, l \in Markers : LogLine(s, l)
  BY <1>16 DEF LogLine, PIDs
<1>17. CASE AppStarts \/ AppExits \/ LauncherExits \/ Reap
  BY <1>17 DEF AppStarts, AppExits, LauncherExits, Reap
<1>18. CASE UNCHANGED <<mainVars, serving, backend, discordVars, said>>
  BY <1>18
<1>19. QED
  BY <1>1, <1>2, <1>3, <1>4, <1>5, <1>6, <1>7, <1>8, <1>9, <1>10, <1>11, <1>12,
     <1>13, <1>14, <1>15, <1>16, <1>17, <1>18
     DEF Next, MainStep, StreamStep, MonitorStep, Environment, ReadLaunch,
         ReadEstablished, MonitorReports, MonitorClosed, Cancel, vars

\* The state runLinuxDiscordBootstrap begins in is in order.
LEMMA InitInOrder == ASSUME Init PROVE IInv
<1>1. /\ handedOff \in BOOLEAN /\ seen \in BOOLEAN /\ grace \in BOOLEAN /\ serving \in BOOLEAN
      /\ activated \in BOOLEAN /\ ready \in BOOLEAN /\ cancelled \in BOOLEAN
  BY DEF Init
<1>2. pipe \in [Streams -> Seq(Markers)] /\ \A s \in Streams : Len(pipe[s]) = 0
  BY DEF Init
<1>3. TypeOK
  BY <1>1, <1>2 DEF Init, TypeOK
<1>4. PhaseInv
  BY <1>3 DEF Init, PhaseInv, PhasesInOrder, DiscordInOrder, ServesOverTunnel
<1>5. LaunchIsInPipe /\ LaunchComesFirst
  BY <1>2 DEF Init, LaunchIsInPipe, LaunchComesFirst
<1>6. QED
  BY <1>4, <1>5 DEF IInv

\* The bootstrap's variables always have their types.
THEOREM TypeCorrect == Spec => []TypeOK
<1>1. Init => TypeOK
  BY InitInOrder DEF IInv, PhaseInv
<1>2. QED
  BY <1>1, TypeStep, PTL DEF Spec

\* Whatever way runLinuxDiscordBootstrap and cmdDiscordVPN return, the backend
\* and the listener are closed and no listed Discord process is left.
THEOREM NothingOutlivesExit == Spec => ExitLeavesNothing
<1>1. Init => PhaseInv
  BY InitInOrder DEF IInv
<1>2. PhaseInv /\ [Next]_vars => PhaseInv'
  BY TypeStep, PhaseStep DEF PhaseInv
<1>3. PhaseInv /\ [Next]_vars =>
        [main' = "exited" /\ main # "exited" =>
            backend' \in {"none", "closed"} /\ ~serving' /\ PIDs' = {}]_vars
  <2> SUFFICES ASSUME PhaseInv, [Next]_vars, main' = "exited", main # "exited"
               PROVE  backend' \in {"none", "closed"} /\ ~serving' /\ PIDs' = {}
    OBVIOUS
  <2>1. FinalStop
    BY DEF Next, MainStep, StreamStep, MonitorStep, Environment, StartBackend, StartProxy,
           StartDiscord, MainDone, MainReady, MainHandoff, MainErr, MainCancelled, WaitPoll,
           WaitGrace, StopDiscord, CloseProxy, CloseBackend, ReadLaunch, ReadEstablished,
           MonitorReports, MonitorClosed, LogLine, AppStarts, AppExits, LauncherExits,
           BackendBreaks, Cancel, Reap, vars
  <2>2. backend' \in {"none", "closed"} /\ ~serving'
    BY <2>1 DEF FinalStop, PhaseInv, PhasesInOrder
  <2>3. launcher' # "run" /\ app' # "run"
    BY <2>1 DEF FinalStop, KillDiscord
  <2>4. QED
    BY <2>2, <2>3 DEF PIDs
<1>4. QED
  BY <1>1, <1>2, <1>3, PTL DEF Spec, ExitLeavesNothing

-----------------------------------------------------------------------------
(* The order of the marker lines.                                          *)

\* The order of the lines, as one formula.
LaunchOrder == LaunchIsInPipe /\ LaunchComesFirst

\* LaunchOrder speaks of these variables only.
LEMMA LaunchFrame ==
  ASSUME LaunchOrder, UNCHANGED <<pipe, said, ready, handedOff, mode, activated>>,
         PipesOpen' => PipesOpen
  PROVE  LaunchOrder'
BY DEF LaunchOrder, LaunchIsInPipe, LaunchComesFirst, HasLaunch, Split

\* A reader takes the first line of its pipe.  Unless the markers are split, a
\* session line there has had its launch line read; and once a launch line is
\* read, the rest is settled.
LEMMA ReadKeepsOrder ==
  ASSUME TypeOK, LaunchOrder, NEW s \in Streams, StreamStep(s)
  PROVE  LaunchOrder'
<1>1. CASE ReadLaunch(s)
  <2>1. /\ activated' = TRUE /\ mode' = (IF activated THEN mode ELSE "vpn")
        /\ UNCHANGED <<said, launcher, ready, handedOff>>
    BY <1>1 DEF ReadLaunch
  <2>2. LaunchIsInPipe'
    BY <2>1 DEF LaunchIsInPipe
  <2>3. Split' <=> Split
    BY <2>1 DEF Split
  <2>4. ~Split /\ handedOff => activated /\ mode = "direct"
    BY DEF LaunchOrder, LaunchComesFirst
  <2>5. LaunchComesFirst'
    BY <2>1, <2>3, <2>4 DEF LaunchComesFirst
  <2>6. QED
    BY <2>2, <2>5 DEF LaunchOrder
<1>2. CASE ReadEstablished(s)
  <2>1. /\ pipe[s] \in Seq(Markers) /\ pipe[s] # <<>> /\ Head(pipe[s]) = "established"
        /\ pipe' = [pipe EXCEPT ![s] = Tail(@)] /\ pipe \in [Streams -> Seq(Markers)]
        /\ UNCHANGED <<said, launcher, activated, handedOff, mode>>
    BY <1>2 DEF ReadEstablished, TypeOK
  <2>2. PICK n \in Nat :
            /\ Len(pipe[s]) = n /\ n >= 1 /\ pipe[s][1] = "established"
            /\ Len(pipe'[s]) = n - 1
            /\ \A i \in 1 .. n - 1 : pipe'[s][i] = pipe[s][i + 1]
    BY <2>1, HeadTailProperties
  <2>3. \A t \in Streams : t # s => pipe'[t] = pipe[t]
    BY <2>1
  <2>4. HasLaunch(s, n) => HasLaunch(s, n - 1)'
    <3>1. SUFFICES ASSUME NEW j \in 1 .. n, pipe[s][j] = "launch"
                   PROVE  HasLaunch(s, n - 1)'
      BY DEF HasLaunch
    <3>2. j # 1
      BY <2>2, <3>1
    <3>3. j - 1 \in 1 .. n - 1 /\ (j - 1) + 1 = j
      BY <2>2, <3>1, <3>2
    <3>4. pipe'[s][j - 1] = "launch"
      BY <2>2, <3>1, <3>3
    <3>5. QED
      BY <3>3, <3>4 DEF HasLaunch
  <2>5. LaunchIsInPipe'
    <3>1. SUFFICES ASSUME NEW t \in Streams, PipesOpen', <<t, "launch">> \in said', ~activated'
                   PROVE  HasLaunch(t, Len(pipe[t]))'
      BY DEF LaunchIsInPipe
    <3>2. HasLaunch(t, Len(pipe[t]))
      BY <2>1, <3>1 DEF LaunchOrder, LaunchIsInPipe, PipesOpen
    <3>3. CASE t = s
      BY <2>2, <2>4, <3>2, <3>3
    <3>4. CASE t # s
      BY <2>3, <3>2, <3>4 DEF HasLaunch
    <3>5. QED
      BY <3>3, <3>4
  <2>6. Split' <=> Split
    BY <2>1 DEF Split
  <2>7. ~Split => activated
    BY <2>1, <2>2 DEF LaunchOrder, LaunchComesFirst, HasLaunch
  <2>8. LaunchComesFirst'
    BY <2>1, <2>6, <2>7 DEF LaunchOrder, LaunchComesFirst
  <2>9. QED
    BY <2>5, <2>8 DEF LaunchOrder
<1>3. QED
  BY <1>1, <1>2 DEF StreamStep

\* Discord writes a session line after a launch line.  Unless the two are on
\* different streams, the launch line is ahead in the same pipe, or read.
LEMMA WriteKeepsOrder ==
  ASSUME TypeOK, TypeOK', LaunchOrder, DiscordInOrder,
         NEW s \in Streams, NEW l \in Markers, LogLine(s, l)
  PROVE  LaunchOrder'
<1>1. /\ UNCHANGED <<launcher, activated, ready, handedOff, mode>>
      /\ said' = said \cup {<<s, l>>}
  BY DEF LogLine
<1>2. ~Split' => ~Split
  BY <1>1 DEF Split
<1>3. CASE activated
  <2>1. LaunchIsInPipe'
    BY <1>1, <1>3 DEF LaunchIsInPipe
  <2>2. LaunchComesFirst'
    BY <1>1, <1>2, <1>3 DEF LaunchOrder, LaunchComesFirst
  <2>3. QED
    BY <2>1, <2>2 DEF LaunchOrder
<1>4. CASE ~activated /\ ~PipesOpen
  <2>1. UNCHANGED pipe /\ ~PipesOpen'
    BY <1>1, <1>4 DEF LogLine, PipesOpen
  <2>2. LaunchIsInPipe'
    BY <2>1 DEF LaunchIsInPipe
  <2>3. LaunchComesFirst'
    BY <1>1, <1>2, <2>1 DEF LaunchOrder, LaunchComesFirst, HasLaunch
  <2>4. QED
    BY <2>2, <2>3 DEF LaunchOrder
<1>5. CASE ~activated /\ PipesOpen
  <2>1. /\ pipe[s] \in Seq(Markers) /\ pipe'[s] = Append(pipe[s], l)
        /\ \A t \in Streams \ {s} : pipe'[t] = pipe[t]
    BY <1>1, <1>5 DEF LogLine, TypeOK
  <2>2. PICK n \in Nat :
            /\ Len(pipe[s]) = n /\ Len(pipe'[s]) = n + 1
            /\ \A i \in 1 .. n : pipe'[s][i] = pipe[s][i]
            /\ pipe'[s][n + 1] = l
    BY <2>1, AppendProperties
  <2>3. \A m \in 0 .. n : HasLaunch(s, m) => HasLaunch(s, m)'
    BY <2>2 DEF HasLaunch
  <2>4. HasLaunch(s, n)' => HasLaunch(s, n + 1)'
    BY <2>2 DEF HasLaunch
  <2>5. l = "launch" => HasLaunch(s, n + 1)'
    BY <2>2 DEF HasLaunch
  <2>6. n \in 0 .. n
    BY <2>2
  <2>7. LaunchIsInPipe'
    <3>1. SUFFICES ASSUME NEW t \in Streams, <<t, "launch">> \in said'
                   PROVE  HasLaunch(t, Len(pipe[t]))'
      BY DEF LaunchIsInPipe
    <3>2. CASE <<t, "launch">> \in said
      <4>1. HasLaunch(t, Len(pipe[t]))
        BY <1>5, <3>2 DEF LaunchOrder, LaunchIsInPipe
      <4>2. CASE t = s
        BY <2>2, <2>3, <2>4, <2>6, <4>1, <4>2
      <4>3. CASE t # s
        BY <2>1, <4>1, <4>3 DEF HasLaunch
      <4>4. QED
        BY <4>2, <4>3
    <3>3. CASE <<t, "launch">> \notin said
      <4>1. t = s /\ l = "launch"
        BY <1>1, <3>1, <3>3
      <4>2. QED
        BY <2>2, <2>5, <4>1
    <3>4. QED
      BY <3>2, <3>3
  <2>8. ~Split' /\ l = "established" => HasLaunch(s, n)
    <3>1. SUFFICES ASSUME ~Split', l = "established" PROVE HasLaunch(s, n)
      OBVIOUS
    <3>2. PICK t \in Streams : <<t, "launch">> \in said
      BY <3>1 DEF LogLine, Said
    <3>3. t = s
      BY <1>1, <3>1, <3>2 DEF Split
    <3>4. QED
      BY <1>5, <2>2, <3>2, <3>3 DEF LaunchOrder, LaunchIsInPipe
  <2>9. ASSUME ~Split', NEW t \in Streams, NEW i \in 1 .. Len(pipe'[t]),
               pipe'[t][i] = "established"
        PROVE  HasLaunch(t, i - 1)'
    <3>1. CASE t # s
      <4>1. pipe'[t] = pipe[t]
        BY <2>1, <3>1
      <4>2. QED
        BY <1>2, <1>5, <2>9, <4>1 DEF LaunchOrder, LaunchComesFirst, HasLaunch
    <3>2. CASE t = s /\ i <= n
      <4>1. i \in 1 .. Len(pipe[s]) /\ pipe[s][i] = "established"
        BY <2>2, <2>9, <3>2
      <4>2. HasLaunch(s, i - 1)
        BY <1>2, <1>5, <2>9, <4>1 DEF LaunchOrder, LaunchComesFirst
      <4>3. i - 1 \in 0 .. n
        BY <2>2, <3>2, <4>1
      <4>4. QED
        BY <2>3, <3>2, <4>2, <4>3
    <3>3. CASE t = s /\ i > n
      <4>1. i = n + 1 /\ l = "established"
        BY <2>2, <2>9, <3>3
      <4>2. HasLaunch(s, n)'
        BY <2>3, <2>6, <2>8, <2>9, <4>1
      <4>3. i - 1 = n
        BY <2>2, <4>1
      <4>4. QED
        BY <3>3, <4>2, <4>3
    <3>4. QED
      BY <2>2, <3>1, <3>2, <3>3
  <2>10. LaunchComesFirst'
    BY <1>1, <1>2, <2>9 DEF LaunchOrder, LaunchComesFirst
  <2>11. QED
    BY <2>7, <2>10 DEF LaunchOrder
<1>6. QED
  BY <1>3, <1>4, <1>5

\* Every step keeps the order; unless the markers are split, a session line is
\* taken from ready only after activateOnce is spent.
LEMMA LaunchStep ==
  ASSUME IInv, TypeOK', [Next]_vars
  PROVE  LaunchOrder'
<1>0. TypeOK /\ LaunchOrder /\ PhasesInOrder /\ DiscordInOrder
  BY DEF IInv, PhaseInv, LaunchOrder
<1>1. ASSUME NEW s \in Streams, StreamStep(s) PROVE LaunchOrder'
  BY <1>0, <1>1, ReadKeepsOrder
<1>2. ASSUME NEW s \in Streams, NEW l \in Markers, LogLine(s, l)
      PROVE LaunchOrder'
  BY <1>0, <1>2, WriteKeepsOrder
<1>3. CASE MainReady
  <2>1. /\ UNCHANGED <<pipe, said, launcher, activated>> /\ ready /\ ready' = FALSE
        /\ handedOff => mode' = mode
        /\ ~handedOff => mode' = "direct"
    BY <1>3 DEF MainReady
  <2>2. LaunchIsInPipe'
    BY <1>0, <2>1 DEF LaunchOrder, LaunchIsInPipe, HasLaunch, PipesOpen
  <2>3. Split' <=> Split
    BY <2>1 DEF Split
  <2>4. ~Split => activated /\ (handedOff => mode = "direct")
    BY <1>0, <2>1 DEF LaunchOrder, LaunchComesFirst
  <2>5. LaunchComesFirst'
    BY <2>1, <2>3, <2>4 DEF LaunchComesFirst
  <2>6. QED
    BY <2>2, <2>5 DEF LaunchOrder
<1>4. CASE StartDiscord
  <2>1. said = {} /\ UNCHANGED <<pipe, said, ready, handedOff, mode, activated>>
    BY <1>0, <1>4 DEF StartDiscord, DiscordInOrder, PhasesInOrder
  <2>2. LaunchIsInPipe'
    BY <2>1 DEF LaunchIsInPipe
  <2>3. LaunchComesFirst'
    BY <1>0, <2>1 DEF LaunchOrder, LaunchComesFirst, HasLaunch, Split
  <2>4. QED
    BY <2>2, <2>3 DEF LaunchOrder
<1>5. CASE Reap
  <2>1. ~PipesOpen' /\ UNCHANGED <<said, ready, handedOff, mode, activated>>
    BY <1>5 DEF Reap, PipesOpen
  <2>2. LaunchIsInPipe'
    BY <2>1 DEF LaunchIsInPipe
  <2>3. ASSUME ~Split, ~activated, NEW s \in Streams, NEW i \in 1 .. Len(pipe'[s]),
               pipe'[s][i] = "established"
        PROVE  HasLaunch(s, i - 1)'
    <3>1. PICK m \in Nat, n \in Nat : m = Len(pipe'[s]) /\ n = Len(pipe[s]) /\ m <= n
      BY <1>0, <1>5, ReapTyped, LenProperties
    <3>2. \A j \in 1 .. m : pipe'[s][j] = pipe[s][j]
      BY <1>0, <1>5, <3>1, ReapTyped
    <3>3. i \in 1 .. m /\ i \in 1 .. n /\ pipe[s][i] = "established"
      BY <2>3, <3>1, <3>2
    <3>4. HasLaunch(s, i - 1)
      BY <1>0, <2>3, <3>1, <3>3 DEF LaunchOrder, LaunchComesFirst
    <3>5. \A j \in 1 .. i - 1 : pipe'[s][j] = pipe[s][j]
      BY <3>1, <3>2, <3>3
    <3>6. QED
      BY <3>4, <3>5 DEF HasLaunch
  <2>4. Split' <=> Split
    BY <2>1 DEF Split
  <2>5. LaunchComesFirst'
    BY <1>0, <2>1, <2>3, <2>4 DEF LaunchOrder, LaunchComesFirst
  <2>6. QED
    BY <2>2, <2>5 DEF LaunchOrder
<1>6. CASE StopDiscord \/ FinalStop \/ LauncherExits
  <2>1. /\ PipesOpen' => PipesOpen
        /\ UNCHANGED <<pipe, said, ready, handedOff, mode, activated>>
    BY <1>6 DEF StopDiscord, FinalStop, LauncherExits, KillDiscord, PipesOpen
  <2>2. QED
    BY <1>0, <2>1, LaunchFrame
<1>7. CASE UNCHANGED <<pipe, said, ready, handedOff, mode, activated, launcher>>
  BY <1>0, <1>7, LaunchFrame DEF PipesOpen
<1>8. QED
  BY <1>1, <1>2, <1>3, <1>4, <1>5, <1>6, <1>7
     DEF Next, MainStep, MonitorStep, Environment, StartBackend, StartProxy, MainDone,
         MainHandoff, MainErr, MainCancelled, WaitPoll, WaitGrace, CloseProxy, CloseBackend,
         MonitorReports, MonitorClosed, AppStarts, AppExits, BackendBreaks, Cancel, vars

\* IInv is inductive, whichever streams the markers come on.
THEOREM InductiveInvariant == Spec => []IInv
<1>1. Init => IInv
  BY InitInOrder
<1>2. IInv /\ [Next]_vars => IInv'
  BY TypeStep, PhaseStep, LaunchStep DEF IInv, PhaseInv, LaunchOrder
<1>3. QED
  BY <1>1, <1>2, PTL DEF Spec

\* However the two readers and main interleave, no reader puts the proxy back
\* on the VPN after main has handed off, unless Discord has written a launch
\* line to one stream and a session line to the other.
THEOREM HandoffStaysFinal == Spec => []HandoffIsFinal
<1>1. IInv => HandoffIsFinal
  BY DEF IInv, LaunchComesFirst, HandoffIsFinal
<1>2. QED
  BY <1>1, InductiveInvariant, PTL

-----------------------------------------------------------------------------
(* The refinement.                                                         *)

\* What the tunnel of StartupPath is for each state of the backend.
LEMMA TunnelOfBackend ==
  ASSUME TypeOK
  PROVE  /\ Tunnel = "none" <=> backend = "none"
         /\ Tunnel = "up" <=> backend \in {"up", "broken"}
         /\ Tunnel = "down" <=> backend = "closed"
BY DEF Tunnel, TypeOK

\* Every step of the bootstrap is a step of StartupPath or changes none of its
\* variables: the route is taken by the first launch line while the tunnel is
\* up, and the tunnel goes down after UseDirect or after the proxy's Close.
LEMMA StepIsPathStep ==
  ASSUME IInv, TypeOK', OneMarkerStream, OneMarkerStream', [Next]_vars
  PROVE  [Path!Next]_(Path!vars)
<1>a. serving \in BOOLEAN /\ serving' \in BOOLEAN
  BY DEF IInv, PhaseInv, TypeOK
<1>b. /\ (IF OneMarkerStream THEN mode ELSE "direct") = mode
      /\ (IF OneMarkerStream THEN Tunnel ELSE "none") = Tunnel
      /\ (IF OneMarkerStream THEN serving ELSE FALSE) = serving
      /\ (IF OneMarkerStream THEN mode ELSE "direct")' = mode'
      /\ (IF OneMarkerStream THEN Tunnel ELSE "none")' = Tunnel'
      /\ (IF OneMarkerStream THEN serving ELSE FALSE)' = serving'
  BY <1>a
<1> SUFFICES \/ Path!Next
             \/ UNCHANGED <<mode, Tunnel, serving>>
  BY <1>b DEF Path!vars
<1>0. ~Split /\ TypeOK /\ LaunchComesFirst
  <2>1. TypeOK /\ LaunchComesFirst
    BY DEF IInv, PhaseInv
  <2>2. said \subseteq markers \X Markers
    BY <2>1 DEF TypeOK
  <2>3. QED
    BY <2>1, <2>2 DEF Split, OneMarkerStream
<1> USE DEF IInv, PhaseInv, PhasesInOrder, ServesOverTunnel
<1>1. /\ Tunnel = "none" <=> backend = "none"
      /\ Tunnel = "up" <=> backend \in {"up", "broken"}
      /\ Tunnel = "down" <=> backend = "closed"
      /\ Tunnel' = "none" <=> backend' = "none"
      /\ Tunnel' = "up" <=> backend' \in {"up", "broken"}
      /\ Tunnel' = "down" <=> backend' = "closed"
  <2>1. /\ Tunnel' = "none" <=> backend' = "none"
        /\ Tunnel' = "up" <=> backend' \in {"up", "broken"}
        /\ Tunnel' = "down" <=> backend' = "closed"
    BY DEF Tunnel, TypeOK
  <2>2. QED
    BY <2>1, TunnelOfBackend
<1>2. UNCHANGED backend => UNCHANGED Tunnel
  BY DEF Tunnel
<1>3. CASE StartBackend
  <2>1. Path!Connect <=> Tunnel = "none" /\ Tunnel' = "up" /\ UNCHANGED <<mode, serving>>
    BY <1>b DEF Path!Connect
  <2>2. QED
    BY <1>1, <1>2, <1>3, <2>1 DEF StartBackend, Path!Next
<1>4. CASE StartProxy
  <2>1. Path!Serve <=> Tunnel = "up" /\ ~serving /\ serving' = TRUE /\ UNCHANGED <<mode, Tunnel>>
    BY <1>b DEF Path!Serve
  <2>2. ~serving /\ Tunnel = "up" /\ UNCHANGED <<mode, Tunnel>>
    BY <1>1, <1>2, <1>4 DEF StartProxy
  <2>3. serving' = TRUE \/ serving' = serving
    BY <1>4, <2>2 DEF StartProxy, TypeOK
  <2>4. QED
    BY <2>1, <2>2, <2>3 DEF Path!Next
<1>5. CASE MainReady
  <2>1. Path!ReturnDirect <=> mode' = "direct" /\ UNCHANGED <<Tunnel, serving>>
    BY <1>b DEF Path!ReturnDirect
  <2>2. QED
    BY <1>2, <1>5, <2>1 DEF MainReady, Path!Next
<1>6. Path!Disconnect <=> /\ Tunnel = "up" /\ (mode = "direct" \/ ~serving)
                          /\ Tunnel' = "down" /\ UNCHANGED <<mode, serving>>
  BY <1>b DEF Path!Disconnect
<1>7. CASE MainHandoff \/ CloseBackend
  <2>1. /\ backend # "none" /\ Tunnel' = "down" /\ UNCHANGED <<mode, serving>>
        /\ mode = "direct" \/ ~serving
    BY <1>0, <1>1, <1>7 DEF MainHandoff, CloseBackend, LaunchComesFirst
  <2>2. Tunnel = "up" \/ Tunnel = "down"
    BY <1>1, <2>1 DEF TypeOK
  <2>3. QED
    BY <1>6, <2>1, <2>2 DEF Path!Next
<1>8. CASE CloseProxy
  <2>1. Path!StopServing <=> serving /\ serving' = FALSE /\ UNCHANGED <<mode, Tunnel>>
    BY <1>b DEF Path!StopServing
  <2>2. serving' = FALSE /\ UNCHANGED <<mode, Tunnel>>
    BY <1>2, <1>8 DEF CloseProxy
  <2>3. serving \/ serving' = serving
    BY <2>2 DEF TypeOK
  <2>4. QED
    BY <2>1, <2>2, <2>3 DEF Path!Next
<1>9. CASE \E s \in Streams : ReadLaunch(s)
  <2>1. Path!TakeTunnel <=> /\ Tunnel = "up" \/ ~serving
                            /\ mode' = "vpn" /\ UNCHANGED <<Tunnel, serving>>
    BY <1>b DEF Path!TakeTunnel
  <2>2. UNCHANGED <<Tunnel, serving>> /\ mode' = (IF activated THEN mode ELSE "vpn")
    BY <1>2, <1>9 DEF ReadLaunch
  <2>3. ~activated => Tunnel = "up" \/ ~serving
    BY <1>0, <1>1 DEF LaunchComesFirst
  <2>4. QED
    BY <2>1, <2>2, <2>3 DEF Path!Next
<1>10. CASE BackendBreaks
  BY <1>1, <1>10 DEF BackendBreaks
<1>11. CASE UNCHANGED <<mode, backend, serving>>
  BY <1>2, <1>11
<1>12. QED
  BY <1>3, <1>4, <1>5, <1>7, <1>8, <1>9, <1>10, <1>11
     DEF Next, MainStep, StreamStep, MonitorStep, Environment, StartDiscord, MainDone,
         MainErr, MainCancelled, WaitPoll, WaitGrace, StopDiscord, FinalStop,
         ReadEstablished, MonitorReports, MonitorClosed, LogLine, AppStarts, AppExits,
         LauncherExits, Cancel, Reap, vars

\* Discord keeps to the streams it began with.
LEMMA MarkersKept == ASSUME [Next]_vars PROVE UNCHANGED markers
BY DEF Next, MainStep, StreamStep, MonitorStep, Environment, StartBackend, StartProxy,
       StartDiscord, MainDone, MainReady, MainHandoff, MainErr, MainCancelled, WaitPoll,
       WaitGrace, StopDiscord, CloseProxy, CloseBackend, FinalStop, ReadLaunch,
       ReadEstablished, MonitorReports, MonitorClosed, LogLine, AppStarts, AppExits,
       LauncherExits, BackendBreaks, Cancel, Reap, vars

\* With a Discord that writes its markers to one stream, the bootstrap
\* implements the startup path the README promises.
THEOREM ImplementsStartupPath == Spec => RefinesStartupPath
<1>1. Init => Path!Init
  BY DEF Init, Path!Init, Tunnel
<1>2. IInv /\ IInv' /\ [Next]_vars => [Path!Next]_(Path!vars)
  <2> SUFFICES ASSUME IInv, IInv', [Next]_vars PROVE [Path!Next]_(Path!vars)
    OBVIOUS
  <2>1. OneMarkerStream' <=> OneMarkerStream
    BY MarkersKept DEF OneMarkerStream
  <2>2. CASE OneMarkerStream
    BY <2>1, <2>2, StepIsPathStep DEF IInv, PhaseInv
  <2>3. CASE ~OneMarkerStream
    BY <2>1, <2>3 DEF Path!vars
  <2>4. QED
    BY <2>2, <2>3
<1>3. QED
  BY <1>1, <1>2, InductiveInvariant, PTL DEF Spec, RefinesStartupPath, Path!Spec
=============================================================================
