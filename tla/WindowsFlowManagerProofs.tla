---------------------- MODULE WindowsFlowManagerProofs ----------------------
(***************************************************************************)
(* Proofs about WindowsFlowManager for any connections, whichever of them  *)
(* share keys, and any number of connects and answers: the types, the      *)
(* inductive invariant IInv, and from it that the flow table, its reverse  *)
(* index and the open handles agree and that one armed intent pays for one *)
(* flow.                                                                   *)
(***************************************************************************)
EXTENDS WindowsFlowManager, FiniteSetTheorems, TLAPS

USE ConnAssumption
USE DEF driverVars, flowVars, rxVars, fateVars, cleanVars, Handles, GatePCs, Gates,
        Receivers, Reinject, ReinjectFails, RxAgain

\* The key of an event, and both keys of a connection, are keys of tcpIntents.
LEMMA KeysOfConn ==
  ASSUME NEW c \in Conns
  PROVE  FullKey(c) \in Keys /\ RemoteKey(c) \in Keys /\ ReverseKey(c) \in ReverseKeys
BY DEF Keys, ReverseKeys

\* Where the gate has nothing in hand it is a gate.
LEMMA GateAt ==
  ASSUME NEW l \in GatePCs PROVE At(l) \in Gates /\ At(l).pc = l /\ At(l).conn = None
BY DEF At

\* The gate keeps its record when it moves on, and when it opens a handle.
LEMMA GateUpdate ==
  ASSUME NEW g \in Gates, NEW l \in GatePCs, NEW h \in Handles
  PROVE  /\ [g EXCEPT !.pc = l] \in Gates
         /\ [g EXCEPT !.pc = l].pc = l /\ [g EXCEPT !.pc = l].conn = g.conn
         /\ [g EXCEPT !.pc = l, !.handle = h] \in Gates
         /\ [g EXCEPT !.pc = l, !.handle = h].pc = l
         /\ [g EXCEPT !.pc = l, !.handle = h].conn = g.conn
         /\ [g EXCEPT !.pc = l, !.handle = h].handle = h
OBVIOUS

\* Every step of the driver, the monitors, the gate and cleanup keeps the types.
LEMMA TypeStep == TypeOK /\ [Next]_vars => TypeOK'
<1> SUFFICES ASSUME TypeOK, [Next]_vars PROVE TypeOK'
  OBVIOUS
<1> USE DEF TypeOK
<1>1. ASSUME NEW c \in Conns, NEW b \in BOOLEAN, Connect(c, b) PROVE TypeOK'
  BY <1>1 DEF Connect
<1>2. ASSUME NEW c \in Conns, Disconnect(c) PROVE TypeOK'
  BY <1>2 DEF Disconnect
<1>3. CASE Activate
  BY <1>3 DEF Activate
<1>4. ASSUME NEW e \in events, MarkTCPIntent(e) PROVE TypeOK'
  <2>1. EventKey(e) \in Keys
    BY KeysOfConn DEF EventKey
  <2>2. QED
    BY <1>4, <2>1 DEF MarkTCPIntent
<1>5. ASSUME NEW k \in Keys, Expire(k) PROVE TypeOK'
  BY <1>5 DEF Expire
<1>6. ASSUME NEW c \in Conns, GateRecv(c) PROVE TypeOK'
  <2>1. /\ gate' \in Gates
        /\ gate'.pc \notin {"recv", "stopped"} => gate'.conn # None
    BY <1>6, GateAt DEF GateRecv
  <2>2. errCh' \in BOOLEAN /\ direct' \subseteq Conns /\ tunneled' \subseteq Conns
    BY <1>6 DEF GateRecv
  <2>3. QED
    BY <1>6, <2>1, <2>2 DEF GateRecv
<1>7. ASSUME NEW k \in Keys, ConsumeTCPIntent(k) PROVE TypeOK'
  BY <1>7 DEF ConsumeTCPIntent
<1>8. CASE NoIntentYet
  BY <1>8 DEF NoIntentYet
<1>9. CASE IntentDeadline \/ IntentRetry
  BY <1>9 DEF IntentDeadline, IntentRetry
<1>10. CASE GateReinject
  <2>1. gate.conn \in Conns
    BY <1>10 DEF GateReinject
  <2>2. gate' \in Gates /\ gate'.pc \in {"recv", "stopped"}
    BY <1>10, GateAt DEF GateReinject
  <2>3. QED
    BY <1>10, <2>1, <2>2 DEF GateReinject
<1>11. CASE GateOpensHandle
  <2>1. handles' \in Handles
    BY <1>11 DEF GateOpensHandle
  <2>2. gate' \in Gates /\ gate'.conn = gate.conn /\ gate.pc = "install"
    BY <1>11, <2>1, GateUpdate DEF GateOpensHandle
  <2>3. QED
    BY <1>11, <2>1, <2>2 DEF GateOpensHandle
<1>12. CASE GateInstallFails \/ GateStops
  <2>1. gate' \in Gates /\ gate'.pc = "stopped"
    BY <1>12, GateAt DEF GateInstallFails, GateStops
  <2>2. QED
    BY <1>12, <2>1 DEF GateInstallFails, GateStops
<1>13. CASE GateInserts
  BY <1>13 DEF GateInserts
<1>14. CASE GateTunnels
  <2>1. gate.conn \in Conns
    BY <1>14 DEF GateTunnels
  <2>2. gate' \in Gates /\ gate'.pc \in {"recv", "stopped"}
    BY <1>14, GateAt DEF GateTunnels
  <2>3. QED
    BY <1>14, <2>1, <2>2 DEF GateTunnels
<1>15. ASSUME NEW c \in Conns, RemoveFromEvent(c) PROVE TypeOK'
  <2>1. flows' \in [Conns -> Handles \cup {0}] /\ remover' \in Handles \cup {0}
    BY <1>15 DEF RemoveFromEvent
  <2>2. reverse' \in [ReverseKeys -> Handles \cup {0}]
    <3>1. ReverseKey(c) \in ReverseKeys
      BY <1>15 DEF ReverseKeys
    <3>2. QED
      BY <1>15, <3>1 DEF RemoveFromEvent
  <2>3. deletes' \subseteq Conns
    BY <1>15 DEF RemoveFromEvent
  <2>4. QED
    BY <1>15, <2>1, <2>2, <2>3 DEF RemoveFromEvent
<1>16. CASE RemoverCloses
  BY <1>16 DEF RemoverCloses
<1>17. ASSUME NEW k \in ReverseKeys, RxMatch(k) PROVE TypeOK'
  BY <1>17 DEF RxMatch
<1>18. CASE RxInject
  <2>1. rx' \in Receivers
    BY <1>18 DEF RxInject
  <2>2. QED
    BY <1>18, <2>1 DEF RxInject
<1>19. CASE CleanupStarts
  BY <1>19 DEF CleanupStarts
<1>20. ASSUME NEW h \in closing, CleanupClosesFlow(h) PROVE TypeOK'
  BY <1>20 DEF CleanupClosesFlow
<1>21. CASE CleanupClosesGate \/ CleanupReturns
  BY <1>21 DEF CleanupClosesGate, CleanupReturns
<1>22. CASE UNCHANGED vars
  BY <1>22 DEF vars
<1>23. QED
  BY <1>1, <1>2, <1>3, <1>4, <1>5, <1>6, <1>7, <1>8, <1>9, <1>10, <1>11, <1>12,
     <1>13, <1>14, <1>15, <1>16, <1>17, <1>18, <1>19, <1>20, <1>21, <1>22
     DEF Next, GateStep, CleanupStep

\* The manager newWindowsFlowManager makes has the types it keeps.
LEMMA InitTyped == ASSUME Init PROVE TypeOK
<1>1. gate \in Gates /\ gate.pc = "recv"
  BY GateAt DEF Init
<1>2. rx \in Receivers
  BY DEF Init
<1>3. /\ intents \in [Keys -> {"none", "fresh", "expired"}]
      /\ flows \in [Conns -> Handles \cup {0}]
      /\ reverse \in [ReverseKeys -> Handles \cup {0}]
  BY DEF Init
<1>4. /\ events \subseteq [conn : Conns, bound : BOOLEAN]
      /\ syns \subseteq Conns /\ deletes \subseteq Conns /\ launched \subseteq Conns
      /\ open \subseteq Handles /\ closing \subseteq Handles
      /\ direct \subseteq Conns /\ tunneled \subseteq Conns
  BY DEF Init
<1>5. active \in BOOLEAN /\ errCh \in BOOLEAN
  BY DEF Init
<1>6. /\ connects \in 0 .. MaxConnects /\ armed \in Nat /\ handles \in Nat
      /\ remover \in Handles \cup {0} /\ answers \in 0 .. MaxAnswers
      /\ cleanup \in {"no", "flows", "gate", "done"}
  BY DEF Init
<1> HIDE DEF Gates, Receivers
<1>7. QED
  BY <1>1, <1>2, <1>3, <1>4, <1>5, <1>6 DEF TypeOK

\* The manager's variables always have their types; in particular the gate has
\* a connection in hand whenever it is not waiting for a SYN.
THEOREM TypeCorrect == Spec => []TypeOK
<1>1. Init => TypeOK
  BY InitTyped
<1>2. QED
  BY <1>1, TypeStep, PTL DEF Spec

-----------------------------------------------------------------------------
(* The tables and the handles.                                             *)

\* TablesInv speaks of these variables only.
LEMMA TablesFrame ==
  ASSUME TablesInv,
         UNCHANGED <<gate, flows, reverse, open, handles, remover, cleanup, closing>>
  PROVE  TablesInv'
BY DEF TablesInv, TablesAgree, NoDanglingReverse, InstalledIsOpen, NoHandleForgotten,
   NobodyElseInstalls, HeldIsOpen, OneHolder

\* A gate that moves on without a handle keeps TablesInv when it still has the
\* connection it had, or is done with it.
LEMMA GateMoves ==
  ASSUME TypeOK, TablesInv, gate.pc # "opened", gate'.pc # "opened",
         gate'.pc \in {"intent", "missed", "install"} => flows[gate'.conn] = 0,
         UNCHANGED <<flows, reverse, open, handles, remover, cleanup, closing>>
  PROVE  TablesInv'
BY DEF TypeOK, TablesInv, TablesAgree, NoDanglingReverse, InstalledIsOpen, NoHandleForgotten,
   NobodyElseInstalls, HeldIsOpen, OneHolder

\* A step of captureInitialTCPSYN keeps TablesInv: a handle it opens is new,
\* and when it enters the table the connection has no older one there.
LEMMA GateKeepsTables ==
  ASSUME TypeOK, TypeOK', TablesInv, GateStep \/ IntentRetry PROVE TablesInv'
<1>1. ASSUME NEW c \in Conns, GateRecv(c) PROVE TablesInv'
  <2>1. CASE active
    BY <1>1, <2>1, GateMoves DEF GateRecv, TypeOK
  <2>2. CASE ~active /\ UNCHANGED gate
    BY <1>1, <2>2, TablesFrame DEF GateRecv
  <2>3. CASE gate' = At("stopped")
    BY <1>1, <2>3, GateMoves, GateAt DEF GateRecv
  <2>4. QED
    BY <1>1, <2>1, <2>2, <2>3 DEF GateRecv
<1>2. ASSUME NEW k \in Keys, ConsumeTCPIntent(k) PROVE TablesInv'
  BY <1>2, GateMoves DEF ConsumeTCPIntent, TypeOK, TablesInv, NobodyElseInstalls
<1>3. CASE NoIntentYet \/ IntentDeadline \/ IntentRetry
  BY <1>3, GateMoves
     DEF NoIntentYet, IntentDeadline, IntentRetry, TypeOK, TablesInv, NobodyElseInstalls
<1>4. CASE GateReinject \/ GateInstallFails \/ GateStops \/ GateTunnels
  BY <1>4, GateMoves, GateAt
     DEF GateReinject, GateInstallFails, GateStops, GateTunnels, TypeOK
<1>5. CASE GateOpensHandle
  <2>1. handles + 1 \notin open /\ handles + 1 # 0
    BY DEF TypeOK, TablesInv, HeldIsOpen
  <2>2. /\ gate'.pc = "opened" /\ gate'.conn = gate.conn /\ gate'.handle = handles + 1
        /\ gate.pc = "install" /\ open' = open \cup {handles + 1} /\ handles' = handles + 1
        /\ UNCHANGED <<flows, reverse, remover, cleanup, closing>>
    BY <1>5 DEF GateOpensHandle, TypeOK
  <2>3. NobodyElseInstalls'
    BY <2>2 DEF TablesInv, NobodyElseInstalls
  <2>4. HeldIsOpen'
    BY <2>2 DEF TypeOK, TablesInv, HeldIsOpen
  <2>5. OneHolder'
    BY <2>1, <2>2 DEF TypeOK, TablesInv, TablesAgree, InstalledIsOpen, HeldIsOpen, OneHolder
  <2>6. TablesAgree'
    BY <2>1, <2>2 DEF TypeOK, TablesInv, TablesAgree, NoDanglingReverse, InstalledIsOpen,
                      NoHandleForgotten
  <2>7. QED
    BY <2>2, <2>3, <2>4, <2>5, <2>6 DEF TablesInv
<1>6. CASE GateInserts
  <2>1. /\ gate.pc = "opened" /\ gate.conn \in Conns /\ flows[gate.conn] = 0
        /\ gate'.pc = "tunnel" /\ gate.handle \in open /\ gate.handle # 0
        /\ flows' = [flows EXCEPT ![gate.conn] = gate.handle]
        /\ reverse' = [reverse EXCEPT ![ReverseKey(gate.conn)] = gate.handle]
        /\ UNCHANGED <<open, handles, remover, cleanup, closing>>
    BY <1>6 DEF GateInserts, TypeOK, TablesInv, NobodyElseInstalls, HeldIsOpen
  <2>2. HeldIsOpen' /\ NobodyElseInstalls'
    BY <2>1 DEF TablesInv, HeldIsOpen, NobodyElseInstalls
  <2>3. OneHolder'
    BY <2>1 DEF TypeOK, TablesInv, OneHolder
  <2>4. NoDanglingReverse'
    BY <2>1 DEF TypeOK, TablesInv, TablesAgree, NoDanglingReverse
  <2>5. InstalledIsOpen' /\ NoHandleForgotten'
    BY <2>1 DEF TypeOK, TablesInv, TablesAgree, InstalledIsOpen, NoHandleForgotten
  <2>6. QED
    BY <2>1, <2>2, <2>3, <2>4, <2>5 DEF TablesInv, TablesAgree
<1>7. QED
  BY <1>1, <1>2, <1>3, <1>4, <1>5, <1>6 DEF GateStep

\* removeFromEvent keeps TablesInv: the handle goes from the table into the
\* monitor's hands and is closed there.
LEMMA RemovalKeepsTables ==
  ASSUME TypeOK, TypeOK', TablesInv,
         RemoverCloses \/ \E c \in Conns : RemoveFromEvent(c)
  PROVE  TablesInv'
<1> USE DEF TypeOK, TablesInv
<1>1. ASSUME NEW c \in Conns, RemoveFromEvent(c) PROVE TablesInv'
  <2>1. /\ remover = 0 /\ remover' = flows[c]
        /\ flows' = [flows EXCEPT ![c] = 0]
        /\ reverse' = [reverse EXCEPT ![ReverseKey(c)] = IF flows[c] # 0 THEN 0 ELSE @]
        /\ UNCHANGED <<gate, open, handles, cleanup, closing>>
    BY <1>1 DEF RemoveFromEvent
  <2>2. HeldIsOpen' /\ NobodyElseInstalls'
    BY <2>1 DEF HeldIsOpen, NobodyElseInstalls, TablesAgree, InstalledIsOpen
  <2>3. OneHolder'
    BY <2>1 DEF OneHolder
  <2>4. NoDanglingReverse'
    BY <2>1 DEF TablesAgree, NoDanglingReverse
  <2>5. InstalledIsOpen' /\ NoHandleForgotten'
    BY <2>1 DEF TablesAgree, InstalledIsOpen, NoHandleForgotten
  <2>6. QED
    BY <2>1, <2>2, <2>3, <2>4, <2>5 DEF TablesAgree
<1>2. CASE RemoverCloses
  BY <1>2 DEF RemoverCloses, TablesAgree, NoDanglingReverse, InstalledIsOpen,
              NoHandleForgotten, NobodyElseInstalls, HeldIsOpen, OneHolder
<1>3. QED
  BY <1>1, <1>2

\* So does mgr.close(): it takes every flow out of both tables before it closes
\* the first handle.
LEMMA CleanupKeepsTables ==
  ASSUME TypeOK, TypeOK', TablesInv, CleanupStarts \/ CleanupStep
  PROVE  TablesInv'
<1> USE DEF TypeOK, TablesInv
<1>1. CASE CleanupStarts
  <2>1. HeldIsOpen' /\ NobodyElseInstalls'
    BY <1>1 DEF CleanupStarts, HeldIsOpen, NobodyElseInstalls, TablesAgree, InstalledIsOpen
  <2>2. OneHolder'
    <3>1. /\ \A c \in Conns : flows'[c] = 0
          /\ \A h \in closing' : h # 0 /\ \E c \in Conns : flows[c] = h
          /\ UNCHANGED <<gate, remover>>
      BY <1>1 DEF CleanupStarts
    <3>2. gate.pc = "opened" => gate.handle # 0
      BY DEF HeldIsOpen
    <3>3. QED
      BY <3>1, <3>2 DEF OneHolder
  <2>3. TablesAgree'
    BY <1>1 DEF CleanupStarts, TablesAgree, NoDanglingReverse, InstalledIsOpen,
                NoHandleForgotten
  <2>4. QED
    BY <1>1, <2>1, <2>2, <2>3 DEF CleanupStarts
<1>2. ASSUME NEW h \in closing, CleanupClosesFlow(h) PROVE TablesInv'
  BY <1>2 DEF CleanupClosesFlow, TablesAgree, NoDanglingReverse, InstalledIsOpen,
              NoHandleForgotten, NobodyElseInstalls, HeldIsOpen, OneHolder
<1>3. CASE CleanupClosesGate \/ CleanupReturns
  BY <1>3 DEF CleanupClosesGate, CleanupReturns, TablesAgree, NoDanglingReverse,
              InstalledIsOpen, NoHandleForgotten, NobodyElseInstalls, HeldIsOpen, OneHolder
<1>4. QED
  BY <1>1, <1>2, <1>3 DEF CleanupStep

-----------------------------------------------------------------------------
(* The intents.                                                            *)

\* Fresh intents that are neither armed nor spent keep the balance, and so does
\* one that expires or is dropped.
LEMMA IntentsFrame ==
  ASSUME TypeOK, TypeOK', IntentsAddUp, FreshIntents' \subseteq FreshIntents,
         armed' = armed, handles' = handles,
         gate'.pc = "install" => gate.pc = "install"
  PROVE  IntentsAddUp'
<1>1. IsFiniteSet(FreshIntents')
  BY FS_Subset DEF IntentsAddUp
<1>2. /\ Cardinality(FreshIntents') <= Cardinality(FreshIntents)
      /\ Cardinality(FreshIntents') \in Nat /\ Cardinality(FreshIntents) \in Nat
  BY <1>1, FS_Subset, FS_CardinalityType DEF IntentsAddUp
<1>3. QED
  BY <1>1, <1>2 DEF IntentsAddUp, TypeOK

\* markTCPIntent arms at most one more intent than there were.
LEMMA MarkKeepsBalance ==
  ASSUME TypeOK, TypeOK', IntentsAddUp, NEW e \in events, MarkTCPIntent(e)
  PROVE  IntentsAddUp'
<1> DEFINE key == EventKey(e)
<1>1. CASE active /\ IsDiscord[e.conn]
  <2>1. FreshIntents' \subseteq FreshIntents \cup {key}
    BY <1>1 DEF MarkTCPIntent, FreshIntents, TypeOK
  <2>2. /\ IsFiniteSet(FreshIntents \cup {key})
        /\ Cardinality(FreshIntents \cup {key}) <= Cardinality(FreshIntents) + 1
        /\ Cardinality(FreshIntents) \in Nat
    <3> HIDE DEF key
    <3>1. IsFiniteSet(FreshIntents) /\ Cardinality(FreshIntents) \in Nat
      BY FS_CardinalityType DEF IntentsAddUp
    <3>2. /\ IsFiniteSet(FreshIntents \cup {key})
          /\ \/ Cardinality(FreshIntents \cup {key}) = Cardinality(FreshIntents)
             \/ Cardinality(FreshIntents \cup {key}) = Cardinality(FreshIntents) + 1
      BY <3>1, FS_AddElement
    <3>3. QED
      BY <3>1, <3>2
  <2>3. /\ IsFiniteSet(FreshIntents')
        /\ Cardinality(FreshIntents') <= Cardinality(FreshIntents \cup {key})
    BY <2>1, <2>2, FS_Subset
  <2>4. /\ Cardinality(FreshIntents') \in Nat
        /\ Cardinality(FreshIntents \cup {key}) \in Nat
    BY <2>2, <2>3, FS_CardinalityType
  <2>5. armed' = armed + 1 /\ UNCHANGED <<handles, gate>>
    BY <1>1 DEF MarkTCPIntent
  <2>6. QED
    BY <2>2, <2>3, <2>4, <2>5 DEF IntentsAddUp, TypeOK
<1>2. CASE ~(active /\ IsDiscord[e.conn])
  BY <1>2, IntentsFrame DEF MarkTCPIntent, FreshIntents
<1>3. QED
  BY <1>1, <1>2

\* consumeTCPIntent takes the one intent the gate goes on with.
LEMMA ConsumeKeepsBalance ==
  ASSUME TypeOK, TypeOK', IntentsAddUp, NEW k \in Keys, ConsumeTCPIntent(k)
  PROVE  IntentsAddUp'
<1>1. k \in FreshIntents /\ FreshIntents' = FreshIntents \ {k}
  BY DEF ConsumeTCPIntent, FreshIntents, TypeOK
<1>2. /\ IsFiniteSet(FreshIntents')
      /\ Cardinality(FreshIntents') = Cardinality(FreshIntents) - 1
      /\ Cardinality(FreshIntents) \in Nat
  BY <1>1, FS_RemoveElement, FS_CardinalityType DEF IntentsAddUp
<1>3. gate.pc = "intent" /\ UNCHANGED <<handles, armed>>
  BY DEF ConsumeTCPIntent
<1>4. QED
  BY <1>2, <1>3 DEF IntentsAddUp, TypeOK

\* Every step keeps the balance of armed and spent intents.
LEMMA IntentsStep ==
  ASSUME TypeOK, TypeOK', IntentsAddUp, [Next]_vars PROVE IntentsAddUp'
<1>1. ASSUME NEW e \in events, MarkTCPIntent(e) PROVE IntentsAddUp'
  BY <1>1, MarkKeepsBalance
<1>2. ASSUME NEW k \in Keys, ConsumeTCPIntent(k) PROVE IntentsAddUp'
  BY <1>2, ConsumeKeepsBalance
<1>3. CASE GateOpensHandle
  <2>1. Cardinality(FreshIntents) \in Nat /\ FreshIntents' = FreshIntents
    BY <1>3, FS_CardinalityType DEF GateOpensHandle, FreshIntents, IntentsAddUp
  <2>2. gate.pc = "install" /\ gate'.pc = "opened" /\ handles' = handles + 1 /\ armed' = armed
    BY <1>3 DEF GateOpensHandle, TypeOK
  <2>3. QED
    BY <2>1, <2>2 DEF IntentsAddUp, TypeOK
<1>4. CASE NoIntentYet \/ \E k \in Keys : Expire(k)
  <2>1. FreshIntents' \subseteq FreshIntents
    BY <1>4 DEF NoIntentYet, Expire, FreshIntents, TypeOK
  <2>2. /\ UNCHANGED <<armed, handles>>
        /\ gate'.pc = "install" => gate.pc = "install"
    BY <1>4 DEF NoIntentYet, Expire, TypeOK
  <2>3. QED
    BY <2>1, <2>2, IntentsFrame
<1>5. ASSUME UNCHANGED <<intents, armed, handles>>,
             gate'.pc = "install" => gate.pc = "install"
      PROVE  IntentsAddUp'
  BY <1>5, IntentsFrame DEF FreshIntents
<1>6. CASE \/ GateInserts \/ IntentDeadline \/ IntentRetry
           \/ \E c \in Conns : GateRecv(c)
  BY <1>5, <1>6, GateAt DEF GateInserts, IntentDeadline, IntentRetry, GateRecv, TypeOK
<1>7. CASE GateReinject \/ GateInstallFails \/ GateTunnels \/ GateStops
  BY <1>5, <1>7, GateAt DEF GateReinject, GateInstallFails, GateTunnels, GateStops
<1>8. CASE \/ \E c \in Conns, b \in BOOLEAN : Connect(c, b)
           \/ \E c \in Conns : Disconnect(c) \/ RemoveFromEvent(c)
           \/ Activate \/ RemoverCloses \/ RxInject \/ CleanupStarts \/ CleanupStep
           \/ \E k \in ReverseKeys : RxMatch(k)
           \/ UNCHANGED vars
  BY <1>5, <1>8
     DEF Connect, Disconnect, RemoveFromEvent, Activate, RemoverCloses, RxInject,
         CleanupStarts, CleanupStep, CleanupClosesFlow, CleanupClosesGate,
         CleanupReturns, RxMatch, vars
<1>9. QED
  BY <1>1, <1>2, <1>3, <1>4, <1>6, <1>7, <1>8 DEF Next, GateStep

-----------------------------------------------------------------------------
\* IInv is inductive: the lookups, opens and closes that the code makes outside
\* the lock never leave a handle with two holders or with none.
THEOREM InductiveInvariant == Spec => []IInv
<1>1. Init => IInv
  <2> SUFFICES ASSUME Init PROVE IInv
    OBVIOUS
  <2>1. gate.pc = "recv"
    BY GateAt DEF Init
  <2>2. TablesInv
    BY <2>1 DEF Init, TablesInv, TablesAgree, NoDanglingReverse, InstalledIsOpen,
                NoHandleForgotten, NobodyElseInstalls, HeldIsOpen, OneHolder
  <2>3. FreshIntents = {}
    BY DEF Init, FreshIntents
  <2>4. IntentsAddUp
    BY <2>1, <2>3, FS_EmptySet DEF Init, IntentsAddUp
  <2>5. QED
    BY <2>2, <2>4, InitTyped DEF IInv
<1>2. IInv /\ [Next]_vars => IInv'
  <2> SUFFICES ASSUME IInv, [Next]_vars PROVE IInv'
    OBVIOUS
  <2>1. TypeOK' /\ IntentsAddUp'
    BY TypeStep, IntentsStep DEF IInv
  <2>2. CASE GateStep \/ IntentRetry
    BY <2>1, <2>2, GateKeepsTables DEF IInv
  <2>3. CASE RemoverCloses \/ \E c \in Conns : RemoveFromEvent(c)
    BY <2>1, <2>3, RemovalKeepsTables DEF IInv
  <2>4. CASE CleanupStarts \/ CleanupStep
    BY <2>1, <2>4, CleanupKeepsTables DEF IInv
  <2>5. CASE \/ \E c \in Conns, b \in BOOLEAN : Connect(c, b)
             \/ \E c \in Conns : Disconnect(c)
             \/ \E e \in events : MarkTCPIntent(e)
             \/ \E k \in Keys : Expire(k)
             \/ \E k \in ReverseKeys : RxMatch(k)
             \/ Activate \/ RxInject \/ UNCHANGED vars
    <3>1. UNCHANGED <<gate, flows, reverse, open, handles, remover, cleanup, closing>>
      BY <2>5 DEF Connect, Disconnect, MarkTCPIntent, Expire, RxMatch, Activate,
                  RxInject, vars
    <3>2. QED
      BY <2>1, <3>1, TablesFrame DEF IInv
  <2>6. QED
    BY <2>2, <2>3, <2>4, <2>5 DEF Next
<1>3. QED
  BY <1>1, <1>2, PTL DEF Spec

\* m.flows, m.reverse and the open handles agree at every step: a reverse entry
\* names an installed flow, an installed flow's handle is open, and no open
\* handle is forgotten.
THEOREM TablesStayInStep == Spec => []TablesAgree
<1>1. IInv => TablesAgree
  BY DEF IInv, TablesInv
<1>2. QED
  BY <1>1, InductiveInvariant, PTL

\* The gate opens at most one flow handle for each intent markTCPIntent armed,
\* although arming, consuming and opening take the lock separately.
THEOREM IntentPaysOnce == Spec => []OneFlowPerIntent
<1>1. IInv => OneFlowPerIntent
  <2> SUFFICES ASSUME IInv PROVE OneFlowPerIntent
    OBVIOUS
  <2>1. Cardinality(FreshIntents) \in Nat
    BY FS_CardinalityType DEF IInv, IntentsAddUp
  <2>2. QED
    BY <2>1 DEF IInv, TypeOK, IntentsAddUp, OneFlowPerIntent
<1>2. QED
  BY <1>1, InductiveInvariant, PTL
=============================================================================
