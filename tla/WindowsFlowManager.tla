------------------------- MODULE WindowsFlowManager -------------------------
(***************************************************************************)
(* windowsFlowManager of windows_discord.go: the goroutines that decide,   *)
(* SYN by SYN, which TCP connections go through the VPN, and the cleanup   *)
(* that ends the interception.                                             *)
(*                                                                         *)
(*   socket monitor   CONNECT events arm an intent      (markTCPIntent)    *)
(*   SYN gate         a SYN consumes an intent          (consumeTCPIntent) *)
(*                    and installs a flow        (installTCPFlowFromSYN)   *)
(*   flow monitor     DELETED events remove a flow      (removeFromEvent)  *)
(*   VPN receiver     answers are injected by a flow    (receiveVPN)       *)
(*   main             cleanup, once                     (cmdDiscordVPN)    *)
(*                                                                         *)
(* The driver delivers the CONNECT event and the SYN of one connect() on   *)
(* two handles read by two goroutines, in either order.  Packets have no   *)
(* content; a clock is left out: an intent expires, and the gate's 8 ms    *)
(* wait ends, at any moment.                                               *)
(***************************************************************************)
EXTENDS Naturals, FiniteSets

CONSTANTS Conns,        \* TCP connections, one per four-tuple
          IsDiscord,    \* Conns -> BOOLEAN: the owner's PID is Discord's
          LocalPort,    \* Conns -> port
          Remote,       \* Conns -> remote address and port
          None,         \* nil flow
          MaxConnects,  \* bound on connect() calls, and so on handles opened
          MaxAnswers    \* bound on answers from the VPN

ASSUME ConnAssumption ==
    /\ IsDiscord \in [Conns -> BOOLEAN]
    /\ MaxConnects \in Nat /\ MaxAnswers \in Nat
    /\ None \notin Conns

VARIABLES active,     \* bootstrapActive
          intents,    \* tcpIntents: key -> "none", "fresh", "expired"
          connects,   \* connect() calls so far
          events,     \* CONNECT events the socket monitor has not read
          syns,       \* SYNs the gate has not read
          deletes,    \* FLOW_DELETED events not read
          gate,       \* the SYN gate: [pc, conn, handle]
          flows,      \* m.flows: conn -> handle of its flow, 0 for none
          reverse,    \* m.reverse: reverse key -> handle of the flow, 0 for none
          open,       \* flow handles that are open
          handles,    \* flow handles opened so far
          remover,    \* the handle removeFromEvent has still to close, or 0
          rx,         \* the VPN receiver: [pc, handle]
          answers,    \* packets received from the VPN
          direct,     \* conns whose last SYN was reinjected
          tunneled,   \* conns whose last SYN was sent to the VPN
          launched,   \* conns whose last connect() came after activation
          armed,      \* intents armed so far
          errCh,      \* m.errCh holds an error
          cleanup,    \* progress of cleanup
          closing     \* handles mgr.close has still to close

driverVars == <<connects, events, syns, deletes, launched>>
flowVars == <<flows, reverse>>
rxVars == <<rx, answers>>
fateVars == <<direct, tunneled>>
cleanVars == <<cleanup, closing>>
vars == <<active, intents, driverVars, gate, flowVars, open, handles, remover,
          rxVars, fateVars, armed, errCh, cleanVars>>

Any == "*"
FullKey(c) == <<LocalPort[c], Remote[c]>>     \* windowsTCPIntentKey
RemoteKey(c) == <<Any, Remote[c]>>            \* windowsTCPRemoteIntentKey
ReverseKey(c) == <<LocalPort[c], Remote[c]>>  \* reverseKeyFromFlow
Keys == {FullKey(c) : c \in Conns} \cup {RemoteKey(c) : c \in Conns}
ReverseKeys == {ReverseKey(c) : c \in Conns}
At(pc) == [pc |-> pc, conn |-> None, handle |-> 0]

Init ==
    /\ active = FALSE
    /\ intents = [k \in Keys |-> "none"]
    /\ connects = 0 /\ events = {} /\ syns = {} /\ deletes = {} /\ launched = {}
    /\ gate = At("recv")
    /\ flows = [c \in Conns |-> 0]
    /\ reverse = [k \in ReverseKeys |-> 0]
    /\ open = {} /\ handles = 0
    /\ remover = 0
    /\ rx = [pc |-> "recv", handle |-> 0] /\ answers = 0
    /\ direct = {} /\ tunneled = {}
    /\ armed = 0
    /\ errCh = FALSE
    /\ cleanup = "no" /\ closing = {}

\* The three monitoring handles are closed after the flows, then the driver is
\* released: a goroutine blocked in recv on a closed handle returns.
GateOpen == cleanup \in {"no", "flows"}
DriverLoaded == cleanup # "done"

-----------------------------------------------------------------------------
(* The driver and the programs that connect.                               *)

\* connect(): one event and one SYN.  The event may come before a local port
\* is bound, and then carries port 0.
Connect(c, bound) ==
    /\ connects < MaxConnects
    /\ c \notin syns
    /\ connects' = connects + 1
    /\ events' = events \cup {[conn |-> c, bound |-> bound]}
    /\ launched' = IF active THEN launched \cup {c} ELSE launched \ {c}
    /\ IF GateOpen THEN syns' = syns \cup {c} /\ UNCHANGED fateVars
       ELSE /\ direct' = direct \cup {c}
            /\ tunneled' = tunneled \ {c}
            /\ UNCHANGED syns
    /\ UNCHANGED <<active, intents, deletes, gate, flowVars, open, handles,
                   remover, rxVars, armed, errCh, cleanVars>>

\* The connection ends: the FLOW layer reports it deleted.
Disconnect(c) ==
    /\ c \in direct \cup tunneled
    /\ direct' = direct \ {c} /\ tunneled' = tunneled \ {c}
    /\ deletes' = deletes \cup {c}
    /\ UNCHANGED <<active, intents, connects, events, syns, launched, gate, flowVars, open,
                   handles, remover, rxVars, armed, errCh, cleanVars>>

\* activate(): the log reader saw the launch line.
Activate ==
    /\ ~active
    /\ active' = TRUE
    /\ UNCHANGED <<intents, driverVars, gate, flowVars, open, handles, remover,
                   rxVars, fateVars, armed, errCh, cleanVars>>

-----------------------------------------------------------------------------
(* markTCPIntent, in the socket monitor.                                   *)

EventKey(e) == IF e.bound THEN FullKey(e.conn) ELSE RemoteKey(e.conn)

\* A monitor blocked in recv may see an event after cancelRun, until its
\* handle is closed.
MarkTCPIntent(e) ==
    /\ e \in events
    /\ GateOpen
    /\ events' = events \ {e}
    /\ IF active /\ IsDiscord[e.conn]
       THEN /\ intents' = [intents EXCEPT ![EventKey(e)] = "fresh"]
            /\ armed' = armed + 1
       ELSE UNCHANGED <<intents, armed>>
    /\ UNCHANGED <<active, connects, syns, deletes, launched, gate, flowVars, open, handles,
                   remover, rxVars, fateVars, errCh, cleanVars>>

\* Three seconds pass.
Expire(k) ==
    /\ intents[k] = "fresh"
    /\ intents' = [intents EXCEPT ![k] = "expired"]
    /\ UNCHANGED <<active, driverVars, gate, flowVars, open, handles, remover,
                   rxVars, fateVars, armed, errCh, cleanVars>>

-----------------------------------------------------------------------------
(* captureInitialTCPSYN, the SYN gate.                                     *)

Reinject(c) ==
    /\ direct' = direct \cup {c}
    /\ tunneled' = tunneled \ {c}

\* h.send fails on a closed handle, and may on an open one: the gate reports it
\* and returns.
ReinjectFails ==
    /\ gate' = At("stopped")
    /\ errCh' = TRUE
    /\ UNCHANGED fateVars

\* Before activation every SYN is reinjected; the SYN of an installed flow is
\* tunneled; any other one has to find an intent.
GateRecv(c) ==
    /\ gate.pc = "recv"
    /\ GateOpen
    /\ c \in syns
    /\ syns' = syns \ {c}
    /\ IF ~active THEN \/ Reinject(c) /\ UNCHANGED <<gate, errCh>>
                      \/ ReinjectFails
       ELSE /\ gate' = [pc |-> IF flows[c] # 0 THEN "tunnel" ELSE "intent",
                        conn |-> c, handle |-> 0]
            /\ UNCHANGED <<fateVars, errCh>>
    /\ UNCHANGED <<active, intents, connects, events, deletes, launched, flowVars, open,
                   handles, remover, rxVars, armed, cleanVars>>

\* Mutant: a consumed intent stays in the map.
ConsumeKeepsIntent(k) ==
    /\ gate.pc = "intent"
    /\ k \in {FullKey(gate.conn), RemoteKey(gate.conn)}
    /\ intents[k] = "fresh"
    /\ gate' = [gate EXCEPT !.pc = "install"]
    /\ UNCHANGED <<active, intents, driverVars, flowVars, open, handles, remover,
                   rxVars, fateVars, armed, errCh, cleanVars>>

\* consumeTCPIntent: the full key first, then the remote one; what it finds
\* expired on the way is deleted.
ConsumeTCPIntent(k) ==
    /\ gate.pc = "intent"
    /\ k \in {FullKey(gate.conn), RemoteKey(gate.conn)}
    /\ intents[k] = "fresh"
    /\ k = RemoteKey(gate.conn) => intents[FullKey(gate.conn)] # "fresh"
    /\ intents' = [j \in Keys |->
          IF j = k \/ (j = FullKey(gate.conn) /\ intents[j] = "expired")
          THEN "none" ELSE intents[j]]
    /\ gate' = [gate EXCEPT !.pc = "install"]
    /\ UNCHANGED <<active, driverVars, flowVars, open, handles, remover, rxVars,
                   fateVars, armed, errCh, cleanVars>>

\* A look under the lock that found nothing fresh; the loop may go on.
NoIntentYet ==
    /\ gate.pc = "intent"
    /\ \A k \in {FullKey(gate.conn), RemoteKey(gate.conn)} : intents[k] # "fresh"
    /\ intents' = [j \in Keys |->
          IF j \in {FullKey(gate.conn), RemoteKey(gate.conn)} THEN "none"
          ELSE intents[j]]
    /\ gate' = [gate EXCEPT !.pc = "missed"]
    /\ UNCHANGED <<active, driverVars, flowVars, open, handles, remover, rxVars,
                   fateVars, armed, errCh, cleanVars>>

\* After the unlock: within the 8 ms it looks again, else the SYN is let go.
IntentDeadline ==
    /\ gate.pc = "missed"
    /\ gate' = [gate EXCEPT !.pc = "reinject"]
    /\ UNCHANGED <<active, intents, driverVars, flowVars, open, handles, remover,
                   rxVars, fateVars, armed, errCh, cleanVars>>

IntentRetry ==
    /\ gate.pc = "missed"
    /\ gate' = [gate EXCEPT !.pc = "intent"]
    /\ UNCHANGED <<active, intents, driverVars, flowVars, open, handles, remover,
                   rxVars, fateVars, armed, errCh, cleanVars>>

\* h.send(packet, &addr) of a SYN that found no intent.
GateReinject ==
    /\ gate.pc = "reinject"
    /\ \/ GateOpen /\ Reinject(gate.conn) /\ gate' = At("recv") /\ UNCHANGED errCh
       \/ ReinjectFails
    /\ UNCHANGED <<active, intents, driverVars, flowVars, open, handles, remover,
                   rxVars, armed, cleanVars>>

\* m.wd.open(filter, ...): the flow's own handle, not yet in the map.
GateOpensHandle ==
    /\ gate.pc = "install"
    /\ DriverLoaded
    /\ handles' = handles + 1
    /\ open' = open \cup {handles'}
    /\ gate' = [gate EXCEPT !.pc = "opened", !.handle = handles']
    /\ UNCHANGED <<active, intents, driverVars, flowVars, remover, rxVars,
                   fateVars, armed, errCh, cleanVars>>

\* Mutant: the gate stops without telling anyone.
GateInstallFailsSilently ==
    /\ gate.pc = "install"
    /\ gate' = At("stopped")
    /\ UNCHANGED <<active, intents, driverVars, flowVars, open, handles, remover,
                   rxVars, fateVars, armed, errCh, cleanVars>>

\* No interface, WinDivertOpen fails, or the driver has been released (a call
\* into the released DLL: whatever comes of it, no handle is opened).
GateInstallFails ==
    /\ gate.pc = "install"
    /\ gate' = At("stopped")
    /\ errCh' = TRUE
    /\ UNCHANGED <<active, intents, driverVars, flowVars, open, handles, remover,
                   rxVars, fateVars, armed, cleanVars>>

\* Under the lock: both maps.  An older flow with the same reverse key, from
\* another local address, loses its entry.  The flow was not in the map when
\* the gate looked and nobody else installs, so there is no old one.
GateInserts ==
    /\ gate.pc = "opened"
    /\ flows' = [flows EXCEPT ![gate.conn] = gate.handle]
    /\ reverse' = [reverse EXCEPT ![ReverseKey(gate.conn)] = gate.handle]
    /\ gate' = [gate EXCEPT !.pc = "tunnel"]
    /\ UNCHANGED <<active, intents, driverVars, open, handles, remover, rxVars,
                   fateVars, armed, errCh, cleanVars>>

\* Clamp, rewrite, encrypt, write: the write fails once the VPN is closed.
GateTunnels ==
    /\ gate.pc = "tunnel"
    /\ \/ /\ cleanup # "done"
          /\ tunneled' = tunneled \cup {gate.conn}
          /\ direct' = direct \ {gate.conn}
          /\ gate' = At("recv")
          /\ UNCHANGED errCh
       \/ /\ gate' = At("stopped")
          /\ errCh' = TRUE
          /\ UNCHANGED fateVars
    /\ UNCHANGED <<active, intents, driverVars, flowVars, open, handles, remover,
                   rxVars, armed, cleanVars>>

\* recv on the closed SYN handle: the goroutine returns.
GateStops ==
    /\ gate.pc = "recv"
    /\ ~GateOpen
    /\ gate' = At("stopped")
    /\ UNCHANGED <<active, intents, driverVars, flowVars, open, handles, remover,
                   rxVars, fateVars, armed, errCh, cleanVars>>

-----------------------------------------------------------------------------
(* removeFromEvent, in the flow monitor.                                   *)

\* Mutant: the reverse entry is left behind.
RemoveKeepsReverse(c) ==
    /\ c \in deletes
    /\ remover = 0
    /\ GateOpen
    /\ deletes' = deletes \ {c}
    /\ remover' = flows[c]
    /\ flows' = [flows EXCEPT ![c] = 0]
    /\ UNCHANGED <<active, intents, connects, events, syns, launched, gate, reverse, open,
                   handles, rxVars, fateVars, armed, errCh, cleanVars>>

\* Both entries go under the lock -- the reverse one by its key, whoever's it
\* is -- and the handle is closed after it.
RemoveFromEvent(c) ==
    /\ c \in deletes
    /\ remover = 0
    /\ GateOpen
    /\ deletes' = deletes \ {c}
    /\ remover' = flows[c]
    /\ flows' = [flows EXCEPT ![c] = 0]
    /\ reverse' = [reverse EXCEPT ![ReverseKey(c)] =
                      IF flows[c] # 0 THEN 0 ELSE @]
    /\ UNCHANGED <<active, intents, connects, events, syns, launched, gate, open, handles,
                   rxVars, fateVars, armed, errCh, cleanVars>>

RemoverCloses ==
    /\ remover # 0
    /\ open' = open \ {remover}
    /\ remover' = 0
    /\ UNCHANGED <<active, intents, driverVars, gate, flowVars, handles, rxVars,
                   fateVars, armed, errCh, cleanVars>>

-----------------------------------------------------------------------------
(* receiveVPN.                                                             *)

\* The top of the loop looks at the context, which cleanup cancels first.
RxAgain == [pc |-> IF cleanup = "no" THEN "recv" ELSE "stopped", handle |-> 0]

\* An answer arrives and is matched under the read lock; with no flow it is
\* dropped.  A receiver that was in Read when cleanup cancelled the context can
\* still take one, until the socket is closed.
RxMatch(k) ==
    /\ rx.pc = "recv"
    /\ cleanup # "done"
    /\ answers < MaxAnswers
    /\ answers' = answers + 1
    /\ rx' = IF reverse[k] = 0 THEN RxAgain
                               ELSE [pc |-> "inject", handle |-> reverse[k]]
    /\ UNCHANGED <<active, intents, driverVars, gate, flowVars, open, handles,
                   remover, fateVars, armed, errCh, cleanVars>>

\* f.handle.send: on a handle closed meanwhile it fails and is reported.  That a
\* read fails or finds the context done is WindowsSession's (RxStops).
RxInject ==
    /\ rx.pc = "inject"
    /\ IF rx.handle \in open
       THEN rx' = RxAgain /\ UNCHANGED errCh
       ELSE rx' = [pc |-> "stopped", handle |-> 0] /\ errCh' = TRUE
    /\ UNCHANGED <<active, intents, driverVars, gate, flowVars, open, handles,
                   remover, answers, fateVars, armed, cleanVars>>

-----------------------------------------------------------------------------
(* cleanup of cmdDiscordVPN: SESSION_ESTABLISHED, Discord's exit, an error *)
(* of the manager or the context; whichever comes first.                   *)

\* cancelRun(), then mgr.close() up to the unlock.
CleanupStarts ==
    /\ cleanup = "no"
    /\ cleanup' = "flows"
    /\ closing' = {flows[c] : c \in Conns} \ {0}
    /\ flows' = [c \in Conns |-> 0]
    /\ reverse' = [k \in ReverseKeys |-> 0]
    /\ UNCHANGED <<active, intents, driverVars, gate, open, handles, remover,
                   rxVars, fateVars, armed, errCh>>

CleanupClosesFlow(h) ==
    /\ h \in closing
    /\ open' = open \ {h}
    /\ closing' = closing \ {h}
    /\ UNCHANGED <<active, intents, driverVars, gate, flowVars, handles, remover,
                   rxVars, fateVars, armed, errCh, cleanup>>

\* flowH, socketH and synH are closed; SYNs they hold are lost with them.
CleanupClosesGate ==
    /\ cleanup = "flows"
    /\ closing = {}
    /\ cleanup' = "gate"
    /\ syns' = {} /\ events' = {} /\ deletes' = {}
    /\ UNCHANGED <<active, intents, connects, launched, gate, flowVars, open, handles,
                   remover, rxVars, fateVars, armed, errCh, closing>>

\* wd.Close() and vpn.Close().
CleanupReturns ==
    /\ cleanup = "gate"
    /\ cleanup' = "done"
    /\ UNCHANGED <<active, intents, driverVars, gate, flowVars, open, handles,
                   remover, rxVars, fateVars, armed, errCh, closing>>

-----------------------------------------------------------------------------
GateStep ==
    \/ \E c \in Conns : GateRecv(c)
    \/ \E k \in Keys : ConsumeTCPIntent(k)
    \/ NoIntentYet \/ IntentDeadline \/ GateReinject
    \/ GateOpensHandle \/ GateInstallFails \/ GateInserts \/ GateTunnels
    \/ GateStops

CleanupStep ==
    \/ \E h \in closing : CleanupClosesFlow(h)
    \/ CleanupClosesGate
    \/ CleanupReturns

Next ==
    \/ \E c \in Conns, b \in BOOLEAN : Connect(c, b)
    \/ \E c \in Conns : Disconnect(c) \/ RemoveFromEvent(c)
    \/ Activate
    \/ \E e \in events : MarkTCPIntent(e)
    \/ \E k \in Keys : Expire(k)
    \/ GateStep
    \/ IntentRetry
    \/ RemoverCloses
    \/ \E k \in ReverseKeys : RxMatch(k)
    \/ RxInject
    \/ CleanupStarts
    \/ CleanupStep

\* The gate, the remover and cleanup run when they can, and main's select takes
\* an error.  The gate's retries end after 8 ms: the deadline is strongly fair,
\* the retry is not fair at all.
Fairness ==
    /\ WF_vars(GateStep)
    /\ SF_vars(IntentDeadline)
    /\ WF_vars(CleanupStep)
    /\ WF_vars(RemoverCloses)
    /\ WF_vars(errCh /\ CleanupStarts)

Spec == Init /\ [][Next]_vars /\ Fairness

-----------------------------------------------------------------------------
Handles == Nat \ {0}
GatePCs == {"recv", "intent", "missed", "reinject", "install", "opened", "tunnel",
            "stopped"}
Gates == [pc : GatePCs, conn : Conns \cup {None}, handle : Handles \cup {0}]
Receivers == [pc : {"recv", "inject", "stopped"}, handle : Handles \cup {0}]

TypeOK ==
    /\ active \in BOOLEAN /\ errCh \in BOOLEAN
    /\ intents \in [Keys -> {"none", "fresh", "expired"}]
    /\ connects \in 0 .. MaxConnects /\ armed \in Nat
    /\ events \subseteq [conn : Conns, bound : BOOLEAN]
    /\ syns \subseteq Conns /\ deletes \subseteq Conns /\ launched \subseteq Conns
    /\ gate \in Gates
    /\ gate.pc \notin {"recv", "stopped"} => gate.conn # None
    /\ flows \in [Conns -> Handles \cup {0}]
    /\ reverse \in [ReverseKeys -> Handles \cup {0}]
    /\ open \subseteq Handles /\ handles \in Nat
    /\ remover \in Handles \cup {0}
    /\ rx \in Receivers
    /\ answers \in 0 .. MaxAnswers
    /\ direct \subseteq Conns /\ tunneled \subseteq Conns
    /\ cleanup \in {"no", "flows", "gate", "done"}
    /\ closing \subseteq Handles

\* A reverse entry names an installed flow with that key, even when two flows
\* of different local addresses share it: receiveVPN never takes a removed
\* flow from the map.
NoDanglingReverse ==
    \A k \in ReverseKeys :
        reverse[k] # 0 => \E c \in Conns : ReverseKey(c) = k /\ flows[c] = reverse[k]

\* An installed flow has an open handle: a handle is closed only after its
\* flow has left both maps.
InstalledIsOpen == \A c \in Conns : flows[c] # 0 => flows[c] \in open

\* An open flow handle is in the map or in the hands of exactly the goroutine
\* that will insert or close it: none is left capturing and forgotten.
NoHandleForgotten ==
    \A h \in open :
        \/ \E c \in Conns : flows[c] = h
        \/ gate.pc = "opened" /\ gate.handle = h
        \/ remover = h
        \/ h \in closing

\* The flow table, its reverse index and the open handles agree at every step
\* of the gate, the receiver, a removal and cleanup.
TablesAgree == NoDanglingReverse /\ InstalledIsOpen /\ NoHandleForgotten

\* One armed intent lets at most one connection into the tunnel.
OneFlowPerIntent == handles <= armed

\* No SYN is held for ever: the gate answers it, or stops; and a gate that
\* stopped, with every new connection of the machine in its queue, is closed.
NoSynIsHeld ==
    /\ \A c \in Conns : c \in syns ~> c \notin syns
    /\ gate.pc = "stopped" ~> cleanup = "done"

\* When cleanup has returned and the gate has nothing in hand, no flow is
\* intercepted any more.
CleanupEndsInterception ==
    (cleanup = "done" /\ gate.pc \in {"recv", "stopped"} /\ remover = 0) => open = {}

\* A connection Discord begins after the launch line is not let out directly
\* before the handoff.
FirstSynIsTunneled ==
    \A c \in launched : IsDiscord[c] /\ cleanup = "no" => c \notin direct

-----------------------------------------------------------------------------
(* The inductive invariant behind TablesAgree and OneFlowPerIntent.        *)

\* While the gate looks for an intent and opens a handle without the lock, the
\* connection it found without a flow stays without one.
NobodyElseInstalls ==
    gate.pc \in {"intent", "missed", "install", "opened"} => flows[gate.conn] = 0

\* A handle that is held outside the flow table is open.
HeldIsOpen ==
    /\ open \subseteq 1 .. handles
    /\ gate.pc = "opened" => gate.handle \in open
    /\ remover # 0 => remover \in open
    /\ closing \subseteq open

\* No handle has two holders, so none is closed under the other or twice.
OneHolder ==
    /\ \A c, d \in Conns : flows[c] # 0 /\ flows[c] = flows[d] => c = d
    /\ \A c \in Conns : flows[c] # 0 => flows[c] # remover /\ flows[c] \notin closing
    /\ remover # 0 => remover \notin closing
    /\ gate.pc = "opened" =>
          /\ gate.handle # remover /\ gate.handle \notin closing
          /\ \A c \in Conns : flows[c] # gate.handle

TablesInv ==
    /\ TablesAgree
    /\ NobodyElseInstalls /\ HeldIsOpen /\ OneHolder
    /\ cleanup = "no" => closing = {}

\* An armed intent is in the map, in the gate's hands, or has been spent on a
\* handle; or it has expired.
FreshIntents == {k \in Keys : intents[k] = "fresh"}
IntentsAddUp ==
    /\ IsFiniteSet(FreshIntents)
    /\ Cardinality(FreshIntents) + handles
          + (IF gate.pc = "install" THEN 1 ELSE 0) <= armed

IInv == TypeOK /\ TablesInv /\ IntentsAddUp
=============================================================================
