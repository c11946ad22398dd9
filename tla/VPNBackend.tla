----------------------------- MODULE VPNBackend -----------------------------
(***************************************************************************)
(* One VPN session with its isolated child process, from the call that     *)
(* starts it to the release of everything it holds.  Three functions       *)
(* follow this course and share its helpers (establishLiveVPN,             *)
(* recvFDWithChild, bridgeTunAndVPN); the variable flavour says which:     *)
(*                                                                         *)
(*   "proxy"  startLinuxVPNProxyBackend and linuxVPNProxyBackend.Close,    *)
(*            child vpnProxyChild;                                         *)
(*   "app"    runVPNApplication, child vpnAppChild;                        *)
(*   "probe"  cmdVPNTunProbe, child vpnTunChild.                           *)
(*                                                                         *)
(* The actors are the goroutine that runs the function, the child process, *)
(* the goroutine in child.Wait and the two goroutines of the bridge.  What *)
(* the proxy child does with dial requests is LinuxVPNDialer's subject,    *)
(* what the monitor of the proxy backend reports is LinuxBootstrap's.      *)
(***************************************************************************)
EXTENDS Integers, FiniteSets, Sequences

CONSTANTS Flavours,  \* the functions that start a session
          PidSpace   \* packet ids are taken modulo this (2^32 in the code)

ASSUME PidAssumption == PidSpace \in Nat /\ PidSpace > 1
ASSUME FlavourAssumption == Flavours \subseteq {"proxy", "app", "probe"}

VARIABLES flavour,
          pc,         \* where the function is
          todo,       \* the releases its exit path still has to make
          cancelled,  \* the caller's ctx is done
          expired,    \* fdCtx (for "probe" sessionCtx) has timed out
          udp,        \* the control connection's socket
          sock,       \* the parent's end of the socket pair
          tun,        \* the parent's copy of the TUN descriptor
          child,      \* the child process
          net,        \* the steps of the namespace's network it has made
          childDone,  \* the channel of that name: "none", "full", "taken"
          fdInFlight, \* the 'T' datagram is queued for the parent
          readySent,  \* the 'R' datagram is queued for the child
          stopBridge, \* cancelBridge has been called
          up, down,   \* the bridge's goroutines: TUN to UDP, UDP to TUN
          bridgeErr,  \* errors in the bridge's channel
          packetID,   \* last packet id used
          sent,       \* the ids, hence GCM nonces, of the packets sent
          toVPN       \* how many packets were sent

parentVars == <<flavour, pc, todo>>
ctxVars == <<cancelled, expired>>
childVars == <<child, net, childDone>>
sockVars == <<sock, fdInFlight, readySent>>
idVars == <<packetID, sent, toVPN>>
bridgeVars == <<stopBridge, up, down, bridgeErr, idVars>>
vars == <<parentVars, ctxVars, childVars, sockVars, bridgeVars, udp, tun>>

CtxDone == cancelled \/ (flavour = "probe" /\ expired)
BridgeDone == stopBridge \/ CtxDone        \* bridgeCtx is done
ErrCap == 2                                \* capacity of the bridge's errCh
Alive == child \notin {"none", "dead"}

Init ==
    /\ flavour \in Flavours
    /\ pc = "establish" /\ todo = <<>>
    /\ cancelled = FALSE /\ expired = FALSE
    /\ udp = "none" /\ sock = "none" /\ tun = "none"
    /\ child = "none" /\ net = <<>> /\ childDone = "none"
    /\ fdInFlight = FALSE /\ readySent = FALSE
    /\ stopBridge = FALSE /\ up = "off" /\ down = "off" /\ bridgeErr = 0
    /\ packetID = 0 /\ sent = {} /\ toVPN = 0

-----------------------------------------------------------------------------
(* The function, up to the point where the session is up.                  *)

\* Return along a path that still makes the releases rs, deferred ones
\* included, in this order.
Exit(rs) == pc' = "exit" /\ todo' = rs

\* establishLiveVPN fails before or after it has a socket, which it closes.
Establish ==
    /\ pc = "establish"
    /\ \/ pc' = "launch" /\ udp' = "open" /\ UNCHANGED todo
       \/ Exit(<<>>) /\ UNCHANGED udp
       \/ Exit(<<"udp">>) /\ udp' = "open"
    /\ UNCHANGED <<flavour, ctxVars, childVars, sockVars, bridgeVars, tun>>

\* The netmask is refused or the child cannot be started; or it runs.
Launch ==
    /\ pc = "launch"
    /\ \/ Exit(<<"udp">>) /\ UNCHANGED <<sock, child>>
       \/ pc' = "poll" /\ sock' = "open" /\ child' = "setup" /\ UNCHANGED todo
    /\ UNCHANGED <<flavour, ctxVars, net, childDone, fdInFlight, readySent,
                   bridgeVars, udp, tun>>

RecvFailed == <<"kill", "sock", "udp">>

\* Mutant: the child is told to start as soon as its descriptor is here.
PollSignals ==
    /\ pc = "poll"
    /\ \/ /\ fdInFlight
          /\ pc' = "bridge" /\ tun' = "open" /\ fdInFlight' = FALSE /\ readySent' = Alive
          /\ UNCHANGED todo
       \/ ~fdInFlight /\ pc' = "wait" /\ UNCHANGED <<tun, fdInFlight, readySent, todo>>
       \/ Exit(RecvFailed) /\ UNCHANGED <<tun, fdInFlight, readySent>>
    /\ UNCHANGED <<flavour, ctxVars, childVars, sock, bridgeVars, udp>>

\* recvFDWithChild: a receive that does not wait: the descriptor, nothing yet,
\* or an error (the socket's, or what a closed end gives instead of the marker)
Poll ==
    /\ pc = "poll"
    /\ \/ /\ fdInFlight
          /\ pc' = "bridge" /\ tun' = "open" /\ fdInFlight' = FALSE
          /\ UNCHANGED todo
       \/ ~fdInFlight /\ pc' = "wait" /\ UNCHANGED <<tun, fdInFlight, todo>>
       \/ Exit(RecvFailed) /\ UNCHANGED <<tun, fdInFlight>>
    /\ UNCHANGED <<flavour, ctxVars, childVars, sock, readySent, bridgeVars, udp>>

\* ... and a select: the child has ended,
WaitChild ==
    /\ pc = "wait"
    /\ childDone = "full"
    /\ childDone' = "taken"
    /\ Exit(RecvFailed)
    /\ UNCHANGED <<flavour, ctxVars, child, net, sockVars, bridgeVars, udp, tun>>

\* Mutant: no deadline for the descriptor.
WaitDeadlineNever ==
    /\ pc = "wait"
    /\ cancelled
    /\ Exit(RecvFailed)
    /\ UNCHANGED <<flavour, ctxVars, childVars, sockVars, bridgeVars, udp, tun>>

\* the deadline has passed or the caller gave up,
WaitDeadline ==
    /\ pc = "wait"
    /\ expired \/ cancelled
    /\ Exit(RecvFailed)
    /\ UNCHANGED <<flavour, ctxVars, childVars, sockVars, bridgeVars, udp, tun>>

\* or 10 ms have: that timer is new in each round, the context's is not.
WaitTick ==
    /\ pc = "wait"
    /\ ~expired /\ ~cancelled
    /\ pc' = "poll"
    /\ UNCHANGED <<flavour, todo, ctxVars, childVars, sockVars, bridgeVars, udp,
                   tun>>

\* bridgeTunAndVPN starts its two goroutines.
StartBridge ==
    /\ pc = "bridge"
    /\ up' = "check" /\ down' = "check"
    /\ pc' = IF flavour = "probe" THEN "select" ELSE "signal"
    /\ UNCHANGED <<flavour, todo, ctxVars, childVars, sockVars, stopBridge,
                   bridgeErr, idVars, udp, tun>>

\* Mutant: the exit path of a failed signal forgets the TUN descriptor.
SignalReadyLeaks ==
    /\ pc = "signal"
    /\ IF Alive
       THEN /\ readySent' = TRUE
            /\ pc' = IF flavour = "app" THEN "select" ELSE "blocking"
            /\ UNCHANGED todo
       ELSE /\ Exit(<<"cancel", "kill", "sock", "udp">>)
            /\ UNCHANGED readySent
    /\ UNCHANGED <<flavour, ctxVars, childVars, sock, fdInFlight, bridgeVars,
                   udp, tun>>

\* signalVPNReady: the datagram is refused when the child's end is closed.
SignalReady ==
    /\ pc = "signal"
    /\ IF Alive
       THEN /\ readySent' = TRUE
            /\ pc' = IF flavour = "app" THEN "select" ELSE "blocking"
            /\ UNCHANGED todo
       ELSE /\ Exit(IF flavour = "app"
                    THEN <<"cancel", "kill", "tun", "sock", "udp">>
                    ELSE <<"cancel", "tun", "kill", "sock", "udp">>)
            /\ UNCHANGED readySent
    /\ UNCHANGED <<flavour, ctxVars, childVars, sock, fdInFlight, bridgeVars,
                   udp, tun>>

\* The proxy's dialer wants the socket blocking again.
MakeBlocking ==
    /\ pc = "blocking"
    /\ \/ pc' = "up" /\ UNCHANGED todo
       \/ Exit(<<"cancel", "tun", "kill", "sock", "udp">>)
    /\ UNCHANGED <<flavour, ctxVars, childVars, sockVars, bridgeVars, udp, tun>>

-----------------------------------------------------------------------------
(* The end of a session.                                                   *)

\* linuxVPNProxyBackend.Close, whenever its owner calls it; the dialer's
\* Close is what closes the socket.
Close ==
    /\ pc = "up"
    /\ Exit(<<"sock", "cancel", "tun", "kill", "udp">>)
    /\ UNCHANGED <<flavour, ctxVars, childVars, sockVars, bridgeVars, udp, tun>>

\* The select of runVPNApplication and cmdVPNTunProbe.
Deferred == <<"tun", "sock", "udp">>
KillChild == IF flavour = "probe" THEN <<"cancel", "kill", "reap">>
                                  ELSE <<"cancel", "kill">>

SelectChild ==
    /\ pc = "select"
    /\ childDone = "full"
    /\ childDone' = "taken"
    /\ Exit(<<"cancel">> \o Deferred)
    /\ UNCHANGED <<flavour, ctxVars, child, net, sockVars, bridgeVars, udp, tun>>

SelectBridge ==
    /\ pc = "select"
    /\ bridgeErr > 0
    /\ bridgeErr' = bridgeErr - 1
    /\ Exit(KillChild \o Deferred)
    /\ UNCHANGED <<flavour, ctxVars, childVars, sockVars, stopBridge, up, down,
                   idVars, udp, tun>>

SelectDone ==
    /\ pc = "select"
    /\ CtxDone
    /\ Exit(KillChild \o Deferred)
    /\ UNCHANGED <<flavour, ctxVars, childVars, sockVars, bridgeVars, udp, tun>>

\* The next release.  Closing the parent's end of the socket pair discards a
\* descriptor that is still queued there.
Release ==
    /\ pc = "exit" /\ todo # <<>>
    /\ LET r == Head(todo)
       IN  /\ stopBridge' = (stopBridge \/ r = "cancel")
           /\ tun' = IF r = "tun" THEN "closed" ELSE tun
           /\ child' = IF r = "kill" THEN "dead" ELSE child
           /\ r = "reap" => childDone = "full"
           /\ childDone' = IF r = "reap" THEN "taken" ELSE childDone
           /\ sock' = IF r = "sock" THEN "closed" ELSE sock
           /\ fdInFlight' = (fdInFlight /\ r # "sock")
           /\ udp' = IF r = "udp" THEN "closed" ELSE udp
    /\ todo' = Tail(todo)
    /\ UNCHANGED <<flavour, pc, ctxVars, net, readySent, up, down, bridgeErr, idVars>>

Return ==
    /\ pc = "exit" /\ todo = <<>>
    /\ pc' = "done"
    /\ UNCHANGED <<flavour, todo, ctxVars, childVars, sockVars, bridgeVars, udp,
                   tun>>

-----------------------------------------------------------------------------
(* The child process and the goroutine that waits for it.                  *)

\* createTUN, configureTUNIPv4 and, in the children that serve, startDNSProxy.
NetworkSetup == <<"tun", "link", "mtu", "address", "route">>
DNSSetup == <<"loopback", "dnsUDP", "dnsTCP">>
ChildSetup == IF flavour = "probe" THEN NetworkSetup ELSE NetworkSetup \o DNSSetup

\* One of these, which may also fail (ChildDies).
ChildConfigures ==
    /\ child = "setup" /\ net # ChildSetup
    /\ net' = Append(net, ChildSetup[Len(net) + 1])
    /\ UNCHANGED <<parentVars, ctxVars, child, childDone, sockVars, bridgeVars, udp,
                   tun>>

\* The descriptor is sent, unless nobody holds the other end any more.
ChildSends ==
    /\ child = "setup" /\ net = ChildSetup
    /\ IF sock = "open"
       THEN /\ fdInFlight' = TRUE
            /\ child' = IF flavour = "probe" THEN "serving" ELSE "await"
       ELSE child' = "dead" /\ UNCHANGED fdInFlight
    /\ UNCHANGED <<parentVars, ctxVars, net, childDone, sock, readySent, bridgeVars,
                   udp, tun>>

\* waitVPNReady
ChildReady ==
    /\ child = "await"
    /\ readySent
    /\ readySent' = FALSE
    /\ child' = "serving"
    /\ UNCHANGED <<parentVars, ctxVars, net, childDone, sock, fdInFlight, bridgeVars,
                   udp, tun>>

\* A step of it fails, it has finished, or it is killed from outside.
ChildDies ==
    /\ Alive
    /\ child' = "dead"
    /\ readySent' = FALSE
    /\ UNCHANGED <<parentVars, ctxVars, net, childDone, sock, fdInFlight, bridgeVars,
                   udp, tun>>

\* Mutant: a channel without a place holds the waiting goroutine up.
ReapUnbuffered ==
    /\ child = "dead" /\ childDone = "none"
    /\ pc \in {"wait", "select"} \/ (todo # <<>> /\ Head(todo) = "reap")
    /\ childDone' = "full"
    /\ UNCHANGED <<parentVars, ctxVars, child, net, sockVars, bridgeVars, udp, tun>>

\* childDone <- child.Wait()
Reap ==
    /\ child = "dead" /\ childDone = "none"
    /\ childDone' = "full"
    /\ UNCHANGED <<parentVars, ctxVars, child, net, sockVars, bridgeVars, udp, tun>>

-----------------------------------------------------------------------------
(* The bridge: TUN to UDP.                                                 *)

UpEnds == up' = "done" /\ bridgeErr' = bridgeErr + 1

\* Mutant: id 0 is sent like any other.
SendPayloadAnyID(next) ==
    /\ packetID' = (packetID + 1) % PidSpace
    /\ \/ /\ udp = "open"
          /\ sent' = sent \cup {packetID'}
          /\ toVPN' = toVPN + 1
          /\ up' = next /\ UNCHANGED bridgeErr
       \/ UpEnds /\ UNCHANGED <<sent, toVPN>>

\* sendPayload: the id advances even when nothing is sent; encryptDataV2
\* refuses id 0; the write fails on a closed socket and may fail on an open one.
SendPayload(next) ==
    /\ packetID' = (packetID + 1) % PidSpace
    /\ \/ /\ packetID' # 0 /\ udp = "open"
          /\ sent' = sent \cup {packetID'}
          /\ toVPN' = toVPN + 1
          /\ up' = next /\ UNCHANGED bridgeErr
       \/ UpEnds /\ UNCHANGED <<sent, toVPN>>

UpCheck ==
    /\ up = "check"
    /\ IF BridgeDone THEN UpEnds ELSE up' = "io" /\ UNCHANGED bridgeErr
    /\ UNCHANGED <<parentVars, ctxVars, childVars, sockVars, stopBridge, down,
                   idVars, udp, tun>>

\* Nothing was sent for ten seconds.
UpPing ==
    /\ up = "check" /\ ~BridgeDone
    /\ SendPayload("io")
    /\ UNCHANGED <<parentVars, ctxVars, childVars, sockVars, stopBridge, down,
                   udp, tun>>

\* The TUN read: nothing there; a packet; or an error, which a closed
\* descriptor always gives and a device whose namespace is gone may give.
UpRead ==
    /\ up = "io"
    /\ \/ tun = "open" /\ up' = "check" /\ UNCHANGED <<bridgeErr, idVars>>
       \/ tun = "open" /\ SendPayload("check")
       \/ (tun = "closed" \/ ~Alive) /\ UpEnds /\ UNCHANGED idVars
    /\ UNCHANGED <<parentVars, ctxVars, childVars, sockVars, stopBridge, down,
                   udp, tun>>

-----------------------------------------------------------------------------
(* The bridge: UDP to TUN.                                                 *)

DownEnds == down' = "done" /\ bridgeErr' = bridgeErr + 1

DownCheck ==
    /\ down = "check"
    /\ IF BridgeDone THEN DownEnds ELSE down' = "io" /\ UNCHANGED bridgeErr
    /\ UNCHANGED <<parentVars, ctxVars, childVars, sockVars, stopBridge, up,
                   idVars, udp, tun>>

\* The UDP read: 300 ms without a packet or one that is ignored; one written
\* to the TUN; or an error of either.
DownRead ==
    /\ down = "io"
    /\ \/ udp = "open" /\ down' = "check" /\ UNCHANGED bridgeErr
       \/ DownEnds
    /\ UNCHANGED <<parentVars, ctxVars, childVars, sockVars, stopBridge, up,
                   idVars, udp, tun>>

-----------------------------------------------------------------------------
Cancel ==
    /\ ~cancelled /\ pc # "done"
    /\ cancelled' = TRUE
    /\ UNCHANGED <<parentVars, expired, childVars, sockVars, bridgeVars, udp,
                   tun>>

\* The 8 s for the descriptor, or the probe's overall timeout, are over.
Expire ==
    /\ ~expired
    /\ pc \in {"poll", "wait"} \/ (flavour = "probe" /\ pc # "done")
    /\ expired' = TRUE
    /\ UNCHANGED <<parentVars, cancelled, childVars, sockVars, bridgeVars, udp,
                   tun>>

StartStep ==
    \/ Establish \/ Launch
    \/ Poll \/ WaitChild \/ WaitDeadline \/ WaitTick
    \/ StartBridge \/ SignalReady \/ MakeBlocking

EndStep == SelectChild \/ SelectBridge \/ SelectDone \/ Release \/ Return

ChildStep == ChildConfigures \/ ChildSends \/ ChildReady \/ ChildDies

UpStep == UpCheck \/ UpPing \/ UpRead
DownStep == DownCheck \/ DownRead

Next ==
    \/ StartStep \/ EndStep \/ Close
    \/ ChildStep \/ Reap
    \/ UpStep \/ DownStep
    \/ Cancel \/ Expire

\* Goroutines that can run do, a timer that is set fires, and establishLiveVPN
\* runs under setupCtx and a 15 s deadline.  The child owes nothing, and nor
\* does the owner of a proxy backend.
Fairness ==
    /\ WF_vars(StartStep \/ EndStep)
    /\ WF_vars(Reap)
    /\ WF_vars(UpStep) /\ WF_vars(DownStep)
    /\ WF_vars(Expire)

Spec == Init /\ [][Next]_vars /\ Fairness

-----------------------------------------------------------------------------
Releases == {"cancel", "tun", "kill", "reap", "sock", "udp"}
Handle == {"none", "open", "closed"}
SetupSteps == {"tun", "link", "mtu", "address", "route", "loopback", "dnsUDP", "dnsTCP"}

TypeOK ==
    /\ flavour \in Flavours
    /\ pc \in {"establish", "launch", "poll", "wait", "bridge", "signal",
               "blocking", "up", "select", "exit", "done"}
    /\ todo \in Seq(Releases)
    /\ cancelled \in BOOLEAN /\ expired \in BOOLEAN
    /\ udp \in Handle /\ sock \in Handle /\ tun \in Handle
    /\ child \in {"none", "setup", "await", "serving", "dead"}
    /\ net \in Seq(SetupSteps)
    /\ childDone \in {"none", "full", "taken"}
    /\ fdInFlight \in BOOLEAN /\ readySent \in BOOLEAN
    /\ stopBridge \in BOOLEAN
    /\ up \in {"off", "check", "io", "done"}
    /\ down \in {"off", "check", "io", "done"}
    /\ bridgeErr \in 0 .. ErrCap
    /\ packetID \in 0 .. PidSpace - 1
    /\ sent \subseteq 0 .. PidSpace - 1
    /\ toVPN \in Nat

\* The proxy child dials, and the application starts, only after the bridge
\* carries their packets: the order bridgeTunAndVPN, signalVPNReady,
\* waitVPNReady across two processes.  And nothing of the namespace is bridged
\* before its one route leads into the tunnel and its resolver listens.
ServedOnlyBridged ==
    /\ (flavour # "probe" /\ child = "serving") => up # "off" /\ down # "off"
    /\ up # "off" => net = ChildSetup

\* No two packets are encrypted under one GCM nonce, however long the session
\* lasts: sendPayload's counter wraps to 0, and that ends the goroutine.
NonceNeverRepeats == Cardinality(sent) = toVPN

\* Whatever failed, and whenever: once the function has returned, or Close
\* has, the socket, the pair's end and the TUN descriptor are released, none
\* is left in a queue, and the child has ended or was killed.
NothingLeaks ==
    pc = "done" => /\ "open" \notin {udp, sock, tun}
                   /\ ~fdInFlight
                   /\ ~Alive

\* Starting a session ends, even with a child that never answers.
StartReturns == pc = "establish" ~> pc \in {"up", "select", "done"}

\* After the return nothing of the session runs on: the bridge's goroutines
\* end and the child is reaped.
EverythingStops ==
    pc = "done" ~> /\ child = "none" \/ childDone # "none"
                   /\ {up, down} \subseteq {"off", "done"}

-----------------------------------------------------------------------------
(* The inductive invariant behind the three safety properties.             *)

\* The child makes the steps of its setup in order.
SetupInOrder ==
    /\ Len(net) <= Len(ChildSetup)
    /\ \A i \in 1 .. Len(net) : net[i] = ChildSetup[i]

\* The bridge's channel has room for both errors.
ErrorsFit ==
    /\ up # "done" /\ down # "done" => bridgeErr = 0
    /\ up # "done" \/ down # "done" => bridgeErr <= 1

\* There is no bridge before the descriptor is here.
NotYetBridged ==
    pc \in {"establish", "launch", "poll", "wait", "bridge"} => up = "off" /\ down = "off"

\* Descriptor, bridge, ready signal, in this order: each tells of what the
\* other process had done before.
BridgeInOrder ==
    /\ up = "off" <=> down = "off"
    /\ readySent \/ pc = "signal" => up # "off"
    /\ flavour # "probe" /\ child = "serving" => up # "off"
    /\ fdInFlight \/ pc = "bridge" \/ up # "off" => net = ChildSetup

\* While the goroutine can still send, it has used no id beyond its counter.
IdsAreSpent ==
    /\ IsFiniteSet(sent) /\ NonceNeverRepeats
    /\ up # "done" => sent \subseteq 1 .. packetID

\* On the way out, what is still held is still to be released.
Holds(s, r) == \E i \in 1 .. Len(s) : s[i] = r

ToBeReleased ==
    /\ udp = "open" => Holds(todo, "udp")
    /\ sock = "open" => Holds(todo, "sock")
    /\ tun = "open" => Holds(todo, "tun")
    /\ Alive => Holds(todo, "kill")

HeldInOrder ==
    /\ childDone # "none" => child = "dead"
    /\ fdInFlight => sock = "open"
    /\ pc = "establish" => udp = "none"
    /\ pc \in {"establish", "launch"} => sock = "none" /\ child = "none"
    /\ pc \in {"establish", "launch", "poll", "wait"} => tun = "none"
    /\ pc \in {"exit", "done"} => ToBeReleased
    /\ pc = "done" => todo = <<>>

IInv == /\ TypeOK /\ SetupInOrder /\ ErrorsFit /\ NotYetBridged
        /\ BridgeInOrder /\ IdsAreSpent /\ HeldInOrder
=============================================================================
