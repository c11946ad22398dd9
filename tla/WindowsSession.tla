--------------------------- MODULE WindowsSession ---------------------------
(***************************************************************************)
(* cmdDiscordVPN of windows_discord.go: the start of a session, step by    *)
(* step with the releases of each failure, the select that ends it, and    *)
(* the goroutines that share its VPN connection:                           *)
(*                                                                         *)
(*   main, with the cleanup it calls once                                  *)
(*   "gate", "capture"  send Discord's packets (captureInitialTCPSYN,      *)
(*                      captureFlow, both through sendPacketToVPN)         *)
(*   "keepalive"        sends a ping now and then                          *)
(*   the receiver       injects the answers (receiveVPN)                   *)
(*   a log reader       looks for the session line (streamDiscordOutput)   *)
(*   the console        may be closed at any time (platform_windows.go)    *)
(*                                                                         *)
(* Which SYN belongs to a flow and the flow table are WindowsFlowManager's *)
(* subject; here the flows are those of the constant Flows, open from the  *)
(* start of the goroutines until cleanup takes the flow table.  A flow the *)
(* gate installs while or after cleanup takes it is not among them: the    *)
(* handle and the captureFlow goroutine it leaves behind are shown there   *)
(* (CleanupEndsInterception).  main is called with the background context, *)
(* whose Done never fires.                                                 *)
(***************************************************************************)
EXTENDS PacketNAT

CONSTANTS Flows,      \* installed flows: [local, lport, remote, rport]
          Outgoing,   \* what Discord may send: [packet, list], list its options
          Incoming,   \* what the VPN may deliver, likewise
          VPNAddress, \* m.vpn.Session.IPv4
          MaxMSS,     \* 1180 in the code
          PidSpace,   \* packet ids are taken modulo this, 2^32 in the code
          MaxPackets  \* bound on packets sent

ASSUME SessionAssumption ==
    /\ PidSpace \in Nat /\ PidSpace > 1
    /\ MaxPackets \in Nat /\ MaxMSS \in Nat /\ MaxMSS < 65536

ASSUME FlowAssumption ==
    \A f \in Flows :
        f = [local |-> f.local, lport |-> f.lport, remote |-> f.remote, rport |-> f.rport]

ASSUME PacketAssumption ==
    \A i \in Outgoing \cup Incoming :
        /\ IsPacket(i.packet)
        /\ OptionList(i.list) /\ i.packet.opts = Encoded(i.list)

Senders == {"gate", "capture", "keepalive"}
Nothing == [packet |-> NoPacket, list |-> <<>>]

VARIABLES pc,         \* "start", "select", "exit", "returned", "killed"
          todo,       \* what main has still to do on its way
          held,       \* what has been opened and not closed
          runDone,    \* cancelRun has been called
          discord,    \* the process that was started
          hook,       \* the console's close handler: "no", "yes", "removed"
          ready,      \* the channel of that name
          established,\* the session line has been read
          errCh,      \* m.errCh holds an error
          packetID,   \* m.packetID
          turn,       \* times it was advanced
          sender,     \* per sender: [pc, id, turn, carries, packet, sealed]
          wire,       \* turn, id and sealing of each packet written
          rx          \* the receiver: [pc, carries, packet]

mainVars == <<pc, todo, held, runDone, hook>>
logVars == <<ready, established>>
idVars == <<packetID, turn>>
sendVars == <<idVars, sender, wire>>
vars == <<mainVars, discord, logVars, errCh, sendVars, rx>>

Course == <<"elevate", "path", "stop", "vpn", "wd", "flowH", "socketH", "synH",
            "spawn", "discord", "hook", "readers", "select">>

Idle(l) == [pc |-> l, id |-> 0, turn |-> 0,
            carries |-> Nothing, packet |-> NoPacket, sealed |-> "no"]
RxIdle(l) == [pc |-> l, carries |-> Nothing, packet |-> NoPacket]

Init ==
    /\ pc = "start" /\ todo = Course /\ held = {} /\ runDone = FALSE /\ hook = "no"
    /\ discord = "off"
    /\ ready = FALSE /\ established = FALSE /\ errCh = FALSE
    /\ packetID = 0 /\ turn = 0 /\ wire = {}
    /\ sender = [s \in Senders |-> Idle("off")]
    /\ rx = RxIdle("off")

-----------------------------------------------------------------------------
(* main.                                                                   *)

\* Mutant: the keys are erased while the socket is still open.
VPNCloseErasesFirst == <<{"keys"}, {"udp"}>>

\* liveVPN.Close
VPNClose == <<{"udp"}, {"keys"}>>

\* cleanup; a second call does nothing.  The three event handles and the
\* library, whose order shows in no other goroutine here, go in one step.
Cleanup == <<{"cancel"}, {"flows"}, {"flowH", "socketH", "synH", "wd"}>> \o VPNClose

\* Mutant: a Discord that cannot be watched over is left running.
FailPathLeaves(step) ==
    CASE step = "wd" -> VPNClose
      [] step = "flowH" -> <<{"wd"}>> \o VPNClose
      [] step = "socketH" -> <<{"flowH", "wd"}>> \o VPNClose
      [] step = "synH" -> <<{"socketH", "flowH", "wd"}>> \o VPNClose
      [] step \in {"discord", "hook"} -> Cleanup
      [] OTHER -> <<>>

\* The releases of the return from each step of the start that fails.
FailPath(step) ==
    CASE step = "wd" -> VPNClose
      [] step = "flowH" -> <<{"wd"}>> \o VPNClose
      [] step = "socketH" -> <<{"flowH", "wd"}>> \o VPNClose
      [] step = "synH" -> <<{"socketH", "flowH", "wd"}>> \o VPNClose
      [] step = "discord" -> Cleanup
      [] step = "hook" -> <<{"kill"}>> \o Cleanup
      [] OTHER -> <<>>

MayFail == {"elevate", "path", "vpn", "wd", "flowH", "socketH", "synH", "discord",
            "hook"}

StartFails ==
    /\ pc = "start" /\ todo # <<>> /\ Head(todo) \in MayFail
    /\ pc' = "exit"
    /\ todo' = FailPath(Head(todo))
    /\ UNCHANGED <<held, runDone, hook, discord, logVars, errCh, sendVars, rx>>

\* "flows" are the handles in the flow table when cleanup takes it.
Opened(step) == CASE step = "vpn" -> {"udp", "keys"}
                  [] step \in {"wd", "flowH", "socketH", "synH"} -> {step}
                  [] step = "spawn" -> {"flows"}
                  [] OTHER -> {}

\* The five goroutines start at "spawn", the readers just before the select.
StartStep ==
    /\ pc = "start" /\ todo # <<>>
    /\ LET step == Head(todo)
       IN  /\ held' = held \cup Opened(step)
           /\ discord' = IF step = "discord" THEN "running" ELSE discord
           /\ hook' = IF step = "hook" THEN "yes" ELSE hook
           /\ sender' = [s \in Senders |-> IF step = "spawn" THEN Idle("recv")
                                                            ELSE sender[s]]
           /\ rx' = IF step = "spawn" THEN RxIdle("recv") ELSE rx
    /\ todo' = Tail(todo)
    /\ pc' = IF todo' = <<>> THEN "select" ELSE "start"
    /\ UNCHANGED <<runDone, logVars, errCh, idVars, wire>>

\* The process was relaunched with administrator's rights: this one returns.
Relaunched ==
    /\ pc = "start" /\ todo = Course
    /\ pc' = "exit" /\ todo' = <<>>
    /\ UNCHANGED <<held, runDone, hook, discord, logVars, errCh, sendVars, rx>>

\* The select: Discord's end, the session line or an error of the manager.
SelectDone ==
    /\ pc = "select" /\ discord = "exited"
    /\ pc' = "exit" /\ todo' = Cleanup \o <<{"unhook"}>>
    /\ UNCHANGED <<held, runDone, hook, discord, logVars, errCh, sendVars, rx>>

SelectReady ==
    /\ pc = "select" /\ ready
    /\ ready' = FALSE
    /\ pc' = "exit" /\ todo' = Cleanup \o <<{"wait"}, {"unhook"}>>
    /\ UNCHANGED <<held, runDone, hook, discord, established, errCh, sendVars, rx>>

SelectErr ==
    /\ pc = "select" /\ errCh
    /\ errCh' = FALSE
    /\ pc' = "exit" /\ todo' = Cleanup \o <<{"kill"}, {"unhook"}>>
    /\ UNCHANGED <<held, runDone, hook, discord, logVars, sendVars, rx>>

\* "wait" is <-done.
Release ==
    /\ pc = "exit" /\ todo # <<>>
    /\ LET r == Head(todo)
       IN  /\ "wait" \in r => discord = "exited"
           /\ held' = held \ r
           /\ runDone' = (runDone \/ "cancel" \in r)
           /\ discord' = IF "kill" \in r THEN "exited" ELSE discord
           /\ hook' = IF "unhook" \in r THEN "removed" ELSE hook
    /\ todo' = Tail(todo)
    /\ UNCHANGED <<pc, logVars, errCh, sendVars, rx>>

Return ==
    /\ pc = "exit" /\ todo = <<>>
    /\ pc' = "returned"
    /\ UNCHANGED <<todo, held, runDone, hook, discord, logVars, errCh, sendVars,
                   rx>>

-----------------------------------------------------------------------------
(* Discord, the log reader and the console.                                *)

Running == pc \notin {"returned", "killed"}

DiscordExits ==
    /\ discord = "running" /\ Running
    /\ discord' = "exited"
    /\ UNCHANGED <<mainVars, logVars, errCh, sendVars, rx>>

\* The readers are started just before main gets to the select.
ReadersRun == Running /\ hook # "no" /\ (pc = "start" => todo = <<"select">>)

\* Mutant: a channel without a place loses the line when nobody waits yet.
SessionLineUnbuffered ==
    /\ ReadersRun
    /\ ~established
    /\ established' = TRUE
    /\ ready' = (pc = "select")
    /\ UNCHANGED <<mainVars, discord, errCh, sendVars, rx>>

\* streamDiscordOutput meets the session line; the channel has one place.
SessionLine ==
    /\ ReadersRun
    /\ ~established
    /\ established' = TRUE
    /\ ready' = TRUE
    /\ UNCHANGED <<mainVars, discord, errCh, sendVars, rx>>

\* The handler, if it is installed, terminates Discord; then Windows ends the
\* process, and the system closes what it held.
ConsoleClosed ==
    /\ Running
    /\ pc' = "killed"
    /\ held' = {}
    /\ discord' = IF hook = "yes" THEN "exited" ELSE discord
    /\ sender' = [s \in Senders |-> Idle("stopped")]
    /\ rx' = RxIdle("stopped")
    /\ UNCHANGED <<todo, runDone, hook, logVars, errCh, idVars, wire>>

-----------------------------------------------------------------------------
(* The senders.                                                            *)

Alive == pc # "killed"
Source(s) == IF s = "gate" THEN "synH" ELSE "flows"    \* the handle it reads

\* What leaves in place of a captured packet.
Carried == [o \in Outgoing |-> rewriteIPv4Source(clampTCPMSS(o.packet, MaxMSS), VPNAddress)]

\* What a sender has in hand once it has a packet, an id for it, and has sealed it.
WithPacket(hand, o) ==
    [hand EXCEPT !.pc = "add", !.carries = o, !.packet = Carried[o]]
WithId(hand, i, t) ==
    [hand EXCEPT !.id = i, !.turn = t,
                 !.pc = IF i = 0 /\ @ = "add" THEN "again" ELSE "seal"]
WithSeal(hand, how) == [hand EXCEPT !.pc = "write", !.sealed = how]

\* A packet of a flow, or the ticker of keepalive.
Take(s) ==
    /\ Alive /\ sender[s].pc = "recv"
    /\ turn + Cardinality({t \in Senders : sender[t].pc = "add"}) < MaxPackets
    /\ IF s = "keepalive"
       THEN /\ ~runDone
            /\ sender' = [sender EXCEPT ![s] = Idle("add")]
       ELSE /\ Source(s) \in held
            /\ \E o \in Outgoing :
                  /\ FlowOf(o.packet) \in Flows
                  /\ s = "gate" => o.packet.syn
                  /\ sender' = [sender EXCEPT ![s] = WithPacket(@, o)]
    /\ UNCHANGED <<mainVars, discord, logVars, errCh, idVars, wire, rx>>

\* atomic.AddUint32, a second time when the first gave 0.
Advance(s) ==
    /\ Alive /\ sender[s].pc \in {"add", "again"}
    /\ packetID' = (packetID + 1) % PidSpace
    /\ turn' = turn + 1
    /\ sender' = [sender EXCEPT ![s] = WithId(@, packetID', turn')]
    /\ UNCHANGED <<mainVars, discord, logVars, errCh, wire, rx>>

\* An error ends the goroutine and is reported; keepalive goes on.
SendFails(s) ==
    IF s = "keepalive"
    THEN sender' = [sender EXCEPT ![s] = Idle("recv")] /\ UNCHANGED errCh
    ELSE sender' = [sender EXCEPT ![s] = Idle("stopped")] /\ errCh' = TRUE

\* encryptDataV2 refuses id 0; it reads m.vpn.Keys as they are.
Seal(s) ==
    /\ Alive /\ sender[s].pc = "seal"
    /\ IF sender[s].id = 0 THEN SendFails(s)
       ELSE /\ sender' = [sender EXCEPT ![s] =
                             WithSeal(@, IF "keys" \in held THEN "whole" ELSE "erased")]
            /\ UNCHANGED errCh
    /\ UNCHANGED <<mainVars, discord, logVars, idVars, wire, rx>>

Write(s) ==
    /\ Alive /\ sender[s].pc = "write"
    /\ \/ /\ "udp" \in held
          /\ wire' = wire \cup {<<sender[s].turn, sender[s].id, sender[s].sealed>>}
          /\ sender' = [sender EXCEPT ![s] = Idle("recv")]
          /\ UNCHANGED errCh
       \/ SendFails(s) /\ UNCHANGED wire
    /\ UNCHANGED <<mainVars, discord, logVars, idVars, rx>>

\* recv on a closed handle, or the done context of keepalive.
SenderStops(s) ==
    /\ Alive /\ sender[s].pc = "recv"
    /\ IF s = "keepalive" THEN runDone ELSE Source(s) \notin held
    /\ sender' = [sender EXCEPT ![s] = Idle("stopped")]
    /\ UNCHANGED <<mainVars, discord, logVars, errCh, idVars, wire, rx>>

-----------------------------------------------------------------------------
(* receiveVPN.                                                             *)

\* The flow's address is put in, then the MSS is limited.
Delivered == [x \in Incoming \X Flows |->
                clampTCPMSS(rewriteIPv4Destination(x[1].packet, x[2].local), MaxMSS)]
Matching(p) == {f \in Flows : <<f.lport, f.remote, f.rport>> = ReverseKeyOf(p)}

\* decryptDataV2 of a packet the gateway sealed fails with erased keys.
Decrypts == "keys" \in held

\* A packet is decrypted and its flow looked up; without a flow, or when it does
\* not decrypt, it is dropped.
RxMatch(i) ==
    /\ Alive /\ rx.pc = "recv" /\ "udp" \in held
    /\ LET found == {f \in Matching(i.packet) : Decrypts /\ "flows" \in held}
       IN  IF found = {} THEN UNCHANGED rx
           ELSE \E f \in found :
                   rx' = [pc |-> "inject", carries |-> i, packet |-> Delivered[<<i, f>>]]
    /\ UNCHANGED <<mainVars, discord, logVars, errCh, sendVars>>

\* f.handle.send: the flow's handle may have been closed since.
RxInject ==
    /\ Alive /\ rx.pc = "inject"
    /\ IF "flows" \in held
       THEN /\ rx' = RxIdle("recv")
            /\ UNCHANGED errCh
       ELSE /\ rx' = RxIdle("stopped")
            /\ errCh' = TRUE
    /\ UNCHANGED <<mainVars, discord, logVars, sendVars>>

\* The done context ends the loop; a read error, which a closed socket gives at
\* once, ends it with a report.
RxStops ==
    /\ Alive /\ rx.pc = "recv"
    /\ \/ runDone /\ UNCHANGED errCh
       \/ errCh' = TRUE
    /\ rx' = RxIdle("stopped")
    /\ UNCHANGED <<mainVars, discord, logVars, sendVars>>

-----------------------------------------------------------------------------
MainStep == StartStep \/ SelectDone \/ SelectReady \/ SelectErr \/ Release \/ Return

SenderStep(s) == Advance(s) \/ Seal(s) \/ Write(s) \/ SenderStops(s)

Next ==
    \/ MainStep \/ StartFails \/ Relaunched
    \/ DiscordExits \/ SessionLine \/ ConsoleClosed
    \/ \E s \in Senders : Take(s) \/ SenderStep(s)
    \/ \E i \in Incoming : RxMatch(i)
    \/ RxInject \/ RxStops

\* Goroutines run when they can.  That a read of the VPN fails is not assumed,
\* but the receiver wakes every half second and sees its context.
Fairness ==
    /\ WF_vars(MainStep)
    /\ \A s \in Senders : WF_vars(SenderStep(s))
    /\ WF_vars(RxInject)
    /\ WF_vars(runDone /\ RxStops)

Spec == Init /\ [][Next]_vars /\ Fairness

-----------------------------------------------------------------------------
\* Every packet on the wire was sealed with the session's keys, never with
\* erased ones although senders run on while cleanup closes the session, and
\* its nonce was used once in the counter's turn, also when several senders
\* meet at the wrap; the id 0 is not used.
SealedOnce ==
    /\ \A w \in wire : w[2] # 0 /\ w[3] = "whole"
    /\ \A v, w \in wire : v[2] = w[2] /\ v # w =>
          v[1] - w[1] >= PidSpace \/ w[1] - v[1] >= PidSpace

\* The options a packet should leave with.
WantedOptions == [o \in Outgoing \cup Incoming |->
    Encoded(IF o.packet.syn THEN Clamped(o.list, MaxMSS) ELSE o.list)]

\* What is sent comes from the VPN address and is otherwise Discord's packet
\* with the MSS limited, option by option; what is injected goes to the local
\* address of a flow with the remote end it comes from; the checksums of both
\* are those of the packet as it leaves.
CarriedPacketsAreSound ==
    /\ \A s \in Senders : LET p == sender[s].packet IN p # NoPacket =>
          /\ Current(p)
          /\ p.src = VPNAddress /\ p.dst = sender[s].carries.packet.dst
          /\ p.opts = WantedOptions[sender[s].carries]
    /\ rx.packet # NoPacket =>
          /\ Current(rx.packet)
          /\ rx.packet.opts = WantedOptions[rx.carries]
          /\ [local |-> rx.packet.dst, lport |-> rx.packet.dport,
              remote |-> rx.packet.src, rport |-> rx.packet.sport] \in Flows

\* However the program ends, by which failing step or by the closing of its
\* console, nothing it opened on the way stays open and the Discord it started
\* does not run on -- except when the console is closed between the start of
\* Discord and the installation of the handler.
WindowsExitLeavesNothing ==
    pc \in {"returned", "killed"} =>
        /\ held = {}
        /\ pc = "returned" => hook # "yes" /\ discord # "running"
        /\ pc = "killed" => discord # "running" \/ hook = "no"

\* Once the session line has been read, even before main waits for it, cleanup
\* runs to its end: the VPN session, the event handles and every flow that is
\* in the table when cleanup takes it are closed, and the goroutines that work
\* on these end.  It does not say that no interception is left: a flow that
\* installTCPFlowFromSYN puts in afterwards keeps its handle and its goroutine
\* (CleanupEndsInterception of WindowsFlowManager, which the code violates).
EstablishedEndsSession ==
    established ~> /\ held = {}
                   /\ \A s \in Senders : sender[s].pc = "stopped"
                   /\ rx.pc = "stopped"

-----------------------------------------------------------------------------
(* The inductive invariant of SealedOnce and WindowsExitLeavesNothing.     *)

Things == {"udp", "keys", "wd", "flowH", "socketH", "synH", "flows"}
Releases == Things \cup {"cancel", "kill", "wait", "unhook"}
Steps == {"elevate", "path", "stop", "vpn", "wd", "flowH", "socketH", "synH",
          "spawn", "discord", "hook", "readers", "select"}
StartLists == Seq(Steps)
ReleaseLists == Seq(SUBSET Releases)
SentPackets == {Carried[o] : o \in Outgoing} \cup {NoPacket}
InjectedPackets ==
    {Delivered[x] : x \in Incoming \X Flows} \cup {NoPacket}
SenderStates ==
    [pc : {"off", "recv", "add", "again", "seal", "write", "stopped"},
     id : 0 .. PidSpace - 1, turn : Nat, carries : Outgoing \cup {Nothing},
     packet : SentPackets,
     sealed : {"no", "whole", "erased"}]
RxStates ==
    [pc : {"off", "recv", "inject", "stopped"}, carries : Incoming \cup {Nothing},
     packet : InjectedPackets]

MainTyped ==
    /\ pc \in {"start", "select", "exit", "returned", "killed"}
    /\ pc = "start" => todo \in StartLists
    /\ pc = "exit" => todo \in ReleaseLists
    /\ held \subseteq Things
    /\ discord \in {"off", "running", "exited"} /\ hook \in {"no", "yes", "removed"}
FlagsTyped ==
    /\ runDone \in BOOLEAN /\ ready \in BOOLEAN
    /\ established \in BOOLEAN /\ errCh \in BOOLEAN
SendTyped ==
    /\ packetID \in 0 .. PidSpace - 1 /\ turn \in Nat
    /\ sender \in [Senders -> SenderStates]

TypeOK == MainTyped /\ FlagsTyped /\ SendTyped /\ rx \in RxStates

\* What the start has done tells what is open, and who runs.
Passed == {Course[k] : k \in 1 .. Len(Course) - Len(todo)}

StartInOrder ==
    pc = "start" =>
        /\ Len(todo) \in 1 .. Len(Course)
        /\ \A k \in 1 .. Len(todo) : todo[k] = Course[Len(Course) - Len(todo) + k]
        /\ held = UNION {Opened(step) : step \in Passed}
        /\ "spawn" \notin Passed => \A s \in Senders : sender[s].pc = "off"
        /\ "discord" \notin Passed => discord = "off"
        /\ hook = IF "hook" \in Passed THEN "yes" ELSE "no"

\* A list releases one of these; it releases that only after one of these.
Releasing(list, these) ==
    \E k \in 1 .. Len(list) : \E r \in these : r \in list[k]
OnlyAfter(list, these, that) ==
    \A j \in 1 .. Len(list) :
        that \in list[j] => \E k \in 1 .. j - 1 : \E r \in these : r \in list[k]

\* On the way out everything open is still to be released, the keys after the
\* socket, and the handler that would end Discord after its end.
ExitInOrder ==
    pc = "exit" =>
        /\ \A h \in held : Releasing(todo, {h})
        /\ "udp" \in held => OnlyAfter(todo, {"udp"}, "keys")
        /\ hook = "yes" => Releasing(todo, {"unhook"})
        /\ discord = "running" => /\ Releasing(todo, {"kill", "wait"})
                                  /\ OnlyAfter(todo, {"kill", "wait"}, "unhook")

KeysOutliveSocket == "udp" \in held => "keys" \in held
HandlerStays == hook = "removed" => discord # "running"

\* Where the counter is after that many turns.
AtTurn(t, i) == \E lap \in 0 .. t : t = lap * PidSpace + i

CounterInTurn ==
    /\ AtTurn(turn, packetID)
    /\ \A s \in Senders : AtTurn(sender[s].turn, sender[s].id)
    /\ \A s \in Senders : sender[s].pc = "write" =>
          /\ sender[s].id # 0
          /\ sender[s].sealed # "no"
          /\ sender[s].sealed = "erased" => "udp" \notin held

WireIsSound ==
    \A w \in wire :
        /\ w = <<w[1], w[2], "whole">>
        /\ w[1] \in Nat /\ w[2] \in 1 .. PidSpace - 1 /\ AtTurn(w[1], w[2])

IInv ==
    /\ TypeOK /\ StartInOrder /\ ExitInOrder /\ KeysOutliveSocket /\ HandlerStays
    /\ CounterInTurn /\ WireIsSound
    /\ WindowsExitLeavesNothing

\* For CarriedPacketsAreSound: a packet in hand is what the rewriting made of
\* the one it is carried for, and of a flow that one belongs to.
PacketsInHand ==
    /\ \A s \in Senders : sender[s].packet # NoPacket =>
          sender[s].carries \in Outgoing /\ sender[s].packet = Carried[sender[s].carries]
    /\ rx.packet # NoPacket =>
          /\ rx.carries \in Incoming
          /\ \E f \in Matching(rx.carries.packet) :
                rx.packet = Delivered[<<rx.carries, f>>]
=============================================================================
