# Verification of DisFree

TLA+ models of DisFree on Linux and Windows, TLC configurations that check them
on small instances, and TLAPS proofs of all their safety properties for instances
of any size.
Line numbers are those of the repository's files at the commit the models were
written from; `PROJECT.json` maps every definition to its lines.

## 1. The system

DisFree gives Discord a temporary VPN path: from the launch of Discord's main
window until its log says `SESSION_ESTABLISHED`, Discord's TCP connections go
through a RiseupVPN session; before and after, they go out directly.

| Part | State it keeps | Operations | Hard behaviour |
|---|---|---|---|
| Local HTTP proxy (`linuxHTTPProxy`) | atomic mode, map of active connections, listener | accept, handle, relay, `UseVPN`, `UseDirect`, `Close` | connections accepted, routed and ended while a mode change takes its snapshot |
| VPN dialer (`linuxVPNDialer`) and the child's dial loop | id counter, pending map, one-place channels, socket pair | `DialContext`, `readLoop`, `deliver`, `Close` | late answers, timeouts, wrap of the counter, the child's death, `Close` from two goroutines |
| Linux bootstrap (`runLinuxDiscordBootstrap`) | handoff flag, `ready`, `errCh`, Discord's processes | start, log readers, main select, wait for relaunched Discord, way out | unordered streams, a dying backend, signals, relaunch |
| VPN session with an isolated child (three callers, one bridge) | sockets, TUN descriptor, child process, packet ids | launch, descriptor passing, ready signal, bridge, release | failure at every step, a child that hangs or dies, goroutines left behind |
| Control channel (`controlUDPConn`) | session ids, packet ids, read buffer | reset exchange, `Read`, `Write`, `Close` | loss, duplication, reordering, foreign packets, deadlines |
| Windows flow manager (`windowsFlowManager`) | intents, flow table, reverse table, WinDivert handles | events, SYN gate, install, remove, inject, cleanup | goroutines on two tables and the driver's handles |
| Windows session (`cmdDiscordVPN`, console handler) | what has been opened, `ready`, `errCh`, packet-id counter, keys | start with elevation, senders, receiver, select, cleanup | a failure at any step, a console closed at any moment, senders that run into cleanup |
| Packet rewriting (`packetnat.go`) | none | rewrite, checksums, MSS clamping | the walk over option bytes |
| Endpoint selection (`bestWireEndpoint`) | results and samples of concurrent probes | probe, rank, sample, decide | lost and lucky measurements |
| Session set-up (`establishLiveVPN`, four probe commands, provider trust, push reply) | socket and deadline, trust, options, DNS query | the calls of each function in its order | a silent or foreign gateway, replies in parts |
| Stored files (`identity.pem`, `WinDivert.dll`) | a file, its temporary file | look, fetch, write, sync, rename, load | kills, power failures, two instances |
| Key derivation, data-channel cryptography, HTTP and X.509, netlink encoding, DNS forwarding, command line | none that outlives a call | library and system calls | none a model of this kind reaches |

How they interact: `cmdDiscordVPN` starts the backend (which establishes the VPN
session over the control channel and launches the child), then the proxy with
the backend's dialer, then Discord with `--proxy-server`. Two goroutines read
Discord's output. A launch line calls `UseVPN`; a session line sends on `ready`,
and the main goroutine calls `UseDirect` and `backend.Close`. The proxy's
handlers call the dialer, which talks to the child over a datagram socket pair;
the child dials inside its network namespace, where packets leave through the
TUN device that the bridge reads. On Windows there is no proxy and no child: the
flow manager diverts packets with WinDivert, rewrites them and sends them over
the same VPN session. Both platforms set the session up with `establishLiveVPN`,
which chooses a gateway, loads the identity file and the provider's authority,
and goes through TLS, key exchange and the pushed configuration.

What makes each part correct:

- proxy: a change of route leaves no connection behind on the old route; closing
  leaves (almost) none; what was closed goes away, unless its upstream stalls.
- dialer: a dial gets its own connection or an error, always returns, and no
  sender ever blocks on a channel; no received socket is lost.
- bootstrap: tunnel up before it is used, not used after it is down; every way
  out releases everything; backend failure, signals and Discord's end are noticed.
- VPN session: nothing leaks on any exit path, everything stops, the child works
  only when its packets are carried, no nonce is used twice.
- control channel: ids in order, an ack stands for a delivered packet, nothing
  of another session is taken.
- Windows: the two tables and the handles agree, no SYN is held for ever, one
  intent admits one connection; no packet is sealed with erased keys, none leaves
  with a wrong address, MSS or checksum, and nothing survives the program.
- set-up: the gateway is not chosen by one lucky packet, secrets go only to it,
  only a whole configuration is accepted, and every function returns.
- stored files: an identity is never torn; a torn runtime is never loaded.

`PROJECT.json` lists the hazards, each at its line with the properties that
would catch it.

## 2. Modules and how they correspond to the code

| Module | Models | Actions and actors |
|---|---|---|
| `LinuxHTTPProxy` | `linux_bootstrap_proxy.go` 447-611 | accept loop, one handler per connection (`Track` .. `Untrack`), copy goroutines (`PumpEOF`, `PumpCut`), writes nobody takes the bytes of (`WriteBlocks`, `WriteResumes`), callers of `setMode` (`SwapMode`, `Snapshot`, `SweepOne`) and `Close` |
| `LinuxVPNDialer` | 30-189 and 248-285 | `DialContext` (`Alloc`, `Register`, `Send`, the three ends of the select), `readLoop` (`Recv`, `Lookup`, `Deliver`), `Close`, the child |
| `StartupPath` | the README's promise for Linux | abstract: connect, serve, take the tunnel, return, disconnect |
| `LinuxBootstrap` | 613-728, 399-419; `run_linux.go` 328-403 | main goroutine, stream readers, backend monitor; Discord, the network and the user as environment |
| `VPNBackend` | 191-445; `vpntun_linux.go`; `run_linux.go` 21-51, 103-298; `tun_linux.go` 43-206 | the starting function in three flavours, child, `child.Wait` goroutine, the two bridge goroutines |
| `ControlChannel` | `tlsprobe.go` 18-170, `protocol.go` 18-129 | dial, `Write`, `Read`, deadlines; server and network (external) |
| `WindowsFlowManager` | `windows_discord.go` 41-147, 256-368, 517-609, 639-704, 938-1014 | socket monitor, SYN gate, flow monitor, receiver, cleanup; driver and programs (external) |
| `PacketNAT` | `packetnat.go` | operators only, and a reference definition of what clamping means |
| `WindowsSession` (extends `PacketNAT`) | `windows_discord.go` 357-368, 537-637, 787-829, 858-1014; `platform_windows.go` 26-48; `livevpn.go` 20-28; `datachannel.go` 48-144 | main (`StartStep`, `StartFails`, the select, `Release`), three senders (`Take`, `Advance`, `Seal`, `Write`), receiver, log reader, console |
| `EndpointSelection` | `tlsprobe.go` 190-265, `protocol.go` 131-268, `main.go` 187-206 | probing goroutines, ranking, sampling goroutines, the choice |
| `SessionSetup` (extends `EndpointSelection`) | `livevpn.go` 30-102, `provider.go` 39-186, `keymethod.go` 50-186 and 261-343, `pushprobe.go`, `dataprobe.go`, `tlsprobe.go` 278-334 | the function that runs, as a list of calls still to be made; gateway, clock and context (external) |
| `StoredFiles` | `main.go` 110-185, `tlsprobe.go` 172-188, `windivert_windows.go` 93-179 | instances of the program; file system, kills and power (external) |
| `LinuxBootstrapProofs`, `VPNBackendProofs`, `ControlChannelProofs`, `WindowsFlowManagerProofs`, `WindowsSessionProofs`, `SessionSetupProofs`, `StoredFilesProofs` | | theorems about the module of that name and those it extends (section 4) |
| `LinuxDialPathProofs` | | theorems about the two modules on the way of a connection, `LinuxVPNDialer` and `LinuxHTTPProxy` |
| `MC...` | | values for TLC, symmetry |

A program counter stands for the place a goroutine has reached; a step ends
where another goroutine can observe or disturb it: at a lock, an atomic, a
channel operation, a system call. Values are kept only where a property tells
them apart: a connection is named by the dial that asked for it, a byte by its
position in its stream, a log line by the marker it contains.

Two pairs are composed by extension: `SessionSetup` runs `EndpointSelection` as
one of its calls, and `WindowsSession` carries packets with `PacketNAT`'s
operators. The others are checked by themselves, and the parts they share are cut
where the code has a narrow interface: of the proxy the bootstrap keeps the mode
and whether it serves; of the backend, whether it is up, broken or closed; of the
dialer the proxy keeps that a dial succeeds or fails; `WindowsSession` takes the
installed flows as given while their handles are open, and `WindowsFlowManager`
says which those are; in `SessionSetup` the control channel is a stream that
delivers, breaks or falls silent, which is what `ControlChannel` leaves of it.

A definition whose comment begins with "Mutant" is the neighbouring action with a
plausible mistake in it. No specification uses it; substituted for the original
it makes the property it is listed with in `PROJECT.json` fail, which shows that
the property depends on that line of the code.

## 3. What the runs check

Runs that pass:

- `proxy` (two connections, one of them in `Slow`: its peers may stop reading; one
  caller that switches the mode without end, one of
  `Close`): `NoStaleRoute`, the reason `setMode` exists; `CloseMissesAtMostOne`,
  with the exact extent of what `Close` can miss; `ForgottenIsClosed` and
  `ClosedIsReaped`. The last has a premise: no write of the proxy has a deadline,
  so while upstream neither reads nor answers, one copy goroutine is blocked
  writing to it and the other reading from it, and closing the client ends neither
  (likewise `req.Write`). The property says that a closed connection is reaped
  unless its upstream stays so for ever; a client that stops reading is not
  excepted. Two connections are needed for "at most one". One caller is
  enough for `ClosedIsReaped`; the code has two, a log reader and main, and the
  first three properties are proved for any number of them (section 4).
- `dialer` (two dials, ids modulo 4 starting at 3 so that the counter wraps, one
  place in the child's queue so that a send blocks): six properties. With more
  dials than ids a dial could take an id that is still pending; the code can meet
  that only after 2^32 dials of one session, and the configuration, like the proof
  of `OwnReply`, has fewer dials than ids.
- `bootstrap` (two streams, markers on either or on both, Discord may continue in a
  second process, three marker lines, so that one may come twice and in any order
  the launch allows): `HandoffIsFinal`, refinement of `StartupPath`, and what has to
  happen after failure, signal and exit (`StopEnds`). Two goroutines read standard
  output and standard error. When a launch line is on one and a session line on the
  other (`Split`), the launch line can be handled last and puts the proxy on a tunnel
  that is closed, for good, since `activateOnce` is spent: `HandoffIsFinal` excepts
  that case and no other, and the refinement is stated for a Discord that writes its
  markers to one stream, whichever it is (`OneMarkerStream`). The other properties
  have no such exception.
- `vpn_backend` (packet ids modulo 4, so that the counter wraps; one session,
  since sessions share nothing): leaks, order, termination, nonces. The child
  configures its interface, and for two of the flavours its DNS listeners, call
  by call before it passes the descriptor: the bridge never runs on less.
- `control_channel` (server packets of 2, 0 and 1 bytes read one byte at a time,
  a write of 3 bytes in packets of 2, one fault): what is assembled on both
  sides. Two faults have been checked as well (2 million states).
- `windows_flows` (three connections: two of Discord's that share a reverse key
  and one of another program to the same remote end; two connects, one answer):
  agreement of tables and handles, release of SYNs.
- `windows_session` (two flows; SYNs with an MSS on either side of an end of options,
  with options of lengths 2, 3 and 10, an MSS of a wrong length, and a last option
  that has no length, one of 1, or one that reaches too far; a packet of no flow; ids
  modulo 2 and two packets, so that two senders meet the wrap): `SealedOnce`,
  `CarriedPacketsAreSound` against the reference definition,
  `WindowsExitLeavesNothing` for every failing step, and `EstablishedEndsSession`:
  after the session line the VPN session, the handles opened by then and every
  goroutine of the module end. It is not README line 45, which is false of a flow
  installed during cleanup (run `windows_cleanup`).
- `session_setup` (three usable endpoints of two gateways among five, two finalists,
  three latencies, two authorities, certificates with any CN and any hosts among their
  names, six kinds of message, four read before giving
  up): `NotChosenByLuck`, `SecretsOnlyToGateway`, `AcceptedReplyIsWhole`,
  `ProbeReportsTruth`, `SetupEndsClean`. Two finalists with up to three samples
  each give every shape of a comparison; four messages hold a reply in two parts
  with something before and between.
- `stored_files` (two instances, six files, two kills or power failures):
  `IdentityIsWhole`, which rests on the sync before the rename, and
  `RuntimeIsWhole`, which rests on the checksum since nothing is synced there.
  Six files leave one for every name and every writer. `RuntimeIsWhole` excepts
  one case, which the ghost variable `brokeOff` marks: both instances write the
  same `.tmp`, and one whose write breaks off while the other is about to rename
  leaves a torn DLL that the other loads.

Deadlock is checked for the proxy, whose `setMode` callers can always go on. The
other systems end, so their configurations say that they may stop; that they do
not stop early is what their liveness properties are for.

Runs in which a statement of the repository fails:

- `bootstrap_relaunch`: README line 56, "At `SESSION_ESTABLISHED`, the
  TUN/Riseup path is closed and the proxy returns to direct mode." Once the
  started command has exited, `waitForLinuxDiscordExit` reads neither `ready` nor
  `errCh`.
- `windows_cleanup`: README line 45, "At `SESSION_ESTABLISHED`, the Riseup
  session and WinDivert interception are closed." A flow the SYN gate installs
  after `mgr.close` keeps its handle.
- `windows_late_event`: the program's own message, "Discord TCP is tunneled from
  its first SYN until Gateway SESSION_ESTABLISHED." The gate waits 8 ms for an
  event that another goroutine delivers.

### Fairness

Weak fairness stands for the Go scheduler running a goroutine that can run, and
for timers that are set: the 30 s request deadline and 15 s dial context of the
proxy, the 12 s of the child's dials, the set-up timeouts, the 8 s for the TUN
descriptor. Strong fairness appears
twice: the SYN gate's 8 ms deadline, which passes although the gate leaves and
re-enters the place where it is tested, and the proxy's `req.Write` once the client's
socket is closed, since what is left to write is then finite and a write that resumes
again and again is done. That a blocked write resumes is never assumed. `ControlChannel`
has no fairness and no liveness property: it takes a deadline that passes, and that
the callers set one is a matter of `SessionSetup` (`SetupEndsClean`). Clients, Discord, the user, the child
process's death, the server and the network are never fair. In `dialer` the child
serves its queue while it lives, which is its loop; a child that is alive and
stuck would hold a sender, and that is the one assumption `EveryDialReturns`
makes about it. In `SessionSetup` the function's own steps are fair, since its
HTTP requests and resets have timeouts, and so is the socket's deadline; nothing
is asked of the gateway. In `WindowsSession` main, the senders and the injection
are fair; the receiver ends because it wakes every half second and looks at its
context, so its end is fair only once `cancelRun` has been called.

## 4. What is proved

Eight modules hold the theorems: every invariant and every action property that a
run checks is one of them. None bounds the size of anything: where a run has two
connections, six files or ids modulo 4, the theorem has any set of them and any
modulus. The constants are
restricted only by the named assumptions of the modules, which TLC evaluates on
every run; those that say something about the code are given below.

| Module | From the inductive invariant (`IInv`, for the proxy `ProxyInv`) follow | Restriction |
|---|---|---|
| `LinuxDialPathProofs`, proxy | `RouteSwitchIsComplete` (`NoStaleRoute`), `CloseIsAlmostComplete` (`CloseMissesAtMostOne`), `ForgetsOnlyClosed` (`ForgottenIsClosed`) | the caller of `Close` is not one of those of `setMode` (`CloserAssumption`) |
| `LinuxDialPathProofs`, dialer | `NoSenderBlocks` (`SendersNeverBlock`), `GivenUpStaysAlone` (`GivenUpIsUnreachable`), `NoConnIsLost` (`NoConnVanishes`); from `LabelInv`, `DialGetsOwnReply` (`OwnReply`) | the last: fewer dials in a session than ids, of which the code has 2^32 |
| `LinuxBootstrapProofs` | `NothingOutlivesExit` (`ExitLeavesNothing`), `HandoffStaysFinal` (`HandoffIsFinal`), `ImplementsStartupPath` (`RefinesStartupPath`) | none as an assumption; the last two properties name their exception, markers split over the two streams (section 3) |
| `VPNBackendProofs` | `NothingBeforeTheBridge` (`ServedOnlyBridged`), `NoNonceTwice` (`NonceNeverRepeats`), `NothingIsLeftOpen` (`NothingLeaks`) | an id space of at least 2 |
| `ControlChannelProofs` | `ServerReadsInOrder` (`WrittenInOrder`), `AckMeansDelivered` (`AckedIsDelivered`), `CalmReadsInOrder` (`CalmStreamIsPrefix`) | none |
| `WindowsFlowManagerProofs` | `TablesStayInStep` (`TablesAgree`), `IntentPaysOnce` (`OneFlowPerIntent`) | none |
| `WindowsSessionProofs` | `EveryPacketSealedOnce` (`SealedOnce`), `ExitLeavesNothing` (`WindowsExitLeavesNothing`); from `PacketsInHand`, `RewritingIsSound` (`CarriedPacketsAreSound`) | an id space of at least 2, an MSS limit of 16 bits; the last: with a packet comes the list of options its bytes are read as (`PacketAssumption`); every string of bytes is the encoding of such a list |
| `SessionSetupProofs` | `SecretsReachGatewayOnly` (`SecretsOnlyToGateway`), `OnlyWholeReplies` (`AcceptedReplyIsWhole`), `ProbeNeverLies` (`ProbeReportsTruth`); from `SelectionInv`, `LuckChoosesNoGateway` (`NotChosenByLuck`) | no address and no peer id is the empty string, which `ParseIP` and `ParseUint` refuse |
| `StoredFilesProofs` | `IdentityNeverTorn` (`IdentityIsWhole`), `RuntimeNeverTorn` (`RuntimeIsWhole`) | none (a file that is there at the start has a number) |

For each component `TypeCorrect` and `InductiveInvariant` are proved as well
(for the proxy `ProxyTypeCorrect` and `ProxyInductiveInvariant`). The arguments:

- **Proxy.** `NoStaleRoute` speaks only of moments when nobody switches and is not
  inductive. `StaleIsDoomed` says what holds in between: an open connection with
  another route than the current one is in the way of a running `setMode`, which
  has either not taken its snapshot yet or has the connection on its list. To
  keep it, a snapshot must see every open connection that has a route:
  `OpenIsTracked` (only the connection in the accept loop's hand is open and
  untracked) and `EarlyHasNoRoute` (that one has not read the mode). This is where
  the order of `track` and `go`, of `Swap` and the lock, and of the two `defer`s
  enters. `OneInHand`, `CloserWaits` and `CloserCovers` do the same for `Close`;
  `EndedIsClosed` and `UpstreamInHandler` for `ForgottenIsClosed`.
- **Dialer.** A channel is registered in the map, or in the hands of one sender
  (`readLoop` after `Lookup`, or `Close` after the swap), or has been sent to; both
  ways of taking it out happen under the lock and remove it. `RegisteredIsUnsent`,
  `TakenIsUnsent` and `OneSender` say so; `RegisteredUnderOwnId` makes removal by
  id remove the right entry. `ConnInv` adds that a channel has one place and is
  taken from once, so that a socket never disappears. For `OwnReply` ids must be
  different: `CounterCounts` says that the counter is as many steps from its start
  as ids were given, one more after it skipped 0, `IdsAreBehind` that every id is
  behind it, and `IdsAreDistinct` follows while the counter has not lapped. Then
  requests, replies and the reader's target carry the id of one dial only.
- **Bootstrap.** `PhasesInOrder` and `ServesOverTunnel` tie what is open to where
  main is; that is enough for the way out. `LaunchIsInPipe` and `LaunchComesFirst` are
  the strengthening for the handoff: a launch line is in its pipe until it is handled
  and `activateOnce` is spent, and, unless the markers are split, an unread session line
  has a launch line before it in its own pipe, or the launch line was handled.
  With it a proxy that was switched to direct stays there, and each step maps to a
  step of `StartupPath` or to a stutter (`Tunnel` is the mapping).
- **VPN session.** `ToBeReleased`: on an exit path, what is still open is still on
  the list of releases; `HeldInOrder` says what can be open where a path is
  entered. `IdsAreSpent`: one id per packet sent, and while the goroutine
  can still send, all of them between 1 and its counter; it stops when the counter
  wraps to 0. `BridgeInOrder` and `SetupInOrder`: the child's
  ready signal comes after the bridge's start, the descriptor after the last step
  of its configuration.
- **Control channel.** What the server has put together can only be right if
  every packet on its way is: `PiecesFit` says that a packet of `Write`, under way
  or held, is a piece of what was written, that consecutive ids have adjoining
  pieces, and that the id the server takes next begins where it stopped. A lost,
  doubled or delayed packet changes the set of packets, never a piece. The other
  direction has no such order, since `Read` looks at no id. `AcksAreTrue` says of
  an ack under way what `AckedIsDelivered` says of one that arrived, and
  `OwnIsSent` that what `Read` accepts was sent by this server in this session;
  `WaitsEmpty` makes the packet that `Read` takes the next in the buffer. For a calm
  network `CalmFrom(n)` splits the server's packets: those before the n-th have
  been read, and the rest are in the channel, once each and in order.
- **Windows flow manager.** `OneHolder`: a handle is in the flow table under one
  connection, or with the goroutine that removes it, or with cleanup, or in the
  gate's hand, and never in two of these; `HeldIsOpen`: it is open there;
  `NobodyElseInstalls`: a connection the gate works on has no flow. `IntentsAddUp`
  counts: intents in the map, the one in the gate's hand and handles opened are
  together no more than intents armed.
- **Windows session.** `StartInOrder` says what is open after each step of the
  start, `ExitInOrder` that whatever is open is released later on the list, keys
  only after the socket, the console handler only after Discord's end; every
  error return is checked against it. `KeysOutliveSocket` makes a packet sealed
  with erased keys one that can no longer be written; `CounterInTurn` relates an
  id to the number of steps the counter has made.
- **Packet rewriting.** `PacketsInHand` reduces `CarriedPacketsAreSound` to a fact
  about packets: clamping the encoding of a list of options gives the encoding of
  the clamped list. `Laid` says where the bytes of each option are; `RoundOfOption`
  what one round of the loop does at the first byte of each kind of option, and
  `PositionsAreHeads`, from the last option to the first, that the loop meets
  exactly the readable MSS options. `OverwrittenIs` then shows for every byte
  whether the code writes it. An option is a no-operation,
  an MSS, an option of any other kind and length, or the rest that cannot be read as
  one (an end and what follows it, a lone kind byte, a length of 0 or 1 or one that
  reaches too far), which must be the last of its list, as the definition of
  `OptionList` says.
- **Choice of the gateway.** `Measured`: a finalist has its first sample and at most
  one for each further try; `ChosenWins`: the one that is returned comes before
  every other in the stable sort. That a median of two or three samples is reached by
  two of them, and is at most the middle one of a finalist it beats, is shown on
  the order statistics of two and of three values.
- **Set-up.** `InOrder` is what the lists of calls of the five functions have in
  common; `TrustComesFirst`, `ReplyIsCollected` and `AnswerComesLast` say what is
  known at each point of such a list. That every value of a session was pushed
  under its name is a fact about all lists of messages: `flattenPushOptions` is
  recursive, and `FlattenedFromParts` goes by the least part for which the claim
  fails (`LeastElement`, from the library's theorem that < is well founded). The
  induction theorems of the library cannot be used, since no installed prover
  instantiates their operator parameter; this form has none. The recursive
  functions of packet rewriting are treated in the same way, their existence
  included.
- **Stored files.** `OwnTemp` and `SyncedBeforeRename` follow a temporary identity
  file from its creation to the rename; it is then whole and on disk, so that
  whichever name a power failure leaves stands for a whole file. For the DLL
  `AboutToRename` says that what is about to be renamed is whole or being written
  by another instance, and what is about to be loaded passed the checksum.

Only model-checked, and why:

- every liveness property (`ClosedIsReaped`, `EveryDialReturns`, `CloseEndsReader`,
  `EstablishedEndsVPNWhileAttached`, `BrokenBackendIsNoticed`, `StopEnds`,
  `NoSynIsHeld`, `EstablishedEndsSession`, `StartReturns`, `EverythingStops`,
  `SetupEndsClean`): fairness and ENABLED are outside the
  reach of the proof system. The refinement of `StartupPath` has no fairness in
  it and is proved.

## 5. Bounds and abstractions worth knowing

- Descriptor numbers are not modelled: a closed socket stays closed. A send on a
  number that was reused after `Close` is a hazard without a property.
- A connection left in the channel of a dial that timed out counts as not lost
  (`NoConnVanishes`): the garbage collector closes it.
- A log line longer than 1 MB ends a stream's reader (`bufio.Scanner`); lines are
  markers here and have no length.
- `stopExistingDiscord` is one step that leaves no listed process; its 4 s are
  left out, and so is a process that starts while it runs.
- `ControlChannel` counts faults (`MaxFaults`); `CalmStreamIsPrefix` is stated
  for a calm network because `Read` does not look at packet ids: on another one
  a repeated packet reaches TLS twice, which TLS rejects.
- `WindowsFlowManager` has no clock: an intent expires and the 8 ms end at any
  moment. `MaxConnects` bounds connects, and so handles. `recv` fails only on a
  closed handle; an error on an open one would end the gate without a report. A
  `send` may fail on an open one too, which is reported. The receiver can take one
  more answer after cleanup has cancelled its context, until the socket is closed.
- `WindowsSession` leaves out the flow that run `windows_cleanup` is about: flows are
  opened when the goroutines start and closed when cleanup closes them, and what
  `EstablishedEndsSession` and `WindowsExitLeavesNothing` say is about these. `terminateDiscordWindows` is taken to
  find and end the process. A console closed between the start of Discord and the
  installation of the handler leaves Discord running; `WindowsExitLeavesNothing`
  says so. `SealedOnce` allows an id again after a full turn of the counter: the
  code goes on after 2^32 packets, where the Linux bridge stops.
- `PacketNAT` keeps option bytes and replaces the checksum by what it covers, so
  that a stale one shows; its arithmetic is not checked. Packets are well formed
  up to their options.
- `LinuxHTTPProxy` keeps of a write whether it is blocked, and lets it block at any
  moment on a connection in `Slow`; how many bytes the kernel buffers is left out.
- `LinuxBootstrap` decides at the start which streams carry markers and counts marker
  lines (`MaxLines`). When `cmd.Wait` closes the pipes a reader still handles the lines
  its scanner has in its buffer, which may be any number of them.
- `SessionSetup` has a host as its first label and its domain: a certificate's CN is
  compared with the label alone, as the code does, so gateways of two domains with one
  label would share it.
- `EndpointSelection` gives a probe a latency or 0 for an error; ties are settled
  by position, as the stable sorts do.
- `StoredFiles` lets the disk hold any earlier contents of a file that was not
  synced, and either the old or the new name after a rename. Windows refuses to
  rename an open file and to replace a mapped one.

Not modelled, and why. The TLS PRF, HMAC and AES-GCM, X.509 parsing, HTTP and the
encoding of netlink, DNS and OpenVPN bytes are computations or library calls that
a model would only restate. The DNS forwarder, once started, is one goroutine per
query with its own socket and no shared state. `tunProbeChild`, `cmdGateways`,
`cmdProbe`, `cmdWire`, `cmdProvider`, the self tests and the command line print
what one call returned. `windows_discord.go` 173-254 and 370-515 (flows from FLOW
events, UDP ports) have no caller. The WinDivert DLL and driver are third-party.

## 6. What could follow

The parts of the program that keep state are modelled, their safety properties
proved and their liveness checked on small instances. What would add to it:

1. A model of the two hazards that have no property: descriptor numbers that are
   reused after `Close`, and the injection on a handle that removal has closed.
2. A composition of `WindowsFlowManager` and `WindowsSession`, so that the flows of
   the second are those the first installs.
3. Proofs of liveness, with a prover that supports fairness.
