--------------------------- MODULE LinuxBootstrap ---------------------------
(***************************************************************************)
(* runLinuxDiscordBootstrap (linux_bootstrap_proxy.go) and the command     *)
(* around it, cmdDiscordVPN (run_linux.go): the main goroutine, the two    *)
(* goroutines that read Discord's standard output and error, the monitor   *)
(* of the VPN backend, and Discord itself as the environment.              *)
(*                                                                         *)
(* Of the proxy only the mode and whether it serves are kept: what a       *)
(* change of mode does to connections is LinuxHTTPProxy's subject.  Of the *)
(* log only the two marker lines are kept.                                 *)
(***************************************************************************)
EXTENDS Naturals, Sequences

CONSTANTS Streams,        \* Discord's output streams, one reader goroutine each
          Relaunches,     \* Discord may continue in a process it started itself
          MaxLines        \* bound on the marker lines Discord writes

ASSUME StreamAssumption ==
    /\ Relaunches \in BOOLEAN
    /\ MaxLines \in Nat

VARIABLES main,       \* where the main goroutine is
          handedOff,  \* its local of that name
          seen,       \* waitForLinuxDiscordExit has seen a Discord process
          grace,      \* its 1.2 s timer has fired
          mode,       \* the proxy's mode
          serving,    \* the proxy's listener is open
          activated,  \* activateOnce is spent
          ready,      \* the ready channel (one place) is full
          backend,    \* "none", "up", "broken", "closed"
          monitor,    \* the monitor goroutine: "off", "watch", "done"
          errCh,      \* errors in backend.errCh
          launcher,   \* the started command: "none", "run", "exited", "reaped"
          app,        \* a process Discord started itself: "none", "run", "gone"
          markers,    \* the streams this Discord writes its marker lines to
          said,       \* marker lines Discord has written, with their stream
          lines,      \* how many
          pipe,       \* lines of each stream not yet read
          cancelled   \* ctx is done: a signal arrived

mainVars == <<main, handedOff, seen, grace>>
proxyVars == <<mode, serving>>
backendVars == <<backend, monitor, errCh>>
logVars == <<markers, said, lines, pipe>>
discordVars == <<launcher, app>>
vars == <<mainVars, proxyVars, activated, ready, backendVars, discordVars,
          logVars, cancelled>>

Markers == {"launch", "established"}
Said(l) == \E s \in Streams : <<s, l>> \in said
ErrCap == 2                               \* capacity of backend.errCh
PIDs == (IF launcher = "run" THEN {"launcher"} ELSE {})
            \cup (IF app = "run" THEN {"app"} ELSE {})
PipesOpen == launcher \in {"run", "exited"}  \* cmd.Wait closes them

Init ==
    /\ main = "backend"
    /\ handedOff = FALSE /\ seen = FALSE /\ grace = FALSE
    /\ mode = "direct" /\ serving = FALSE
    /\ activated = FALSE
    /\ ready = FALSE
    /\ backend = "none" /\ monitor = "off" /\ errCh = 0
    /\ launcher = "none" /\ app = "none"
    /\ markers \in (SUBSET Streams) \ {{}}
    /\ said = {} /\ lines = 0 /\ pipe = [s \in Streams |-> <<>>]
    /\ cancelled = FALSE

-----------------------------------------------------------------------------
(* Starting up; each failure returns through the defers set so far.        *)

StartBackend ==
    /\ main = "backend"
    /\ \/ /\ backend' = "up" /\ monitor' = "watch" /\ main' = "proxy"
       \/ /\ main' = "final" /\ UNCHANGED <<backend, monitor>>
    /\ UNCHANGED <<handedOff, seen, grace, proxyVars, activated, ready, errCh,
                   discordVars, logVars, cancelled>>

\* Mutant: a proxy that cannot listen returns past the deferred backend.Close.
StartProxyLeaks ==
    /\ main = "proxy"
    /\ \/ serving' = TRUE /\ main' = "discord"
       \/ serving' = FALSE /\ main' = "final"
    /\ UNCHANGED <<handedOff, seen, grace, mode, activated, ready, backendVars,
                   discordVars, logVars, cancelled>>

StartProxy ==
    /\ main = "proxy"
    /\ \/ serving' = TRUE /\ main' = "discord"
       \/ serving' = FALSE /\ main' = "closeBackend"
    /\ UNCHANGED <<handedOff, seen, grace, mode, activated, ready, backendVars,
                   discordVars, logVars, cancelled>>

StartDiscord ==
    /\ main = "discord"
    /\ \/ launcher' = "run" /\ main' = "select"
       \/ launcher' = "none" /\ main' = "closeProxy"
    /\ UNCHANGED <<handedOff, seen, grace, proxyVars, activated, ready,
                   backendVars, app, logVars, cancelled>>

-----------------------------------------------------------------------------
(* The main select.                                                        *)

\* case err := <-done
MainDone ==
    /\ main = "select"
    /\ launcher = "reaped"
    /\ main' = "wait"
    /\ seen' = (PIDs # {})
    /\ UNCHANGED <<handedOff, grace, proxyVars, activated, ready, backendVars,
                   discordVars, logVars, cancelled>>

\* Mutant: the tunnel is closed first and the route changed after.
MainReadyClosesFirst ==
    /\ main = "select"
    /\ ready
    /\ ready' = FALSE
    /\ IF handedOff THEN UNCHANGED <<main, handedOff, backend>>
       ELSE /\ handedOff' = TRUE
            /\ backend' = "closed"
            /\ main' = "handoff"
    /\ UNCHANGED <<seen, grace, proxyVars, monitor, errCh, activated,
                   discordVars, logVars, cancelled>>

\* case <-ready, up to proxy.UseDirect()
MainReady ==
    /\ main = "select"
    /\ ready
    /\ ready' = FALSE
    /\ IF handedOff THEN UNCHANGED <<main, handedOff, mode>>
       ELSE /\ handedOff' = TRUE
            /\ mode' = "direct"
            /\ main' = "handoff"
    /\ UNCHANGED <<seen, grace, serving, activated, backendVars, discordVars,
                   logVars, cancelled>>

\* ... and backend.Close(), which kills the child and ends the bridge.
MainHandoff ==
    /\ main = "handoff"
    /\ backend' = "closed"
    /\ main' = "select"
    /\ UNCHANGED <<handedOff, seen, grace, proxyVars, activated, ready, monitor,
                   errCh, discordVars, logVars, cancelled>>

\* Mutant: backend errors are read and dropped.
MainErrNever ==
    /\ main = "select"
    /\ errCh > 0
    /\ errCh' = errCh - 1
    /\ UNCHANGED <<mainVars, proxyVars, activated, ready, backend, monitor,
                   discordVars, logVars, cancelled>>

\* case err := <-backend.errCh
MainErr ==
    /\ main = "select"
    /\ errCh > 0
    /\ errCh' = errCh - 1
    /\ main' = IF handedOff THEN "select" ELSE "stop"
    /\ UNCHANGED <<handedOff, seen, grace, proxyVars, activated, ready, backend,
                   monitor, discordVars, logVars, cancelled>>

\* case <-ctx.Done(), of the main loop and of waitForLinuxDiscordExit.
MainCancelled ==
    /\ main \in {"select", "wait"}
    /\ cancelled
    /\ main' = "stop"
    /\ UNCHANGED <<handedOff, seen, grace, proxyVars, activated, ready,
                   backendVars, discordVars, logVars, cancelled>>

-----------------------------------------------------------------------------
(* waitForLinuxDiscordExit: neither ready nor errCh is read here.          *)

\* Mutant: only the context ends the wait once a process was seen.
WaitPollNeverReturns ==
    /\ main = "wait"
    /\ seen' = (seen \/ PIDs # {})
    /\ UNCHANGED <<main, handedOff, grace, proxyVars, activated, ready,
                   backendVars, discordVars, logVars, cancelled>>

WaitPoll ==
    /\ main = "wait"
    /\ seen' = (seen \/ PIDs # {})
    /\ main' = IF PIDs = {} /\ seen THEN "closeProxy" ELSE "wait"
    /\ UNCHANGED <<handedOff, grace, proxyVars, activated, ready, backendVars,
                   discordVars, logVars, cancelled>>

WaitGrace ==
    /\ main = "wait"
    /\ ~grace
    /\ grace' = TRUE
    /\ main' = IF seen THEN "wait" ELSE "closeProxy"
    /\ UNCHANGED <<handedOff, seen, proxyVars, activated, ready, backendVars,
                   discordVars, logVars, cancelled>>

-----------------------------------------------------------------------------
(* Leaving: stopExistingDiscord, then the defers in reverse order.         *)

\* SIGTERM, up to 4 s, SIGKILL: every Discord process it lists is gone.
KillDiscord ==
    /\ launcher' = IF launcher = "run" THEN "exited" ELSE launcher
    /\ app' = IF app = "run" THEN "gone" ELSE app

StopDiscord ==
    /\ main = "stop"
    /\ KillDiscord
    /\ main' = "closeProxy"
    /\ UNCHANGED <<handedOff, seen, grace, proxyVars, activated, ready,
                   backendVars, logVars, cancelled>>

CloseProxy ==
    /\ main = "closeProxy"
    /\ serving' = FALSE
    /\ main' = "closeBackend"
    /\ UNCHANGED <<handedOff, seen, grace, mode, activated, ready, backendVars,
                   discordVars, logVars, cancelled>>

CloseBackend ==
    /\ main = "closeBackend"
    /\ backend' = "closed"
    /\ main' = "final"
    /\ UNCHANGED <<handedOff, seen, grace, proxyVars, activated, ready, monitor,
                   errCh, discordVars, logVars, cancelled>>

\* The deferred stopExistingDiscord of cmdDiscordVPN.
FinalStop ==
    /\ main = "final"
    /\ KillDiscord
    /\ main' = "exited"
    /\ UNCHANGED <<handedOff, seen, grace, proxyVars, activated, ready,
                   backendVars, logVars, cancelled>>

-----------------------------------------------------------------------------
(* streamLinuxDiscordOutput, one goroutine per stream.                     *)

\* Mutant: every launch line switches to the VPN.
ReadLaunchAgain(s) ==
    /\ main # "exited"
    /\ pipe[s] # <<>> /\ Head(pipe[s]) = "launch"
    /\ pipe' = [pipe EXCEPT ![s] = Tail(@)]
    /\ activated' = TRUE
    /\ mode' = "vpn"
    /\ UNCHANGED <<mainVars, serving, ready, backendVars, discordVars, markers,
                   said, lines, cancelled>>

\* A launch line: activate(), which runs proxy.UseVPN() once.
ReadLaunch(s) ==
    /\ main # "exited"
    /\ pipe[s] # <<>> /\ Head(pipe[s]) = "launch"
    /\ pipe' = [pipe EXCEPT ![s] = Tail(@)]
    /\ activated' = TRUE
    /\ mode' = IF activated THEN mode ELSE "vpn"
    /\ UNCHANGED <<mainVars, serving, ready, backendVars, discordVars, markers,
                   said, lines, cancelled>>

\* Mutant: the line is read and nobody is told.
ReadEstablishedDropped(s) ==
    /\ main # "exited"
    /\ pipe[s] # <<>> /\ Head(pipe[s]) = "established"
    /\ pipe' = [pipe EXCEPT ![s] = Tail(@)]
    /\ UNCHANGED <<mainVars, proxyVars, activated, ready, backendVars,
                   discordVars, markers, said, lines, cancelled>>

\* A SESSION_ESTABLISHED line: a send on ready that never waits.
ReadEstablished(s) ==
    /\ main # "exited"
    /\ pipe[s] # <<>> /\ Head(pipe[s]) = "established"
    /\ pipe' = [pipe EXCEPT ![s] = Tail(@)]
    /\ ready' = TRUE
    /\ UNCHANGED <<mainVars, proxyVars, activated, backendVars, discordVars,
                   markers, said, lines, cancelled>>

-----------------------------------------------------------------------------
(* The backend: it breaks when the bridge or the child ends; the monitor   *)
(* goroutine reports once.                                                 *)

BackendBreaks ==
    /\ backend = "up"
    /\ backend' = "broken"
    /\ UNCHANGED <<mainVars, proxyVars, activated, ready, monitor, errCh,
                   discordVars, logVars, cancelled>>

MonitorReports ==
    /\ monitor = "watch"
    /\ backend \in {"broken", "closed"}
    /\ errCh' = IF errCh < ErrCap THEN errCh + 1 ELSE errCh
    /\ monitor' = "done"
    /\ UNCHANGED <<mainVars, proxyVars, activated, ready, backend, discordVars,
                   logVars, cancelled>>

\* case <-b.closed, one of the ready cases after Close.
MonitorClosed ==
    /\ monitor = "watch"
    /\ backend = "closed"
    /\ monitor' = "done"
    /\ UNCHANGED <<mainVars, proxyVars, activated, ready, backend, errCh,
                   discordVars, logVars, cancelled>>

-----------------------------------------------------------------------------
(* The environment: Discord and the user.                                  *)

\* Discord reports an established session only after its main window launch.
\* With the pipes closed the line is lost.
LogLine(s, l) ==
    /\ PIDs # {}
    /\ s \in markers
    /\ lines < MaxLines
    /\ l = "established" => Said("launch")
    /\ said' = said \cup {<<s, l>>}
    /\ lines' = lines + 1
    /\ pipe' = IF PipesOpen THEN [pipe EXCEPT ![s] = Append(@, l)] ELSE pipe
    /\ UNCHANGED <<mainVars, proxyVars, activated, ready, backendVars,
                   discordVars, markers, cancelled>>

AppStarts ==
    /\ Relaunches
    /\ launcher = "run" /\ app = "none"
    /\ app' = "run"
    /\ UNCHANGED <<mainVars, proxyVars, activated, ready, backendVars, launcher,
                   logVars, cancelled>>

AppExits ==
    /\ app = "run"
    /\ app' = "gone"
    /\ UNCHANGED <<mainVars, proxyVars, activated, ready, backendVars, launcher,
                   logVars, cancelled>>

LauncherExits ==
    /\ launcher = "run"
    /\ launcher' = "exited"
    /\ UNCHANGED <<mainVars, proxyVars, activated, ready, backendVars, app,
                   logVars, cancelled>>

\* cmd.Wait returns and the goroutine sends on done.  Wait closes the pipes:
\* a reader keeps the lines its Scanner holds, the first of those unread, and
\* the rest are lost.
Reap ==
    /\ launcher = "exited" /\ main # "exited"
    /\ launcher' = "reaped"
    /\ \E held \in [Streams -> 0 .. MaxLines] :
          /\ \A s \in Streams : held[s] <= Len(pipe[s])
          /\ pipe' = [s \in Streams |-> SubSeq(pipe[s], 1, held[s])]
    /\ UNCHANGED <<mainVars, proxyVars, activated, ready, backendVars, app,
                   markers, said, lines, cancelled>>

Cancel ==
    /\ ~cancelled /\ main # "exited"
    /\ cancelled' = TRUE
    /\ UNCHANGED <<mainVars, proxyVars, activated, ready, backendVars,
                   discordVars, logVars>>

-----------------------------------------------------------------------------
MainStep ==
    \/ StartBackend \/ StartProxy \/ StartDiscord
    \/ MainDone \/ MainReady \/ MainHandoff \/ MainErr \/ MainCancelled
    \/ WaitPoll \/ WaitGrace
    \/ StopDiscord \/ CloseProxy \/ CloseBackend \/ FinalStop

StreamStep(s) == ReadLaunch(s) \/ ReadEstablished(s)

MonitorStep == MonitorReports \/ MonitorClosed

Environment ==
    \/ \E s \in Streams, l \in Markers : LogLine(s, l)
    \/ AppStarts \/ AppExits \/ LauncherExits
    \/ BackendBreaks
    \/ Cancel

Next ==
    \/ MainStep
    \/ \E s \in Streams : StreamStep(s)
    \/ MonitorStep
    \/ Reap
    \/ Environment

\* Goroutines that can run do, and setting up the backend is bounded by its
\* timeouts.  Discord, the network and the user owe nothing.
Fairness ==
    /\ WF_vars(MainStep)
    /\ \A s \in Streams : WF_vars(StreamStep(s))
    /\ WF_vars(MonitorStep)
    /\ WF_vars(Reap)

Spec == Init /\ [][Next]_vars /\ Fairness

-----------------------------------------------------------------------------
TypeOK ==
    /\ main \in {"backend", "proxy", "discord", "select", "handoff", "wait",
                 "stop", "closeProxy", "closeBackend", "final", "exited"}
    /\ handedOff \in BOOLEAN /\ seen \in BOOLEAN /\ grace \in BOOLEAN
    /\ mode \in {"direct", "vpn"} /\ serving \in BOOLEAN
    /\ activated \in BOOLEAN /\ ready \in BOOLEAN
    /\ backend \in {"none", "up", "broken", "closed"}
    /\ monitor \in {"off", "watch", "done"} /\ errCh \in 0 .. ErrCap
    /\ launcher \in {"none", "run", "exited", "reaped"}
    /\ app \in {"none", "run", "gone"}
    /\ markers \subseteq Streams
    /\ said \subseteq markers \X Markers /\ lines \in 0 .. MaxLines
    /\ pipe \in [Streams -> Seq(Markers)]
    /\ cancelled \in BOOLEAN

\* Discord has written a launch line to one stream and a session line to the
\* other; the goroutines that read them may handle the two in either order.
Split ==
    \E s, t \in Streams :
        s # t /\ <<s, "launch">> \in said /\ <<t, "established">> \in said

\* Once the handoff has run, the serving proxy is in direct mode and stays
\* there, so that no client is sent to the dialer of a closed backend, unless
\* Discord's markers are split over its two streams: then the reader of the
\* launch line can come last, spend activateOnce after the handoff, and leave
\* the proxy on the closed tunnel for good.
HandoffIsFinal ==
    (handedOff /\ main # "handoff" /\ serving) => mode = "direct" \/ Split

Tunnel == CASE backend = "none" -> "none"
            [] backend \in {"up", "broken"} -> "up"
            [] backend = "closed" -> "down"

\* Discord writes all its marker lines to one stream, so that one goroutine
\* reads them in the order in which they were written.
OneMarkerStream == \A s, t \in markers : s = t

\* A Discord that uses both streams is mapped to a path that never begins.
Path == INSTANCE StartupPath WITH
    route   <- IF OneMarkerStream THEN mode ELSE "direct",
    tunnel  <- IF OneMarkerStream THEN Tunnel ELSE "none",
    serving <- IF OneMarkerStream THEN serving ELSE FALSE

\* For a Discord that writes its markers to one stream, whichever it is, the
\* tunnel is used only while it is up and taken down only when the proxy is off
\* it: the README's promise, as StartupPath states it.
RefinesStartupPath == Path!Spec

\* Whatever path was taken out, the tunnel and the listener are closed and no
\* process of Discord that could be listed is running when the command ends.
ExitLeavesNothing ==
    [][main' = "exited" /\ main # "exited" =>
           /\ backend' \in {"none", "closed"}
           /\ ~serving'
           /\ PIDs' = {}]_vars

\* A session reported as established ends the VPN.
EstablishedEndsVPN == Said("established") ~> backend = "closed"

\* The same while the started command is Discord: the VPN ends unless that
\* command has exited and Discord lives on in a process of its own.
EstablishedEndsVPNWhileAttached ==
    Said("established")
        ~> (backend = "closed" \/ (launcher = "reaped" /\ PIDs # {}))

\* A backend that fails while Discord starts up is not kept: the loop hands
\* off or leaves.
BrokenBackendIsNoticed ==
    (backend = "broken" /\ main = "select") ~> (handedOff \/ main # "select")

\* A signal ends the command in whatever phase it comes, and so does the end
\* of Discord.
StopEnds ==
    /\ cancelled ~> main = "exited"
    /\ (launcher = "reaped" /\ app # "run") ~> (main = "exited" \/ app = "run")

-----------------------------------------------------------------------------
(* The inductive invariant behind HandoffIsFinal and the refinement.       *)

\* What each phase of the main goroutine has already opened or closed.
PhasesInOrder ==
    /\ main = "backend" => backend = "none" /\ ~serving
    /\ main = "proxy" => backend \in {"up", "broken"} /\ ~serving
    /\ main \in {"discord", "select", "handoff", "wait", "stop", "closeProxy",
                 "closeBackend"} => backend # "none"
    /\ main \in {"closeBackend", "final", "exited"} => ~serving
    /\ main = "final" => backend \in {"none", "closed"}
    /\ main = "handoff" => handedOff

\* Discord says nothing before it is started, and is started once.
DiscordInOrder ==
    /\ main \in {"backend", "proxy", "discord"} => launcher = "none"
    /\ launcher = "none" => app = "none" /\ said = {}

\* The tunnel closes under a serving proxy only in the handoff.
ServesOverTunnel ==
    serving => backend \in {"up", "broken"} \/ (backend = "closed" /\ handedOff)

\* A launch line is in its pipe until it is read, and that spends activateOnce.
\* Unless the markers are split, an unread session line has a launch line
\* before it in its own pipe, or the launch line has been read.
HasLaunch(s, n) == \E j \in 1 .. n : pipe[s][j] = "launch"

LaunchIsInPipe ==
    PipesOpen => \A s \in Streams :
        <<s, "launch">> \in said => activated \/ HasLaunch(s, Len(pipe[s]))

LaunchComesFirst ==
    ~Split =>
        /\ \A s \in Streams : \A i \in 1 .. Len(pipe[s]) :
              pipe[s][i] = "established" => activated \/ HasLaunch(s, i - 1)
        /\ ready => activated
        /\ handedOff => activated /\ mode = "direct"

PhaseInv == TypeOK /\ PhasesInOrder /\ DiscordInOrder /\ ServesOverTunnel
IInv == PhaseInv /\ LaunchIsInPipe /\ LaunchComesFirst
=============================================================================
