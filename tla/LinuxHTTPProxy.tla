--------------------------- MODULE LinuxHTTPProxy ---------------------------
(***************************************************************************)
(* The local HTTP proxy of linux_bootstrap_proxy.go: the accept loop, one  *)
(* handler goroutine per client connection, the two copy goroutines of     *)
(* copyDuplex, concurrent callers of setMode (UseVPN, UseDirect) and the   *)
(* proxy's Close.                                                          *)
(*                                                                         *)
(* Neither setMode nor Close stops the handlers: they take a snapshot of   *)
(* the active map and close what they found.  What the module is about is  *)
(* whether a connection can slip between the atomic mode, the map and the  *)
(* snapshot and keep relaying on the route that was switched away from.    *)
(*                                                                         *)
(* The requests, their hosts and bytes are left out; a dial either gives   *)
(* an upstream connection or fails.                                        *)
(***************************************************************************)
EXTENDS Naturals

CONSTANTS Conns,      \* client connections, each accepted at most once
          Slow,       \* those with a peer that may stop reading
          Switchers,  \* goroutines that call setMode
          Closer      \* the goroutine that calls Close

ASSUME CloserAssumption == Closer \notin Switchers

VARIABLES mode,       \* the atomic p.mode
          active,     \* keys of the map p.active
          listening,  \* p.ln is open
          handler,    \* where the goroutine of each connection is
          route,      \* the mode p.dial read, NoRoute before
          open,       \* client sockets open on the proxy's side
          upstream,   \* connections whose upstream socket is open
          pumps,      \* the copy goroutines of copyDuplex still running
          blocked,    \* writes nobody takes the bytes of: a copy's or req.Write's
          sweep,      \* where each caller of setMode or Close is
          left        \* conns it has copied from active and not closed yet

connVars == <<handler, route, upstream, pumps, blocked>>
sweepVars == <<sweep, left>>
proxyVars == <<mode, active, listening, open, connVars, sweepVars>>

Direct == 0
VPN == 1
Modes == {Direct, VPN}
NoRoute == 2
Pumps == {"up", "down"}
Writers == Pumps \cup {"request"}
Sweepers == Switchers \cup {Closer}
ConnPCs == {"new", "accepted", "read", "dial", "dialing", "opened",
            "relay", "close", "untrack", "done"}

ProxyInit ==
    /\ mode = Direct
    /\ active = {}
    /\ listening = TRUE
    /\ handler = [c \in Conns |-> "new"]
    /\ route = [c \in Conns |-> NoRoute]
    /\ open = {}
    /\ upstream = {}
    /\ pumps = [c \in Conns |-> {}]
    /\ blocked = [c \in Conns |-> {}]
    /\ sweep = [t \in Sweepers |-> "idle"]
    /\ left = [t \in Sweepers |-> {}]

-----------------------------------------------------------------------------
(* acceptLoop: one goroutine, so at most one connection is between Accept  *)
(* and track.                                                              *)

\* Mutant: closing the listener does not end the accept loop.
AcceptAfterClose(c) ==
    /\ \A d \in Conns : handler[d] # "accepted"
    /\ handler[c] = "new"
    /\ handler' = [handler EXCEPT ![c] = "accepted"]
    /\ open' = open \cup {c}
    /\ UNCHANGED <<mode, active, listening, route, upstream, pumps, blocked, sweepVars>>

Accept(c) ==
    /\ listening
    /\ \A d \in Conns : handler[d] # "accepted"
    /\ handler[c] = "new"
    /\ handler' = [handler EXCEPT ![c] = "accepted"]
    /\ open' = open \cup {c}
    /\ UNCHANGED <<mode, active, listening, route, upstream, pumps, blocked, sweepVars>>

\* p.track(c, true) comes before the handler goroutine is started.
Track(c) ==
    /\ handler[c] = "accepted"
    /\ active' = active \cup {c}
    /\ handler' = [handler EXCEPT ![c] = "read"]
    /\ UNCHANGED <<mode, listening, route, open, upstream, pumps, blocked, sweepVars>>

-----------------------------------------------------------------------------
(* handle: read the request, choose the route and dial, relay.             *)

\* http.ReadRequest needs the client's bytes, so the socket is still open.
RequestRead(c) ==
    /\ handler[c] = "read"
    /\ c \in open
    /\ handler' = [handler EXCEPT ![c] = "dial"]
    /\ UNCHANGED <<mode, active, listening, route, open, upstream, pumps, blocked, sweepVars>>

\* A malformed request, EOF, the 30 s deadline or a socket closed by a sweep.
RequestFails(c) ==
    /\ handler[c] = "read"
    /\ handler' = [handler EXCEPT ![c] = "close"]
    /\ UNCHANGED <<mode, active, listening, route, open, upstream, pumps, blocked, sweepVars>>

\* dial reads the mode once and keeps the answer.
LoadMode(c) ==
    /\ handler[c] = "dial"
    /\ route' = [route EXCEPT ![c] = mode]
    /\ handler' = [handler EXCEPT ![c] = "dialing"]
    /\ UNCHANGED <<mode, active, listening, open, upstream, pumps, blocked, sweepVars>>

\* The 502 answer: refused, VPN dialer closed, or the 15 s context.
DialFails(c) ==
    /\ handler[c] = "dialing"
    /\ handler' = [handler EXCEPT ![c] = "close"]
    /\ UNCHANGED <<mode, active, listening, route, open, upstream, pumps, blocked, sweepVars>>

DialSucceeds(c) ==
    /\ handler[c] = "dialing"
    /\ upstream' = upstream \cup {c}
    /\ handler' = [handler EXCEPT ![c] = "opened"]
    /\ UNCHANGED <<mode, active, listening, route, open, pumps, blocked, sweepVars>>

\* CONNECT ignores the error of writing its 200; both kinds of request go on.
StartRelay(c) ==
    /\ handler[c] = "opened"
    /\ "request" \notin blocked[c]
    /\ pumps' = [pumps EXCEPT ![c] = Pumps]
    /\ handler' = [handler EXCEPT ![c] = "relay"]
    /\ UNCHANGED <<mode, active, listening, route, open, upstream, blocked, sweepVars>>

\* req.Write(upstream) failed: handle returns and its defers close upstream.
ForwardFails(c) ==
    /\ handler[c] = "opened"
    /\ "request" \notin blocked[c]
    /\ upstream' = upstream \ {c}
    /\ handler' = [handler EXCEPT ![c] = "close"]
    /\ UNCHANGED <<mode, active, listening, route, open, pumps, blocked, sweepVars>>

\* The socket a copy goroutine is in a call on: "up" reads the client and
\* writes upstream, "down" the other way round, and while its write is blocked
\* a copy does not read.
HoldsOpen(c, p) ==
    IF (p = "up") = (p \in blocked[c]) THEN c \in upstream ELSE c \in open

\* A write blocks because the receiver does not read: req.Write to upstream,
\* or the write of a copy after a read from a source that was still open.  No
\* write has a deadline.
WriteBlocks(c, w) ==
    /\ c \in Slow
    /\ w \notin blocked[c]
    /\ \/ w = "request" /\ handler[c] = "opened"
       \/ w \in pumps[c] /\ {c} \subseteq open \cap upstream
    /\ blocked' = [blocked EXCEPT ![c] = @ \cup {w}]
    /\ UNCHANGED <<mode, active, listening, handler, route, open, upstream, pumps, sweepVars>>

\* The receiver reads again, or the connection to it breaks.
WriteResumes(c, w) ==
    /\ w \in blocked[c]
    /\ blocked' = [blocked EXCEPT ![c] = @ \ {w}]
    /\ UNCHANGED <<mode, active, listening, handler, route, open, upstream, pumps, sweepVars>>

\* A copy goroutine ends by itself: EOF from its source or a failed write.
PumpEOF(c, p) ==
    /\ p \in pumps[c] \ blocked[c]
    /\ HoldsOpen(c, p)
    /\ pumps' = [pumps EXCEPT ![c] = @ \ {p}]
    /\ UNCHANGED <<mode, active, listening, handler, route, open, upstream, blocked, sweepVars>>

\* A copy goroutine ends because the socket it is in a call on was closed
\* here: the one it reads or, in a blocked write, the one it writes.
PumpCut(c, p) ==
    /\ p \in pumps[c]
    /\ ~HoldsOpen(c, p)
    /\ pumps' = [pumps EXCEPT ![c] = @ \ {p}]
    /\ blocked' = [blocked EXCEPT ![c] = @ \ {p}]
    /\ UNCHANGED <<mode, active, listening, handler, route, open, upstream, sweepVars>>

\* Mutant: copyDuplex waits for both directions before it returns.
EndRelayAfterBoth(c) ==
    /\ handler[c] = "relay"
    /\ pumps[c] = {}
    /\ upstream' = upstream \ {c}
    /\ handler' = [handler EXCEPT ![c] = "close"]
    /\ UNCHANGED <<mode, active, listening, route, open, pumps, blocked, sweepVars>>

\* copyDuplex returns at the first of its two goroutines; upstream is closed.
EndRelay(c) ==
    /\ handler[c] = "relay"
    /\ pumps[c] # Pumps
    /\ upstream' = upstream \ {c}
    /\ handler' = [handler EXCEPT ![c] = "close"]
    /\ UNCHANGED <<mode, active, listening, route, open, pumps, blocked, sweepVars>>

\* Mutant: the two defers of acceptLoop in the other order.
CloseClientAfterUntrack(c) ==
    /\ handler[c] = "close"
    /\ active' = active \ {c}
    /\ handler' = [handler EXCEPT ![c] = "untrack"]
    /\ UNCHANGED <<mode, listening, route, open, upstream, pumps, blocked, sweepVars>>

\* The deferred c.Close() of acceptLoop.
CloseClient(c) ==
    /\ handler[c] = "close"
    /\ open' = open \ {c}
    /\ handler' = [handler EXCEPT ![c] = "untrack"]
    /\ UNCHANGED <<mode, active, listening, route, upstream, pumps, blocked, sweepVars>>

\* The deferred p.track(c, false): the first defer, so the last to run.
Untrack(c) ==
    /\ handler[c] = "untrack"
    /\ active' = active \ {c}
    /\ handler' = [handler EXCEPT ![c] = "done"]
    /\ UNCHANGED <<mode, listening, route, open, upstream, pumps, blocked, sweepVars>>

-----------------------------------------------------------------------------
(* setMode and Close.                                                      *)

\* p.mode.Swap(m): the caller returns at once when the mode did not change.
SwapMode(t, m) ==
    /\ sweep[t] = "idle"
    /\ mode' = m
    /\ sweep' = [sweep EXCEPT ![t] = IF mode = m THEN "idle" ELSE "snapshot"]
    /\ UNCHANGED <<active, listening, open, connVars, left>>

\* ln.Close() under closeOnce.
CloseListener ==
    /\ listening
    /\ listening' = FALSE
    /\ sweep' = [sweep EXCEPT ![Closer] = "snapshot"]
    /\ UNCHANGED <<mode, active, open, connVars, left>>

\* Mutant: only connections that already relay are closed.
SnapshotRelays(t) ==
    /\ sweep[t] = "snapshot"
    /\ left' = [left EXCEPT ![t] = {c \in active : handler[c] = "relay"}]
    /\ sweep' = [sweep EXCEPT ![t] = "closing"]
    /\ UNCHANGED <<mode, active, listening, open, connVars>>

\* Under p.mu: copy the keys of the map.
Snapshot(t) ==
    /\ sweep[t] = "snapshot"
    /\ left' = [left EXCEPT ![t] = active]
    /\ sweep' = [sweep EXCEPT ![t] = "closing"]
    /\ UNCHANGED <<mode, active, listening, open, connVars>>

\* c.Close() on one of them; closing a closed connection changes nothing.
SweepOne(t, c) ==
    /\ c \in left[t]
    /\ open' = open \ {c}
    /\ left' = [left EXCEPT ![t] = @ \ {c}]
    /\ UNCHANGED <<mode, active, listening, connVars, sweep>>

SweepReturn(t) ==
    /\ sweep[t] = "closing"
    /\ left[t] = {}
    /\ sweep' = [sweep EXCEPT ![t] = "idle"]
    /\ UNCHANGED <<mode, active, listening, open, connVars, left>>

-----------------------------------------------------------------------------
Handle(c) ==
    \/ Track(c)
    \/ RequestRead(c) \/ RequestFails(c)
    \/ LoadMode(c)
    \/ DialFails(c) \/ DialSucceeds(c)
    \/ EndRelay(c)
    \/ CloseClient(c)
    \/ Untrack(c)

Forward(c) == StartRelay(c) \/ ForwardFails(c)

Sweep(t) ==
    \/ Snapshot(t)
    \/ \E c \in Conns : SweepOne(t, c)
    \/ SweepReturn(t)

ProxyNext ==
    \/ \E c \in Conns :
          \/ Accept(c)
          \/ Handle(c)
          \/ Forward(c)
          \/ \E p \in Pumps : PumpEOF(c, p) \/ PumpCut(c, p)
          \/ \E w \in Writers : WriteBlocks(c, w) \/ WriteResumes(c, w)
    \/ \E t \in Switchers, m \in Modes : SwapMode(t, m)
    \/ CloseListener
    \/ \E t \in Sweepers : Sweep(t)

\* Go schedules every runnable goroutine; reading a request is bounded by its
\* 30 s deadline and a dial by its 15 s context, and a call on a socket that
\* was closed here returns.  req.Write also reads the request's body: once the
\* client's socket is closed what it can still write is finite, so that a write
\* that resumes again and again is done (strong fairness); before, the client
\* may keep it waiting.  The two peers owe nothing: Accept, PumpEOF and
\* WriteResumes are not fair.
ProxyFairness ==
    /\ \A c \in Conns : WF_proxyVars(Handle(c))
    /\ \A c \in Conns : SF_proxyVars(c \notin open /\ Forward(c))
    /\ \A c \in Conns : WF_proxyVars(\E p \in Pumps : PumpCut(c, p))
    /\ \A t \in Sweepers : WF_proxyVars(Sweep(t))

ProxySpec == ProxyInit /\ [][ProxyNext]_proxyVars /\ ProxyFairness

-----------------------------------------------------------------------------
ProxyTypeOK ==
    /\ mode \in Modes
    /\ active \subseteq Conns
    /\ listening \in BOOLEAN
    /\ handler \in [Conns -> ConnPCs]
    /\ route \in [Conns -> Modes \cup {NoRoute}]
    /\ open \subseteq Conns
    /\ upstream \subseteq Conns
    /\ pumps \in [Conns -> SUBSET Pumps]
    /\ blocked \in [Conns -> SUBSET Writers]
    /\ sweep \in [Sweepers -> {"idle", "snapshot", "closing"}]
    /\ left \in [Sweepers -> SUBSET Conns]

\* A connection that has an answer from mode.Load and whose socket is open is
\* on the current route, unless a setMode that will close it is still running:
\* it has swapped and not taken its snapshot, or has this connection to close.
\* This is what Swap before the snapshot and track before the load buy.
StaleIsDoomed ==
    \A c \in open :
        route[c] \notin {NoRoute, mode} =>
            \E t \in Switchers : sweep[t] = "snapshot" \/ c \in left[t]

\* The rest of the inductive invariant: what setMode and Close rely on.
OpenIsTracked == \A c \in open : handler[c] = "accepted" \/ c \in active
EarlyHasNoRoute ==
    \A c \in Conns :
        handler[c] \in {"new", "accepted", "read", "dial"} => route[c] = NoRoute
OneInHand ==
    \A c, d \in Conns : handler[c] = "accepted" /\ handler[d] = "accepted" => c = d
EndedIsClosed == \A c \in Conns : handler[c] \in {"untrack", "done"} => c \notin open
UpstreamInHandler == \A c \in upstream : handler[c] \in {"opened", "relay"}
LeftWhileClosing == \A t \in Sweepers : left[t] # {} => sweep[t] = "closing"
CloserWaits == listening => sweep[Closer] = "idle"
CloserCovers ==
    (~listening /\ sweep[Closer] # "snapshot") =>
        \A c, d \in open \ left[Closer] : c = d

\* The inductive invariant behind NoStaleRoute, CloseMissesAtMostOne and
\* ForgottenIsClosed: tracked before routed, closed before untracked, and a
\* stale connection always in some running sweep's way.
ProxyInv ==
    /\ ProxyTypeOK
    /\ StaleIsDoomed
    /\ OpenIsTracked
    /\ EarlyHasNoRoute
    /\ OneInHand
    /\ EndedIsClosed
    /\ UpstreamInHandler
    /\ LeftWhileClosing
    /\ CloserWaits
    /\ CloserCovers

\* When no setMode is running, every open client connection that has a route
\* has the current one: UseVPN leaves no updater connection direct and
\* UseDirect leaves none on the tunnel, whatever was in progress.
NoStaleRoute ==
    (\A t \in Switchers : sweep[t] = "idle") =>
        \A c \in open : route[c] \in {NoRoute, mode}

\* After Close has returned at most one client connection is open: the one
\* the accept loop had in hand, which the snapshot cannot have seen.
CloseMissesAtMostOne ==
    (~listening /\ sweep[Closer] = "idle") =>
        \A c, d \in open : c = d

\* A connection is forgotten by the map only when nothing of it is left to
\* close: its client and its upstream socket are both closed.
ForgottenIsClosed ==
    [][\A c \in Conns : c \in active \ active' => c \notin open \cup upstream]_proxyVars

Reaped(c) ==
    handler[c] = "done" /\ c \notin active \cup upstream /\ pumps[c] = {}

\* Upstream takes no bytes: req.Write or the copy towards it is blocked.
UpstreamStalls(c) == blocked[c] \cap {"request", "up"} # {}

\* A handler whose client socket was closed, by a sweep or by itself, ends,
\* leaves the map and leaves no copy goroutine behind, unless upstream stays
\* open and never again takes the bytes of a write that is blocked on it: no
\* write has a deadline and nothing else closes upstream.  A client that does
\* not read holds up nothing.
ClosedIsReaped ==
    \A c \in Conns :
        []<>~UpstreamStalls(c) => ((handler[c] # "new" /\ c \notin open) ~> Reaped(c))
=============================================================================
