--------------------------- MODULE LinuxVPNDialer ---------------------------
(***************************************************************************)
(* linuxVPNDialer and the dial loop of its child process                   *)
(* (linux_bootstrap_proxy.go): DialContext registers a channel under a     *)
(* fresh id and sends the target over a datagram socket pair; the child,   *)
(* in its own network namespace, dials and answers with the connected      *)
(* socket; readLoop matches answers to channels by id; Close ends it all.  *)
(*                                                                         *)
(* The module asks whether ids, the pending map and the one-place channels *)
(* survive late answers, timeouts, Close at any point, the child's death   *)
(* and the wrap of the 32-bit counter.                                     *)
(*                                                                         *)
(* A target address is named by the dial that asked for it, and so is the  *)
(* connection the child opened to it.  Datagrams of the pair are neither   *)
(* lost nor duplicated; the child answers in any order, so queued messages *)
(* are sets.                                                               *)
(***************************************************************************)
EXTENDS Naturals, FiniteSets

CONSTANTS Dials,       \* calls of DialContext
          NoDial,      \* nil channel, nil connection
          IdSpace,     \* 2^32 in the code
          FirstID,     \* value of nextID after earlier dials
          ChildQueue   \* datagrams the child's socket holds unread

ASSUME DialAssumption == NoDial \notin Dials
ASSUME IdAssumption ==
    /\ IdSpace \in Nat \ {0}
    /\ FirstID \in 0 .. (IdSpace - 1)
\* The counter does not lap a dial in flight, which has 15 s to end.
ASSUME LapAssumption ==
    /\ IsFiniteSet(Dials)
    /\ Cardinality(Dials) + 1 < IdSpace

VARIABLES nextID,      \* the atomic counter
          id,          \* id of each dial, 0 before it has one
          pending,     \* id -> the dial whose channel is registered, or NoDial
          pc,          \* where each DialContext is
          chan,        \* content of each dial's one-place channel
          ret,         \* how each dial returned
          got,         \* the connection it returned
          sock,        \* the parent's end of the pair is open
          closedCh,    \* d.closed has been closed
          closer,      \* progress of the once-only body of Close
          drain,       \* channels Close has still to send to
          reader,      \* where readLoop is
          msg,         \* the answer readLoop has in hand
          target,      \* the channel deliver took from pending
          child,       \* the child process is alive
          requests,    \* sent, not yet read by the child
          dialing,     \* dial goroutines of the child
          replies,     \* answers not yet received
          received,    \* connections whose descriptor reached this process
          shut         \* connections deliver closed because nobody waits

dialVars == <<nextID, id, pc, ret, got>>
closeVars == <<sock, closedCh, closer, drain>>
readVars == <<reader, msg, target, received, shut>>
childVars == <<child, requests, dialing, replies>>
vars == <<dialVars, pending, chan, closeVars, readVars, childVars>>

Ids == 0 .. (IdSpace - 1)
Conn == Dials \cup {NoDial}      \* NoDial: the result carries an error
Request == [id : Ids, dest : Dials]
Reply == [id : Ids, conn : Conn]
NoMsg == [id |-> 0, conn |-> NoDial]
Returns == {"none", "conn", "error", "sendfail", "timeout", "closed"}

Init ==
    /\ nextID = FirstID
    /\ id = [d \in Dials |-> 0]
    /\ pending = [i \in Ids |-> NoDial]
    /\ pc = [d \in Dials |-> "alloc"]
    /\ chan = [d \in Dials |-> {}]
    /\ ret = [d \in Dials |-> "none"]
    /\ got = [d \in Dials |-> NoDial]
    /\ sock = TRUE
    /\ closedCh = FALSE
    /\ closer = "open"
    /\ drain = {}
    /\ reader = "recv"
    /\ msg = NoMsg
    /\ target = NoDial
    /\ child = TRUE
    /\ requests = {}
    /\ dialing = {}
    /\ replies = {}
    /\ received = {}
    /\ shut = {}

-----------------------------------------------------------------------------
(* DialContext.                                                            *)

\* Mutant: id 0 is replaced by 1 without taking 1 from the counter.
AllocSubstitutesOne(d) ==
    /\ pc[d] \in {"alloc", "realloc"}
    /\ nextID' = (nextID + 1) % IdSpace
    /\ id' = [id EXCEPT ![d] = IF nextID' = 0 THEN 1 ELSE nextID']
    /\ pc' = [pc EXCEPT ![d] = "register"]
    /\ UNCHANGED <<ret, got, pending, chan, closeVars, readVars, childVars>>

\* atomic.AddUint32, and once more when the counter wrapped to 0.
Alloc(d) ==
    /\ pc[d] \in {"alloc", "realloc"}
    /\ nextID' = (nextID + 1) % IdSpace
    /\ id' = [id EXCEPT ![d] = nextID']
    /\ pc' = [pc EXCEPT ![d] = IF nextID' = 0 /\ pc[d] = "alloc"
                               THEN "realloc" ELSE "register"]
    /\ UNCHANGED <<ret, got, pending, chan, closeVars, readVars, childVars>>

\* d.pending[id] = ch, under pendingMu.
Register(d) ==
    /\ pc[d] = "register"
    /\ pending' = [pending EXCEPT ![id[d]] = d]
    /\ pc' = [pc EXCEPT ![d] = "send"]
    /\ UNCHANGED <<nextID, id, ret, got, chan, closeVars, readVars, childVars>>

\* SendmsgN under writeMu; it blocks while the child's queue is full.
Send(d) ==
    /\ pc[d] = "send"
    /\ sock /\ child
    /\ Cardinality(requests) < ChildQueue
    /\ requests' = requests \cup {[id |-> id[d], dest |-> d]}
    /\ pc' = [pc EXCEPT ![d] = "wait"]
    /\ UNCHANGED <<nextID, id, ret, got, pending, chan, closeVars, readVars,
                   child, dialing, replies>>

\* EBADF or EPIPE after Close, ECONNREFUSED after the child's death.
SendFails(d) ==
    /\ pc[d] = "send"
    /\ ~sock \/ ~child
    /\ pending' = [pending EXCEPT ![id[d]] = NoDial]
    /\ ret' = [ret EXCEPT ![d] = "sendfail"]
    /\ pc' = [pc EXCEPT ![d] = "done"]
    /\ UNCHANGED <<nextID, id, got, chan, closeVars, readVars, childVars>>

\* case r := <-ch
Answered(d, x) ==
    /\ pc[d] = "wait"
    /\ x \in chan[d]
    /\ chan' = [chan EXCEPT ![d] = {}]
    /\ got' = [got EXCEPT ![d] = x]
    /\ ret' = [ret EXCEPT ![d] = IF x = NoDial THEN "error" ELSE "conn"]
    /\ pc' = [pc EXCEPT ![d] = "done"]
    /\ UNCHANGED <<nextID, id, pending, closeVars, readVars, childVars>>

\* Mutant: a dial that times out leaves its channel registered.
TimeoutKeepsPending(d) ==
    /\ pc[d] = "wait"
    /\ ret' = [ret EXCEPT ![d] = "timeout"]
    /\ pc' = [pc EXCEPT ![d] = "done"]
    /\ UNCHANGED <<nextID, id, got, pending, chan, closeVars, readVars, childVars>>

\* Mutant: the wait ignores its context.
TimeoutNever(d) == FALSE /\ UNCHANGED <<pc[d], vars>>

\* case <-ctx.Done(): the 15 s of handle, possibly with an answer waiting too.
Timeout(d) ==
    /\ pc[d] = "wait"
    /\ pending' = [pending EXCEPT ![id[d]] = NoDial]
    /\ ret' = [ret EXCEPT ![d] = "timeout"]
    /\ pc' = [pc EXCEPT ![d] = "done"]
    /\ UNCHANGED <<nextID, id, got, chan, closeVars, readVars, childVars>>

\* case <-d.closed: returns without touching pending.
SeesClosed(d) ==
    /\ pc[d] = "wait"
    /\ closedCh
    /\ ret' = [ret EXCEPT ![d] = "closed"]
    /\ pc' = [pc EXCEPT ![d] = "done"]
    /\ UNCHANGED <<nextID, id, got, pending, chan, closeVars, readVars, childVars>>

-----------------------------------------------------------------------------
(* readLoop and deliver.                                                   *)

\* Recvmsg; a connected socket that cannot be unpacked becomes an error.
Recv(r, x) ==
    /\ reader = "recv"
    /\ sock
    /\ r \in replies
    /\ x \in {r.conn, NoDial}
    /\ replies' = replies \ {r}
    /\ msg' = [id |-> r.id, conn |-> x]
    /\ received' = received \cup ({x} \ {NoDial})
    /\ reader' = "lookup"
    /\ UNCHANGED <<dialVars, pending, chan, closeVars, target, shut, child,
                   requests, dialing>>

\* Mutant: a late connection is forgotten instead of closed.
LookupForgets ==
    /\ reader = "lookup"
    /\ target' = pending[msg.id]
    /\ pending' = [pending EXCEPT ![msg.id] = NoDial]
    /\ reader' = IF target' = NoDial THEN "recv" ELSE "send"
    /\ UNCHANGED <<dialVars, chan, closeVars, msg, received, shut, childVars>>

\* deliver, under pendingMu: take the channel out of the map; without one,
\* close the connection that came too late.
Lookup ==
    /\ reader = "lookup"
    /\ target' = pending[msg.id]
    /\ pending' = [pending EXCEPT ![msg.id] = NoDial]
    /\ reader' = IF target' = NoDial THEN "recv" ELSE "send"
    /\ shut' = IF target' = NoDial THEN shut \cup ({msg.conn} \ {NoDial}) ELSE shut
    /\ UNCHANGED <<dialVars, chan, closeVars, msg, received, childVars>>

\* ch <- result, which blocks while the channel is full.
Deliver ==
    /\ reader = "send"
    /\ chan[target] = {}
    /\ chan' = [chan EXCEPT ![target] = {msg.conn}]
    /\ target' = NoDial
    /\ reader' = "recv"
    /\ UNCHANGED <<dialVars, pending, closeVars, msg, received, shut, childVars>>

\* Recvmsg fails, because Close shut the socket or by itself: d.Close().
RecvFails ==
    /\ reader = "recv"
    /\ reader' = "close"
    /\ UNCHANGED <<dialVars, pending, chan, closeVars, msg, target, received,
                   shut, childVars>>

\* closeOnce.Do returns to readLoop when the body has run, whoever ran it.
ReaderExits ==
    /\ reader = "close"
    /\ closer = "closed"
    /\ reader' = "exit"
    /\ UNCHANGED <<dialVars, pending, chan, closeVars, msg, target, received,
                   shut, childVars>>

-----------------------------------------------------------------------------
(* Close: the body of closeOnce.Do, run by readLoop or by backend.Close.   *)

CloseSignal ==
    /\ closer = "open"
    /\ closedCh' = TRUE
    /\ closer' = "signalled"
    /\ UNCHANGED <<dialVars, pending, chan, sock, drain, readVars, childVars>>

\* Shutdown and close; answers still queued are freed with the socket.
CloseSocket ==
    /\ closer = "signalled"
    /\ sock' = FALSE
    /\ replies' = {}
    /\ closer' = "shut"
    /\ UNCHANGED <<dialVars, pending, chan, closedCh, drain, readVars, child,
                   requests, dialing>>

\* Mutant: the drained channels are the live map's, never replaced.
CloseSwapKeepsMap ==
    /\ closer = "shut"
    /\ drain' = {d \in Dials : \E i \in Ids : pending[i] = d}
    /\ closer' = "draining"
    /\ UNCHANGED <<dialVars, pending, chan, sock, closedCh, readVars, childVars>>

\* pending := d.pending; d.pending = make(...), under pendingMu.
CloseSwap ==
    /\ closer = "shut"
    /\ drain' = {d \in Dials : \E i \in Ids : pending[i] = d}
    /\ pending' = [i \in Ids |-> NoDial]
    /\ closer' = "draining"
    /\ UNCHANGED <<dialVars, chan, sock, closedCh, readVars, childVars>>

\* ch <- error, which blocks while the channel is full.
DrainOne(d) ==
    /\ d \in drain
    /\ chan[d] = {}
    /\ chan' = [chan EXCEPT ![d] = {NoDial}]
    /\ drain' = drain \ {d}
    /\ UNCHANGED <<dialVars, pending, sock, closedCh, closer, readVars, childVars>>

\* Mutant: Close waits for readLoop, which waits for Close.
CloseReturnJoinsReader ==
    /\ closer = "draining"
    /\ drain = {}
    /\ reader = "exit"
    /\ closer' = "closed"
    /\ UNCHANGED <<dialVars, pending, chan, sock, closedCh, drain, readVars,
                   childVars>>

CloseReturn ==
    /\ closer = "draining"
    /\ drain = {}
    /\ closer' = "closed"
    /\ UNCHANGED <<dialVars, pending, chan, sock, closedCh, drain, readVars,
                   childVars>>

-----------------------------------------------------------------------------
(* The child: the dial loop of vpnProxyChild.                              *)

ChildReads(r) ==
    /\ child
    /\ r \in requests
    /\ requests' = requests \ {r}
    /\ dialing' = dialing \cup {r}
    /\ UNCHANGED <<dialVars, pending, chan, closeVars, readVars, child, replies>>

\* The goroutine of one request answers with a socket or with an error, at
\* most 12 s later; sending to a closed peer is an error it ignores.
ChildAnswers(r, x) ==
    /\ child
    /\ r \in dialing
    /\ x \in {r.dest, NoDial}
    /\ dialing' = dialing \ {r}
    /\ replies' = IF sock THEN replies \cup {[id |-> r.id, conn |-> x]} ELSE replies
    /\ UNCHANGED <<dialVars, pending, chan, closeVars, readVars, child, requests>>

\* The process is killed or fails: what it had not answered is gone.  The
\* parent's datagram socket does not notice.
ChildDies ==
    /\ child
    /\ child' = FALSE
    /\ requests' = {}
    /\ dialing' = {}
    /\ UNCHANGED <<dialVars, pending, chan, closeVars, readVars, replies>>

-----------------------------------------------------------------------------
DialStep(d) ==
    \/ Alloc(d)
    \/ Register(d)
    \/ Send(d) \/ SendFails(d)
    \/ \E x \in Conn : Answered(d, x)
    \/ Timeout(d)
    \/ SeesClosed(d)

ReadStep ==
    \/ \E r \in replies, x \in Conn : Recv(r, x)
    \/ Lookup
    \/ Deliver
    \/ ReaderExits

CloseStep ==
    \/ CloseSocket
    \/ CloseSwap
    \/ \E d \in Dials : DrainOne(d)
    \/ CloseReturn

ChildStep ==
    \/ \E r \in requests : ChildReads(r)
    \/ \E r \in dialing, x \in Conn : ChildAnswers(r, x)

Next ==
    \/ \E d \in Dials : DialStep(d)
    \/ ReadStep
    \/ RecvFails
    \/ CloseSignal
    \/ CloseStep
    \/ ChildStep
    \/ ChildDies

\* Go runs every runnable goroutine, the child's too while it lives, and every
\* dial has the 15 s context of handle.  Nobody has to call Close, except
\* readLoop when Recvmsg failed, and Recvmsg fails once its socket is closed.
Fairness ==
    /\ \A d \in Dials : WF_vars(DialStep(d))
    /\ WF_vars(ReadStep)
    /\ WF_vars(~sock /\ RecvFails)
    /\ WF_vars(reader = "close" /\ CloseSignal)
    /\ WF_vars(CloseStep)
    /\ WF_vars(ChildStep)

Spec == Init /\ [][Next]_vars /\ Fairness

-----------------------------------------------------------------------------
TypeOK ==
    /\ nextID \in Ids
    /\ id \in [Dials -> Ids]
    /\ pending \in [Ids -> Dials \cup {NoDial}]
    /\ pc \in [Dials -> {"alloc", "realloc", "register", "send", "wait", "done"}]
    /\ chan \in [Dials -> SUBSET Conn]
    /\ ret \in [Dials -> Returns]
    /\ got \in [Dials -> Conn]
    /\ sock \in BOOLEAN /\ closedCh \in BOOLEAN /\ child \in BOOLEAN
    /\ closer \in {"open", "signalled", "shut", "draining", "closed"}
    /\ drain \subseteq Dials
    /\ reader \in {"recv", "lookup", "send", "close", "exit"}
    /\ msg \in Reply
    /\ target \in Dials \cup {NoDial}
    /\ requests \subseteq Request /\ dialing \subseteq Request
    /\ replies \subseteq Reply
    /\ received \subseteq Dials /\ shut \subseteq Dials

\* A dial whose channel some sender has taken out of the map.
Taken(d) == target = d \/ d \in drain

\* Inductive invariant: a channel is in the map, or in the hands of exactly
\* one sender, or has been sent to -- never two of these.
RegisteredUnderOwnId ==
    \A i \in Ids, d \in Dials :
        pending[i] = d => id[d] = i /\ pc[d] \in {"send", "wait", "done"}
RegisteredIsUnsent ==
    \A i \in Ids, d \in Dials : pending[i] = d => ~Taken(d) /\ chan[d] = {}
TakenIsUnsent == \A d \in Dials : Taken(d) => chan[d] = {}
OneSender == \A d \in Dials : ~(target = d /\ d \in drain)
ReaderHasTarget == reader = "send" <=> target # NoDial
EarlyIsUntouched ==
    \A d \in Dials :
        pc[d] \in {"alloc", "realloc", "register"} => ~Taken(d) /\ chan[d] = {}
GivenUpIsGone ==
    \A i \in Ids, d \in Dials :
        pending[i] = d => ret[d] \notin {"timeout", "sendfail", "conn", "error"}
UnansweredHasNoConn == \A d \in Dials : pc[d] # "done" => ret[d] = "none"

IInv ==
    /\ TypeOK
    /\ RegisteredUnderOwnId
    /\ RegisteredIsUnsent
    /\ TakenIsUnsent
    /\ OneSender
    /\ ReaderHasTarget
    /\ EarlyIsUntouched
    /\ GivenUpIsGone
    /\ UnansweredHasNoConn

\* How far the counter has come since FirstID, and the dials that have an id.
Offset(i) == IF i >= FirstID THEN i - FirstID ELSE i + IdSpace - FirstID
Served == {d \in Dials : pc[d] \notin {"alloc", "realloc"}}

\* Inductive invariant of the ids: the counter has come one for each dial that
\* has an id and one for the 0 it skipped, so that it laps nobody.
CounterCounts ==
    /\ Offset(nextID) = Cardinality(Served) + IF nextID < FirstID THEN 1 ELSE 0
    /\ \A d \in Dials : pc[d] = "realloc" => nextID < FirstID
IdsAreBehind == \A d \in Served : Offset(id[d]) \in 1 .. Offset(nextID)
IdsAreDistinct == \A d, e \in Served : id[d] = id[e] => d = e

\* Whatever travels carries the id of the dial it was dialled for.
RequestsAreLabelled ==
    \A r \in requests \cup dialing : r.dest \in Served /\ r.id = id[r.dest]
RepliesAreLabelled ==
    \A r \in replies \cup IF reader \in {"lookup", "send"} THEN {msg} ELSE {} :
        r.conn # NoDial => r.conn \in Served /\ r.id = id[r.conn]
TargetIsLabelled == reader = "send" => target \in Served /\ msg.id = id[target]
OwnConnOnly ==
    \A d \in Dials :
        /\ chan[d] \subseteq {d, NoDial}
        /\ got[d] \in {d, IF ret[d] = "conn" THEN d ELSE NoDial}

LabelInv ==
    /\ IInv
    /\ CounterCounts
    /\ IdsAreBehind
    /\ IdsAreDistinct
    /\ RequestsAreLabelled
    /\ RepliesAreLabelled
    /\ TargetIsLabelled
    /\ OwnConnOnly

\* Neither readLoop nor Close ever waits on a channel: each channel is sent to
\* at most once, so its one place is free when its sender gets to it.
SendersNeverBlock ==
    /\ reader = "send" => chan[target] = {}
    /\ \A d \in drain : chan[d] = {} /\ target # d

\* A dial that returns a connection returns the one to its own target, with
\* answers late and out of order and the counter wrapping past 0.
OwnReply == \A d \in Dials : ret[d] = "conn" => got[d] = d

\* Once a dial has given up, by timeout or failed send, no sender newly takes
\* its channel: an answer matched later finds nobody and is closed.
GivenUpIsUnreachable ==
    [][\A d \in Dials :
          ret[d] \in {"timeout", "sendfail"} /\ ~Taken(d) => ~Taken(d)']_vars

\* A connection whose descriptor reached the parent is somewhere: in
\* readLoop's hands, in its dial's channel, returned, or closed.
NoConnVanishes ==
    \A c \in received :
        \/ reader \in {"lookup", "send"} /\ msg.conn = c
        \/ \E d \in Dials : c \in chan[d] \/ got[d] = c
        \/ c \in shut

\* Inductive with it: a channel has one place, a dial takes from it once.
OnePlace == \A d \in Dials : \A x, y \in chan[d] : x = y
NothingGotYet == \A d \in Dials : pc[d] # "done" => got[d] = NoDial

ConnInv == IInv /\ OnePlace /\ NothingGotYet /\ NoConnVanishes

\* Every DialContext returns, whatever the child and Close do.
EveryDialReturns == \A d \in Dials : <>(pc[d] = "done")

\* Once begun, Close returns and ends readLoop.
CloseEndsReader == closedCh ~> (closer = "closed" /\ reader = "exit")
=============================================================================
