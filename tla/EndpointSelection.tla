------------------------- MODULE EndpointSelection -------------------------
(***************************************************************************)
(* bestWireEndpoint of tlsprobe.go: which gateway a session is set up      *)
(* with.  Every advertised UDP endpoint is probed once, a limited number   *)
(* at a time (probeOpenVPNWire); the fastest that answered are probed      *)
(* twice more, each by a goroutine of its own; the one with the lowest     *)
(* median wins.  A probe is one reset sent and one datagram read           *)
(* (openVPNResetUDP): its outcome is a latency or 0 for any error -- no    *)
(* answer in time, an answer to another session, a reset that is not       *)
(* acknowledged.                                                           *)
(***************************************************************************)
EXTENDS Integers, Sequences, FiniteSets, SequencesExt

CONSTANTS Advertised,  \* what the service lists: [host, protocol, port]
          MaxPort,     \* 65535 in the code
          Permits,     \* capacity of sem, 12 in the code
          Finalists,   \* 5 in the code
          Latencies    \* what a clock may show

ASSUME SelectionAssumption ==
    /\ Permits \in Nat \ {0} /\ Finalists \in Nat \ {0} /\ MaxPort \in Nat
    /\ Latencies \subseteq Nat \ {0}

VARIABLES ctxDone,   \* the caller's context is done
          stage,     \* of bestWireEndpoint
          job,       \* the goroutines of probeOpenVPNWire
          latency,   \* results: 0 is an error
          finalists, \* candidates, as positions in the list of endpoints
          samples,   \* latencies measured for each candidate
          tries,     \* extra samples each candidate's goroutine has tried
          chosen     \* the endpoint returned, 0 before that

localVars == <<job, latency, finalists, samples, tries>>
selectionVars == <<ctxDone, stage, localVars, chosen>>

\* The openvpn endpoints with a usable port, in the order of the service.
endpoints == SelectSeq(Advertised, LAMBDA e : e.port \in 1 .. MaxPort)

UDPEndpoints == SelectSeq(endpoints, LAMBDA e : e.protocol = "udp")

Jobs == 1 .. Len(UDPEndpoints)
Extra == 2    \* samples besides the first

SelectionInit ==
    /\ ctxDone = FALSE
    /\ stage = "idle"
    /\ job = [i \in Jobs |-> "queued"] /\ latency = [i \in Jobs |-> 0]
    /\ finalists = <<>> /\ samples = <<>> /\ tries = <<>>
    /\ chosen = 0

\* bestWireEndpoint is called.
SelectionStarts ==
    /\ stage = "idle"
    /\ stage' = "probe"
    /\ UNCHANGED <<ctxDone, localVars, chosen>>

-----------------------------------------------------------------------------
(* probeOpenVPNWire.                                                       *)

Acquire(i) ==
    /\ stage = "probe" /\ job[i] = "queued"
    /\ Cardinality({j \in Jobs : job[j] = "probing"}) < Permits
    /\ job' = [job EXCEPT ![i] = "probing"]
    /\ UNCHANGED <<ctxDone, stage, latency, finalists, samples, tries, chosen>>

GiveUp(i) ==
    /\ stage = "probe" /\ job[i] = "queued"
    /\ ctxDone
    /\ job' = [job EXCEPT ![i] = "done"]
    /\ UNCHANGED <<ctxDone, stage, latency, finalists, samples, tries, chosen>>

\* openVPNResetUDP returns and the permit is given back.
Probe(i) ==
    /\ stage = "probe" /\ job[i] = "probing"
    /\ \E l \in Latencies \cup {0} : latency' = [latency EXCEPT ![i] = l]
    /\ job' = [job EXCEPT ![i] = "done"]
    /\ UNCHANGED <<ctxDone, stage, finalists, samples, tries, chosen>>

\* The stable sort of the results that are no errors.
Ranked(r) ==
    \A a, b \in DOMAIN r :
        a < b => \/ latency[r[a]] < latency[r[b]]
                 \/ latency[r[a]] = latency[r[b]] /\ r[a] < r[b]

\* wg.Wait() is over: the first few become candidates, or there is none.
Rank ==
    /\ stage = "probe" /\ \A i \in Jobs : job[i] = "done"
    /\ \E r \in SetToSeqs({i \in Jobs : latency[i] # 0}) :
          Ranked(r) /\ finalists' = SubSeq(r, 1, Min({Len(r), Finalists}))
    /\ samples' = [k \in DOMAIN finalists' |-> <<latency[finalists'[k]]>>]
    /\ tries' = [k \in DOMAIN finalists' |-> 0]
    /\ stage' = IF finalists' = <<>> THEN "failed" ELSE "sample"
    /\ UNCHANGED <<ctxDone, job, latency, chosen>>

-----------------------------------------------------------------------------
(* The candidates' goroutines and the choice.                              *)

\* One more reset exchange; the dial fails once the context is done.
Sample(k) ==
    /\ stage = "sample" /\ k \in DOMAIN tries /\ tries[k] < Extra
    /\ tries' = [tries EXCEPT ![k] = @ + 1]
    /\ \/ UNCHANGED samples
       \/ /\ ~ctxDone
          /\ \E l \in Latencies : samples' = [samples EXCEPT ![k] = Append(@, l)]
    /\ UNCHANGED <<ctxDone, stage, job, latency, finalists, chosen>>

\* sort.Slice: the positions of s in an ascending order of their values.
Order(s) ==
    CHOOSE p \in SetToSeqs(DOMAIN s) :
        \A i, j \in DOMAIN s : i < j => s[p[i]] <= s[p[j]]

Sorted(s) == [i \in DOMAIN s |-> s[Order(s)[i]]]

\* Mutant: the lower of two samples counts as their median.
LowerMedian(s) == Sorted(s)[(Len(s) - 1) \div 2 + 1]

medianLatency(s) == Sorted(s)[Len(s) \div 2 + 1]

Best(s) == Sorted(s)[1]
Stable(s) == Len(s) >= 2

\* The order of the last sort, ties left to the position.
Preferred(i, j) ==
    LET a == samples[i]
        b == samples[j]
    IN  \/ Stable(a) /\ ~Stable(b)
        \/ /\ Stable(a) <=> Stable(b)
           /\ \/ medianLatency(a) < medianLatency(b)
              \/ /\ medianLatency(a) = medianLatency(b)
                 /\ Best(a) < Best(b) \/ (Best(a) = Best(b) /\ i < j)

\* First after the last sort.
Wins(k) == \A j \in DOMAIN finalists \ {k} : Preferred(k, j)

Decide ==
    /\ stage = "sample" /\ \A k \in DOMAIN tries : tries[k] = Extra
    /\ \E k \in DOMAIN finalists : Wins(k) /\ chosen' = finalists[k]
    /\ stage' = "chosen"
    /\ UNCHANGED <<ctxDone, localVars>>

\* bestWireEndpoint returns and its locals are gone.
SelectionReturns ==
    /\ stage \in {"chosen", "failed"}
    /\ stage' = "returned"
    /\ job' = [i \in Jobs |-> "queued"] /\ latency' = [i \in Jobs |-> 0]
    /\ finalists' = <<>> /\ samples' = <<>> /\ tries' = <<>>
    /\ UNCHANGED <<ctxDone, chosen>>

SelectionStep ==
    \/ \E i \in Jobs : Acquire(i) \/ GiveUp(i) \/ Probe(i)
    \/ Rank
    \/ \E k \in 1 .. Finalists : Sample(k)
    \/ Decide

-----------------------------------------------------------------------------
AtMost(s, v) == Cardinality({n \in DOMAIN s : s[n] <= v})

\* The least value that more than half of the samples do not exceed.
Middle(s) == Min({v \in Range(s) : AtMost(s, v) > Len(s) \div 2})

\* "use the median RTT so one lucky or spiky packet cannot choose the server":
\* the endpoint that is returned answered at least twice if any finalist did,
\* and then two of its packets, not one, were as fast as the middle one of
\* every other such finalist.
NotChosenByLuck ==
    stage = "chosen" /\ (\E j \in DOMAIN samples : Stable(samples[j])) =>
        \E k \in DOMAIN finalists :
            /\ finalists[k] = chosen
            /\ \A j \in DOMAIN samples :
                  Stable(samples[j]) => AtMost(samples[k], Middle(samples[j])) >= 2

-----------------------------------------------------------------------------
(* The inductive invariant behind it.                                      *)

\* A candidate has its first sample and at most one for every try.
Measured ==
    /\ latency \in [Jobs -> Nat]
    /\ stage \in {"sample", "chosen"} =>
        /\ DOMAIN samples = DOMAIN finalists /\ DOMAIN tries = DOMAIN finalists
        /\ \A k \in DOMAIN finalists :
              /\ tries[k] \in 0 .. Extra
              /\ samples[k] \in Seq(Nat) /\ Len(samples[k]) \in 1 .. 1 + tries[k]

\* What is returned is the candidate the last sort put first.
ChosenWins ==
    stage = "chosen" => \E k \in DOMAIN finalists : Wins(k) /\ chosen = finalists[k]

SelectionInv == Measured /\ ChosenWins
=============================================================================
