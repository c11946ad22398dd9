----------------------------- MODULE PacketNAT ------------------------------
(***************************************************************************)
(* packetnat.go: what is done to a packet between a Discord socket and the *)
(* VPN.  A packet is a record; its TCP options are the bytes of the header *)
(* because clampTCPMSS walks them, and a checksum is the tuple of what it  *)
(* covers, so that one which was not computed again is out of date.        *)
(***************************************************************************)
EXTENDS Integers, Sequences, FiniteSets

NoPacket == [src |-> "none", dst |-> "none", sport |-> 0, dport |-> 0, syn |-> FALSE,
             opts |-> <<>>, ipsum |-> <<>>, l4sum |-> <<>>]

IsPacket(p) ==
    p = [src |-> p.src, dst |-> p.dst, sport |-> p.sport, dport |-> p.dport, syn |-> p.syn,
         opts |-> p.opts, ipsum |-> p.ipsum, l4sum |-> p.l4sum]

\* parseIPv4Flow and reverseKeyFromInboundPacket
FlowOf(p) == [local |-> p.src, lport |-> p.sport, remote |-> p.dst, rport |-> p.dport]
ReverseKeyOf(p) == <<p.dport, p.src, p.sport>>

HeaderSum(p) == <<p.src, p.dst>>
TransportSum(p) == <<p.src, p.dst, p.sport, p.dport, p.syn, p.opts>>

recalcIPv4TransportChecksums(p) ==
    [p EXCEPT !.ipsum = HeaderSum(p), !.l4sum = TransportSum(p)]

rewriteIPv4Source(p, ip) == recalcIPv4TransportChecksums([p EXCEPT !.src = ip])
rewriteIPv4Destination(p, ip) == recalcIPv4TransportChecksums([p EXCEPT !.dst = ip])

\* Mutant: a no-operation is taken for an option with a length.
MSSPositionsLong(opts) ==
    LET at[i \in 1 .. Len(opts) + 1] ==
            IF i >= Len(opts) \/ opts[i] = 0 THEN {}
            ELSE LET n == opts[i + 1]
                 IN  IF n < 2 \/ i + n - 1 > Len(opts) THEN {}
                     ELSE (IF opts[i] = 2 /\ n = 4 THEN {i} ELSE {}) \cup at[i + n]
    IN  at[1]

\* Where the loop of clampTCPMSS meets an MSS option.  It ends at the end of
\* the options, at a kind 0, and at a length that is too short or too long.
MSSPositions(opts) ==
    LET at[i \in 1 .. Len(opts) + 1] ==
            IF i > Len(opts) \/ opts[i] = 0 THEN {}
            ELSE IF opts[i] = 1 THEN at[i + 1]
            ELSE IF i = Len(opts) THEN {}
            ELSE LET n == opts[i + 1]
                 IN  IF n < 2 \/ i + n - 1 > Len(opts) THEN {}
                     ELSE (IF opts[i] = 2 /\ n = 4 THEN {i} ELSE {}) \cup at[i + n]
    IN  at[1]

Word(opts, i) == opts[i] * 256 + opts[i + 1]

\* Every MSS above the limit is overwritten, and the checksums follow.
clampTCPMSS(p, max) ==
    LET high == {i \in MSSPositions(p.opts) : Word(p.opts, i + 2) > max}
        opts == [i \in DOMAIN p.opts |->
                    IF i - 2 \in high THEN max \div 256
                    ELSE IF i - 3 \in high THEN max % 256 ELSE p.opts[i]]
    IN  IF ~p.syn \/ high = {} THEN p
        ELSE recalcIPv4TransportChecksums([p EXCEPT !.opts = opts])

-----------------------------------------------------------------------------
(* What is meant: options as a list.  Any bytes at all are those of one.   *)

\* Nothing can be read from bytes that begin like this: an end, or a length
\* that is missing, too short, or reaches past the last byte.
Unreadable(b) ==
    b # <<>> /\ (b[1] = 0 \/ (b[1] # 1 /\ (Len(b) = 1 \/ b[2] < 2 \/ b[2] > Len(b))))

\* An option with a length that is not an MSS: another kind, or a wrong length.
NoMSS(b) ==
    /\ Len(b) >= 2 /\ b[2] = Len(b)
    /\ b[1] \notin {0, 1} /\ (b[1] # 2 \/ b[2] # 4)

\* "rest" is what follows the last option that can be read.
Option == [kind : {"nop", "mss", "other", "rest"}, mss : Nat, bytes : Seq(Nat)]
OptionList(list) ==
    /\ list \in Seq(Option)
    /\ \A n \in DOMAIN list :
          /\ list[n].kind = "other" => NoMSS(list[n].bytes)
          /\ list[n].kind = "rest" => n = Len(list) /\ Unreadable(list[n].bytes)

Encode(option) == CASE option.kind = "nop" -> <<1>>
                    [] option.kind = "mss" -> <<2, 4, option.mss \div 256, option.mss % 256>>
                    [] OTHER -> option.bytes

Encoded(list) ==
    LET upTo[n \in 0 .. Len(list)] ==
            IF n = 0 THEN <<>> ELSE upTo[n - 1] \o Encode(list[n])
    IN  upTo[Len(list)]

Clamped(list, max) ==
    [n \in DOMAIN list |-> IF list[n].kind = "mss" /\ list[n].mss > max
                           THEN [list[n] EXCEPT !.mss = max] ELSE list[n]]

Current(p) == p.ipsum = HeaderSum(p) /\ p.l4sum = TransportSum(p)
=============================================================================
