-------------------------- MODULE MCWindowsSession --------------------------
(* Two flows from one address to two servers; SYNs with an MSS on either   *)
(* side of an end, options of lengths 2, 3 and 10, an MSS of a wrong       *)
(* length, and a last option without a length, with one of 1, or with one  *)
(* that reaches too far; and a packet of no flow.                          *)
EXTENDS WindowsSession

Flow(lport, remote) == [local |-> "lan", lport |-> lport, remote |-> remote, rport |-> 443]
MCFlows == {Flow(1, "srv1"), Flow(2, "srv2")}

NOP == [kind |-> "nop", mss |-> 0, bytes |-> <<>>]
MSS(n) == [kind |-> "mss", mss |-> n, bytes |-> <<>>]
Other(b) == [kind |-> "other", mss |-> 0, bytes |-> b]
Rest(b) == [kind |-> "rest", mss |-> 0, bytes |-> b]
Packet(src, dst, sport, dport, syn, list) ==
    recalcIPv4TransportChecksums(
        [src |-> src, dst |-> dst, sport |-> sport, dport |-> dport, syn |-> syn,
         opts |-> Encoded(list), ipsum |-> <<>>, l4sum |-> <<>>])
Carrying(src, dst, sport, dport, syn, list) ==
    [packet |-> Packet(src, dst, sport, dport, syn, list), list |-> list]

Timestamps == Other(<<8, 10, 1, 2, 3, 4, 0, 0, 2, 4>>)
SynEnd == <<NOP, MSS(1460), Other(<<3, 3, 7>>), MSS(536), Rest(<<0, 2, 4, 5, 180>>)>>
SynLone == <<Other(<<4, 2>>), Timestamps, MSS(1460), Rest(<<2>>)>>
SynTorn == <<Other(<<3, 3, 7>>), NOP, MSS(1181), Rest(<<2, 4, 5>>)>>
SynShort == <<Other(<<2, 3, 9>>), MSS(1180), MSS(65535), Rest(<<3, 1, 2, 4, 5, 180>>)>>
MCOutgoing == {Carrying("lan", "srv1", 1, 443, TRUE, SynEnd),
               Carrying("lan", "srv2", 2, 443, TRUE, SynLone)}
MCIncoming == {Carrying("srv1", "vpn", 443, 1, TRUE, SynTorn),
               Carrying("srv2", "vpn", 443, 2, TRUE, SynShort),
               Carrying("srv2", "vpn", 443, 1, FALSE, <<>>)}
=============================================================================
