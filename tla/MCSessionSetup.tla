---------------------------- MODULE MCSessionSetup --------------------------
(* Two endpoints of one gateway and one of another; a configuration in one *)
(* part, one in two parts, and parts that are incomplete or unusable.      *)
EXTENDS SessionSetup

Ep(host, protocol, port) == [host |-> host, protocol |-> protocol, port |-> port]
G1 == <<"g1", "riseup.net">>
G2 == <<"g2", "riseup.net">>
MCAdvertised == <<Ep(G1, "udp", 1), Ep(G1, "tcp", 1), Ep(G2, "udp", 0),
                  Ep(G2, "udp", 2), Ep(G1, "udp", 2)>>

Opt(name, value) == [name |-> name, value |-> value]
Push(opts, more) == [kind |-> "PUSH_REPLY", opts |-> opts, more |-> more]
Plain(kind) == [kind |-> kind, opts |-> <<>>, more |-> FALSE]

Net == <<Opt("dns", "text"), Opt("ifconfig", "a1"), Opt("dns", "a2")>>
Rest == <<Opt("peer-id", "7"), Opt("cipher", "AES-256-GCM"), Opt("cipher", "none")>>
MCMessages == {Plain("INFO"), Plain("AUTH_FAILED"),
               Push(Net, TRUE), Push(Rest, FALSE), Push(Net \o Rest, FALSE),
               Push(<<Opt("cipher", ""), Opt("peer-id", "big")>>, TRUE)}
=============================================================================
