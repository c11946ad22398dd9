------------------------ MODULE MCWindowsFlowManager ------------------------
(* Two connections of Discord that differ only in the local address, so    *)
(* that they share intent and reverse keys, and one of another program to  *)
(* the same remote end point.                                              *)
EXTENDS WindowsFlowManager

CONSTANTS d1, d2, other

MCConns == {d1, d2, other}
MCIsDiscord == [c \in MCConns |-> c # other]
MCLocalPort == [c \in MCConns |-> IF c = other THEN "p2" ELSE "p1"]
MCRemote == [c \in MCConns |-> "gateway"]
=============================================================================
