----------------------------- MODULE StartupPath ----------------------------
(***************************************************************************)
(* What the README promises of the temporary VPN path on Linux, and no     *)
(* more: a local proxy serves Discord on a route; the tunnel's route is    *)
(* taken only while the tunnel is up, and the tunnel is taken down only    *)
(* when the proxy is back on the direct route or no longer serves.         *)
(***************************************************************************)
VARIABLES route,    \* "direct" or "vpn"
          tunnel,   \* "none", "up", "down": down is for good
          serving   \* the proxy accepts connections

vars == <<route, tunnel, serving>>

Init ==
    /\ route = "direct"
    /\ tunnel = "none"
    /\ serving = FALSE

Connect ==
    /\ tunnel = "none"
    /\ tunnel' = "up"
    /\ UNCHANGED <<route, serving>>

Serve ==
    /\ tunnel = "up" /\ ~serving
    /\ serving' = TRUE
    /\ UNCHANGED <<route, tunnel>>

TakeTunnel ==
    /\ tunnel = "up" \/ ~serving
    /\ route' = "vpn"
    /\ UNCHANGED <<tunnel, serving>>

ReturnDirect ==
    /\ route' = "direct"
    /\ UNCHANGED <<tunnel, serving>>

Disconnect ==
    /\ tunnel = "up"
    /\ route = "direct" \/ ~serving
    /\ tunnel' = "down"
    /\ UNCHANGED <<route, serving>>

StopServing ==
    /\ serving
    /\ serving' = FALSE
    /\ UNCHANGED <<route, tunnel>>

Next == Connect \/ Serve \/ TakeTunnel \/ ReturnDirect \/ Disconnect \/ StopServing

Spec == Init /\ [][Next]_vars
=============================================================================
