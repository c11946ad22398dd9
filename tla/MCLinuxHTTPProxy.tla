-------------------------- MODULE MCLinuxHTTPProxy --------------------------
(* The program's two callers of setMode are the log reader that activates  *)
(* the VPN and the main loop that hands off.  One caller that may call     *)
(* again in either direction, beside Close, stands for both here; the      *)
(* theorems are for any set of callers.                                    *)
EXTENDS LinuxHTTPProxy
=============================================================================
