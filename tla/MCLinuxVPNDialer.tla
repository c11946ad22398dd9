-------------------------- MODULE MCLinuxVPNDialer --------------------------
(* Two dials at the wrap of the counter: the first to count, whichever it  *)
(* is, is given 0 and has to take another id, racing the other one.        *)
EXTENDS LinuxVPNDialer
=============================================================================
