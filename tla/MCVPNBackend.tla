---------------------------- MODULE MCVPNBackend ----------------------------
(* All three functions, and a packet id counter that wraps after three     *)
(* packets.                                                                *)
EXTENDS VPNBackend
=============================================================================
