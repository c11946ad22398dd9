-------------------------- MODULE MCLinuxBootstrap --------------------------
(* Discord writes its markers to the one stream, to the other or to both,  *)
(* and may relaunch itself; both streams are read.                         *)
EXTENDS LinuxBootstrap
=============================================================================
