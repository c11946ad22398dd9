-------------------------- MODULE MCControlChannel --------------------------
(* The server sends a packet longer than a read, an empty one and a short  *)
(* one; the client writes three bytes in two packets: both directions can  *)
(* be reordered.                                                           *)
EXTENDS ControlChannel

MCEnds == <<2, 2, 3>>
=============================================================================
