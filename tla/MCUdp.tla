------------------------------- MODULE MCUdp --------------------------------
(* Sockets on small instances; MCUdp.cfg gives the constants their values. *)
EXTENDS Udp
=============================================================================
