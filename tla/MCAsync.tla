------------------------------ MODULE MCAsync ------------------------------
(* Async on a small instance: MCAsync.cfg gives its constants model values. *)
EXTENDS Async
=============================================================================
