------------------------------ MODULE MCBootLogin ------------------------------
(* BootLogin on a small instance: there is no address that is no number.   *)
EXTENDS BootLogin
=============================================================================
