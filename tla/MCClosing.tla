------------------------------ MODULE MCClosing ------------------------------
(* Closing on small instances: requests and tickets are model values.      *)
EXTENDS Closing

CONSTANTS r1, r2, t1
=============================================================================
