---------------------------- MODULE MCAttestation ----------------------------
(* Attestation on a small instance: two images, two sources, a plan with   *)
(* one case of each kind.                                                  *)
EXTENDS Attestation

CONSTANTS vnc, headless, s1, s2

MCPlan == <<"login", "boot", "session">>
=============================================================================
