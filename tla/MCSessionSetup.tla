---- MODULE MCSessionSetup ----
(***************************************************************************)
(* Two initiators and two responders over one mesh; and a device with one  *)
(* one-time prekey that may generate one more key, two initiators, and     *)
(* one restart.                                                            *)
(***************************************************************************)
EXTENDS SessionSetup
====
