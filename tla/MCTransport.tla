----------------------------- MODULE MCTransport ----------------------------
(***************************************************************************)
(* The instance of Transport that TLC checks (MCTransport.cfg): two calls, *)
(* answers of up to two reads.                                            *)
(***************************************************************************)
EXTENDS Transport, TLC
=============================================================================
