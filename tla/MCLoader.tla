------------------------------ MODULE MCLoader ------------------------------
(***************************************************************************)
(* The instance of Loader that TLC checks (MCLoader.cfg): myoink is run twice *)
(* against one game and polls twice for its window.                       *)
(***************************************************************************)
EXTENDS Loader, TLC
=============================================================================
