----------------------------- MODULE MCAppServer -----------------------------
(***************************************************************************)
(* Runs of up to two turns, with an agent that writes extra lines.         *)
(***************************************************************************)
EXTENDS AppServer
=============================================================================
