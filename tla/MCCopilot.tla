------------------------------- MODULE MCCopilot -------------------------------
(* A finite instance of Copilot for TLC; the bounds are in copilot.cfg.    *)
EXTENDS Copilot
=============================================================================
