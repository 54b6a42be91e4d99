--------------------------- MODULE MCActionRouter ---------------------------
(* Instances of ActionRouter for TLC.                                        *)
EXTENDS ActionRouter, TLC

CONSTANTS h1, h2
=============================================================================
