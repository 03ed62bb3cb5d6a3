---------------------------- MODULE MCLspBridge ----------------------------
(* A few documents, calls and messages, given in the cfg. *)
EXTENDS LspBridge, TLC

CONSTANTS d1, d2

OneDoc  == {d1}
TwoDocs == {d1, d2}
=============================================================================
